------------------------ MODULE WorkerLauncherProofs ------------------------
(***************************************************************************)
(* TLAPS proofs about WorkerLauncher, for any number of runs and of        *)
(* cancellations:                                                          *)
(*   - the lock is held by the one call that is inside its `with`,         *)
(*   - there is one worker at most, unless two run() calls have raced,     *)
(*   - and without that race no worker is ever sent a stray Event.         *)
(* The last two need one inductive invariant, Unraced below: it says what  *)
(* a call's place in the code tells about the worker and the Event.        *)
(***************************************************************************)
EXTENDS WorkerLauncher, TLAPS

\* The places in the code where a call holds the lock.
HoldsLock == {"test", "set", "join", "release"}

LockInv == \A c \in Calls : pc[c] \in HoldsLock <=> lock = c

\* A run's worker is started by the run's start(), and only there.
StartedOnce == \A r \in Runs : worker[r] = "new" <=> pc[r] \notin {"wait", "done"}

\* A run past its test and join: there is no old worker any more.
PastJoin == {"release", "clear", "assign", "start"}

\* What holds as long as two runs have not launched at once.
OneLauncher == \A q, r \in Runs : Launching(q) /\ Launching(r) => q = r
AliveIsThread == \A r \in Runs : IsAlive(r) => thread = r
NoneAlivePastJoin ==
    \A r \in Runs : pc[r] \in PastJoin => \A q \in Runs : ~IsAlive(q)
StartsThread == \A r \in Runs : pc[r] = "start" => thread = r
EventOfJoin == \A r \in Runs : event /\ IsAlive(r) => \E c \in Calls : pc[c] = "join"
EventClear == \A r \in Runs : pc[r] \in {"assign", "start"} => ~event
NobodyJoinsPastJoin ==
    \A r \in Runs : pc[r] \in PastJoin => \A c \in Calls : pc[c] \notin {"set", "join"}

Unraced ==
    /\ OneLauncher
    /\ AliveIsThread
    /\ NoneAlivePastJoin
    /\ StartsThread
    /\ EventOfJoin
    /\ EventClear
    /\ NobodyJoinsPastJoin

IInv == TypeOK /\ LockInv /\ StartedOnce /\ (~raced => Unraced)
-----------------------------------------------------------------------------
\* The variables keep their types.
LEMMA TypeInvariance == TypeOK /\ [Next]_vars => TypeOK'
<1> SUFFICES ASSUME TypeOK, [Next]_vars PROVE TypeOK'
  OBVIOUS
<1> USE LauncherAssumption DEF TypeOK, Calls, CallStates, WorkerStates, Outcomes,
        workerVars
<1>1. ASSUME NEW c \in Calls, Call(c) PROVE TypeOK'
  BY <1>1 DEF Call, Goto
<1>2. ASSUME NEW c \in Calls, CancelLock(c) PROVE TypeOK'
  BY <1>2 DEF CancelLock, Goto
<1>3. ASSUME NEW c \in Calls, CancelTest(c) PROVE TypeOK'
  BY <1>3 DEF CancelTest, Goto
<1>4. ASSUME NEW c \in Calls, CancelSet(c) PROVE TypeOK'
  BY <1>4 DEF CancelSet, Goto
<1>5. ASSUME NEW c \in Calls, CancelJoin(c) PROVE TypeOK'
  BY <1>5 DEF CancelJoin, Goto
<1>6. ASSUME NEW c \in Calls, CancelRelease(c) PROVE TypeOK'
  BY <1>6 DEF CancelRelease, Goto
<1>7. ASSUME NEW c \in Calls, CancelClear(c) PROVE TypeOK'
  BY <1>7 DEF CancelClear, Goto
<1>8. ASSUME NEW r \in Runs, RunAssign(r) PROVE TypeOK'
  BY <1>8 DEF RunAssign, Goto
<1>9. ASSUME NEW r \in Runs, RunStart(r) PROVE TypeOK'
  BY <1>9 DEF RunStart, Goto
<1>10. ASSUME NEW r \in Runs, WaitGet(r) PROVE TypeOK'
  BY <1>10 DEF WaitGet, Goto
<1>11. ASSUME NEW r \in Runs, TargetCancelled(r) PROVE TypeOK'
  BY <1>11 DEF TargetCancelled, Put
<1>12. ASSUME NEW r \in Runs, TargetFails(r) PROVE TypeOK'
  BY <1>12 DEF TargetFails, Put
<1>13. ASSUME NEW r \in Runs, TargetReturns(r) PROVE TypeOK'
  BY <1>13 DEF TargetReturns
<1>14. ASSUME NEW r \in Runs, TestAfterTarget(r) PROVE TypeOK'
  BY <1>14 DEF TestAfterTarget, Put
<1>15. ASSUME NEW r \in Runs, Exit(r) PROVE TypeOK'
  BY <1>15 DEF Exit
<1>16. CASE UNCHANGED vars
  BY <1>16 DEF vars
<1> QED
  BY <1>1, <1>2, <1>3, <1>4, <1>5, <1>6, <1>7, <1>8, <1>9, <1>10, <1>11, <1>12, <1>13,
      <1>14, <1>15, <1>16 DEF Next, CancelStep, RunStep, WorkerStep

\* The lock is held by the call that is inside its `with`, and by no other.
LEMMA LockInvariance == TypeOK /\ LockInv /\ [Next]_vars => LockInv'
<1> SUFFICES ASSUME TypeOK, LockInv, [Next]_vars PROVE LockInv'
  OBVIOUS
<1> USE LauncherAssumption DEF TypeOK, LockInv, HoldsLock, Calls, workerVars
<1>1. ASSUME NEW c \in Calls, Call(c) PROVE LockInv'
  BY <1>1 DEF Call, Goto
<1>2. ASSUME NEW c \in Calls, CancelLock(c) PROVE LockInv'
  BY <1>2 DEF CancelLock, Goto
<1>3. ASSUME NEW c \in Calls, CancelTest(c) PROVE LockInv'
  BY <1>3 DEF CancelTest, Goto
<1>4. ASSUME NEW c \in Calls, CancelSet(c) PROVE LockInv'
  BY <1>4 DEF CancelSet, Goto
<1>5. ASSUME NEW c \in Calls, CancelJoin(c) PROVE LockInv'
  BY <1>5 DEF CancelJoin, Goto
<1>6. ASSUME NEW c \in Calls, CancelRelease(c) PROVE LockInv'
  BY <1>6 DEF CancelRelease, Goto
<1>7. ASSUME NEW c \in Calls, CancelClear(c) PROVE LockInv'
  BY <1>7 DEF CancelClear, Goto
<1>8. ASSUME NEW r \in Runs, RunAssign(r) PROVE LockInv'
  BY <1>8 DEF RunAssign, Goto
<1>9. ASSUME NEW r \in Runs, RunStart(r) PROVE LockInv'
  BY <1>9 DEF RunStart, Goto
<1>10. ASSUME NEW r \in Runs, WaitGet(r) PROVE LockInv'
  BY <1>10 DEF WaitGet, Goto
<1>11. ASSUME NEW r \in Runs, TargetCancelled(r) PROVE LockInv'
  BY <1>11 DEF TargetCancelled, Put
<1>12. ASSUME NEW r \in Runs, TargetFails(r) PROVE LockInv'
  BY <1>12 DEF TargetFails, Put
<1>13. ASSUME NEW r \in Runs, TargetReturns(r) PROVE LockInv'
  BY <1>13 DEF TargetReturns
<1>14. ASSUME NEW r \in Runs, TestAfterTarget(r) PROVE LockInv'
  BY <1>14 DEF TestAfterTarget, Put
<1>15. ASSUME NEW r \in Runs, Exit(r) PROVE LockInv'
  BY <1>15 DEF Exit
<1>16. CASE UNCHANGED vars
  BY <1>16 DEF vars
<1> QED
  BY <1>1, <1>2, <1>3, <1>4, <1>5, <1>6, <1>7, <1>8, <1>9, <1>10, <1>11, <1>12, <1>13,
      <1>14, <1>15, <1>16 DEF Next, CancelStep, RunStep, WorkerStep

\* A worker is new until its run has passed start().
LEMMA StartInvariance == TypeOK /\ StartedOnce /\ [Next]_vars => StartedOnce'
<1> SUFFICES ASSUME TypeOK, StartedOnce, [Next]_vars PROVE StartedOnce'
  OBVIOUS
<1> USE LauncherAssumption DEF TypeOK, StartedOnce, Calls, CallStates, WorkerStates,
        workerVars
<1>1. ASSUME NEW c \in Calls, Call(c) PROVE StartedOnce'
  BY <1>1 DEF Call, Goto
<1>2. ASSUME NEW c \in Calls, CancelLock(c) PROVE StartedOnce'
  BY <1>2 DEF CancelLock, Goto
<1>3. ASSUME NEW c \in Calls, CancelTest(c) PROVE StartedOnce'
  BY <1>3 DEF CancelTest, Goto
<1>4. ASSUME NEW c \in Calls, CancelSet(c) PROVE StartedOnce'
  BY <1>4 DEF CancelSet, Goto
<1>5. ASSUME NEW c \in Calls, CancelJoin(c) PROVE StartedOnce'
  BY <1>5 DEF CancelJoin, Goto
<1>6. ASSUME NEW c \in Calls, CancelRelease(c) PROVE StartedOnce'
  BY <1>6 DEF CancelRelease, Goto
<1>7. ASSUME NEW c \in Calls, CancelClear(c) PROVE StartedOnce'
  BY <1>7 DEF CancelClear, Goto
<1>8. ASSUME NEW r \in Runs, RunAssign(r) PROVE StartedOnce'
  BY <1>8 DEF RunAssign, Goto
<1>9. ASSUME NEW r \in Runs, RunStart(r) PROVE StartedOnce'
  BY <1>9 DEF RunStart, Goto
<1>10. ASSUME NEW r \in Runs, WaitGet(r) PROVE StartedOnce'
  BY <1>10 DEF WaitGet, Goto
<1>11. ASSUME NEW r \in Runs, TargetCancelled(r) PROVE StartedOnce'
  BY <1>11 DEF TargetCancelled, Put
<1>12. ASSUME NEW r \in Runs, TargetFails(r) PROVE StartedOnce'
  BY <1>12 DEF TargetFails, Put
<1>13. ASSUME NEW r \in Runs, TargetReturns(r) PROVE StartedOnce'
  BY <1>13 DEF TargetReturns
<1>14. ASSUME NEW r \in Runs, TestAfterTarget(r) PROVE StartedOnce'
  BY <1>14 DEF TestAfterTarget, Put
<1>15. ASSUME NEW r \in Runs, Exit(r) PROVE StartedOnce'
  BY <1>15 DEF Exit
<1>16. CASE UNCHANGED vars
  BY <1>16 DEF vars
<1> QED
  BY <1>1, <1>2, <1>3, <1>4, <1>5, <1>6, <1>7, <1>8, <1>9, <1>10, <1>11, <1>12, <1>13,
      <1>14, <1>15, <1>16 DEF Next, CancelStep, RunStep, WorkerStep

\* Once two runs have launched at once, that remains recorded.
LEMMA RacedStays == TypeOK /\ [Next]_vars => (~raced' => ~raced)
<1> SUFFICES ASSUME TypeOK, [Next]_vars, ~raced' PROVE ~raced
  OBVIOUS
<1> USE DEF workerVars
<1>1. ASSUME NEW c \in Calls, Call(c) PROVE ~raced
  BY <1>1 DEF Call
<1>2. ASSUME NEW c \in Calls, CancelLock(c) PROVE ~raced
  BY <1>2 DEF CancelLock
<1>3. ASSUME NEW c \in Calls, CancelTest(c) PROVE ~raced
  BY <1>3 DEF CancelTest
<1>4. ASSUME NEW c \in Calls, CancelSet(c) PROVE ~raced
  BY <1>4 DEF CancelSet
<1>5. ASSUME NEW c \in Calls, CancelJoin(c) PROVE ~raced
  BY <1>5 DEF CancelJoin
<1>6. ASSUME NEW c \in Calls, CancelRelease(c) PROVE ~raced
  BY <1>6 DEF CancelRelease
<1>7. ASSUME NEW c \in Calls, CancelClear(c) PROVE ~raced
  BY <1>7 DEF CancelClear
<1>8. ASSUME NEW r \in Runs, RunAssign(r) PROVE ~raced
  BY <1>8 DEF RunAssign
<1>9. ASSUME NEW r \in Runs, RunStart(r) PROVE ~raced
  BY <1>9 DEF RunStart
<1>10. ASSUME NEW r \in Runs, WaitGet(r) PROVE ~raced
  BY <1>10 DEF WaitGet
<1>11. ASSUME NEW r \in Runs, TargetCancelled(r) PROVE ~raced
  BY <1>11 DEF TargetCancelled, Put
<1>12. ASSUME NEW r \in Runs, TargetFails(r) PROVE ~raced
  BY <1>12 DEF TargetFails, Put
<1>13. ASSUME NEW r \in Runs, TargetReturns(r) PROVE ~raced
  BY <1>13 DEF TargetReturns
<1>14. ASSUME NEW r \in Runs, TestAfterTarget(r) PROVE ~raced
  BY <1>14 DEF TestAfterTarget, Put
<1>15. ASSUME NEW r \in Runs, Exit(r) PROVE ~raced
  BY <1>15 DEF Exit
<1>16. CASE UNCHANGED vars
  BY <1>16 DEF vars
<1> QED
  BY <1>1, <1>2, <1>3, <1>4, <1>5, <1>6, <1>7, <1>8, <1>9, <1>10, <1>11, <1>12, <1>13,
      <1>14, <1>15, <1>16 DEF Next, CancelStep, RunStep, WorkerStep

\* As long as no two runs have launched at once, Unraced is kept.
LEMMA UnracedInvariance == IInv /\ [Next]_vars => (~raced' => Unraced')
<1> SUFFICES ASSUME IInv, [Next]_vars, ~raced' PROVE Unraced'
  OBVIOUS
<1> USE LauncherAssumption DEF Calls, workerVars, TypeOK, CallStates, WorkerStates,
        IsAlive
<1>a. TypeOK /\ LockInv
  BY DEF IInv
<1>b. OneLauncher /\ AliveIsThread /\ NoneAlivePastJoin /\ StartsThread
        /\ EventOfJoin /\ EventClear /\ NobodyJoinsPastJoin
  BY RacedStays DEF IInv, Unraced
<1>1. ASSUME NEW c \in Calls, Call(c) PROVE Unraced'
  BY <1>a, <1>b, <1>1 DEF Call, Goto, Unraced, OneLauncher, AliveIsThread,
      NoneAlivePastJoin, StartsThread, EventOfJoin, EventClear, NobodyJoinsPastJoin,
      PastJoin, Launching
<1>2. ASSUME NEW c \in Calls, CancelLock(c) PROVE Unraced'
  BY <1>a, <1>b, <1>2 DEF CancelLock, Goto, Unraced, OneLauncher, AliveIsThread,
      NoneAlivePastJoin, StartsThread, EventOfJoin, EventClear, NobodyJoinsPastJoin,
      PastJoin, Launching
<1>3. ASSUME NEW c \in Calls, CancelTest(c) PROVE Unraced'
    \* a second launcher would have set raced; an old worker that is alive keeps
    \* everyone else from being past its join
  <2>1. OneLauncher'
    BY <1>a, <1>b, <1>3 DEF CancelTest, Goto, OneLauncher, Launching
  <2>2. AliveIsThread'
    BY <1>a, <1>b, <1>3 DEF CancelTest, Goto, AliveIsThread
  <2>3. NoneAlivePastJoin'
    BY <1>a, <1>b, <1>3 DEF CancelTest, Goto, AliveIsThread, NoneAlivePastJoin, PastJoin
  <2>4. StartsThread'
    BY <1>a, <1>b, <1>3 DEF CancelTest, Goto, StartsThread
  <2>5. EventOfJoin'
    BY <1>a, <1>b, <1>3 DEF CancelTest, Goto, EventOfJoin
  <2>6. EventClear'
    BY <1>a, <1>b, <1>3 DEF CancelTest, Goto, EventClear
  <2>7. NobodyJoinsPastJoin'
    BY <1>a, <1>b, <1>3 DEF CancelTest, Goto, NobodyJoinsPastJoin, NoneAlivePastJoin,
        PastJoin, LockInv, HoldsLock
  <2> QED
    BY <2>1, <2>2, <2>3, <2>4, <2>5, <2>6, <2>7 DEF Unraced
<1>4. ASSUME NEW c \in Calls, CancelSet(c) PROVE Unraced'
    \* nobody is past its join, so nobody counts on a clear Event
  <2>1. OneLauncher'
    BY <1>a, <1>b, <1>4 DEF CancelSet, Goto, OneLauncher, Launching
  <2>2. AliveIsThread'
    BY <1>a, <1>b, <1>4 DEF CancelSet, Goto, AliveIsThread
  <2>3. NoneAlivePastJoin'
    BY <1>a, <1>b, <1>4 DEF CancelSet, Goto, NoneAlivePastJoin, PastJoin
  <2>4. StartsThread'
    BY <1>a, <1>b, <1>4 DEF CancelSet, Goto, StartsThread
  <2>5. EventOfJoin'
    BY <1>a, <1>b, <1>4 DEF CancelSet, Goto, EventOfJoin
  <2>6. EventClear'
    BY <1>a, <1>b, <1>4 DEF CancelSet, Goto, NobodyJoinsPastJoin, PastJoin, EventClear
  <2>7. NobodyJoinsPastJoin'
    BY <1>a, <1>b, <1>4 DEF CancelSet, Goto, NobodyJoinsPastJoin, PastJoin
  <2> QED
    BY <2>1, <2>2, <2>3, <2>4, <2>5, <2>6, <2>7 DEF Unraced
<1>5. ASSUME NEW c \in Calls, CancelJoin(c) PROVE Unraced'
    \* the worker joined was the only one alive
  <2>1. OneLauncher'
    BY <1>a, <1>b, <1>5 DEF CancelJoin, Goto, OneLauncher, Launching
  <2>2. AliveIsThread'
    BY <1>a, <1>b, <1>5 DEF CancelJoin, Goto, AliveIsThread
  <2>3. NoneAlivePastJoin'
    BY <1>a, <1>b, <1>5 DEF CancelJoin, Goto, AliveIsThread, NoneAlivePastJoin, PastJoin
  <2>4. StartsThread'
    BY <1>a, <1>b, <1>5 DEF CancelJoin, Goto, StartsThread
  <2>5. EventOfJoin'
    BY <1>a, <1>b, <1>5 DEF CancelJoin, Goto, AliveIsThread, EventOfJoin
  <2>6. EventClear'
    BY <1>a, <1>b, <1>5 DEF CancelJoin, Goto, EventClear
  <2>7. NobodyJoinsPastJoin'
    BY <1>a, <1>b, <1>5 DEF CancelJoin, Goto, NobodyJoinsPastJoin, PastJoin, LockInv,
        HoldsLock
  <2> QED
    BY <2>1, <2>2, <2>3, <2>4, <2>5, <2>6, <2>7 DEF Unraced
<1>6. ASSUME NEW c \in Calls, CancelRelease(c) PROVE Unraced'
  BY <1>a, <1>b, <1>6 DEF CancelRelease, Goto, Unraced, OneLauncher, AliveIsThread,
      NoneAlivePastJoin, StartsThread, EventOfJoin, EventClear, NobodyJoinsPastJoin,
      PastJoin, Launching
<1>7. ASSUME NEW c \in Calls, CancelClear(c) PROVE Unraced'
  BY <1>a, <1>b, <1>7 DEF CancelClear, Goto, Unraced, OneLauncher, AliveIsThread,
      NoneAlivePastJoin, StartsThread, EventOfJoin, EventClear, NobodyJoinsPastJoin,
      PastJoin, Launching
<1>8. ASSUME NEW r \in Runs, RunAssign(r) PROVE Unraced'
    \* no worker is alive that __thread stops naming
  <2>1. OneLauncher'
    BY <1>a, <1>b, <1>8 DEF RunAssign, Goto, OneLauncher, Launching
  <2>2. AliveIsThread'
    BY <1>a, <1>b, <1>8 DEF RunAssign, Goto, NoneAlivePastJoin, AliveIsThread, PastJoin
  <2>3. NoneAlivePastJoin'
    BY <1>a, <1>b, <1>8 DEF RunAssign, Goto, NoneAlivePastJoin, PastJoin
  <2>4. StartsThread'
    BY <1>a, <1>b, <1>8 DEF RunAssign, Goto, StartsThread, OneLauncher, Launching
  <2>5. EventOfJoin'
    BY <1>a, <1>b, <1>8 DEF RunAssign, Goto, EventOfJoin
  <2>6. EventClear'
    BY <1>a, <1>b, <1>8 DEF RunAssign, Goto, EventClear
  <2>7. NobodyJoinsPastJoin'
    BY <1>a, <1>b, <1>8 DEF RunAssign, Goto, NobodyJoinsPastJoin, PastJoin
  <2> QED
    BY <2>1, <2>2, <2>3, <2>4, <2>5, <2>6, <2>7 DEF Unraced
<1>9. ASSUME NEW r \in Runs, RunStart(r) PROVE Unraced'
    \* the worker started is the one __thread names, no other is alive, and the
    \* Event is clear
  <2>1. OneLauncher'
    BY <1>a, <1>b, <1>9 DEF RunStart, Goto, OneLauncher, Launching
  <2>2. AliveIsThread'
    BY <1>a, <1>b, <1>9 DEF RunStart, Goto, StartsThread, NoneAlivePastJoin,
        AliveIsThread, PastJoin
  <2>3. NoneAlivePastJoin'
    BY <1>a, <1>b, <1>9 DEF RunStart, Goto, OneLauncher, Launching, NoneAlivePastJoin,
        PastJoin
  <2>4. StartsThread'
    BY <1>a, <1>b, <1>9 DEF RunStart, Goto, StartsThread
  <2>5. EventOfJoin'
    BY <1>a, <1>b, <1>9 DEF RunStart, Goto, EventClear, EventOfJoin
  <2>6. EventClear'
    BY <1>a, <1>b, <1>9 DEF RunStart, Goto, EventClear
  <2>7. NobodyJoinsPastJoin'
    BY <1>a, <1>b, <1>9 DEF RunStart, Goto, NobodyJoinsPastJoin, PastJoin
  <2> QED
    BY <2>1, <2>2, <2>3, <2>4, <2>5, <2>6, <2>7 DEF Unraced
<1>10. ASSUME NEW r \in Runs, WaitGet(r) PROVE Unraced'
  BY <1>a, <1>b, <1>10 DEF WaitGet, Goto, Unraced, OneLauncher, AliveIsThread,
      NoneAlivePastJoin, StartsThread, EventOfJoin, EventClear, NobodyJoinsPastJoin,
      PastJoin, Launching
<1>11. ASSUME NEW r \in Runs, TargetCancelled(r) PROVE Unraced'
  BY <1>a, <1>b, <1>11 DEF TargetCancelled, Put, Unraced, OneLauncher, AliveIsThread,
      NoneAlivePastJoin, StartsThread, EventOfJoin, EventClear, NobodyJoinsPastJoin,
      PastJoin, Launching
<1>12. ASSUME NEW r \in Runs, TargetFails(r) PROVE Unraced'
  BY <1>a, <1>b, <1>12 DEF TargetFails, Put, Unraced, OneLauncher, AliveIsThread,
      NoneAlivePastJoin, StartsThread, EventOfJoin, EventClear, NobodyJoinsPastJoin,
      PastJoin, Launching
<1>13. ASSUME NEW r \in Runs, TargetReturns(r) PROVE Unraced'
  BY <1>a, <1>b, <1>13 DEF TargetReturns, Unraced, OneLauncher, AliveIsThread,
      NoneAlivePastJoin, StartsThread, EventOfJoin, EventClear, NobodyJoinsPastJoin,
      PastJoin, Launching
<1>14. ASSUME NEW r \in Runs, TestAfterTarget(r) PROVE Unraced'
  BY <1>a, <1>b, <1>14 DEF TestAfterTarget, Put, Unraced, OneLauncher, AliveIsThread,
      NoneAlivePastJoin, StartsThread, EventOfJoin, EventClear, NobodyJoinsPastJoin,
      PastJoin, Launching
<1>15. ASSUME NEW r \in Runs, Exit(r) PROVE Unraced'
  BY <1>a, <1>b, <1>15 DEF Exit, Unraced, OneLauncher, AliveIsThread,
      NoneAlivePastJoin, StartsThread, EventOfJoin, EventClear, NobodyJoinsPastJoin,
      PastJoin, Launching
<1>16. CASE UNCHANGED vars
  BY <1>b, <1>16 DEF vars, Unraced, OneLauncher, AliveIsThread,
      NoneAlivePastJoin, StartsThread, EventOfJoin, EventClear, NobodyJoinsPastJoin,
      PastJoin, Launching
<1> QED
  BY <1>1, <1>2, <1>3, <1>4, <1>5, <1>6, <1>7, <1>8, <1>9, <1>10, <1>11, <1>12, <1>13,
      <1>14, <1>15, <1>16 DEF Next, CancelStep, RunStep, WorkerStep

-----------------------------------------------------------------------------
LEMMA Initially == Init => IInv
<1> SUFFICES ASSUME Init PROVE IInv
  OBVIOUS
<1> USE LauncherAssumption DEF Init, Calls
<1>1. TypeOK
  BY DEF TypeOK, CallStates, WorkerStates, Outcomes
<1>2. LockInv
  BY DEF LockInv, HoldsLock
<1>3. StartedOnce
  BY DEF StartedOnce
<1>4. Unraced
  BY DEF Unraced, OneLauncher, AliveIsThread, NoneAlivePastJoin, StartsThread,
      EventOfJoin, EventClear, NobodyJoinsPastJoin, PastJoin, Launching, IsAlive
<1> QED
  BY <1>1, <1>2, <1>3, <1>4 DEF IInv

LEMMA InductiveStep == IInv /\ [Next]_vars => IInv'
  BY TypeInvariance, LockInvariance, StartInvariance, UnracedInvariance DEF IInv

\* The invariant the theorems below are conjuncts or consequences of.
THEOREM InductiveInvariance == Spec => []IInv
  BY Initially, InductiveStep, PTL DEF Spec

\* Every variable keeps its type: in particular a call of cancel() never goes
\* on to launch a worker (util.py:464).
THEOREM TypeCorrect == Spec => []TypeOK
<1>1. IInv => TypeOK
  BY DEF IInv
<1> QED
  BY InductiveInvariance, <1>1, PTL

\* One call at a time is between the two ends of `with self._lock` in cancel()
\* (util.py:459-462), and it is the one that holds the lock.
THEOREM MutualExclusion ==
    Spec => [](\A c, d \in Calls : pc[c] \in HoldsLock /\ pc[d] \in HoldsLock => c = d)
<1>1. IInv => \A c, d \in Calls : pc[c] \in HoldsLock /\ pc[d] \in HoldsLock => c = d
  BY DEF IInv, LockInv
<1> QED
  BY InductiveInvariance, <1>1, PTL

\* Without two runs launching at once there is one worker at most, however
\* many calls there are (util.py:425, 445-447).
THEOREM OneWorker == Spec => []OneWorkerUnlessRaced
<1>1. IInv => OneWorkerUnlessRaced
  BY DEF IInv, Unraced, AliveIsThread, OneWorkerUnlessRaced, AtMostOneWorker
<1> QED
  BY InductiveInvariance, <1>1, PTL

\* Without that race a worker sees the Event set only while some call waits
\* for that very worker to end (util.py:462-464).
THEOREM NoStray == Spec => []NoStrayCancellation
<1>1. IInv => NoStrayCancellation
  <2> SUFFICES ASSUME IInv, NEW r \in Runs, ~raced, worker[r] = "running", event
               PROVE  thread = r /\ \E c \in Calls : pc[c] = "join"
    BY DEF NoStrayCancellation
  <2>1. IsAlive(r)
    BY LauncherAssumption DEF IsAlive
  <2> QED
    BY <2>1 DEF IInv, Unraced, AliveIsThread, EventOfJoin
<1> QED
  BY InductiveInvariance, <1>1, PTL

\* The race is recorded only when it happens.
LEMMA SerialIsUnraced ==
    TypeOK /\ ~raced /\ [Next]_vars /\ OneLauncher' => ~raced'
<1> SUFFICES ASSUME TypeOK, ~raced, [Next]_vars, OneLauncher' PROVE ~raced'
  OBVIOUS
<1>1. ASSUME NEW c \in Calls, CancelTest(c) PROVE ~raced'
  <2> SUFFICES ASSUME c \in Runs, NEW r \in Runs \ {c}, Launching(r) PROVE FALSE
    BY <1>1 DEF CancelTest
  <2>1. Launching(r)' /\ Launching(c)'
    BY <1>1 DEF CancelTest, Goto, Launching, TypeOK, Calls
  <2> QED
    BY <2>1 DEF OneLauncher
<1>2. CASE UNCHANGED raced
  BY <1>2
<1>3. UNCHANGED raced \/ \E c \in Calls : CancelTest(c)
  BY DEF Next, vars, CancelStep, RunStep, WorkerStep, Put, Call, CancelLock, CancelSet,
      CancelJoin, CancelRelease, CancelClear, RunAssign, RunStart, WaitGet,
      TargetCancelled, TargetFails, TargetReturns, TestAfterTarget, Exit
<1> QED
  BY <1>1, <1>2, <1>3

\* Calls of run() made one after the other, each up to its start(), keep the
\* promise of the docstring whatever calls of cancel() come in between: only
\* concurrent run() calls can leave two workers (util.py:406-409).
THEOREM SerialRunsAreSafe == Spec /\ []OneLauncher => []AtMostOneWorker
<1>1. Init => ~raced
  BY DEF Init
<1>2. OneWorkerUnlessRaced /\ ~raced => AtMostOneWorker
  BY DEF OneWorkerUnlessRaced
<1> QED
  BY <1>1, <1>2, SerialIsUnraced, TypeCorrect, OneWorker, PTL DEF Spec
=============================================================================
