--------------------------- MODULE WorkerLauncher ---------------------------
(***************************************************************************)
(* util.WorkerLauncher (src/snooty/util.py:399-464): a launcher that keeps *)
(* one worker thread, cancels it cooperatively and starts a new one.       *)
(*                                                                         *)
(* Several threads share one launcher: the language server's request       *)
(* thread cancels it, every postprocess timer and every request for a      *)
(* page's AST runs it.  One action below is one step between two accesses  *)
(* to shared state (the lock, __thread, the Event, a thread's liveness, a  *)
(* result queue): the interleavings are those of the threads.              *)
(*                                                                         *)
(* The processes are the calls, not the threads that make them: a thread   *)
(* that calls twice is two calls of which one begins after the other has   *)
(* returned, which is one of the interleavings.  The worker thread and the *)
(* result queue of a run are named by its call.                            *)
(***************************************************************************)
EXTENDS Naturals, FiniteSets

CONSTANTS Runs,         \* calls of run() and run_and_wait()
          Cancels,      \* calls of cancel()
          NoRun,        \* __thread is None
          Nobody        \* the lock is free

ASSUME LauncherAssumption ==
    /\ Runs \cap Cancels = {}
    /\ NoRun \notin Runs
    /\ Nobody \notin Runs \cup Cancels

Calls == Runs \cup Cancels

\* What a worker leaves in its result queue.
Outcomes == {"result", "cancelled", "failed"}

(***************************************************************************)
(* A call's program counter, in the order of the code:                     *)
(*   uncalled not made yet                                                 *)
(*   lock     entered cancel(), waits for `with self._lock`                *)
(*   test     holds the lock, about to test __thread.is_alive()            *)
(*   set      about to call __cancel.set()                                 *)
(*   join     blocked in __thread.join(), still holding the lock           *)
(*   release  about to leave the `with`                                    *)
(*   clear    lock released, about to call __cancel.clear()                *)
(*   assign   run() only: about to store the new thread under the lock     *)
(*   start    run() only: lock released, about to call thread.start()      *)
(*   wait     run_and_wait() only: blocked on the result queue             *)
(*   done     returned                                                     *)
(***************************************************************************)
CallStates == {"uncalled", "lock", "test", "set", "join", "release", "clear",
               "assign", "start", "wait", "done"}

(***************************************************************************)
(* A worker thread:                                                        *)
(*   new       not started: is_alive() is false                            *)
(*   running   in self.target(__cancel, arg)                               *)
(*   returned  target has returned, about to test __cancel.is_set()        *)
(*   exiting   the outcome is in the queue, the thread is still alive      *)
(*   dead      is_alive() is false, join() returns                         *)
(***************************************************************************)
WorkerStates == {"new", "running", "returned", "exiting", "dead"}

VARIABLES lock,     \* which call holds _lock
          thread,   \* __thread
          event,    \* __cancel.is_set()
          pc,       \* each call's program counter
          worker,   \* each run's worker thread
          queue,    \* what each run's result queue has held, "none" before
          raced     \* auxiliary: two run() calls have launched at once

workerVars == <<worker, queue>>
vars == <<lock, thread, event, pc, worker, queue, raced>>

Init ==
    /\ lock = Nobody
    /\ thread = NoRun
    /\ event = FALSE
    /\ pc = [c \in Calls |-> "uncalled"]
    /\ worker = [r \in Runs |-> "new"]
    /\ queue = [r \in Runs |-> "none"]
    /\ raced = FALSE

\* Thread.is_alive(): from start() until the thread function has returned.
IsAlive(t) == t # NoRun /\ worker[t] \notin {"new", "dead"}

Goto(c, from, to) ==
    /\ pc[c] = from
    /\ pc' = [pc EXCEPT ![c] = to]

\* A run() between its test of the old thread and the start of the new one.
Launching(r) == pc[r] \in {"set", "join", "release", "clear", "assign", "start"}

-----------------------------------------------------------------------------
\* cancel(), which run() calls first.

Call(c) ==
    /\ Goto(c, "uncalled", "lock")
    /\ UNCHANGED <<lock, thread, event, workerVars, raced>>

CancelLock(c) ==
    /\ lock = Nobody
    /\ lock' = c
    /\ Goto(c, "lock", "test")
    /\ UNCHANGED <<thread, event, workerVars, raced>>

CancelTest(c) ==
    /\ Goto(c, "test", IF IsAlive(thread) THEN "set" ELSE "release")
    /\ raced' = (raced \/ (c \in Runs /\ \E r \in Runs \ {c} : Launching(r)))
    /\ UNCHANGED <<lock, thread, event, workerVars>>

CancelSet(c) ==
    /\ Goto(c, "set", "join")
    /\ event' = TRUE
    /\ UNCHANGED <<lock, thread, workerVars, raced>>

\* Faulty variant of CancelJoin: the join gives up waiting.
CancelJoinTimesOut(c) ==
    /\ Goto(c, "join", "release")
    /\ UNCHANGED <<lock, thread, event, workerVars, raced>>

CancelJoin(c) ==
    /\ ~IsAlive(thread)
    /\ Goto(c, "join", "release")
    /\ UNCHANGED <<lock, thread, event, workerVars, raced>>

\* Faulty variant of CancelRelease: the lock is never given back.
CancelKeepsLock(c) ==
    /\ Goto(c, "release", "clear")
    /\ UNCHANGED <<lock, thread, event, workerVars, raced>>

CancelRelease(c) ==
    /\ Goto(c, "release", "clear")
    /\ lock' = Nobody
    /\ UNCHANGED <<thread, event, workerVars, raced>>

\* Faulty variant of CancelClear: the Event stays set.
CancelForgetsClear(c) ==
    /\ Goto(c, "clear", IF c \in Runs THEN "assign" ELSE "done")
    /\ UNCHANGED <<lock, thread, event, workerVars, raced>>

\* Faulty variant of CancelClear: every caller goes on to launch.
CancelAlwaysLaunches(c) ==
    /\ Goto(c, "clear", "assign")
    /\ event' = FALSE
    /\ UNCHANGED <<lock, thread, workerVars, raced>>

\* Outside the lock: it may erase what another call has set meanwhile.
CancelClear(c) ==
    /\ Goto(c, "clear", IF c \in Runs THEN "assign" ELSE "done")
    /\ event' = FALSE
    /\ UNCHANGED <<lock, thread, workerVars, raced>>

-----------------------------------------------------------------------------
\* The rest of run() and run_and_wait().

\* `with self._lock: self.__thread = thread`: one assignment, so the lock is
\* taken and released in one step.
RunAssign(r) ==
    /\ lock = Nobody
    /\ Goto(r, "assign", "start")
    /\ thread' = r
    /\ UNCHANGED <<lock, event, workerVars, raced>>

\* run() returns the queue, run_and_wait() goes on to wait on it.
RunStart(r) ==
    /\ \E next \in {"wait", "done"} : Goto(r, "start", next)
    /\ worker' = [worker EXCEPT ![r] = "running"]
    /\ UNCHANGED <<lock, thread, event, queue, raced>>

WaitGet(r) ==
    /\ queue[r] # "none"
    /\ Goto(r, "wait", "done")
    /\ UNCHANGED <<lock, thread, event, workerVars, raced>>

-----------------------------------------------------------------------------
\* The worker thread: inner().

\* result_queue.put: Queue(1) has room for one item and nobody else puts in
\* it, so the put is one step with the test that decides what is put.
Put(r, outcome) ==
    /\ queue' = [queue EXCEPT ![r] = outcome]
    /\ worker' = [worker EXCEPT ![r] = "exiting"]
    /\ UNCHANGED <<lock, thread, event, pc, raced>>

\* Faulty variant of TargetCancelled: `except` does not catch the
\* CancelledException, and nothing is put.
TargetCancelledUncaught(r) ==
    /\ worker[r] = "running"
    /\ event
    /\ worker' = [worker EXCEPT ![r] = "exiting"]
    /\ UNCHANGED <<lock, thread, event, pc, queue, raced>>

\* The target sees the Event and raises CancelledException.
TargetCancelled(r) ==
    /\ worker[r] = "running"
    /\ event
    /\ Put(r, "cancelled")

\* The target raises any other exception.
TargetFails(r) ==
    /\ worker[r] = "running"
    /\ Put(r, "failed")

TargetReturns(r) ==
    /\ worker[r] = "running"
    /\ worker' = [worker EXCEPT ![r] = "returned"]
    /\ UNCHANGED <<lock, thread, event, pc, queue, raced>>

\* The Event is tested once more after the target has returned.
TestAfterTarget(r) ==
    /\ worker[r] = "returned"
    /\ Put(r, IF event THEN "cancelled" ELSE "result")

Exit(r) ==
    /\ worker[r] = "exiting"
    /\ worker' = [worker EXCEPT ![r] = "dead"]
    /\ UNCHANGED <<lock, thread, event, pc, queue, raced>>

-----------------------------------------------------------------------------
CancelStep(c) ==
    \/ CancelLock(c) \/ CancelTest(c) \/ CancelSet(c)
    \/ CancelJoin(c) \/ CancelRelease(c) \/ CancelClear(c)

RunStep(r) == RunAssign(r) \/ RunStart(r) \/ WaitGet(r)

WorkerStep(r) ==
    \/ TargetCancelled(r) \/ TargetFails(r) \/ TargetReturns(r)
    \/ TestAfterTarget(r) \/ Exit(r)

\* Every call has returned and every worker has ended.
Finished ==
    /\ \A c \in Calls : pc[c] = "done"
    /\ \A r \in Runs : ~IsAlive(r)

Next ==
    \/ \E c \in Calls : Call(c) \/ CancelStep(c)
    \/ \E r \in Runs : RunStep(r) \/ WorkerStep(r)
    \/ Finished /\ UNCHANGED vars

(***************************************************************************)
(* A thread that can take its next step takes it.  In particular the       *)
(* target is assumed to end, and nothing makes anyone call.  Weak fairness *)
(* is enough for the lock because there are finitely many calls: others    *)
(* cannot take it for ever.                                                *)
(***************************************************************************)
Fairness ==
    /\ \A c \in Calls : WF_vars(CancelStep(c))
    /\ \A r \in Runs : WF_vars(RunStep(r)) /\ WF_vars(WorkerStep(r))

Spec == Init /\ [][Next]_vars
FairSpec == Spec /\ Fairness

-----------------------------------------------------------------------------
TypeOK ==
    /\ lock \in Calls \cup {Nobody}
    /\ thread \in Runs \cup {NoRun}
    /\ event \in BOOLEAN
    /\ pc \in [Calls -> CallStates]
    /\ \A c \in Cancels : pc[c] \notin {"assign", "start", "wait"}
    /\ worker \in [Runs -> WorkerStates]
    /\ queue \in [Runs -> Outcomes \cup {"none"}]
    /\ raced \in BOOLEAN

\* At most one worker is alive: what "it is cancelled (and blocks until the
\* worker raises WorkerCanceled) and restarted" and "thread-safe" promise of
\* concurrent run() calls (util.py:406-409).
AtMostOneWorker == \A q, r \in Runs : IsAlive(q) /\ IsAlive(r) => q = r

\* At most one worker is alive unless two run() calls have been between their
\* test of the old thread and the start of the new one at the same time: the
\* lock is not held over that window (util.py:425, 445-447), and nothing else
\* can leave a worker behind.
OneWorkerUnlessRaced == ~raced => AtMostOneWorker

\* In a history without that race a worker sees the Event set only while some
\* call waits in cancel() for that worker to end: an Event left over from an
\* earlier cancellation never reaches a new worker, although it is cleared
\* after the lock is released (util.py:462-464).
NoStrayCancellation ==
    \A r \in Runs :
        ~raced /\ worker[r] = "running" /\ event
            => thread = r /\ \E c \in Calls : pc[c] = "join"

\* No call blocks for ever, although cancel() joins the worker while it holds
\* the lock every other call needs (util.py:459-462).
EveryCallReturns == \A c \in Calls : pc[c] = "lock" ~> pc[c] = "done"

\* Every started run leaves an outcome in its queue, be its worker cancelled
\* or orphaned: nobody waits on a queue that is never filled (util.py:431-441).
EveryRunAnswered == \A r \in Runs : worker[r] = "running" ~> queue[r] # "none"
=============================================================================
