------------------------- MODULE PageDatabaseProofs -------------------------
(***************************************************************************)
(* TLAPS proofs about PageDatabase, for any pages, edits, flushes and      *)
(* cancellations:                                                          *)
(*   - it uses its launcher as WorkerLauncher says one can be used, so     *)
(*     what is proved of every launcher holds of this one;                 *)
(*   - no change is lost outside the window between copy and commit;       *)
(*   - what is cached is the content of one moment;                        *)
(*   - it never goes back to an older moment unless two flushes race;      *)
(*   - and all of it is what Snapshots promises.                           *)
(***************************************************************************)
EXTENDS PageDatabase, TLAPS

\* A worker that has not copied yet.
NewEnters == \A r \in Runs : worker[r] = "new" => target[r] = "enter"
NothingCopied == \A r \in Runs : target[r] = "enter" => copied[r] = Empty

\* While a worker copies, what it has copied is what the pages are.
CopyIsCurrent ==
    \A r \in Runs : At(r, "copy") =>
        \A p \in Pages : p \notin toCopy[r] => copied[r][p] = parsed[p]

HistoryIsKept == history[edits] = parsed

\* What a step does to the record of the past.
HistoryExtended ==
    /\ HistoryIsKept'
    /\ edits' \in Nat /\ edits' >= edits
    /\ \A k \in 0..edits : history'[k] = history[k]

CopyIsOneMoment ==
    \A r \in Runs : InPipeline(r) => copied[r] \in Moments

\* Until an edit overlaps a run, what is in the pipeline is up to date.
PipelineIsCurrent ==
    ~overlapped => \A r \in Runs : InPipeline(r) => copied[r] = parsed

\* What is in the pipeline is as new as what is cached.
PipelineIsNewer ==
    ~raced => \A r \in Runs : InPipeline(r) => <<cached, copied[r]>> \in Successions

DInv ==
    /\ TypeOK
    /\ Launcher!IInv
    /\ NewEnters
    /\ NothingCopied
    /\ CopyIsCurrent
    /\ HistoryIsKept
    /\ CopyIsOneMoment
    /\ CachedIsOneMoment
    /\ PipelineIsCurrent
    /\ NoLostChange
    /\ PipelineIsNewer
-----------------------------------------------------------------------------
\* The launcher's constants are the page database's.
LEMMA LauncherAssumed == Launcher!LauncherAssumption
  BY DatabaseAssumption DEF DatabaseAssumption, Launcher!LauncherAssumption

LEMMA LauncherStepRefined == [Next]_vars => [Launcher!Next]_(Launcher!vars)
<1> SUFFICES ASSUME [Next]_vars PROVE [Launcher!Next]_(Launcher!vars)
  OBVIOUS
<1> USE DEF launcherVars, Launcher!vars, Launcher!workerVars
<1>1. ASSUME LauncherStep PROVE Launcher!Next
  BY <1>1 DEF LauncherStep, Launcher!Next, Launcher!WorkerStep, Launcher!Calls
<1>2. ASSUME NEW r \in Runs, TargetStep(r) PROVE [Launcher!Next]_(Launcher!vars)
  BY <1>2 DEF TargetStep, NothingChanged, BeginCopy, CopyPage, CopyCancelled, CopyDone,
      PipelineReturns, PipelineStops, Commit, Launcher!Next, Launcher!WorkerStep
<1>3. ASSUME NEW p \in Pages, SetItem(p) \/ DelItem(p) PROVE UNCHANGED Launcher!vars
  BY <1>3 DEF SetItem, DelItem, Edit
<1>4. CASE UNCHANGED vars
  BY <1>4 DEF vars
<1> QED
  BY <1>1, <1>2, <1>3, <1>4 DEF Next

\* The page database uses its launcher as WorkerLauncher says a launcher can be
\* used, `start` being one of the targets it may have (page_database.py:66-68,
\* 170-187): every theorem about launchers holds of this one.
THEOREM LauncherRefined == Spec => Launcher!Spec
<1>1. Init => Launcher!Init
  BY DEF Init
<1> QED
  BY <1>1, LauncherStepRefined, PTL DEF Spec, Launcher!Spec

\* What the launcher's own steps can do to the workers.
LEMMA OfLauncherStep ==
    ASSUME TypeOK, Launcher!StartedOnce, NewEnters, LauncherStep
    PROVE  /\ UNCHANGED dbVars
           /\ NewEnters'
           /\ \A r \in Runs : At(r, "copy")' <=> At(r, "copy")
           /\ \A r \in Runs : InPipeline(r)' <=> InPipeline(r)
<1> USE DEF TypeOK, Launcher!TypeOK, NewEnters, At, InPipeline, dbVars, workVars,
        Launcher!workerVars
<1>1. UNCHANGED dbVars
  BY DEF LauncherStep
<1>2. CASE UNCHANGED worker
  BY <1>1, <1>2
<1>3. ASSUME NEW r \in Runs, Launcher!RunStart(r) PROVE worker[r] = "new"
  BY <1>3 DEF Launcher!RunStart, Launcher!Goto, Launcher!StartedOnce
<1>4. ASSUME NEW r \in Runs, Launcher!RunStart(r)
      PROVE  worker' = [worker EXCEPT ![r] = "running"]
  BY <1>4 DEF Launcher!RunStart
<1>5. ASSUME NEW r \in Runs, Launcher!TestAfterTarget(r) \/ Launcher!Exit(r)
      PROVE  /\ worker[r] \in {"returned", "exiting"}
             /\ \/ worker' = [worker EXCEPT ![r] = "exiting"]
                \/ worker' = [worker EXCEPT ![r] = "dead"]
  BY <1>5 DEF Launcher!TestAfterTarget, Launcher!Put, Launcher!Exit
<1>6. UNCHANGED worker \/ \E r \in Runs : \/ Launcher!RunStart(r)
                                         \/ Launcher!TestAfterTarget(r)
                                         \/ Launcher!Exit(r)
  BY DEF LauncherStep, Launcher!Call, Launcher!CancelStep, Launcher!CancelLock,
      Launcher!CancelTest, Launcher!CancelSet, Launcher!CancelJoin,
      Launcher!CancelRelease, Launcher!CancelClear, Launcher!RunStep,
      Launcher!RunAssign, Launcher!WaitGet
<1>7. ASSUME NEW r \in Runs, Launcher!RunStart(r)
      PROVE  /\ NewEnters'
             /\ \A q \in Runs : At(q, "copy")' <=> At(q, "copy")
             /\ \A q \in Runs : InPipeline(q)' <=> InPipeline(q)
  BY <1>1, <1>3, <1>4, <1>7
<1>8. ASSUME NEW r \in Runs, Launcher!TestAfterTarget(r) \/ Launcher!Exit(r)
      PROVE  /\ NewEnters'
             /\ \A q \in Runs : At(q, "copy")' <=> At(q, "copy")
             /\ \A q \in Runs : InPipeline(q)' <=> InPipeline(q)
  BY <1>1, <1>5, <1>8
<1> QED
  BY <1>1, <1>2, <1>6, <1>7, <1>8

\* The variables keep their types.
LEMMA DataTypeInvariance == DInv /\ [Next]_vars => DataTypeOK'
<1> SUFFICES ASSUME DInv, [Next]_vars PROVE DataTypeOK'
  OBVIOUS
<1>1. CASE LauncherStep
  BY <1>1, OfLauncherStep DEF DInv, TypeOK, Launcher!IInv, dbVars, editVars, workVars,
      DataTypeOK
<1>2. CASE UNCHANGED vars
  BY <1>2 DEF vars, launcherVars, dbVars, editVars, workVars, DInv, TypeOK, At,
      InPipeline, DataTypeOK
<1> USE DatabaseAssumption DEF DInv, TypeOK, launcherVars, editVars, workVars, MoveTo,
        DataTypeOK, Versions, Contents, Empty, TargetStates
<1>3. ASSUME NEW r \in Runs, NothingChanged(r) PROVE DataTypeOK'
  BY <1>3 DEF NothingChanged, Launcher!TargetReturns
<1>4. ASSUME NEW r \in Runs, BeginCopy(r) PROVE DataTypeOK'
  BY <1>4 DEF BeginCopy
<1>5. ASSUME NEW r \in Runs, CopyPage(r) PROVE DataTypeOK'
  <2>1. PICK p \in toCopy[r] : /\ copied' = [copied EXCEPT ![r][p] = parsed[p]]
                               /\ toCopy' = [toCopy EXCEPT ![r] = @ \ {p}]
    BY <1>5 DEF CopyPage
  <2>2. [copied[r] EXCEPT ![p] = parsed[p]] \in Contents
    OBVIOUS
  <2>3. copied' \in [Runs -> Contents] /\ toCopy' \in [Runs -> SUBSET Pages]
    BY <2>1, <2>2
  <2> QED
    BY <1>5, <2>3 DEF CopyPage
<1>6. ASSUME NEW r \in Runs, CopyCancelled(r) PROVE DataTypeOK'
  BY <1>6 DEF CopyCancelled, Launcher!TargetCancelled, Launcher!Put
<1>7. ASSUME NEW r \in Runs, CopyDone(r) PROVE DataTypeOK'
  BY <1>7 DEF CopyDone
<1>8. ASSUME NEW r \in Runs, PipelineReturns(r) PROVE DataTypeOK'
  BY <1>8 DEF PipelineReturns
<1>9. ASSUME NEW r \in Runs, PipelineStops(r) PROVE DataTypeOK'
  BY <1>9 DEF PipelineStops, Launcher!TargetCancelled, Launcher!TargetFails,
      Launcher!Put
<1>10. ASSUME NEW r \in Runs, Commit(r) PROVE DataTypeOK'
  BY <1>10 DEF Commit, Launcher!TargetReturns
<1>11. ASSUME NEW p \in Pages, SetItem(p) \/ DelItem(p) PROVE DataTypeOK'
  <2>1. PICK v \in Versions : Edit(p, v)
    <3>1. Edit(p, edits + 1) \/ Edit(p, 0)
      BY <1>11 DEF SetItem, DelItem
    <3>2. edits < MaxEdits
      BY <3>1 DEF Edit
    <3> QED
      BY <3>1, <3>2
  <2>2. parsed' \in Contents /\ changed' \subseteq Pages
    BY <2>1 DEF Edit
  <2>3. edits' \in Versions /\ edits + 1 \in Versions /\ overlapped' \in BOOLEAN
    BY <2>1 DEF Edit
  <2>4. history' \in [Versions -> Contents]
    BY <2>1, <2>2, <2>3 DEF Edit
  <2> QED
    BY <2>1, <2>2, <2>3, <2>4 DEF Edit
<1> QED
  BY <1>1, <1>2, <1>3, <1>4, <1>5, <1>6, <1>7, <1>8, <1>9, <1>10, <1>11
     DEF Next, TargetStep

\* _lock is held over the copying loop, and over no other part of `start`.
LEMMA LockInvariance == DInv /\ [Next]_vars => CopyHoldsLock'
<1> SUFFICES ASSUME DInv, [Next]_vars, NEW q \in Runs
             PROVE  (dbLock = q <=> At(q, "copy"))'
  BY DEF CopyHoldsLock
<1>1. CASE LauncherStep
  BY <1>1, OfLauncherStep DEF DInv, TypeOK, Launcher!IInv, dbVars, editVars, workVars,
      CopyHoldsLock
<1>2. CASE UNCHANGED vars
  BY <1>2 DEF vars, launcherVars, dbVars, editVars, workVars, DInv, TypeOK, At,
      InPipeline, CopyHoldsLock
<1> USE DatabaseAssumption DEF DInv, TypeOK, launcherVars, editVars, workVars, MoveTo,
        CopyHoldsLock, DataTypeOK, At, Launcher!TypeOK
<1>3. ASSUME NEW r \in Runs, NothingChanged(r) PROVE (dbLock = q <=> At(q, "copy"))'
  BY <1>3 DEF NothingChanged, Launcher!TargetReturns
<1>4. ASSUME NEW r \in Runs, BeginCopy(r) PROVE (dbLock = q <=> At(q, "copy"))'
  BY <1>4 DEF BeginCopy
<1>5. ASSUME NEW r \in Runs, CopyPage(r) PROVE (dbLock = q <=> At(q, "copy"))'
  BY <1>5 DEF CopyPage
<1>6. ASSUME NEW r \in Runs, CopyCancelled(r) PROVE (dbLock = q <=> At(q, "copy"))'
  BY <1>6 DEF CopyCancelled, Launcher!TargetCancelled, Launcher!Put
<1>7. ASSUME NEW r \in Runs, CopyDone(r) PROVE (dbLock = q <=> At(q, "copy"))'
  BY <1>7 DEF CopyDone
<1>8. ASSUME NEW r \in Runs, PipelineReturns(r) PROVE (dbLock = q <=> At(q, "copy"))'
  BY <1>8 DEF PipelineReturns
<1>9. ASSUME NEW r \in Runs, PipelineStops(r) PROVE (dbLock = q <=> At(q, "copy"))'
  BY <1>9 DEF PipelineStops, Launcher!TargetCancelled, Launcher!TargetFails,
      Launcher!Put
<1>10. ASSUME NEW r \in Runs, Commit(r) PROVE (dbLock = q <=> At(q, "copy"))'
  BY <1>10 DEF Commit, Launcher!TargetReturns
<1>11. ASSUME NEW p \in Pages, SetItem(p) \/ DelItem(p)
       PROVE  (dbLock = q <=> At(q, "copy"))'
  BY <1>11 DEF SetItem, DelItem, Edit
<1> QED
  BY <1>1, <1>2, <1>3, <1>4, <1>5, <1>6, <1>7, <1>8, <1>9, <1>10, <1>11
     DEF Next, TargetStep

\* A worker starts at the first line of `start`, with nothing copied.
LEMMA FreshInvariance == DInv /\ [Next]_vars => (NewEnters /\ NothingCopied)'
<1> SUFFICES ASSUME DInv, [Next]_vars PROVE (NewEnters /\ NothingCopied)'
  OBVIOUS
<1>1. CASE LauncherStep
  BY <1>1, OfLauncherStep DEF DInv, TypeOK, Launcher!IInv, dbVars, editVars, workVars,
      NewEnters, NothingCopied
<1>2. CASE UNCHANGED vars
  BY <1>2 DEF vars, launcherVars, dbVars, editVars, workVars, DInv, TypeOK, At,
      InPipeline, NewEnters, NothingCopied
<1> USE DatabaseAssumption DEF DInv, TypeOK, launcherVars, editVars, workVars, MoveTo,
        DataTypeOK, NewEnters, NothingCopied, Launcher!TypeOK, At
<1>3. ASSUME NEW r \in Runs, NothingChanged(r) PROVE (NewEnters /\ NothingCopied)'
  BY <1>3 DEF NothingChanged, Launcher!TargetReturns
<1>4. ASSUME NEW r \in Runs, BeginCopy(r) PROVE (NewEnters /\ NothingCopied)'
  BY <1>4 DEF BeginCopy
<1>5. ASSUME NEW r \in Runs, CopyPage(r) PROVE (NewEnters /\ NothingCopied)'
  BY <1>5 DEF CopyPage
<1>6. ASSUME NEW r \in Runs, CopyCancelled(r) PROVE (NewEnters /\ NothingCopied)'
  BY <1>6 DEF CopyCancelled, Launcher!TargetCancelled, Launcher!Put
<1>7. ASSUME NEW r \in Runs, CopyDone(r) PROVE (NewEnters /\ NothingCopied)'
  BY <1>7 DEF CopyDone
<1>8. ASSUME NEW r \in Runs, PipelineReturns(r) PROVE (NewEnters /\ NothingCopied)'
  BY <1>8 DEF PipelineReturns
<1>9. ASSUME NEW r \in Runs, PipelineStops(r) PROVE (NewEnters /\ NothingCopied)'
  BY <1>9 DEF PipelineStops, Launcher!TargetCancelled, Launcher!TargetFails,
      Launcher!Put
<1>10. ASSUME NEW r \in Runs, Commit(r) PROVE (NewEnters /\ NothingCopied)'
  BY <1>10 DEF Commit, Launcher!TargetReturns
<1>11. ASSUME NEW p \in Pages, SetItem(p) \/ DelItem(p)
       PROVE  (NewEnters /\ NothingCopied)'
  BY <1>11 DEF SetItem, DelItem, Edit
<1> QED
  BY <1>1, <1>2, <1>3, <1>4, <1>5, <1>6, <1>7, <1>8, <1>9, <1>10, <1>11
     DEF Next, TargetStep

\* The record of the past is extended, never changed.
LEMMA HistoryGrows == DInv /\ [Next]_vars => HistoryExtended
<1> SUFFICES ASSUME DInv, [Next]_vars PROVE HistoryExtended
  OBVIOUS
<1>1. CASE LauncherStep
  <2>1. UNCHANGED <<edits, history, parsed>>
    BY <1>1, OfLauncherStep DEF DInv, TypeOK, Launcher!IInv, dbVars, editVars
  <2>2. edits \in Nat /\ HistoryIsKept
    BY DatabaseAssumption DEF DInv, TypeOK, DataTypeOK, Versions
  <2> QED
    BY <2>1, <2>2 DEF HistoryIsKept, HistoryExtended
<1>2. CASE UNCHANGED vars
  BY <1>2 DEF vars, launcherVars, dbVars, editVars, workVars, DInv, TypeOK, At,
      InPipeline, DataTypeOK, HistoryExtended, HistoryIsKept, Versions,
      DatabaseAssumption
<1> USE DatabaseAssumption DEF DInv, TypeOK, launcherVars, editVars, workVars, MoveTo,
        DataTypeOK, Versions, HistoryIsKept, HistoryExtended
<1>3. ASSUME NEW r \in Runs, NothingChanged(r) PROVE HistoryExtended
  BY <1>3 DEF NothingChanged, Launcher!TargetReturns
<1>4. ASSUME NEW r \in Runs, BeginCopy(r) PROVE HistoryExtended
  BY <1>4 DEF BeginCopy
<1>5. ASSUME NEW r \in Runs, CopyPage(r) PROVE HistoryExtended
  BY <1>5 DEF CopyPage
<1>6. ASSUME NEW r \in Runs, CopyCancelled(r) PROVE HistoryExtended
  BY <1>6 DEF CopyCancelled, Launcher!TargetCancelled, Launcher!Put
<1>7. ASSUME NEW r \in Runs, CopyDone(r) PROVE HistoryExtended
  BY <1>7 DEF CopyDone
<1>8. ASSUME NEW r \in Runs, PipelineReturns(r) PROVE HistoryExtended
  BY <1>8 DEF PipelineReturns
<1>9. ASSUME NEW r \in Runs, PipelineStops(r) PROVE HistoryExtended
  BY <1>9 DEF PipelineStops, Launcher!TargetCancelled, Launcher!TargetFails,
      Launcher!Put
<1>10. ASSUME NEW r \in Runs, Commit(r) PROVE HistoryExtended
  BY <1>10 DEF Commit, Launcher!TargetReturns
<1>11. ASSUME NEW p \in Pages, SetItem(p) \/ DelItem(p) PROVE HistoryExtended
  <2>1. PICK v \in Versions : Edit(p, v)
    <3>1. Edit(p, edits + 1) \/ Edit(p, 0)
      BY <1>11 DEF SetItem, DelItem
    <3>2. edits < MaxEdits
      BY <3>1 DEF Edit
    <3> QED
      BY <3>1, <3>2
  <2>2. edits' = edits + 1 /\ edits + 1 \in Versions
    BY <2>1 DEF Edit
  <2>3. history' = [history EXCEPT ![edits + 1] = parsed']
    BY <2>1 DEF Edit
  <2> QED
    BY <2>2, <2>3
<1> QED
  BY <1>1, <1>2, <1>3, <1>4, <1>5, <1>6, <1>7, <1>8, <1>9, <1>10, <1>11
     DEF Next, TargetStep

\* What has been a set of pages remains one, and what came later came later.
LEMMA MomentsAreKept ==
    ASSUME DInv, [Next]_vars
    PROVE  /\ parsed \in Moments
           /\ Moments \subseteq Moments'
           /\ Successions \subseteq Successions'
           /\ \A x \in Moments : /\ <<x, x>> \in Successions
                               /\ <<x, parsed>> \in Successions
<1>1. edits \in Nat /\ HistoryIsKept
  BY DatabaseAssumption DEF DInv, TypeOK, DataTypeOK, Versions
<1>2. HistoryExtended
  BY HistoryGrows
<1>3. parsed \in Moments
  BY <1>1 DEF HistoryIsKept, Moments
<1>4. Moments \subseteq Moments'
  BY <1>1, <1>2 DEF HistoryExtended, Moments
<1>5. ASSUME NEW pair \in Successions PROVE pair \in Successions'
  <2>1. PICK i, j \in 0..edits : i <= j /\ pair = <<history[i], history[j]>>
    BY DEF Successions
  <2>2. i \in 0..edits' /\ j \in 0..edits' /\ pair = <<history'[i], history'[j]>>
    BY <1>1, <1>2, <2>1 DEF HistoryExtended
  <2>3. pair \in Moments' \X Moments'
    BY <2>2 DEF Moments
  <2> QED
    BY <2>1, <2>2, <2>3 DEF Successions
<1>6. ASSUME NEW x \in Moments
      PROVE  <<x, x>> \in Successions /\ <<x, parsed>> \in Successions
  <2>1. PICK k \in 0..edits : x = history[k]
    BY DEF Moments
  <2>2. k <= k /\ k <= edits /\ edits \in 0..edits /\ parsed = history[edits]
    BY <1>1 DEF HistoryIsKept
  <2> QED
    BY <1>3, <2>1, <2>2 DEF Successions
<1> QED
  BY <1>3, <1>4, <1>5, <1>6

\* No edit gets in between while a worker holds the lock to copy.
LEMMA CopyInvariance == DInv /\ [Next]_vars => CopyIsCurrent'
<1> SUFFICES ASSUME DInv, [Next]_vars,
                NEW q \in Runs, At(q, "copy")', NEW y \in Pages, y \notin toCopy'[q]
             PROVE copied'[q][y] = parsed'[y]
  BY DEF CopyIsCurrent
<1>1. CASE LauncherStep
  BY <1>1, OfLauncherStep DEF DInv, TypeOK, Launcher!IInv, dbVars, editVars, workVars,
      CopyIsCurrent
<1>2. CASE UNCHANGED vars
  BY <1>2 DEF vars, launcherVars, dbVars, editVars, workVars, DInv, TypeOK, At,
      InPipeline, CopyIsCurrent
<1> USE DatabaseAssumption DEF DInv, TypeOK, launcherVars, editVars, workVars, MoveTo,
        DataTypeOK, Contents, Empty, CopyHoldsLock, CopyIsCurrent, NothingCopied, At,
        Launcher!TypeOK
<1>3. ASSUME NEW r \in Runs, NothingChanged(r) PROVE copied'[q][y] = parsed'[y]
  BY <1>3 DEF NothingChanged, Launcher!TargetReturns
<1>4. ASSUME NEW r \in Runs, BeginCopy(r) PROVE copied'[q][y] = parsed'[y]
  BY <1>4 DEF BeginCopy
<1>5. ASSUME NEW r \in Runs, CopyPage(r) PROVE copied'[q][y] = parsed'[y]
  <2>1. PICK x \in toCopy[r] : /\ copied' = [copied EXCEPT ![r][x] = parsed[x]]
                               /\ toCopy' = [toCopy EXCEPT ![r] = @ \ {x}]
    BY <1>5 DEF CopyPage
  <2>2. copied'[q][y] = copied[q][y] \/ (q = r /\ y = x /\ copied'[q][y] = parsed[y])
    BY <2>1
  <2> QED
    BY <1>5, <2>1, <2>2 DEF CopyPage
<1>6. ASSUME NEW r \in Runs, CopyCancelled(r) PROVE copied'[q][y] = parsed'[y]
  BY <1>6 DEF CopyCancelled, Launcher!TargetCancelled, Launcher!Put
<1>7. ASSUME NEW r \in Runs, CopyDone(r) PROVE copied'[q][y] = parsed'[y]
  BY <1>7 DEF CopyDone
<1>8. ASSUME NEW r \in Runs, PipelineReturns(r) PROVE copied'[q][y] = parsed'[y]
  BY <1>8 DEF PipelineReturns
<1>9. ASSUME NEW r \in Runs, PipelineStops(r) PROVE copied'[q][y] = parsed'[y]
  BY <1>9 DEF PipelineStops, Launcher!TargetCancelled, Launcher!TargetFails,
      Launcher!Put
<1>10. ASSUME NEW r \in Runs, Commit(r) PROVE copied'[q][y] = parsed'[y]
  BY <1>10 DEF Commit, Launcher!TargetReturns
<1>11. ASSUME NEW p \in Pages, SetItem(p) \/ DelItem(p) PROVE copied'[q][y] = parsed'[y]
  BY <1>11 DEF SetItem, DelItem, Edit
<1> QED
  BY <1>1, <1>2, <1>3, <1>4, <1>5, <1>6, <1>7, <1>8, <1>9, <1>10, <1>11
     DEF Next, TargetStep

\* When a worker is done copying, it has copied the pages as they are.
LEMMA CopyIsComplete ==
    ASSUME DInv, NEW r \in Runs, At(r, "copy"), toCopy[r] = {}
    PROVE  copied[r] = parsed
<1>1. copied[r] \in [Pages -> Versions] /\ parsed \in [Pages -> Versions]
  BY DEF DInv, TypeOK, DataTypeOK, Contents
<1>2. \A p \in Pages : copied[r][p] = parsed[p]
  BY DEF DInv, CopyIsCurrent
<1> QED
  BY <1>1, <1>2

\* What is in the pipeline is the content of one moment.
LEMMA CopyMomentInvariance == DInv /\ [Next]_vars => CopyIsOneMoment'
<1> SUFFICES ASSUME DInv, [Next]_vars, NEW q \in Runs, InPipeline(q)'
             PROVE  copied'[q] \in Moments'
  BY DEF CopyIsOneMoment
<1>0. parsed \in Moments /\ Moments \subseteq Moments'
  BY MomentsAreKept
<1>1. CASE LauncherStep
  BY <1>1, <1>0, OfLauncherStep DEF DInv, TypeOK, Launcher!IInv, dbVars, editVars,
      workVars, CopyIsOneMoment
<1>2. CASE UNCHANGED vars
  BY <1>2, <1>0 DEF vars, launcherVars, dbVars, editVars, workVars, DInv, TypeOK, At,
      InPipeline, CopyIsOneMoment
<1> USE DatabaseAssumption DEF DInv, TypeOK, launcherVars, editVars, workVars, MoveTo,
        DataTypeOK, Launcher!TypeOK, At, InPipeline, CopyIsOneMoment
<1>3. ASSUME NEW r \in Runs, NothingChanged(r) PROVE copied'[q] \in Moments'
  BY <1>3, <1>0 DEF NothingChanged, Launcher!TargetReturns
<1>4. ASSUME NEW r \in Runs, BeginCopy(r) PROVE copied'[q] \in Moments'
  BY <1>4, <1>0 DEF BeginCopy
<1>5. ASSUME NEW r \in Runs, CopyPage(r) PROVE copied'[q] \in Moments'
  BY <1>5, <1>0 DEF CopyPage
<1>6. ASSUME NEW r \in Runs, CopyCancelled(r) PROVE copied'[q] \in Moments'
  BY <1>6, <1>0 DEF CopyCancelled, Launcher!TargetCancelled, Launcher!Put
<1>7. ASSUME NEW r \in Runs, CopyDone(r) PROVE copied'[q] \in Moments'
  <2>1. copied[r] = parsed
    BY <1>7, CopyIsComplete DEF CopyDone
  <2> QED
    BY <1>0, <1>7, <2>1 DEF CopyDone
<1>8. ASSUME NEW r \in Runs, PipelineReturns(r) PROVE copied'[q] \in Moments'
  BY <1>8, <1>0 DEF PipelineReturns
<1>9. ASSUME NEW r \in Runs, PipelineStops(r) PROVE copied'[q] \in Moments'
  BY <1>9, <1>0 DEF PipelineStops, Launcher!TargetCancelled, Launcher!TargetFails,
      Launcher!Put
<1>10. ASSUME NEW r \in Runs, Commit(r) PROVE copied'[q] \in Moments'
  BY <1>10, <1>0 DEF Commit, Launcher!TargetReturns
<1>11. ASSUME NEW p \in Pages, SetItem(p) \/ DelItem(p) PROVE copied'[q] \in Moments'
  BY <1>11, <1>0 DEF SetItem, DelItem, Edit
<1> QED
  BY <1>1, <1>2, <1>3, <1>4, <1>5, <1>6, <1>7, <1>8, <1>9, <1>10, <1>11
     DEF Next, TargetStep

\* So is what is cached.
LEMMA CachedMomentInvariance == DInv /\ [Next]_vars => CachedIsOneMoment'
<1> SUFFICES ASSUME DInv, [Next]_vars PROVE CachedIsOneMoment'
  OBVIOUS
<1>0. parsed \in Moments /\ Moments \subseteq Moments'
  BY MomentsAreKept
<1>1. CASE LauncherStep
  BY <1>1, <1>0, OfLauncherStep DEF DInv, TypeOK, Launcher!IInv, dbVars, editVars,
      workVars, CachedIsOneMoment
<1>2. CASE UNCHANGED vars
  BY <1>2, <1>0 DEF vars, launcherVars, dbVars, editVars, workVars, DInv, TypeOK, At,
      InPipeline, CachedIsOneMoment
<1> USE DatabaseAssumption DEF DInv, TypeOK, launcherVars, editVars, workVars, MoveTo,
        DataTypeOK, Launcher!TypeOK, At, InPipeline, CopyIsOneMoment, CachedIsOneMoment
<1>3. ASSUME NEW r \in Runs, NothingChanged(r) PROVE CachedIsOneMoment'
  BY <1>3, <1>0 DEF NothingChanged, Launcher!TargetReturns
<1>4. ASSUME NEW r \in Runs, BeginCopy(r) PROVE CachedIsOneMoment'
  BY <1>4, <1>0 DEF BeginCopy
<1>5. ASSUME NEW r \in Runs, CopyPage(r) PROVE CachedIsOneMoment'
  BY <1>5, <1>0 DEF CopyPage
<1>6. ASSUME NEW r \in Runs, CopyCancelled(r) PROVE CachedIsOneMoment'
  BY <1>6, <1>0 DEF CopyCancelled, Launcher!TargetCancelled, Launcher!Put
<1>7. ASSUME NEW r \in Runs, CopyDone(r) PROVE CachedIsOneMoment'
  BY <1>7, <1>0 DEF CopyDone
<1>8. ASSUME NEW r \in Runs, PipelineReturns(r) PROVE CachedIsOneMoment'
  BY <1>8, <1>0 DEF PipelineReturns
<1>9. ASSUME NEW r \in Runs, PipelineStops(r) PROVE CachedIsOneMoment'
  BY <1>9, <1>0 DEF PipelineStops, Launcher!TargetCancelled, Launcher!TargetFails,
      Launcher!Put
<1>10. ASSUME NEW r \in Runs, Commit(r) PROVE CachedIsOneMoment'
  BY <1>10, <1>0 DEF Commit, Launcher!TargetReturns
<1>11. ASSUME NEW p \in Pages, SetItem(p) \/ DelItem(p) PROVE CachedIsOneMoment'
  BY <1>11, <1>0 DEF SetItem, DelItem, Edit
<1> QED
  BY <1>1, <1>2, <1>3, <1>4, <1>5, <1>6, <1>7, <1>8, <1>9, <1>10, <1>11
     DEF Next, TargetStep

\* A copy is up to date as long as no edit overlaps it.
LEMMA CurrentInvariance == DInv /\ [Next]_vars => PipelineIsCurrent'
<1> SUFFICES ASSUME DInv, [Next]_vars, ~overlapped', NEW q \in Runs, InPipeline(q)'
             PROVE  copied'[q] = parsed'
  BY DEF PipelineIsCurrent
<1>1. CASE LauncherStep
  BY <1>1, OfLauncherStep DEF DInv, TypeOK, Launcher!IInv, dbVars, editVars, workVars,
      PipelineIsCurrent
<1>2. CASE UNCHANGED vars
  BY <1>2 DEF vars, launcherVars, dbVars, editVars, workVars, DInv, TypeOK, At,
      InPipeline, PipelineIsCurrent
<1> USE DatabaseAssumption DEF DInv, TypeOK, launcherVars, editVars, workVars, MoveTo,
        DataTypeOK, Launcher!TypeOK, At, InPipeline, PipelineIsCurrent
<1>3. ASSUME NEW r \in Runs, NothingChanged(r) PROVE copied'[q] = parsed'
  BY <1>3 DEF NothingChanged, Launcher!TargetReturns
<1>4. ASSUME NEW r \in Runs, BeginCopy(r) PROVE copied'[q] = parsed'
  BY <1>4 DEF BeginCopy
<1>5. ASSUME NEW r \in Runs, CopyPage(r) PROVE copied'[q] = parsed'
  BY <1>5 DEF CopyPage
<1>6. ASSUME NEW r \in Runs, CopyCancelled(r) PROVE copied'[q] = parsed'
  BY <1>6 DEF CopyCancelled, Launcher!TargetCancelled, Launcher!Put
<1>7. ASSUME NEW r \in Runs, CopyDone(r) PROVE copied'[q] = parsed'
  <2>1. copied[r] = parsed
    BY <1>7, CopyIsComplete DEF CopyDone
  <2> QED
    BY <1>7, <2>1 DEF CopyDone
<1>8. ASSUME NEW r \in Runs, PipelineReturns(r) PROVE copied'[q] = parsed'
  BY <1>8 DEF PipelineReturns
<1>9. ASSUME NEW r \in Runs, PipelineStops(r) PROVE copied'[q] = parsed'
  BY <1>9 DEF PipelineStops, Launcher!TargetCancelled, Launcher!TargetFails,
      Launcher!Put
<1>10. ASSUME NEW r \in Runs, Commit(r) PROVE copied'[q] = parsed'
  BY <1>10 DEF Commit, Launcher!TargetReturns
<1>11. ASSUME NEW p \in Pages, SetItem(p) \/ DelItem(p) PROVE copied'[q] = parsed'
  BY <1>11 DEF SetItem, DelItem, Edit
<1> QED
  BY <1>1, <1>2, <1>3, <1>4, <1>5, <1>6, <1>7, <1>8, <1>9, <1>10, <1>11
     DEF Next, TargetStep

\* Only a commit unmarks pages, and then what it commits is up to date.
LEMMA NoLostChangeInvariance == DInv /\ [Next]_vars => NoLostChange'
<1> SUFFICES ASSUME DInv, [Next]_vars,
                ~overlapped', NEW y \in Pages, y \notin changed'
             PROVE cached'[y] = parsed'[y]
  BY DEF NoLostChange
<1>1. CASE LauncherStep
  BY <1>1, OfLauncherStep DEF DInv, TypeOK, Launcher!IInv, dbVars, editVars, workVars,
      NoLostChange
<1>2. CASE UNCHANGED vars
  BY <1>2 DEF vars, launcherVars, dbVars, editVars, workVars, DInv, TypeOK, At,
      InPipeline, NoLostChange
<1> USE DatabaseAssumption DEF DInv, TypeOK, launcherVars, editVars, workVars, MoveTo,
        DataTypeOK, Launcher!TypeOK, At, InPipeline, PipelineIsCurrent, NoLostChange
<1>3. ASSUME NEW r \in Runs, NothingChanged(r) PROVE cached'[y] = parsed'[y]
  BY <1>3 DEF NothingChanged, Launcher!TargetReturns
<1>4. ASSUME NEW r \in Runs, BeginCopy(r) PROVE cached'[y] = parsed'[y]
  BY <1>4 DEF BeginCopy
<1>5. ASSUME NEW r \in Runs, CopyPage(r) PROVE cached'[y] = parsed'[y]
  BY <1>5 DEF CopyPage
<1>6. ASSUME NEW r \in Runs, CopyCancelled(r) PROVE cached'[y] = parsed'[y]
  BY <1>6 DEF CopyCancelled, Launcher!TargetCancelled, Launcher!Put
<1>7. ASSUME NEW r \in Runs, CopyDone(r) PROVE cached'[y] = parsed'[y]
  BY <1>7 DEF CopyDone
<1>8. ASSUME NEW r \in Runs, PipelineReturns(r) PROVE cached'[y] = parsed'[y]
  BY <1>8 DEF PipelineReturns
<1>9. ASSUME NEW r \in Runs, PipelineStops(r) PROVE cached'[y] = parsed'[y]
  BY <1>9 DEF PipelineStops, Launcher!TargetCancelled, Launcher!TargetFails,
      Launcher!Put
<1>10. ASSUME NEW r \in Runs, Commit(r) PROVE cached'[y] = parsed'[y]
  BY <1>10 DEF Commit, Launcher!TargetReturns
<1>11. ASSUME NEW p \in Pages, SetItem(p) \/ DelItem(p) PROVE cached'[y] = parsed'[y]
  <2>1. y # p /\ y \notin changed /\ ~overlapped
    BY <1>11 DEF SetItem, DelItem, Edit
  <2>2. PICK v : parsed' = [parsed EXCEPT ![p] = v]
    BY <1>11 DEF SetItem, DelItem, Edit
  <2>3. parsed'[y] = parsed[y]
    BY <2>1, <2>2 DEF Contents
  <2>4. cached' = cached
    BY <1>11 DEF SetItem, DelItem, Edit
  <2> QED
    BY <2>1, <2>3, <2>4
<1> QED
  BY <1>1, <1>2, <1>3, <1>4, <1>5, <1>6, <1>7, <1>8, <1>9, <1>10, <1>11
     DEF Next, TargetStep

\* Without the race, the worker that commits is the only one in the pipeline.
LEMMA SolePipeline ==
    ASSUME DInv, ~raced, NEW q \in Runs, NEW r \in Runs, worker[q] = "running",
           worker[r] = "running"
    PROVE  q = r
<1>1. Launcher!IsAlive(q) /\ Launcher!IsAlive(r)
  BY DatabaseAssumption DEF Launcher!IsAlive
<1> QED
  BY <1>1 DEF DInv, Launcher!IInv, Launcher!Unraced, Launcher!AliveIsThread

\* What is in the pipeline is newer than what is cached, as only one worker is in it.
LEMMA NewerInvariance == DInv /\ [Next]_vars => PipelineIsNewer'
<1> SUFFICES ASSUME DInv, [Next]_vars, ~raced', NEW q \in Runs, InPipeline(q)'
             PROVE  <<cached', copied'[q]>> \in Successions'
  BY DEF PipelineIsNewer
<1>0. /\ ~raced
      /\ Successions \subseteq Successions'
      /\ \A x \in Moments : <<x, parsed>> \in Successions
  BY MomentsAreKept, LauncherAssumed, LauncherStepRefined, Launcher!RacedStays
       DEF DInv, TypeOK
<1>1. CASE LauncherStep
  BY <1>1, <1>0, OfLauncherStep DEF DInv, TypeOK, Launcher!IInv, dbVars, editVars,
      workVars, PipelineIsNewer
<1>2. CASE UNCHANGED vars
  BY <1>2, <1>0 DEF vars, launcherVars, dbVars, editVars, workVars, DInv, TypeOK, At,
      InPipeline, PipelineIsNewer
<1> USE DatabaseAssumption DEF DInv, TypeOK, launcherVars, editVars, workVars, MoveTo,
        DataTypeOK, Launcher!TypeOK, At, InPipeline, PipelineIsNewer
<1>3. ASSUME NEW r \in Runs, NothingChanged(r)
      PROVE  <<cached', copied'[q]>> \in Successions'
  BY <1>3, <1>0 DEF NothingChanged, Launcher!TargetReturns
<1>4. ASSUME NEW r \in Runs, BeginCopy(r) PROVE <<cached', copied'[q]>> \in Successions'
  BY <1>4, <1>0 DEF BeginCopy
<1>5. ASSUME NEW r \in Runs, CopyPage(r) PROVE <<cached', copied'[q]>> \in Successions'
  BY <1>5, <1>0 DEF CopyPage
<1>6. ASSUME NEW r \in Runs, CopyCancelled(r)
      PROVE  <<cached', copied'[q]>> \in Successions'
  BY <1>6, <1>0 DEF CopyCancelled, Launcher!TargetCancelled, Launcher!Put
<1>7. ASSUME NEW r \in Runs, CopyDone(r) PROVE <<cached', copied'[q]>> \in Successions'
  <2>1. copied[r] = parsed
    BY <1>7, CopyIsComplete DEF CopyDone
  <2>2. <<cached, parsed>> \in Successions
    BY <1>0 DEF CachedIsOneMoment
  <2> QED
    BY <1>0, <1>7, <2>1, <2>2 DEF CopyDone
<1>8. ASSUME NEW r \in Runs, PipelineReturns(r)
      PROVE  <<cached', copied'[q]>> \in Successions'
  BY <1>8, <1>0 DEF PipelineReturns
<1>9. ASSUME NEW r \in Runs, PipelineStops(r)
      PROVE  <<cached', copied'[q]>> \in Successions'
  BY <1>9, <1>0 DEF PipelineStops, Launcher!TargetCancelled, Launcher!TargetFails,
      Launcher!Put
<1>10. ASSUME NEW r \in Runs, Commit(r) PROVE <<cached', copied'[q]>> \in Successions'
  <2>1. q # r /\ InPipeline(q)
    BY <1>10 DEF Commit, Launcher!TargetReturns
  <2>2. q = r
    BY <1>0, <1>10, <2>1, SolePipeline DEF Commit
  <2> QED
    BY <2>1, <2>2
<1>11. ASSUME NEW p \in Pages, SetItem(p) \/ DelItem(p)
       PROVE  <<cached', copied'[q]>> \in Successions'
  BY <1>11, <1>0 DEF SetItem, DelItem, Edit
<1> QED
  BY <1>1, <1>2, <1>3, <1>4, <1>5, <1>6, <1>7, <1>8, <1>9, <1>10, <1>11
     DEF Next, TargetStep

-----------------------------------------------------------------------------
LEMMA Initially == Init => DInv
<1> SUFFICES ASSUME Init PROVE DInv
  OBVIOUS
<1> USE DatabaseAssumption DEF Init, At, InPipeline
<1>1. Launcher!IInv
  BY LauncherAssumed, Launcher!Initially
<1>2. DataTypeOK
  <2>1. 0 \in Versions /\ Empty \in Contents
    BY DEF Empty, Contents, Versions
  <2> QED
    BY <2>1 DEF DataTypeOK, TargetStates
<1>3. TypeOK
  BY <1>1, <1>2 DEF TypeOK, Launcher!IInv, CopyHoldsLock
<1>4. HistoryIsKept /\ CachedIsOneMoment
  BY <1>2 DEF HistoryIsKept, CachedIsOneMoment, Moments, Versions
<1> QED
  BY <1>1, <1>3, <1>4 DEF DInv, NewEnters, NothingCopied, CopyIsCurrent,
      CopyIsOneMoment,
      PipelineIsCurrent, NoLostChange, PipelineIsNewer

LEMMA InductiveStep == DInv /\ [Next]_vars => DInv'
<1> SUFFICES ASSUME DInv, [Next]_vars PROVE DInv'
  OBVIOUS
<1>1. Launcher!IInv'
  BY LauncherAssumed, LauncherStepRefined, Launcher!InductiveStep DEF DInv
<1>2. TypeOK'
  BY <1>1, DataTypeInvariance, LockInvariance DEF TypeOK, Launcher!IInv
<1>3. HistoryIsKept'
  BY HistoryGrows DEF HistoryExtended
<1> QED
  BY <1>1, <1>2, <1>3, FreshInvariance, CopyInvariance, CopyMomentInvariance,
     CachedMomentInvariance, CurrentInvariance, NoLostChangeInvariance, NewerInvariance
     DEF DInv

THEOREM InductiveInvariance == Spec => []DInv
  BY Initially, InductiveStep, PTL DEF Spec

\* Every variable keeps its type, and _lock is held over the whole copying loop
\* and free whenever the pipeline runs (page_database.py:44-58).
THEOREM TypeCorrect == Spec => []TypeOK
<1>1. DInv => TypeOK
  BY DEF DInv
<1> QED
  BY InductiveInvariance, <1>1, PTL

\* Whatever the flushes and cancellations, a page that is not marked as changed
\* is postprocessed, unless an edit has fallen between a copy and its commit
\* (page_database.py:55-62).
THEOREM NothingLost == Spec => []NoLostChange
<1>1. DInv => NoLostChange
  BY DEF DInv
<1> QED
  BY InductiveInvariance, <1>1, PTL

\* What is cached was made from the pages of one moment (page_database.py:44-55).
THEOREM OneMoment == Spec => []CachedIsOneMoment
<1>1. DInv => CachedIsOneMoment
  BY DEF DInv
<1> QED
  BY InductiveInvariance, <1>1, PTL

\* Unless two flushes race, what is cached never becomes older
\* (page_database.py:60-62).
THEOREM Forwards == Spec => NeverBackwards
<1>1. ASSUME DInv, [Next]_vars, ~raced' PROVE <<cached, cached'>> \in Successions
  <2>1. ASSUME NEW r \in Runs, Commit(r) PROVE <<cached, cached'>> \in Successions
    <3>1. ~raced
      BY <1>1, LauncherAssumed, LauncherStepRefined, Launcher!RacedStays DEF DInv,
          TypeOK
    <3>2. InPipeline(r) /\ cached' = copied[r]
      BY <2>1 DEF Commit, At, InPipeline
    <3> QED
      BY <1>1, <3>1, <3>2 DEF DInv, PipelineIsNewer
  <2>2. CASE UNCHANGED cached
    BY <1>1, <2>2, MomentsAreKept DEF DInv, CachedIsOneMoment
  <2>3. UNCHANGED cached \/ \E r \in Runs : Commit(r)
    BY <1>1 DEF Next, vars, dbVars, LauncherStep, TargetStep, NothingChanged,
        BeginCopy, CopyPage,
        CopyCancelled, CopyDone, PipelineReturns, PipelineStops, SetItem, DelItem, Edit
  <2> QED
    BY <2>1, <2>2, <2>3
<1>2. DInv /\ [Next]_vars => [~raced' => <<cached, cached'>> \in Successions]_vars
  BY <1>1
<1> QED
  BY InductiveInvariance, <1>2, PTL DEF Spec, NeverBackwards

\* Two flushes never postprocess at the same time unless they have raced in the
\* launcher (util.py:425, 445-447): what is proved of every launcher holds of
\* this one.
THEOREM OnePostprocessor == Spec => []Launcher!OneWorkerUnlessRaced
  BY LauncherRefined, LauncherAssumed, Launcher!OneWorker, PTL

-----------------------------------------------------------------------------
\* A worker that copies has found something changed, and keeps it from being
\* committed by another while it copies.
CopyHasWork == \A r \in Runs : At(r, "copy") => changed # {}

LEMMA WorkInvariance == DInv /\ CopyHasWork /\ [Next]_vars => CopyHasWork'
<1> SUFFICES ASSUME DInv, CopyHasWork, [Next]_vars, NEW q \in Runs, At(q, "copy")'
             PROVE  changed' # {}
  BY DEF CopyHasWork
<1>1. CASE LauncherStep
  BY <1>1, OfLauncherStep DEF DInv, TypeOK, Launcher!IInv, dbVars, CopyHasWork
<1>2. CASE UNCHANGED vars
  BY <1>2 DEF vars, launcherVars, dbVars, workVars, At, CopyHasWork
<1> USE DatabaseAssumption DEF DInv, TypeOK, DataTypeOK, CopyHoldsLock, launcherVars,
        editVars, workVars, MoveTo, Launcher!TypeOK, At, CopyHasWork
<1>3. ASSUME NEW r \in Runs, NothingChanged(r) PROVE changed' # {}
  BY <1>3 DEF NothingChanged, Launcher!TargetReturns
<1>4. ASSUME NEW r \in Runs, BeginCopy(r) PROVE changed' # {}
  BY <1>4 DEF BeginCopy
<1>5. ASSUME NEW r \in Runs, CopyPage(r) PROVE changed' # {}
  BY <1>5 DEF CopyPage
<1>6. ASSUME NEW r \in Runs, CopyCancelled(r) PROVE changed' # {}
  BY <1>6 DEF CopyCancelled, Launcher!TargetCancelled, Launcher!Put
<1>7. ASSUME NEW r \in Runs, CopyDone(r) PROVE changed' # {}
  BY <1>7 DEF CopyDone
<1>8. ASSUME NEW r \in Runs, PipelineReturns(r) PROVE changed' # {}
  BY <1>8 DEF PipelineReturns
<1>9. ASSUME NEW r \in Runs, PipelineStops(r) PROVE changed' # {}
  BY <1>9 DEF PipelineStops, Launcher!TargetCancelled, Launcher!TargetFails, Launcher!Put
<1>10. ASSUME NEW r \in Runs PROVE ~Commit(r)
  <2>1. ASSUME Commit(r) PROVE At(q, "copy")
    BY <2>1 DEF Commit, Launcher!TargetReturns
  <2> QED
    BY <2>1 DEF Commit
<1>11. ASSUME NEW p \in Pages, SetItem(p) \/ DelItem(p) PROVE changed' # {}
  BY <1>11 DEF SetItem, DelItem, Edit
<1> QED
  BY <1>1, <1>2, <1>3, <1>4, <1>5, <1>6, <1>7, <1>8, <1>9, <1>10, <1>11
     DEF Next, TargetStep

\* Each step is one of the steps that are promised, or changes nothing of what
\* is promised.
LEMMA StepIsPromised ==
    DInv /\ CopyHasWork /\ [Next]_vars => [Promised!Next]_(Promised!vars)
<1> SUFFICES ASSUME DInv, CopyHasWork, [Next]_vars
             PROVE  [Promised!Next]_(Promised!vars)
  OBVIOUS
<1> DEFINE looks == [r \in Runs |-> IF InPipeline(r) THEN {copied[r]} ELSE {}]
<1> DEFINE same == UNCHANGED <<parsed, changed, cached, looks, result, raced>>
<1>0. same => UNCHANGED Promised!vars
  BY DEF Promised!vars
<1>1. CASE LauncherStep
  <2>1. UNCHANGED <<parsed, changed, cached, looks, result>>
    BY <1>1, OfLauncherStep DEF DInv, TypeOK, Launcher!IInv, dbVars, workVars, editVars
  <2>2. raced' = raced \/ raced' = TRUE
    <3>1. raced \in BOOLEAN /\ raced' \in BOOLEAN
      BY LauncherAssumed, LauncherStepRefined, Launcher!InductiveStep
         DEF DInv, Launcher!IInv, Launcher!TypeOK
    <3>2. ~raced' => ~raced
      BY LauncherAssumed, LauncherStepRefined, Launcher!RacedStays DEF DInv, TypeOK
    <3> QED
      BY <3>1, <3>2, Zenon
  <2>3. CASE raced' = TRUE
    BY <2>1, <2>3 DEF Promised!Next, Promised!Crowd
  <2> QED
    BY <2>1, <2>2, <2>3, <1>0
<1>2. CASE UNCHANGED vars
  <2>1. same
    BY <1>2 DEF vars, launcherVars, dbVars, workVars, editVars, At, InPipeline
  <2> QED
    BY <2>1, <1>0
<1> USE DatabaseAssumption DEF DInv, TypeOK, DataTypeOK, launcherVars, editVars, workVars,
        MoveTo, Launcher!TypeOK, At, InPipeline
<1>3. ASSUME NEW r \in Runs, NothingChanged(r) PROVE Promised!Reuse(r)
  <2>1. looks' = looks
    BY <1>3 DEF NothingChanged, Launcher!TargetReturns
  <2> QED
    BY <1>3, <2>1 DEF NothingChanged, Launcher!TargetReturns, Promised!Reuse
<1>4. ASSUME NEW r \in Runs, BeginCopy(r) \/ CopyPage(r) \/ CopyCancelled(r) PROVE same
  <2>1. CASE BeginCopy(r)
    BY <2>1 DEF BeginCopy
  <2>2. CASE CopyPage(r)
    BY <2>2 DEF CopyPage
  <2>3. CASE CopyCancelled(r)
    BY <2>3 DEF CopyCancelled, Launcher!TargetCancelled, Launcher!Put
  <2> QED
    BY <1>4, <2>1, <2>2, <2>3
<1>5. ASSUME NEW r \in Runs, CopyDone(r) PROVE Promised!Look(r)
  <2>1. copied[r] = parsed
    BY <1>5, CopyIsComplete DEF CopyDone
  <2>2. changed # {}
    BY <1>5 DEF CopyDone, CopyHasWork
  <2>3. ASSUME ~raced, NEW q \in Runs PROVE looks[q] = {}
    <3>1. InPipeline(q) => q = r
      BY <1>5, <2>3, SolePipeline DEF CopyDone
    <3> QED
      BY <1>5, <3>1 DEF CopyDone
  <2>4. looks' = [looks EXCEPT ![r] = {parsed}]
    BY <1>5, <2>1 DEF CopyDone
  <2> QED
    BY <1>5, <2>2, <2>3, <2>4 DEF CopyDone, Promised!Look
<1>6. ASSUME NEW r \in Runs, PipelineReturns(r) PROVE same
  BY <1>6 DEF PipelineReturns
<1>7. ASSUME NEW r \in Runs, PipelineStops(r) PROVE Promised!GiveUp(r)
  <2>1. looks' = [looks EXCEPT ![r] = {}]
    BY <1>7 DEF PipelineStops, Launcher!TargetCancelled, Launcher!TargetFails, Launcher!Put
  <2> QED
    BY <1>7, <2>1 DEF PipelineStops, Launcher!TargetCancelled, Launcher!TargetFails,
        Launcher!Put, Promised!GiveUp
<1>8. ASSUME NEW r \in Runs, Commit(r) PROVE Promised!Publish(r)
  <2>1. looks[r] = {copied[r]} /\ looks' = [looks EXCEPT ![r] = {}]
    BY <1>8 DEF Commit, Launcher!TargetReturns
  <2> QED
    BY <1>8, <2>1 DEF Commit, Launcher!TargetReturns, Promised!Publish
<1>9. ASSUME NEW p \in Pages, NEW text \in Versions, Edit(p, text)
      PROVE  Promised!Write(p, text)
  <2>1. looks' = looks
    BY <1>9 DEF Edit
  <2> QED
    BY <1>9, <2>1 DEF Edit, Promised!Write
<1>10. ASSUME NEW p \in Pages, SetItem(p) \/ DelItem(p)
       PROVE  \E text \in Versions : Promised!Write(p, text)
  <2>1. \E text \in Versions : Edit(p, text)
    BY <1>10 DEF SetItem, DelItem, Edit, Versions
  <2> QED
    BY <2>1, <1>9
<1> HIDE DEF looks, same
<1> QED
  BY <1>0, <1>1, <1>2, <1>3, <1>4, <1>5, <1>6, <1>7, <1>8, <1>10
     DEF Next, TargetStep, Promised!Next

\* The page database implements what it promises: for any pages, edits, flushes
\* and cancellations, copying is as good as looking once, and a flush publishes
\* what it has looked at or is answered with a view that is up to date
\* (page_database.py:40-64).
THEOREM SnapshotsKept == Spec => KeepsSnapshots
<1>1. Init => Promised!Init /\ CopyHasWork
  BY DEF Init, Promised!Init, Promised!Blank, Empty, InPipeline, At, CopyHasWork,
      Launcher!Init
<1> QED
  BY <1>1, InductiveInvariance, WorkInvariance, StepIsPromised, PTL
     DEF Spec, KeepsSnapshots, Promised!Spec
=============================================================================
