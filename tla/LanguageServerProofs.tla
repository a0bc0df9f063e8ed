------------------------ MODULE LanguageServerProofs ------------------------
(***************************************************************************)
(* Proofs about LanguageServer, for any files and any number of requests:  *)
(* its types, and what is true of the server whenever it has settled.      *)
(*                                                                         *)
(* "Settled" says that nobody has anything left to do.  The inductive      *)
(* invariants turn this around: as long as a file is not as it should be,  *)
(* they name who still has something to do about it.                       *)
(***************************************************************************)
EXTENDS LanguageServer, SequenceTheorems, TLAPS

USE DEF clientVars, queueVars, launchVars, pageVars, Requests, Flushes

\* A request that is on its way through update_file keeps its number and its update; an update that
\* was put belongs to a request whose update_file has returned; requests that have not come yet have
\* neither thread nor timer.
Calling == {"armed", "lock", "cancel", "join", "put"}

Queued(update) ==
    update \in Updates /\ update.n \in Requests /\ updater[update.n] = "done"

Numbering ==
    /\ \A n \in Requests : n > sent => /\ updater[n] = "none" /\ flush[n] = "none"
                                       /\ worker[n] = "none"
    /\ \A n \in Requests : updater[n] \in Calling => request[n] \in Updates /\ request[n].n = n
    /\ \A i \in DOMAIN pending : Queued(pending[i])
    /\ updating.step # "get" => Queued(updating.update)

LEMMA NotAnUpdate == NoUpdate \notin Updates
  BY DEF NoUpdate, Updates

\* The queue: what put and get do to a sequence with one update for each file.

OnePerFile(q) == \A i, j \in DOMAIN q : q[i].file = q[j].file => i = j

LEMMA PutOne ==
    ASSUME pending \in Seq(Updates), OnePerFile(pending), NEW u \in Updates, QueuePut(u)
    PROVE  /\ pending' \in Seq(Updates) /\ OnePerFile(pending')
           /\ \E i \in DOMAIN pending' : pending'[i] = u
           /\ \A i \in DOMAIN pending' :
                 pending'[i] = u \/ \E j \in DOMAIN pending : pending'[i] = pending[j]
           /\ \A i \in DOMAIN pending' : pending'[i].file = u.file => pending'[i] = u
           /\ \A j \in DOMAIN pending : pending[j].file # u.file =>
                 \E i \in DOMAIN pending' : pending'[i] = pending[j]
<1>1. CASE \E i \in DOMAIN pending : pending[i].file = u.file
  <2>1. pending' = [i \in DOMAIN pending |-> IF pending[i].file = u.file THEN u ELSE pending[i]]
    BY <1>1 DEF QueuePut
  <2>2. DOMAIN pending = 1..Len(pending) /\ Len(pending) \in Nat
        /\ \A i \in DOMAIN pending : pending[i] \in Updates
    OBVIOUS
  <2>3. pending' \in Seq(Updates) /\ DOMAIN pending' = DOMAIN pending
    BY <2>1, <2>2
  <2> QED
    BY <1>1, <2>1, <2>2, <2>3 DEF OnePerFile
<1>2. CASE ~\E i \in DOMAIN pending : pending[i].file = u.file
  <2>1. pending' = Append(pending, u)
    BY <1>2 DEF QueuePut
  <2>2. /\ pending' \in Seq(Updates) /\ Len(pending) \in Nat
        /\ DOMAIN pending = 1..Len(pending) /\ DOMAIN pending' = 1..(Len(pending) + 1)
        /\ pending'[Len(pending) + 1] = u
        /\ \A i \in DOMAIN pending : pending'[i] = pending[i]
    BY <2>1
  <2>3. \A i \in DOMAIN pending' : i \in DOMAIN pending \/ i = Len(pending) + 1
    BY <2>2
  <2>4. DOMAIN pending \subseteq DOMAIN pending' /\ Len(pending) + 1 \in DOMAIN pending'
    BY <2>2
  <2> QED
    BY <1>2, <2>2, <2>3, <2>4 DEF OnePerFile
<1> QED
  BY <1>1, <1>2

LEMMA GetOne ==
    ASSUME pending \in Seq(Updates), OnePerFile(pending), pending # <<>>, pending' = Tail(pending)
    PROVE  /\ pending' \in Seq(Updates) /\ OnePerFile(pending')
           /\ Head(pending) = pending[1] /\ 1 \in DOMAIN pending /\ pending[1] \in Updates
           /\ \A i \in DOMAIN pending' :
                 \E j \in DOMAIN pending : pending'[i] = pending[j] /\ pending[j].file # pending[1].file
           /\ \A j \in DOMAIN pending : pending[j].file # pending[1].file =>
                 \E i \in DOMAIN pending' : pending'[i] = pending[j]
<1>1. /\ Len(pending) \in Nat \ {0} /\ DOMAIN pending = 1..Len(pending)
      /\ Head(pending) = pending[1] /\ pending' \in Seq(Updates)
      /\ DOMAIN pending' = 1..(Len(pending) - 1)
      /\ \A i \in DOMAIN pending' : pending'[i] = pending[i + 1]
  BY EmptySeq
<1>2. \A i \in DOMAIN pending' : i + 1 \in DOMAIN pending /\ i + 1 # 1
  BY <1>1
<1>3. \A j \in DOMAIN pending : j # 1 => j - 1 \in DOMAIN pending' /\ (j - 1) + 1 = j
  BY <1>1
<1>4. 1 \in DOMAIN pending
  BY <1>1
<1>5. \A i, j \in DOMAIN pending' : i + 1 = j + 1 => i = j
  BY <1>1
<1>6. \A i \in DOMAIN pending' :
         pending'[i] = pending[i + 1] /\ pending[i + 1].file # pending[1].file
  BY <1>1, <1>2, <1>4, Zenon DEF OnePerFile
<1>7. OnePerFile(pending')
  <2> SUFFICES ASSUME NEW i \in DOMAIN pending', NEW j \in DOMAIN pending',
                      pending'[i].file = pending'[j].file
               PROVE  i = j
    BY DEF OnePerFile
  <2>1. i + 1 = j + 1
    BY <1>1, <1>2 DEF OnePerFile
  <2> QED
    BY <1>5, <2>1
<1>8. ASSUME NEW j \in DOMAIN pending, pending[j].file # pending[1].file
      PROVE  j - 1 \in DOMAIN pending' /\ pending'[j - 1] = pending[j]
  <2>1. j # 1
    BY <1>8
  <2> QED
    BY <1>1, <1>3, <2>1
<1>9. pending[1] \in Updates
  BY <1>1
<1>10. ASSUME NEW i \in DOMAIN pending'
       PROVE  \E j \in DOMAIN pending : pending'[i] = pending[j] /\ pending[j].file # pending[1].file
  BY <1>2, <1>6
<1>11. ASSUME NEW j \in DOMAIN pending, pending[j].file # pending[1].file
       PROVE  \E i \in DOMAIN pending' : pending'[i] = pending[j]
  <2>1. j - 1 \in DOMAIN pending' /\ pending'[j - 1] = pending[j]
    BY <1>8, <1>11
  <2> QED
    BY <2>1
<1> QED
  BY <1>1, <1>4, <1>7, <1>9, <1>10, <1>11
-----------------------------------------------------------------------------
\* Types and numbers.

LEMMA NewRequest ==
    ASSUME TypeOK, sent < MaxRequests
    PROVE  /\ sent + 1 \in Requests /\ sent + 1 \in Flushes /\ sent + 1 \in 0..MaxRequests
           /\ sent + 2 \in Versions /\ 0 \in Versions /\ sent + 1 \in 0..(sent + 1)
           /\ 0 \in Flushes /\ sent + 1 > sent
           /\ \A n \in Requests : n > sent + 1 => n > sent /\ n # sent + 1
  BY ServerAssumption DEF TypeOK, ServerAssumption, Versions

LEMMA HoldersAre ==
    /\ \A n \in Requests : <<"request", n>> \in Holders
    /\ \A n \in Flushes : <<"flush", n>> \in Holders /\ <<"update", n>> \in Holders
    /\ Nobody \in Holders
<1>1. \A n \in Requests : n \in Flushes
  BY ServerAssumption DEF ServerAssumption
<1> QED
  BY <1>1 DEF Holders

LEMMA UpdateOf ==
    ASSUME NEW u \in Updates
    PROVE  /\ u.n \in Flushes /\ u.file \in Files /\ u.type \in {"Changed", "Deleted"}
           /\ u.text \in Versions
  BY DEF Updates

LEMMA InitTypes == Init => TypeOK
<1> SUFFICES ASSUME Init PROVE TypeOK
  OBVIOUS
<1>1. 0 \in Versions /\ 1 \in Versions /\ 0 \in Flushes /\ 0 \in 0..0 /\ 0 \in 0..MaxRequests
  BY ServerAssumption DEF ServerAssumption, Versions
<1>2. pending \in Seq(Updates) /\ DOMAIN pending = {}
  BY DEF Init
<1>3. disk \in Contents /\ NoContent \in Contents
  BY <1>1 DEF Init, Contents, NoContent
<1>4. updating \in [step : {"get", "lock", "work", "set", "publish"},
                    update : Updates \cup {NoUpdate}, text : Versions]
  BY <1>1 DEF Init, Idle
<1>5. /\ request \in [Requests -> Updates \cup {NoUpdate}]
      /\ updater \in [Requests -> UpdaterStates]
      /\ lastPut \in [Files -> Updates \cup {NoUpdate}]
  BY DEF Init, UpdaterStates
<1>6. /\ flush \in [Flushes -> FlushStates] /\ worker \in [Flushes -> WorkerStates]
  BY DEF Init, FlushStates, WorkerStates
<1>7. copied \in [Flushes -> Contents] /\ merged \in [Flushes -> Contents]
  BY <1>3 DEF Init
<1>8. view \in [Files -> [parse : Versions, post : Contents \cup {Raw}]]
  BY <1>1 DEF Init
<1>9. projectLock \in Holders /\ launcherLock \in Holders
  BY DEF Init, Holders
<1> QED
  BY <1>1, <1>2, <1>3, <1>4, <1>5, <1>6, <1>7, <1>8, <1>9, ServerAssumption
  DEF Init, TypeOK, ServerAssumption

LEMMA InitNumbering == Init => Numbering
  BY DEF Init, Numbering, Idle, Calling

LEMMA TypeStep ==
    ASSUME TypeOK, Numbering, [Next]_vars
    PROVE  TypeOK'
<1> USE ServerAssumption DEF ServerAssumption
<1>1. ASSUME NEW f \in Files, DidOpen(f) PROVE TypeOK'
  BY <1>1, NewRequest DEF DidOpen, Receive, CallUpdateFile, Debounce, TypeOK, Updates, UpdaterStates, Contents
<1>2. ASSUME NEW f \in Files, DidChange(f) PROVE TypeOK'
  BY <1>2, NewRequest DEF DidChange, Receive, CallUpdateFile, Debounce, TypeOK, Updates, UpdaterStates, Contents
<1>3. ASSUME NEW f \in Files, DidClose(f) PROVE TypeOK'
  BY <1>3, NewRequest DEF DidClose, Receive, CallUpdateFile, Debounce, TypeOK, Updates, UpdaterStates, Contents
<1>4. ASSUME NEW f \in Files, NEW type \in {"Changed", "Deleted"}, DidChangeWatchedFile(f, type) PROVE TypeOK'
  BY <1>4, NewRequest DEF DidChangeWatchedFile, Receive, CallUpdateFile, TypeOK, Updates, UpdaterStates, Contents
<1>5. ASSUME GetPageAst PROVE TypeOK'
  BY <1>5, NewRequest DEF GetPageAst, TypeOK, UpdaterStates, FlushStates
<1>6. ASSUME NEW n \in Requests, ChangeTimerFires(n) PROVE TypeOK'
  BY <1>6 DEF ChangeTimerFires, GotoUpdater, TypeOK, UpdaterStates
<1>7. ASSUME NEW n \in Requests, TakeProjectLock(n) PROVE TypeOK'
  BY <1>7 DEF TakeProjectLock, GotoUpdater, TypeOK, UpdaterStates, Holders
<1>8. ASSUME NEW n \in Requests, CancelPostprocessor(n) PROVE TypeOK'
  <2>1. launcherLock' \in Holders
    BY <1>8, HoldersAre DEF CancelPostprocessor
  <2>2. event' \in BOOLEAN
    BY <1>8 DEF CancelPostprocessor, CancelBegin, SomeWorkerAlive, Alive
  <2> QED
    BY <1>8, <2>1, <2>2 DEF CancelPostprocessor, GotoUpdater, TypeOK, UpdaterStates
<1>9. ASSUME NEW n \in Requests, Cancelled(n) PROVE TypeOK'
  BY <1>9 DEF Cancelled, GotoUpdater, TypeOK, UpdaterStates, CancelEnd, Holders
<1>10. ASSUME NEW n \in Requests, PutUpdate(n) PROVE TypeOK'
  <2>1. request[n] \in Updates /\ request[n].file \in Files
    BY <1>10, UpdateOf DEF PutUpdate, GotoUpdater, Numbering, Calling
  <2>2. pending' \in Seq(Updates) /\ OnePerFile(pending')
    BY <1>10, <2>1, PutOne DEF PutUpdate, TypeOK, OnePerFile
  <2>3. lastPut' \in [Files -> Updates \cup {NoUpdate}]
    BY <1>10, <2>1 DEF PutUpdate, TypeOK
  <2>4. request' \in [Requests -> Updates \cup {NoUpdate}]
    BY <1>10 DEF PutUpdate, TypeOK
  <2>5. updater' \in [Requests -> UpdaterStates] /\ serving' \in 0..sent'
    BY <1>10 DEF PutUpdate, GotoUpdater, TypeOK, UpdaterStates
  <2>6. refused' \subseteq Files
    BY <1>10 DEF PutUpdate, TypeOK
  <2> QED
    BY <1>10, <2>2, <2>3, <2>4, <2>5, <2>6 DEF PutUpdate, TypeOK, OnePerFile
<1>11. ASSUME GetUpdate PROVE TypeOK'
  BY <1>11, GetOne DEF GetUpdate, TypeOK, OnePerFile, Versions
<1>12. ASSUME LockForUpdate PROVE TypeOK'
  <2>1. projectLock' \in Holders
    BY <1>12, HoldersAre, UpdateOf DEF LockForUpdate, Numbering, Queued
  <2> QED
    BY <1>12, <2>1 DEF LockForUpdate, TypeOK
<1>13. ASSUME ParseFile PROVE TypeOK'
  <2>1. TextOf(updating.update) \in Versions
    BY <1>13, UpdateOf DEF ParseFile, Works, TextOf, TypeOK, Numbering, Queued, Updates, Contents
  <2>2. view' \in [Files -> [parse : Versions, post : Contents \cup {Raw}]]
    BY <1>13, <2>1 DEF ParseFile, ShowParse, TypeOK
  <2>3. updating' \in [step : {"get", "lock", "work", "set", "publish"},
                      update : Updates \cup {NoUpdate}, text : Versions]
    BY <1>13, <2>1 DEF ParseFile, TypeOK
  <2> QED
    BY <1>13, <2>2, <2>3 DEF ParseFile, TypeOK
<1>14. ASSUME SetPage PROVE TypeOK'
  <2>1. updating.update.file \in Files /\ updating.text \in Versions
    BY <1>14, UpdateOf DEF SetPage, TypeOK, Numbering, Queued
  <2>2. parsed' \in Contents /\ changed' \subseteq Files
    BY <1>14, <2>1 DEF SetPage, ChangePage, TypeOK, Contents
  <2>3. updating' \in [step : {"get", "lock", "work", "set", "publish"},
                      update : Updates \cup {NoUpdate}, text : Versions]
    BY <1>14 DEF SetPage, TypeOK
  <2> QED
    BY <1>14, <2>2, <2>3 DEF SetPage, TypeOK
<1>15. ASSUME EndOfUpdate PROVE TypeOK'
  BY <1>15 DEF EndOfUpdate, ShowParse, ArmPostprocess, Idle, TypeOK, FlushStates, Holders, Versions, Numbering, Queued, Updates
<1>16. ASSUME UpdateRaises PROVE TypeOK'
  <2>1. refused' \subseteq Files
    BY <1>16, UpdateOf DEF UpdateRaises, MayRaise, Works, Refuse, TypeOK, Numbering, Queued
  <2> QED
    BY <1>16, <2>1 DEF UpdateRaises, ArmPostprocess, Idle, TypeOK, FlushStates, Holders, Versions
<1>17. ASSUME DeletePage PROVE TypeOK'
  <2>1. updating.update.file \in Files /\ 0 \in Versions
    BY <1>17, UpdateOf DEF DeletePage, Works, Numbering, Queued, Versions
  <2>2. parsed' \in Contents /\ changed' \subseteq Files
    BY <1>17, <2>1 DEF DeletePage, ChangePage, TypeOK, Contents
  <2>3. updating' \in [step : {"get", "lock", "work", "set", "publish"},
                      update : Updates \cup {NoUpdate}, text : Versions]
    BY <1>17, <2>1 DEF DeletePage, ArmPostprocess, Idle
  <2>4. flush' \in [Flushes -> FlushStates] /\ projectLock' \in Holders
    BY <1>17, HoldersAre DEF DeletePage, ArmPostprocess, TypeOK, FlushStates
  <2> QED
    BY <1>17, <2>2, <2>3, <2>4 DEF DeletePage, ArmPostprocess, TypeOK
<1>18. ASSUME NEW n \in Flushes, PostprocessTimerFires(n) PROVE TypeOK'
  BY <1>18 DEF PostprocessTimerFires, GotoFlush, TypeOK, FlushStates
<1>19. ASSUME NEW n \in Flushes, Postprocess(n) PROVE TypeOK'
  BY <1>19 DEF Postprocess, GotoFlush, TypeOK, FlushStates
<1>20. ASSUME NEW n \in Flushes, FlushCancels(n) PROVE TypeOK'
  <2>1. launcherLock' \in Holders
    BY <1>20, HoldersAre DEF FlushCancels
  <2>2. swept' \in BOOLEAN /\ event' \in BOOLEAN
    BY <1>20 DEF FlushCancels, CancelBegin, TypeOK, SomeWorkerAlive, Alive
  <2> QED
    BY <1>20, <2>1, <2>2 DEF FlushCancels, GotoFlush, TypeOK, FlushStates
<1>21. ASSUME NEW n \in Flushes, FlushLaunches(n) PROVE TypeOK'
  BY <1>21 DEF FlushLaunches, GotoFlush, TypeOK, FlushStates, CancelEnd, Holders, WorkerStates
<1>22. ASSUME NEW n \in Flushes, FlushRaises(n) PROVE TypeOK'
  BY <1>22 DEF FlushRaises, GotoFlush, TypeOK, FlushStates, Forget, NoContent, Contents, Versions
<1>23. ASSUME NEW n \in Flushes, MergeDiagnostics(n) PROVE TypeOK'
  BY <1>23 DEF MergeDiagnostics, GotoFlush, TypeOK, FlushStates
<1>24. ASSUME NEW n \in Flushes, Publish(n) PROVE TypeOK'
  <2>1. copied[n] \in Contents /\ merged[n] \in Contents /\ NoContent \in Contents
    BY DEF TypeOK, Contents, NoContent, Versions
  <2>2. copied' \in [Flushes -> Contents] /\ merged' \in [Flushes -> Contents]
    BY <1>24, <2>1 DEF Publish, Forget, TypeOK
  <2>3. \A f \in Files : [parse |-> merged[n][f], post |-> copied[n]]
                             \in [parse : Versions, post : Contents \cup {Raw}]
    BY <2>1 DEF Contents
  <2>4. view' \in [Files -> [parse : Versions, post : Contents \cup {Raw}]]
    BY <1>24, <2>3 DEF Publish, TypeOK
  <2>5. flush' \in [Flushes -> FlushStates]
    BY <1>24 DEF Publish, GotoFlush, TypeOK, FlushStates
  <2> QED
    BY <1>24, <2>2, <2>4, <2>5 DEF Publish, TypeOK
<1>25. ASSUME NEW n \in Flushes, TakeLockForPreview(n) PROVE TypeOK'
  BY <1>25 DEF TakeLockForPreview, GotoFlush, TypeOK, FlushStates
<1>26. ASSUME NEW n \in Flushes, PreviewReturns(n) PROVE TypeOK'
  <2>1. NoContent \in Contents
    BY DEF Contents, NoContent, Versions
  <2>2. copied' \in [Flushes -> Contents] /\ merged' \in [Flushes -> Contents]
    BY <1>26, <2>1 DEF PreviewReturns, Forget, TypeOK
  <2>3. flush' \in [Flushes -> FlushStates]
    BY <1>26 DEF PreviewReturns, GotoFlush, TypeOK, FlushStates
  <2>4. updater' \in [Requests -> UpdaterStates] /\ serving' \in 0..sent'
    BY <1>26 DEF PreviewReturns, TypeOK, UpdaterStates, Previews
  <2> QED
    BY <1>26, <2>2, <2>3, <2>4 DEF PreviewReturns, TypeOK
<1>27. ASSUME NEW n \in Flushes, NothingChanged(n) PROVE TypeOK'
  BY <1>27 DEF NothingChanged, EndWorker, TypeOK, WorkerStates, Returned
<1>28. ASSUME NEW n \in Flushes, CopyPages(n) PROVE TypeOK'
  BY <1>28 DEF CopyPages, EndWorker, TypeOK, WorkerStates
<1>29. ASSUME NEW n \in Flushes, SeesCancellation(n) PROVE TypeOK'
  BY <1>29 DEF SeesCancellation, EndWorker, TypeOK, WorkerStates
<1>30. ASSUME NEW n \in Flushes, PipelineFails(n) PROVE TypeOK'
  BY <1>30 DEF PipelineFails, EndWorker, TypeOK, WorkerStates
<1>31. ASSUME NEW n \in Flushes, Commit(n) PROVE TypeOK'
  BY <1>31 DEF Commit, EndWorker, TypeOK, WorkerStates, Returned
<1>32. ASSUME UNCHANGED vars PROVE TypeOK'
  BY <1>32 DEF vars, TypeOK
<1> QED
  BY <1>1, <1>2, <1>3, <1>4, <1>5, <1>6, <1>7, <1>8, <1>9, <1>10, <1>11, <1>12, <1>13, <1>14, <1>15, <1>16, <1>17, <1>18, <1>19, <1>20, <1>21, <1>22, <1>23, <1>24, <1>25, <1>26, <1>27, <1>28, <1>29, <1>30, <1>31, <1>32
  DEF Next, ClientStep, ServerStep, UpdaterStep, UpdateThreadStep, FlushStep, WorkerStep

\* A thread that exists goes on, and so may its worker: the rest is as it was.
LEMMA NumberingKept ==
    ASSUME TypeOK, Numbering,
           UNCHANGED <<sent, request, pending, updating, updater>>,
           NEW n \in Flushes, n \in Requests => flush[n] # "none",
           flush' = flush \/ \E s \in FlushStates : flush' = [flush EXCEPT ![n] = s],
           worker' = worker \/ \E s \in WorkerStates : worker' = [worker EXCEPT ![n] = s]
    PROVE  Numbering'
<1>1. \A m \in Requests : m > sent => m # n /\ m \in Flushes
  BY ServerAssumption DEF Numbering, ServerAssumption
<1>2. \A m \in Flushes : m # n => flush'[m] = flush[m] /\ worker'[m] = worker[m]
  BY DEF TypeOK
<1>3. \A m \in Requests : m > sent => /\ updater'[m] = "none" /\ flush'[m] = "none"
                                      /\ worker'[m] = "none"
  BY <1>1, <1>2 DEF Numbering
<1> QED
  BY <1>3 DEF Numbering, Queued, Calling

LEMMA NumberingStep ==
    ASSUME TypeOK, Numbering, [Next]_vars
    PROVE  Numbering'
<1> USE ServerAssumption DEF ServerAssumption
<1>1. ASSUME NEW f \in Files, DidOpen(f) PROVE Numbering'
  BY <1>1, NewRequest DEF DidOpen, Receive, CallUpdateFile, TypeOK, Numbering, Queued, Calling, Updates
<1>2. ASSUME NEW f \in Files, DidChange(f) PROVE Numbering'
  BY <1>2, NewRequest DEF DidChange, Receive, Debounce, TypeOK, Numbering, Queued, Calling, Updates
<1>3. ASSUME NEW f \in Files, DidClose(f) PROVE Numbering'
  BY <1>3, NewRequest DEF DidClose, Receive, CallUpdateFile, TypeOK, Numbering, Queued, Calling, Updates
<1>4. ASSUME NEW f \in Files, NEW type \in {"Changed", "Deleted"}, DidChangeWatchedFile(f, type) PROVE Numbering'
  BY <1>4, NewRequest DEF DidChangeWatchedFile, Receive, CallUpdateFile, TypeOK, Numbering, Queued, Calling, Updates
<1>5. ASSUME GetPageAst PROVE Numbering'
  BY <1>5, NewRequest DEF GetPageAst, TypeOK, Numbering, Queued, Calling
<1>6. ASSUME NEW n \in Requests, ChangeTimerFires(n) PROVE Numbering'
  BY <1>6 DEF ChangeTimerFires, GotoUpdater, TypeOK, Numbering, Queued, Calling
<1>7. ASSUME NEW n \in Requests, TakeProjectLock(n) PROVE Numbering'
  BY <1>7 DEF TakeProjectLock, GotoUpdater, TypeOK, Numbering, Queued, Calling
<1>8. ASSUME NEW n \in Requests, CancelPostprocessor(n) PROVE Numbering'
  BY <1>8 DEF CancelPostprocessor, GotoUpdater, TypeOK, Numbering, Queued, Calling
<1>9. ASSUME NEW n \in Requests, Cancelled(n) PROVE Numbering'
  BY <1>9 DEF Cancelled, GotoUpdater, TypeOK, Numbering, Queued, Calling
<1>10. ASSUME NEW n \in Requests, PutUpdate(n) PROVE Numbering'
  <2>1. request[n] \in Updates /\ request[n].n = n /\ updater[n] = "put" /\ updater'[n] = "done"
    BY <1>10 DEF PutUpdate, GotoUpdater, Numbering, Calling, TypeOK
  <2>2. \A i \in DOMAIN pending' : pending'[i] = request[n] \/ \E j \in DOMAIN pending : pending'[i] = pending[j]
    BY <1>10, <2>1, PutOne DEF PutUpdate, TypeOK, OnePerFile
  <2>3. \A m \in Requests : m # n => updater'[m] = updater[m] /\ request'[m] = request[m]
    BY <1>10 DEF PutUpdate, GotoUpdater, TypeOK
  <2>4. \A u : Queued(u) => Queued(u)'
    BY <2>1, <2>3 DEF Queued
  <2>5. \A u : u = request[n] => Queued(u)'
    BY <2>1 DEF Queued
  <2>6. (\A i \in DOMAIN pending : Queued(pending[i]))'
    BY <2>2, <2>4, <2>5 DEF Numbering
  <2>7. /\ \A m \in Requests : m > sent => /\ updater'[m] = "none" /\ flush[m] = "none"
                                           /\ worker[m] = "none"
        /\ \A m \in Requests : updater'[m] \in Calling => request'[m] \in Updates /\ request'[m].n = m
    BY <2>1, <2>3 DEF Numbering, Calling
  <2>8. UNCHANGED <<sent, updating, flush, worker>>
    BY <1>10 DEF PutUpdate
  <2> QED
    BY <2>4, <2>6, <2>7, <2>8 DEF Numbering
<1>11. ASSUME GetUpdate PROVE Numbering'
  <2>1. /\ \A i \in DOMAIN pending' : \E j \in DOMAIN pending : pending'[i] = pending[j]
        /\ \E j \in DOMAIN pending : updating'.update = pending[j]
    BY <1>11, GetOne DEF GetUpdate, TypeOK, OnePerFile
  <2>2. UNCHANGED <<sent, request, updater, flush, worker>>
    BY <1>11 DEF GetUpdate
  <2>3. \A u : Queued(u) => Queued(u)'
    BY <2>2 DEF Queued
  <2> QED
    BY <2>1, <2>2, <2>3 DEF Numbering
<1>12. ASSUME LockForUpdate PROVE Numbering'
  BY <1>12 DEF LockForUpdate, TypeOK, Numbering, Queued, Calling
<1>13. ASSUME ParseFile PROVE Numbering'
  BY <1>13 DEF ParseFile, Works, TypeOK, Numbering, Queued, Calling
<1>14. ASSUME SetPage PROVE Numbering'
  BY <1>14 DEF SetPage, TypeOK, Numbering, Queued, Calling
<1>15. ASSUME EndOfUpdate PROVE Numbering'
  <2>1. UNCHANGED <<sent, request, updater, pending, worker>> /\ updating'.step = "get"
    BY <1>15 DEF EndOfUpdate, ArmPostprocess, Idle
  <2>2. updating.update.n \in Requests /\ ~(updating.update.n > sent)
    BY <1>15 DEF EndOfUpdate, Works, Numbering, Queued
  <2>3. \A m \in Requests : m > sent => flush'[m] = "none"
    BY <1>15, <2>2 DEF EndOfUpdate, ArmPostprocess, Numbering
  <2> QED
    BY <2>1, <2>3 DEF Numbering, Queued, Calling
<1>16. ASSUME UpdateRaises PROVE Numbering'
  <2>1. UNCHANGED <<sent, request, updater, pending, worker>> /\ updating'.step = "get"
    BY <1>16 DEF UpdateRaises, ArmPostprocess, Idle
  <2>2. updating.update.n \in Requests /\ ~(updating.update.n > sent)
    BY <1>16 DEF UpdateRaises, MayRaise, Works, Numbering, Queued
  <2>3. \A m \in Requests : m > sent => flush'[m] = "none"
    BY <1>16, <2>2 DEF UpdateRaises, ArmPostprocess, Numbering
  <2> QED
    BY <2>1, <2>3 DEF Numbering, Queued, Calling
<1>17. ASSUME DeletePage PROVE Numbering'
  <2>1. UNCHANGED <<sent, request, updater, pending, worker>> /\ updating'.step = "get"
    BY <1>17 DEF DeletePage, ArmPostprocess, Idle
  <2>2. updating.update.n \in Requests /\ ~(updating.update.n > sent)
    BY <1>17 DEF DeletePage, Works, Numbering, Queued
  <2>3. \A m \in Requests : m > sent => flush'[m] = "none"
    BY <1>17, <2>2 DEF DeletePage, ArmPostprocess, Numbering
  <2> QED
    BY <2>1, <2>3 DEF Numbering, Queued, Calling
<1>18. ASSUME NEW n \in Flushes, PostprocessTimerFires(n) PROVE Numbering'
  <2>1. flush[n] # "none" /\ UNCHANGED <<sent, request, pending, updating, updater>>
    BY <1>18 DEF PostprocessTimerFires, GotoFlush
  <2>2. /\ \E s \in FlushStates : flush' = [flush EXCEPT ![n] = s]
        /\ worker' = worker \/ \E s \in WorkerStates : worker' = [worker EXCEPT ![n] = s]
    BY <1>18 DEF PostprocessTimerFires, GotoFlush, FlushStates
  <2> QED
    BY <2>1, <2>2, NumberingKept
<1>19. ASSUME NEW n \in Flushes, Postprocess(n) PROVE Numbering'
  <2>1. flush[n] # "none" /\ UNCHANGED <<sent, request, pending, updating, updater>>
    BY <1>19 DEF Postprocess, GotoFlush
  <2>2. /\ \E s \in FlushStates : flush' = [flush EXCEPT ![n] = s]
        /\ worker' = worker \/ \E s \in WorkerStates : worker' = [worker EXCEPT ![n] = s]
    BY <1>19 DEF Postprocess, GotoFlush, FlushStates
  <2> QED
    BY <2>1, <2>2, NumberingKept
<1>20. ASSUME NEW n \in Flushes, FlushCancels(n) PROVE Numbering'
  <2>1. flush[n] # "none" /\ UNCHANGED <<sent, request, pending, updating, updater>>
    BY <1>20 DEF FlushCancels, GotoFlush
  <2>2. /\ \E s \in FlushStates : flush' = [flush EXCEPT ![n] = s]
        /\ worker' = worker \/ \E s \in WorkerStates : worker' = [worker EXCEPT ![n] = s]
    BY <1>20 DEF FlushCancels, GotoFlush, FlushStates
  <2> QED
    BY <2>1, <2>2, NumberingKept
<1>21. ASSUME NEW n \in Flushes, FlushLaunches(n) PROVE Numbering'
  <2>1. flush[n] # "none" /\ UNCHANGED <<sent, request, pending, updating, updater>>
    BY <1>21 DEF FlushLaunches, GotoFlush
  <2>2. /\ \E s \in FlushStates : flush' = [flush EXCEPT ![n] = s]
        /\ worker' = worker \/ \E s \in WorkerStates : worker' = [worker EXCEPT ![n] = s]
    BY <1>21 DEF FlushLaunches, GotoFlush, FlushStates, WorkerStates
  <2> QED
    BY <2>1, <2>2, NumberingKept
<1>22. ASSUME NEW n \in Flushes, FlushRaises(n) PROVE Numbering'
  <2>1. flush[n] # "none" /\ UNCHANGED <<sent, request, pending, updating, updater>>
    BY <1>22 DEF FlushRaises, GotoFlush
  <2>2. /\ \E s \in FlushStates : flush' = [flush EXCEPT ![n] = s]
        /\ worker' = worker \/ \E s \in WorkerStates : worker' = [worker EXCEPT ![n] = s]
    BY <1>22 DEF FlushRaises, GotoFlush, FlushStates
  <2> QED
    BY <2>1, <2>2, NumberingKept
<1>23. ASSUME NEW n \in Flushes, MergeDiagnostics(n) PROVE Numbering'
  <2>1. flush[n] # "none" /\ UNCHANGED <<sent, request, pending, updating, updater>>
    BY <1>23 DEF MergeDiagnostics, GotoFlush
  <2>2. /\ \E s \in FlushStates : flush' = [flush EXCEPT ![n] = s]
        /\ worker' = worker \/ \E s \in WorkerStates : worker' = [worker EXCEPT ![n] = s]
    BY <1>23 DEF MergeDiagnostics, GotoFlush, FlushStates
  <2> QED
    BY <2>1, <2>2, NumberingKept
<1>24. ASSUME NEW n \in Flushes, Publish(n) PROVE Numbering'
  <2>1. flush[n] # "none" /\ UNCHANGED <<sent, request, pending, updating, updater>>
    BY <1>24 DEF Publish, GotoFlush
  <2>2. /\ \E s \in FlushStates : flush' = [flush EXCEPT ![n] = s]
        /\ worker' = worker \/ \E s \in WorkerStates : worker' = [worker EXCEPT ![n] = s]
    BY <1>24 DEF Publish, GotoFlush, FlushStates
  <2> QED
    BY <2>1, <2>2, NumberingKept
<1>25. ASSUME NEW n \in Flushes, TakeLockForPreview(n) PROVE Numbering'
  <2>1. flush[n] # "none" /\ UNCHANGED <<sent, request, pending, updating, updater>>
    BY <1>25 DEF TakeLockForPreview, GotoFlush
  <2>2. /\ \E s \in FlushStates : flush' = [flush EXCEPT ![n] = s]
        /\ worker' = worker \/ \E s \in WorkerStates : worker' = [worker EXCEPT ![n] = s]
    BY <1>25 DEF TakeLockForPreview, GotoFlush, FlushStates
  <2> QED
    BY <2>1, <2>2, NumberingKept
<1>26. ASSUME NEW n \in Flushes, PreviewReturns(n) PROVE Numbering'
  BY <1>26 DEF PreviewReturns, GotoFlush, TypeOK, Numbering, Queued, Calling, Previews
<1>27. ASSUME NEW n \in Flushes, NothingChanged(n) PROVE Numbering'
  BY <1>27 DEF NothingChanged, EndWorker, TypeOK, Numbering, Queued, Calling
<1>28. ASSUME NEW n \in Flushes, CopyPages(n) PROVE Numbering'
  BY <1>28 DEF CopyPages, EndWorker, TypeOK, Numbering, Queued, Calling
<1>29. ASSUME NEW n \in Flushes, SeesCancellation(n) PROVE Numbering'
  BY <1>29 DEF SeesCancellation, EndWorker, TypeOK, Numbering, Queued, Calling
<1>30. ASSUME NEW n \in Flushes, PipelineFails(n) PROVE Numbering'
  BY <1>30 DEF PipelineFails, EndWorker, TypeOK, Numbering, Queued, Calling
<1>31. ASSUME NEW n \in Flushes, Commit(n) PROVE Numbering'
  BY <1>31 DEF Commit, EndWorker, TypeOK, Numbering, Queued, Calling
<1>32. ASSUME UNCHANGED vars PROVE Numbering'
  BY <1>32 DEF vars, TypeOK, Numbering, Queued, Calling
<1> QED
  BY <1>1, <1>2, <1>3, <1>4, <1>5, <1>6, <1>7, <1>8, <1>9, <1>10, <1>11, <1>12, <1>13, <1>14, <1>15, <1>16, <1>17, <1>18, <1>19, <1>20, <1>21, <1>22, <1>23, <1>24, <1>25, <1>26, <1>27, <1>28, <1>29, <1>30, <1>31, <1>32
  DEF Next, ClientStep, ServerStep, UpdaterStep, UpdateThreadStep, FlushStep, WorkerStep

\* The types of all that the server keeps, in every state it can get into (TypeOK).
THEOREM TypesHold == Spec => []TypeOK
<1>1. Init => TypeOK /\ Numbering
  BY InitTypes, InitNumbering
<1>2. TypeOK /\ Numbering /\ [Next]_vars => (TypeOK /\ Numbering)'
  BY TypeStep, NumberingStep
<1> QED
  BY <1>1, <1>2, PTL DEF Spec
-----------------------------------------------------------------------------
\* What is still to be postprocessed or merged is due to somebody: an update that is on its way, or a
\* thread that will start a worker.

Updating ==
    \/ \E n \in Requests : updater[n] \in {"join", "put"}
    \/ pending # <<>> \/ updating.step # "get"

Toward == {"armed", "called", "begin", "join"}

Armed == \E n \in Flushes \ Previews : flush[n] = "armed"

\* Threads do not give up on the way, but one timer may take the place of another.
DueKept ==
    /\ Updating => Updating' \/ Armed'
    /\ \A n \in Flushes : flush[n] \in Toward => flush'[n] \in Toward \/ FlushLaunches(n) \/ Armed'
    /\ \A n \in Flushes : flush[n] # "none" /\ n \in Previews' => n \in Previews

LEMMA ArmsOne ==
    ASSUME TypeOK, Numbering, updating.step # "get", ArmPostprocess
    PROVE  Armed'
<1>1. updating.update.n \in Requests /\ updating.update.n \in Flushes
      /\ updater[updating.update.n] = "done"
  BY UpdateOf DEF Numbering, Queued
<1>2. flush'[updating.update.n] = "armed" /\ updater' = updater
  BY <1>1 DEF ArmPostprocess
<1>3. updating.update.n \notin Previews'
  BY <1>1, <1>2 DEF Previews
<1> QED
  BY <1>1, <1>2, <1>3 DEF Armed

LEMMA DueStep ==
    ASSUME TypeOK, Numbering, [Next]_vars
    PROVE  DueKept
<1>1. ASSUME NEW f \in Files, DidOpen(f) PROVE DueKept
  BY <1>1, NewRequest DEF DidOpen, Receive, CallUpdateFile, TypeOK, Numbering, DueKept, Updating, Toward, Previews
<1>2. ASSUME NEW f \in Files, DidChange(f) PROVE DueKept
  BY <1>2, NewRequest DEF DidChange, Receive, Debounce, TypeOK, Numbering, DueKept, Updating, Toward, Previews
<1>3. ASSUME NEW f \in Files, DidClose(f) PROVE DueKept
  BY <1>3, NewRequest DEF DidClose, Receive, CallUpdateFile, TypeOK, Numbering, DueKept, Updating, Toward, Previews
<1>4. ASSUME NEW f \in Files, NEW type \in {"Changed", "Deleted"}, DidChangeWatchedFile(f, type) PROVE DueKept
  BY <1>4, NewRequest DEF DidChangeWatchedFile, Receive, CallUpdateFile, TypeOK, Numbering, DueKept, Updating, Toward, Previews
<1>5. ASSUME GetPageAst PROVE DueKept
  BY <1>5, NewRequest DEF GetPageAst, TypeOK, Numbering, DueKept, Updating, Toward, Previews
<1>6. ASSUME NEW n \in Requests, ChangeTimerFires(n) PROVE DueKept
  BY <1>6 DEF ChangeTimerFires, GotoUpdater, TypeOK, Numbering, DueKept, Updating, Toward, Previews
<1>7. ASSUME NEW n \in Requests, TakeProjectLock(n) PROVE DueKept
  BY <1>7 DEF TakeProjectLock, GotoUpdater, TypeOK, Numbering, DueKept, Updating, Toward, Previews
<1>8. ASSUME NEW n \in Requests, CancelPostprocessor(n) PROVE DueKept
  BY <1>8 DEF CancelPostprocessor, GotoUpdater, TypeOK, Numbering, DueKept, Updating, Toward, Previews
<1>9. ASSUME NEW n \in Requests, Cancelled(n) PROVE DueKept
  BY <1>9 DEF Cancelled, GotoUpdater, TypeOK, Numbering, DueKept, Updating, Toward, Previews
<1>10. ASSUME NEW n \in Requests, PutUpdate(n) PROVE DueKept
  <2>1. request[n] \in Updates
    BY <1>10 DEF PutUpdate, GotoUpdater, Numbering, Calling
  <2>2. Updating'
    BY <1>10, <2>1, PutOne DEF PutUpdate, TypeOK, OnePerFile, Updating
  <2>3. flush' = flush /\ Previews' \subseteq Previews
    BY <1>10 DEF PutUpdate, GotoUpdater, TypeOK, Previews
  <2> QED
    BY <2>2, <2>3 DEF DueKept
<1>11. ASSUME GetUpdate PROVE DueKept
  BY <1>11 DEF GetUpdate, DueKept, Updating, Toward, Previews
<1>12. ASSUME LockForUpdate PROVE DueKept
  BY <1>12 DEF LockForUpdate, DueKept, Updating, Toward, Previews
<1>13. ASSUME ParseFile PROVE DueKept
  BY <1>13 DEF ParseFile, DueKept, Updating, Toward, Previews
<1>14. ASSUME SetPage PROVE DueKept
  BY <1>14 DEF SetPage, DueKept, Updating, Toward, Previews
<1>15. ASSUME EndOfUpdate PROVE DueKept
  <2>1. Armed'
    BY <1>15, ArmsOne DEF EndOfUpdate, Works
  <2>2. Previews' = Previews
    BY <1>15 DEF EndOfUpdate, ArmPostprocess, Previews
  <2> QED
    BY <2>1, <2>2 DEF DueKept
<1>16. ASSUME UpdateRaises PROVE DueKept
  <2>1. Armed'
    BY <1>16, ArmsOne DEF UpdateRaises, MayRaise, Works
  <2>2. Previews' = Previews
    BY <1>16 DEF UpdateRaises, ArmPostprocess, Previews
  <2> QED
    BY <2>1, <2>2 DEF DueKept
<1>17. ASSUME DeletePage PROVE DueKept
  <2>1. Armed'
    BY <1>17, ArmsOne DEF DeletePage, Works
  <2>2. Previews' = Previews
    BY <1>17 DEF DeletePage, ArmPostprocess, Previews
  <2> QED
    BY <2>1, <2>2 DEF DueKept
<1>18. ASSUME NEW n \in Flushes, PostprocessTimerFires(n) PROVE DueKept
  BY <1>18 DEF PostprocessTimerFires, GotoFlush, TypeOK, DueKept, Updating, Toward, Previews
<1>19. ASSUME NEW n \in Flushes, Postprocess(n) PROVE DueKept
  BY <1>19 DEF Postprocess, GotoFlush, TypeOK, DueKept, Updating, Toward, Previews
<1>20. ASSUME NEW n \in Flushes, FlushCancels(n) PROVE DueKept
  BY <1>20 DEF FlushCancels, GotoFlush, TypeOK, DueKept, Updating, Toward, Previews
<1>21. ASSUME NEW n \in Flushes, FlushLaunches(n) PROVE DueKept
  BY <1>21 DEF FlushLaunches, GotoFlush, TypeOK, DueKept, Updating, Toward, Previews
<1>22. ASSUME NEW n \in Flushes, FlushRaises(n) PROVE DueKept
  BY <1>22 DEF FlushRaises, GotoFlush, TypeOK, DueKept, Updating, Toward, Previews
<1>23. ASSUME NEW n \in Flushes, MergeDiagnostics(n) PROVE DueKept
  BY <1>23 DEF MergeDiagnostics, GotoFlush, TypeOK, DueKept, Updating, Toward, Previews
<1>24. ASSUME NEW n \in Flushes, Publish(n) PROVE DueKept
  BY <1>24 DEF Publish, GotoFlush, TypeOK, DueKept, Updating, Toward, Previews
<1>25. ASSUME NEW n \in Flushes, TakeLockForPreview(n) PROVE DueKept
  BY <1>25 DEF TakeLockForPreview, GotoFlush, TypeOK, DueKept, Updating, Toward, Previews
<1>26. ASSUME NEW n \in Flushes, PreviewReturns(n) PROVE DueKept
  BY <1>26 DEF PreviewReturns, GotoFlush, TypeOK, DueKept, Updating, Toward, Previews
<1>27. ASSUME NEW n \in Flushes, WorkerStep(n) PROVE DueKept
  BY <1>27 DEF WorkerStep, NothingChanged, CopyPages, SeesCancellation, PipelineFails, Commit, DueKept, Updating, Toward, Previews
<1>28. ASSUME UNCHANGED vars PROVE DueKept
  BY <1>28 DEF vars, DueKept, Updating, Toward, Previews
<1> QED
  BY <1>1, <1>2, <1>3, <1>4, <1>5, <1>6, <1>7, <1>8, <1>9, <1>10, <1>11, <1>12, <1>13, <1>14, <1>15, <1>16, <1>17, <1>18, <1>19, <1>20, <1>21, <1>22, <1>23, <1>24, <1>25, <1>26, <1>27, <1>28
  DEF Next, ClientStep, ServerStep, UpdaterStep, UpdateThreadStep, FlushStep
-----------------------------------------------------------------------------
\* A worker is cancelled by whoever will see to another one, a preview excepted; and a page that has
\* changed is due, or a worker has it.

Coming(threads) == \E n \in threads : flush[n] \in Toward

Regular == Flushes \ Previews

Cancellation ==
    event => /\ Updating \/ Coming(Flushes)
             /\ swept \/ Updating \/ Coming(Regular)

ChangesAreDue == changed # {} /\ NoRunFailed => Updating \/ Coming(Flushes) \/ SomeWorkerAlive

LEMMA AlmostAllStepsKeep ==
    ASSUME [Next]_vars
    PROVE  /\ \/ UNCHANGED worker
              \/ \E n \in Flushes : FlushLaunches(n) \/ WorkerStep(n)
           /\ \/ UNCHANGED changed \/ SetPage \/ DeletePage \/ changed' = {}
           /\ \/ UNCHANGED event \/ ~event'
              \/ \E n \in Requests : CancelPostprocessor(n)
              \/ \E n \in Flushes : FlushCancels(n)
           /\ swept => swept'
<1> DEFINE Kept ==
    /\ \/ UNCHANGED worker
       \/ \E n \in Flushes : FlushLaunches(n) \/ WorkerStep(n)
    /\ \/ UNCHANGED changed \/ SetPage \/ DeletePage \/ changed' = {}
    /\ \/ UNCHANGED event \/ ~event'
       \/ \E n \in Requests : CancelPostprocessor(n)
       \/ \E n \in Flushes : FlushCancels(n)
    /\ swept => swept'
<1>1. ASSUME NEW f \in Files, ClientStep(f) PROVE Kept
  BY <1>1 DEF ClientStep, DidOpen, DidChange, DidClose, DidChangeWatchedFile, Receive
<1>2. ASSUME GetPageAst PROVE Kept
  BY <1>2 DEF GetPageAst
<1>3. ASSUME NEW n \in Requests, UpdaterStep(n) PROVE Kept
  BY <1>3 DEF UpdaterStep, ChangeTimerFires, TakeProjectLock, CancelPostprocessor, Cancelled, CancelEnd, PutUpdate
<1>4. ASSUME UpdateThreadStep PROVE Kept
  BY <1>4 DEF UpdateThreadStep, GetUpdate, LockForUpdate, ParseFile, SetPage, EndOfUpdate, UpdateRaises, DeletePage, ArmPostprocess
<1>5. ASSUME NEW n \in Flushes, FlushStep(n) PROVE Kept
  <2>1. CASE FlushCancels(n)
    BY <2>1 DEF FlushCancels
  <2>2. CASE FlushLaunches(n)
    BY <2>2 DEF FlushLaunches, CancelEnd
  <2>3. UNCHANGED <<worker, changed, event, swept>> \/ FlushCancels(n) \/ FlushLaunches(n)
    BY <1>5 DEF FlushStep, PostprocessTimerFires, Postprocess, FlushRaises, MergeDiagnostics, Publish, TakeLockForPreview, PreviewReturns
  <2> QED
    BY <2>1, <2>2, <2>3
<1>6. ASSUME NEW n \in Flushes, WorkerStep(n) PROVE Kept
  BY <1>6 DEF WorkerStep, NothingChanged, CopyPages, SeesCancellation, PipelineFails, Commit
<1>7. ASSUME UNCHANGED vars PROVE Kept
  BY <1>7 DEF vars
<1> QED
  BY <1>1, <1>2, <1>3, <1>4, <1>5, <1>6, <1>7 DEF Next, ServerStep

\* What was coming still comes, unless its worker has just been launched.
LEMMA ComingKept ==
    ASSUME DueKept, ~\E n \in Flushes : FlushLaunches(n)
    PROVE  /\ Updating \/ Coming(Flushes) => Updating' \/ Coming(Flushes)'
           /\ Updating \/ Coming(Regular) => Updating' \/ Coming(Regular)'
<1>1. Armed' => Coming(Flushes)' /\ Coming(Regular)'
  BY DEF Armed, Coming, Regular, Toward
<1>2. ASSUME NEW n \in Flushes, flush[n] \in Toward
      PROVE  /\ flush'[n] \in Toward \/ Armed'
             /\ n \in Previews' => n \in Previews
  BY <1>2 DEF DueKept, Toward
<1>3. Updating => Updating' \/ Armed'
  BY DEF DueKept
<1> QED
  BY <1>1, <1>2, <1>3 DEF Coming, Regular

LEMMA CancellationStep ==
    ASSUME TypeOK, Numbering, Cancellation, [Next]_vars
    PROVE  Cancellation'
<1> SUFFICES ASSUME event' PROVE Cancellation'
  BY DEF Cancellation
<1>1. CASE \E n \in Requests : CancelPostprocessor(n)
  <2>1. Updating'
    BY <1>1 DEF CancelPostprocessor, GotoUpdater, TypeOK, Updating
  <2> QED
    BY <2>1 DEF Cancellation
<1>2. ASSUME NEW n \in Flushes, FlushCancels(n) PROVE Cancellation'
  <2>1. flush'[n] \in Toward /\ Coming(Flushes)'
    BY <1>2 DEF FlushCancels, GotoFlush, TypeOK, Toward, Coming
  <2>2. event' = SomeWorkerAlive /\ Previews' = Previews
    BY <1>2 DEF FlushCancels, CancelBegin, Previews
  <2>3. n \in Previews => swept'
    BY <1>2, <2>2 DEF FlushCancels
  <2>4. n \notin Previews => Coming(Regular)'
    BY <2>1, <2>2 DEF Coming, Regular
  <2> QED
    BY <2>1, <2>3, <2>4 DEF Cancellation
<1>3. CASE UNCHANGED event
  <2>1. ~\E n \in Flushes : FlushLaunches(n)
    BY DEF FlushLaunches, CancelEnd
  <2> QED
    BY <1>3, <2>1, DueStep, ComingKept, AlmostAllStepsKeep DEF Cancellation
<1> QED
  BY <1>1, <1>2, <1>3, AlmostAllStepsKeep

LEMMA ChangesAreDueStep ==
    ASSUME TypeOK, Numbering, Cancellation, ChangesAreDue, [Next]_vars
    PROVE  ChangesAreDue'
<1> SUFFICES ASSUME changed' # {}, NoRunFailed'
             PROVE  Updating' \/ Coming(Flushes)' \/ SomeWorkerAlive'
  BY DEF ChangesAreDue
<1>1. ASSUME NEW n \in Flushes, FlushLaunches(n) PROVE SomeWorkerAlive'
  BY <1>1 DEF FlushLaunches, TypeOK, SomeWorkerAlive, Alive
<1>2. CASE SetPage
  BY <1>2 DEF SetPage, Updating
<1>3. CASE DeletePage
  <2>1. Armed'
    BY <1>3, ArmsOne DEF DeletePage, Works
  <2> QED
    BY <2>1 DEF Armed, Coming, Toward
<1>4. CASE UNCHANGED changed /\ ~\E n \in Flushes : FlushLaunches(n)
  <2>1. Updating \/ Coming(Flushes) => Updating' \/ Coming(Flushes)'
    BY <1>4, DueStep, ComingKept
  <2>2. CASE UNCHANGED worker
    BY <1>4, <2>1, <2>2 DEF ChangesAreDue, NoRunFailed, SomeWorkerAlive, Alive
  <2>3. ASSUME NEW n \in Flushes, WorkerStep(n)
        PROVE  Updating' \/ Coming(Flushes)' \/ SomeWorkerAlive'
    <3>1. ~PipelineFails(n) /\ ~Commit(n) /\ ~NothingChanged(n)
      BY <1>4 DEF PipelineFails, Commit, NothingChanged, EndWorker, NoRunFailed, TypeOK
    <3>2. CASE CopyPages(n)
      BY <3>2 DEF CopyPages, EndWorker, TypeOK, SomeWorkerAlive, Alive
    <3>3. CASE SeesCancellation(n)
      BY <2>1, <3>3 DEF SeesCancellation, Cancellation
    <3> QED
      BY <2>3, <3>1, <3>2, <3>3 DEF WorkerStep
  <2> QED
    BY <1>4, <2>2, <2>3, AlmostAllStepsKeep
<1> QED
  BY <1>1, <1>2, <1>3, <1>4, AlmostAllStepsKeep

LEMMA InitDue == Init => Cancellation /\ ChangesAreDue
<1> SUFFICES ASSUME Init PROVE Cancellation /\ ChangesAreDue
  OBVIOUS
<1>1. 0 \in Flushes /\ flush[0] \in Toward
  BY ServerAssumption DEF ServerAssumption, Init, Toward
<1> QED
  BY <1>1 DEF Init, Cancellation, ChangesAreDue, Coming

\* When the server has settled every page is postprocessed (SettledIsPostprocessed), although every
\* update cancels the postprocessing that runs and the thread that waited for it gives up.
THEOREM EveryPageIsPostprocessed == Spec => []SettledIsPostprocessed
<1>1. Init => TypeOK /\ Numbering /\ Cancellation /\ ChangesAreDue
  BY InitTypes, InitNumbering, InitDue
<1>2. TypeOK /\ Numbering /\ Cancellation /\ ChangesAreDue /\ [Next]_vars
      => (TypeOK /\ Numbering /\ Cancellation /\ ChangesAreDue)'
  BY TypeStep, NumberingStep, CancellationStep, ChangesAreDueStep
<1>3. ChangesAreDue => SettledIsPostprocessed
  BY DEF ChangesAreDue, SettledIsPostprocessed, Settled, Updating, Coming, Toward, SomeWorkerAlive
<1> QED
  BY <1>1, <1>2, <1>3, PTL DEF Spec
-----------------------------------------------------------------------------
\* A page shown without what postprocessing found is due, or a run that somebody waits for will show
\* it.

Merges(n, f) ==
    \/ flush[n] = "wait" /\ worker[n] \in {"start", "pipeline", "result"}
    \/ flush[n] = "publish" /\ merged[n][f] # 0

Merging ==
    NoRunFailed /\ ~swept =>
        \A f \in Files : parsed[f] # 0 /\ view[f].post = Raw =>
            Updating \/ Coming(Regular) \/ \E n \in Regular : Merges(n, f)

\* A preview has no timer, and no worker before it launches one.
PreviewsStart ==
    \A n \in Previews : /\ flush[n] \notin {"armed", "called"}
                        /\ flush[n] \in {"asked", "begin", "join"} => worker[n] = "none"

LEMMA PreviewsStartStep ==
    ASSUME TypeOK, Numbering, PreviewsStart, [Next]_vars
    PROVE  PreviewsStart'
<1>1. ASSUME NEW f \in Files, ClientStep(f) PROVE PreviewsStart'
  <2>1. UNCHANGED <<flush, worker>> /\ Previews' \subseteq Previews
    BY <1>1, NewRequest DEF ClientStep, DidOpen, DidChange, DidClose, DidChangeWatchedFile, Receive, CallUpdateFile, Debounce, TypeOK, Previews
  <2> QED
    BY <2>1 DEF PreviewsStart
<1>2. ASSUME GetPageAst PROVE PreviewsStart'
  <2>1. /\ sent + 1 \in Requests /\ sent + 1 \in Flushes /\ worker[sent + 1] = "none"
        /\ flush' = [flush EXCEPT ![sent + 1] = "asked"] /\ worker' = worker
        /\ Previews' = Previews \cup {sent + 1}
    BY <1>2, NewRequest DEF GetPageAst, TypeOK, Numbering, Previews
  <2>2. flush'[sent + 1] = "asked" /\ \A n \in Flushes : n # sent + 1 => flush'[n] = flush[n]
    BY <2>1 DEF TypeOK
  <2>3. Previews \subseteq Flushes
    BY ServerAssumption DEF Previews, ServerAssumption
  <2> QED
    BY <2>1, <2>2, <2>3 DEF PreviewsStart
<1>3. ASSUME NEW n \in Requests, UpdaterStep(n) PROVE PreviewsStart'
  <2>1. UNCHANGED <<flush, worker>> /\ Previews' \subseteq Previews
    BY <1>3 DEF UpdaterStep, ChangeTimerFires, TakeProjectLock, CancelPostprocessor, Cancelled, PutUpdate, GotoUpdater, TypeOK, Previews
  <2> QED
    BY <2>1 DEF PreviewsStart
<1>4. CASE ArmPostprocess /\ updating.step # "get" /\ worker' = worker
  <2>1. updating.update.n \notin Previews /\ Previews' = Previews
    BY <1>4 DEF ArmPostprocess, Numbering, Queued, Previews
  <2>2. \A n \in Previews : n \in Flushes /\ flush[n] # "armed"
    BY ServerAssumption DEF PreviewsStart, Previews, ServerAssumption
  <2>3. \A n \in Previews : flush'[n] = flush[n]
    BY <1>4, <2>1, <2>2 DEF ArmPostprocess
  <2> QED
    BY <1>4, <2>1, <2>3 DEF PreviewsStart
<1>5. ASSUME UpdateThreadStep PROVE PreviewsStart'
  <2>1. CASE UNCHANGED <<flush, worker, updater>>
    BY <2>1 DEF PreviewsStart, Previews
  <2>2. UNCHANGED <<flush, worker, updater>> \/ (ArmPostprocess /\ updating.step # "get" /\ worker' = worker)
    BY <1>5 DEF UpdateThreadStep, GetUpdate, LockForUpdate, ParseFile, SetPage, EndOfUpdate, UpdateRaises, MayRaise, DeletePage, Works, ArmPostprocess
  <2> QED
    BY <1>4, <2>1, <2>2
<1>6. ASSUME NEW n \in Flushes, FlushStep(n) PROVE PreviewsStart'
  <2>1. CASE PreviewReturns(n)
    BY <2>1 DEF PreviewReturns, GotoFlush, PreviewsStart, Previews, TypeOK
  <2>2. CASE FlushLaunches(n)
    BY <2>2 DEF FlushLaunches, GotoFlush, PreviewsStart, Previews, TypeOK
  <2>3. CASE UNCHANGED <<worker, updater>> /\ flush[n] \notin {"armed", "called"}
             /\ \E to \in {"begin", "join", "publish", "done"} :
                   flush' = [flush EXCEPT ![n] = to] /\ (to \in {"begin", "join"} => flush[n] \in {"asked", "begin"})
    BY <2>3 DEF PreviewsStart, Previews, TypeOK
  <2>4. CASE /\ UNCHANGED <<worker, updater>> /\ flush[n] \in {"armed", "called"}
             /\ \A m \in Flushes : m # n => flush'[m] = flush[m]
    <3>1. \A m \in Previews : m \in Flushes /\ m # n
      BY <2>4, ServerAssumption DEF PreviewsStart, Previews, ServerAssumption
    <3> QED
      BY <2>4, <3>1 DEF PreviewsStart, Previews
  <2>5. PostprocessTimerFires(n) \/ Postprocess(n)
        => /\ UNCHANGED <<worker, updater>> /\ flush[n] \in {"armed", "called"}
           /\ \A m \in Flushes : m # n => flush'[m] = flush[m]
    BY DEF PostprocessTimerFires, Postprocess, GotoFlush, TypeOK
  <2>6. FlushCancels(n) \/ TakeLockForPreview(n)
        => /\ UNCHANGED <<worker, updater>> /\ flush[n] \in {"asked", "begin"}
           /\ \E to \in {"begin", "join"} : flush' = [flush EXCEPT ![n] = to]
    BY DEF FlushCancels, TakeLockForPreview, GotoFlush
  <2>7. FlushRaises(n) \/ MergeDiagnostics(n) \/ Publish(n)
        => /\ UNCHANGED <<worker, updater>> /\ flush[n] \in {"wait", "publish"}
           /\ \E to \in {"publish", "done"} : flush' = [flush EXCEPT ![n] = to]
    BY DEF FlushRaises, MergeDiagnostics, Publish, GotoFlush
  <2> QED
    BY <1>6, <2>1, <2>2, <2>3, <2>4, <2>5, <2>6, <2>7 DEF FlushStep
<1>7. ASSUME NEW n \in Flushes, WorkerStep(n) PROVE PreviewsStart'
  <2>1. worker[n] # "none" /\ UNCHANGED <<flush, updater>>
        /\ \A m \in Flushes : m # n => worker'[m] = worker[m]
    BY <1>7 DEF WorkerStep, NothingChanged, CopyPages, SeesCancellation, PipelineFails, Commit, EndWorker, TypeOK
  <2>2. Previews \subseteq Flushes
    BY ServerAssumption DEF Previews, ServerAssumption
  <2> QED
    BY <2>1, <2>2 DEF PreviewsStart, Previews
<1>8. ASSUME UNCHANGED vars PROVE PreviewsStart'
  BY <1>8 DEF vars, PreviewsStart, Previews
<1> QED
  BY <1>1, <1>2, <1>3, <1>5, <1>6, <1>7, <1>8 DEF Next, ServerStep

\* A run goes on towards its publication.
LEMMA MergesKept ==
    ASSUME TypeOK, Numbering, PreviewsStart, [Next]_vars,
           NEW n \in Regular, NEW f \in Files, Merges(n, f), parsed[f] # 0,
           ~Publish(n), ~WorkerStep(n), ~(ArmPostprocess /\ updating.step # "get")
    PROVE  n \in Regular' /\ Merges(n, f)'
<1>1. ASSUME NEW m \in Flushes, FlushStep(m) PROVE n \in Regular' /\ Merges(n, f)'
  <2>1. CASE m = n
    <3>1. MergeDiagnostics(n)
      BY <1>1, <2>1 DEF FlushStep, PostprocessTimerFires, Postprocess, FlushCancels, FlushLaunches, FlushRaises, TakeLockForPreview, PreviewReturns, GotoFlush, Merges, Regular
    <3> QED
      BY <3>1 DEF MergeDiagnostics, GotoFlush, Merges, Regular, Previews, TypeOK
  <2>2. CASE m # n
    <3>1. /\ flush'[n] = flush[n] /\ worker'[n] = worker[n] /\ merged'[n] = merged[n]
          /\ Previews' \subseteq Previews
      BY <1>1, <2>2 DEF FlushStep, PostprocessTimerFires, Postprocess, FlushCancels, FlushLaunches, FlushRaises, MergeDiagnostics, Publish, TakeLockForPreview, PreviewReturns, GotoFlush, Forget, Regular, Previews, TypeOK
    <3> QED
      BY <3>1 DEF Merges, Regular
  <2> QED
    BY <2>1, <2>2
<1>2. ASSUME NEW m \in Flushes, WorkerStep(m) PROVE n \in Regular' /\ Merges(n, f)'
  <2>1. m # n
    BY <1>2
  <2>2. worker'[n] = worker[n] /\ UNCHANGED <<flush, merged, updater>>
    BY <1>2, <2>1 DEF WorkerStep, NothingChanged, CopyPages, SeesCancellation, PipelineFails, Commit, EndWorker, Regular, TypeOK
  <2> QED
    BY <2>2 DEF Merges, Regular, Previews
<1>3. ASSUME GetPageAst PROVE n \in Regular' /\ Merges(n, f)'
  <2>1. /\ sent + 1 \in Requests /\ flush[sent + 1] = "none"
        /\ flush' = [flush EXCEPT ![sent + 1] = "asked"] /\ UNCHANGED <<worker, merged>>
        /\ Previews' = Previews \cup {sent + 1}
    BY <1>3, NewRequest DEF GetPageAst, TypeOK, Numbering, Previews
  <2> QED
    BY <2>1 DEF Merges, Regular, TypeOK
<1>4. CASE UNCHANGED <<flush, worker, merged>> /\ Previews' \subseteq Previews
  BY <1>4 DEF Merges, Regular
<1>5. ASSUME NEW g \in Files, ClientStep(g) PROVE UNCHANGED <<flush, worker, merged>> /\ Previews' \subseteq Previews
  BY <1>5, NewRequest DEF ClientStep, DidOpen, DidChange, DidClose, DidChangeWatchedFile, Receive, CallUpdateFile, Debounce, TypeOK, Previews
<1>6. ASSUME NEW m \in Requests, UpdaterStep(m) PROVE UNCHANGED <<flush, worker, merged>> /\ Previews' \subseteq Previews
  BY <1>6 DEF UpdaterStep, ChangeTimerFires, TakeProjectLock, CancelPostprocessor, Cancelled, PutUpdate, GotoUpdater, TypeOK, Previews
<1>7. ASSUME UpdateThreadStep PROVE UNCHANGED <<flush, worker, merged>> /\ Previews' \subseteq Previews
  BY <1>7 DEF UpdateThreadStep, GetUpdate, LockForUpdate, ParseFile, SetPage, EndOfUpdate, UpdateRaises, MayRaise, DeletePage, Works, Previews
<1>8. ASSUME UNCHANGED vars PROVE UNCHANGED <<flush, worker, merged>> /\ Previews' \subseteq Previews
  BY <1>8 DEF vars, Previews
<1> QED
  BY <1>1, <1>2, <1>3, <1>4, <1>5, <1>6, <1>7, <1>8 DEF Next, ServerStep

LEMMA MergingStep ==
    ASSUME TypeOK, Numbering, Cancellation, PreviewsStart, Merging, [Next]_vars
    PROVE  Merging'
<1> DEFINE Coped(f) == \/ Updating' \/ Coming(Regular)'
                       \/ \E n \in Regular' : Merges(n, f)'
<1> SUFFICES ASSUME NoRunFailed', ~swept', NEW f \in Files, parsed'[f] # 0, view'[f].post = Raw
             PROVE  Coped(f)
  BY DEF Merging
<1> HIDE DEF Coped
<1>1. ~swept
  BY AlmostAllStepsKeep
<1>2. Armed' => Coped(f)
  BY DEF Armed, Coming, Regular, Toward, Coped
<1>3. ASSUME ArmPostprocess, updating.step # "get" PROVE Coped(f)
  BY <1>2, <1>3, ArmsOne
<1>4. ASSUME ~\E n \in Flushes : FlushLaunches(n), Updating \/ Coming(Regular) PROVE Coped(f)
  BY <1>4, DueStep, ComingKept DEF Coped
<1>5. ASSUME NEW n \in Flushes, FlushLaunches(n) PROVE Coped(f)
  <2>1. /\ flush'[n] = "wait" /\ worker'[n] = "start" /\ Previews' = Previews
        /\ \A m \in Flushes : m # n => flush'[m] = flush[m] /\ worker'[m] = worker[m]
        /\ UNCHANGED <<parsed, view, updater, pending, updating>>
    BY <1>5 DEF FlushLaunches, GotoFlush, TypeOK, Previews
  <2>2. CASE n \notin Previews
    BY <2>1, <2>2 DEF Merges, Regular, Coped
  <2>3. CASE n \in Previews
    <3>1. worker[n] = "none"
      BY <1>5, <2>3 DEF FlushLaunches, GotoFlush, PreviewsStart
    <3>2. NoRunFailed
      BY <2>1, <3>1 DEF NoRunFailed
    <3>3. CASE Updating
      BY <2>1, <3>3 DEF Updating, Coped
    <3>4. CASE Coming(Regular)
      BY <2>1, <2>3, <3>4 DEF Coming, Regular, Coped
    <3>5. CASE \E m \in Regular : Merges(m, f)
      <4>1. PICK m \in Regular : Merges(m, f)
        BY <3>5
      <4>2. m # n /\ m \in Flushes /\ merged' = merged
        BY <1>5, <2>3, <4>1 DEF Regular, FlushLaunches
      <4>3. m \in Regular' /\ Merges(m, f)'
        BY <2>1, <4>1, <4>2 DEF Merges, Regular
      <4> QED
        BY <4>3 DEF Coped
    <3> QED
      BY <1>1, <2>1, <3>2, <3>3, <3>4, <3>5 DEF Merging
  <2> QED
    BY <2>2, <2>3
<1>6. ASSUME NEW n \in Flushes, Publish(n) PROVE Coped(f)
  <2>1. /\ UNCHANGED <<parsed, worker, updater, swept>> /\ NoRunFailed
        /\ ~\E m \in Flushes : FlushLaunches(m)
    <3>1. UNCHANGED <<parsed, worker, updater, swept>> /\ flush[n] = "publish" /\ flush'[n] = "done"
      BY <1>6 DEF Publish, GotoFlush, TypeOK
    <3>2. \A m \in Flushes : FlushLaunches(m) => flush'[m] = "wait" /\ \A k \in Flushes : k # m => flush'[k] = flush[k]
      BY DEF FlushLaunches, GotoFlush, TypeOK
    <3> QED
      BY <3>1, <3>2 DEF NoRunFailed
  <2>2. copied[n] # Raw
    BY ServerAssumption DEF TypeOK, Contents, Versions, ServerAssumption
  <2>3. merged[n][f] = 0 /\ view[f].post = Raw
    BY <1>6, <2>2 DEF Publish, TypeOK
  <2>4. CASE Updating \/ Coming(Regular)
    BY <1>4, <2>1, <2>4
  <2>5. CASE \E m \in Regular : Merges(m, f)
    <3>1. PICK m \in Regular : Merges(m, f)
      BY <2>5
    <3>2. m # n
      BY <1>6, <2>3, <3>1 DEF Merges, Publish, GotoFlush
    <3>3. m \in Regular' /\ Merges(m, f)'
      BY <1>6, <3>1, <3>2 DEF Publish, GotoFlush, Forget, Merges, Regular, Previews, TypeOK
    <3> QED
      BY <3>3 DEF Coped
  <2> QED
    BY <1>1, <2>1, <2>3, <2>4, <2>5 DEF Merging
<1>7. ASSUME NEW n \in Flushes, WorkerStep(n) PROVE Coped(f)
  <2>1. /\ UNCHANGED <<parsed, view, flush, merged, updater, pending, updating, event>>
        /\ worker[n] \in {"start", "pipeline"}
        /\ worker'[n] \in {"pipeline", "result", "failed"} \/ event
        /\ \A m \in Flushes : m # n => worker'[m] = worker[m]
    BY <1>7 DEF WorkerStep, NothingChanged, CopyPages, SeesCancellation, PipelineFails, Commit, EndWorker, Returned, TypeOK
  <2>2. NoRunFailed
    BY <2>1 DEF NoRunFailed
  <2>3. CASE Updating \/ Coming(Regular)
    BY <2>1, <2>3 DEF Updating, Coming, Regular, Previews, Coped
  <2>4. CASE event
    BY <1>1, <2>3, <2>4 DEF Cancellation
  <2>5. CASE ~event /\ \E m \in Regular : Merges(m, f)
    <3>1. PICK m \in Regular : Merges(m, f)
      BY <2>5
    <3>2. worker'[n] \in {"pipeline", "result"}
      BY <2>1, <2>5 DEF NoRunFailed
    <3>3. m \in Regular' /\ Merges(m, f)'
      BY <2>1, <3>1, <3>2 DEF Merges, Regular, Previews
    <3> QED
      BY <3>3 DEF Coped
  <2> QED
    BY <1>1, <2>1, <2>2, <2>3, <2>4, <2>5 DEF Merging
<1>8. CASE ParseFile \/ SetPage
  BY <1>8 DEF ParseFile, SetPage, Updating, Coped, TypeOK
<1>9. CASE UNCHANGED <<parsed, view, worker>> /\ (\A n \in Flushes : ~FlushLaunches(n) /\ ~Publish(n) /\ ~WorkerStep(n))
  <2>1. NoRunFailed
    BY <1>9 DEF NoRunFailed
  <2>2. CASE Updating \/ Coming(Regular)
    BY <1>4, <1>9, <2>2
  <2>3. CASE ArmPostprocess /\ updating.step # "get"
    BY <1>3, <2>3
  <2>4. CASE (\E m \in Regular : Merges(m, f)) /\ ~(ArmPostprocess /\ updating.step # "get")
    <3>1. PICK m \in Regular : Merges(m, f)
      BY <2>4
    <3>2. m \in Regular' /\ Merges(m, f)'
      <4>1. m \in Flushes /\ parsed[f] # 0
        BY <1>9 DEF Regular
      <4> QED
        BY <1>9, <2>4, <3>1, <4>1, MergesKept
    <3> QED
      BY <3>2 DEF Coped
  <2> QED
    BY <1>1, <1>9, <2>1, <2>2, <2>3, <2>4 DEF Merging
<1>10. \/ UNCHANGED <<parsed, view, worker>>
       \/ ParseFile \/ SetPage \/ (ArmPostprocess /\ updating.step # "get")
       \/ \E n \in Flushes : FlushLaunches(n) \/ Publish(n) \/ WorkerStep(n)
  <2>1. ASSUME NEW g \in Files, ClientStep(g) PROVE UNCHANGED <<parsed, view, worker>>
    BY <2>1 DEF ClientStep, DidOpen, DidChange, DidClose, DidChangeWatchedFile, Receive
  <2>2. ASSUME GetPageAst PROVE UNCHANGED <<parsed, view, worker>>
    BY <2>2 DEF GetPageAst
  <2>3. ASSUME NEW m \in Requests, UpdaterStep(m) PROVE UNCHANGED <<parsed, view, worker>>
    BY <2>3 DEF UpdaterStep, ChangeTimerFires, TakeProjectLock, CancelPostprocessor, Cancelled, PutUpdate
  <2>4. ASSUME UpdateThreadStep
        PROVE  \/ UNCHANGED <<parsed, view, worker>>
               \/ ParseFile \/ SetPage \/ (ArmPostprocess /\ updating.step # "get")
    BY <2>4 DEF UpdateThreadStep, GetUpdate, LockForUpdate, EndOfUpdate, UpdateRaises, MayRaise, DeletePage, Works
  <2>5. ASSUME NEW n \in Flushes, FlushStep(n)
        PROVE  UNCHANGED <<parsed, view, worker>> \/ FlushLaunches(n) \/ Publish(n)
    BY <2>5 DEF FlushStep, PostprocessTimerFires, Postprocess, FlushCancels, FlushRaises, MergeDiagnostics, TakeLockForPreview, PreviewReturns
  <2>6. ASSUME UNCHANGED vars PROVE UNCHANGED <<parsed, view, worker>>
    BY <2>6 DEF vars
  <2> QED
    BY <2>1, <2>2, <2>3, <2>4, <2>5, <2>6 DEF Next, ServerStep
<1> QED
  BY <1>3, <1>5, <1>6, <1>7, <1>8, <1>9, <1>10

\* When the server has settled the client sees what postprocessing found in every file
\* (SettledIsMerged), unless a preview cancelled a run: the diagnostics an update wipes are published
\* again by the run its timer starts, or a later one.
THEOREM EveryPageIsMerged == Spec => []SettledIsMerged
<1>1. Init => /\ TypeOK /\ Numbering /\ Cancellation /\ ChangesAreDue
              /\ PreviewsStart /\ Merging
  <2>1. Init => PreviewsStart
    BY DEF Init, PreviewsStart, Previews
  <2>2. ASSUME Init PROVE Merging
    <3>1. 0 \in Flushes /\ 0 \notin Previews /\ flush[0] \in Toward
      BY <2>2, ServerAssumption DEF ServerAssumption, Init, Toward, Previews
    <3> QED
      BY <3>1 DEF Merging, Coming, Regular
  <2> QED
    BY <2>1, <2>2, InitTypes, InitNumbering, InitDue
<1>2. TypeOK /\ Numbering /\ Cancellation /\ ChangesAreDue /\ PreviewsStart /\ Merging /\ [Next]_vars
      => (TypeOK /\ Numbering /\ Cancellation /\ ChangesAreDue /\ PreviewsStart /\ Merging)'
  BY TypeStep, NumberingStep, CancellationStep, ChangesAreDueStep, PreviewsStartStep, MergingStep
<1>3. Merging => SettledIsMerged
  BY DEF Merging, SettledIsMerged, Settled, Updating, Coming, Merges, Regular, Toward
<1> QED
  BY <1>1, <1>2, <1>3, PTL DEF Spec
-----------------------------------------------------------------------------
\* What was put last for a file has been parsed or was refused, unless a newer update is on its way,
\* waits in the queue, or the update thread is at work on the file.

Outstanding(f) ==
    \E n \in Requests : updater[n] \in {"lock", "cancel", "join", "put"} /\ request[n].file = f

Waiting(f) == \E i \in DOMAIN pending : pending[i].file = f

Working(f) == updating.step \in {"lock", "work", "set"} /\ updating.update.file = f

Arrived(f) ==
    f \notin refused =>
        /\ lastPut[f].type = "Deleted" => parsed[f] = 0
        /\ lastPut[f].type = "Changed" => parsed[f] = TextOf(lastPut[f])

Newest(f) ==
    /\ lastPut[f] # NoUpdate => lastPut[f].file = f
    /\ \A i \in DOMAIN pending : pending[i].file = f => pending[i] = lastPut[f]
    /\ Working(f) => Waiting(f) \/ updating.update = lastPut[f]
    /\ Working(f) /\ updating.step = "set" =>
           /\ updating.update.type = "Changed"
           /\ Outstanding(f) \/ Waiting(f) \/ updating.text = TextOf(updating.update)
    /\ Outstanding(f) \/ Waiting(f) \/ Working(f) \/ Arrived(f)

\* A step that touches neither queue nor pages, nor a file's text but for an update on its way.
LEMMA NewestFrame ==
    ASSUME TypeOK, Numbering, NEW f \in Files, Newest(f), Outstanding(f) => Outstanding(f)',
           UNCHANGED <<queueVars, updating, parsed>>,
           disk'[f] = disk[f] \/ Outstanding(f)'
    PROVE  Newest(f)'
<1>1. (Waiting(f)' <=> Waiting(f)) /\ (Working(f)' <=> Working(f))
  BY DEF Waiting, Working
<1>2. disk'[f] = disk[f] /\ Working(f) => TextOf(updating.update)' = TextOf(updating.update)
  BY DEF Working, TextOf
<1>3. disk'[f] = disk[f] /\ Arrived(f) => Arrived(f)'
  BY DEF Arrived, Newest, TextOf, NoUpdate
<1> QED
  BY <1>1, <1>2, <1>3 DEF Newest

LEMMA NewestStep ==
    ASSUME TypeOK, Numbering, [Next]_vars, NEW f \in Files, Newest(f)
    PROVE  Newest(f)'
<1>1. ASSUME NEW g \in Files, DidOpen(g) \/ DidClose(g) \/ \E type \in {"Changed", "Deleted"} : DidChangeWatchedFile(g, type)
      PROVE  Newest(f)'
  <2>1. /\ UNCHANGED <<queueVars, updating, parsed>>
        /\ sent + 1 \in Requests /\ updater[sent + 1] = "none"
        /\ updater' = [updater EXCEPT ![sent + 1] = "lock"]
        /\ \E u \in {r \in [n : {sent + 1}, file : {g}, type : {"Changed", "Deleted"}, text : {0, sent + 2}] : TRUE} :
              request' = [request EXCEPT ![sent + 1] = u]
        /\ g # f => disk'[f] = disk[f]
    BY <1>1, NewRequest DEF DidOpen, DidClose, DidChangeWatchedFile, Receive, CallUpdateFile, TypeOK, Numbering, Contents
  <2>2. /\ updater'[sent + 1] = "lock" /\ request'[sent + 1].file = g
        /\ \A n \in Requests : n # sent + 1 => updater'[n] = updater[n] /\ request'[n] = request[n]
    BY <2>1 DEF TypeOK
  <2>3. Outstanding(g)' /\ (Outstanding(f) => Outstanding(f)')
    BY <2>1, <2>2 DEF Outstanding
  <2> QED
    BY <2>1, <2>3, NewestFrame
<1>2. ASSUME UNCHANGED <<queueVars, updating, parsed, disk>>, Outstanding(f) => Outstanding(f)'
      PROVE  Newest(f)'
  BY <1>2, NewestFrame
<1>3. ASSUME NEW g \in Files, DidChange(g) PROVE Newest(f)'
  <2>1. Outstanding(f) => Outstanding(f)'
    BY <1>3, NewRequest DEF DidChange, Receive, Debounce, TypeOK, Numbering, Outstanding
  <2> QED
    BY <1>2, <1>3, <2>1 DEF DidChange, Receive
<1>4. ASSUME GetPageAst PROVE Newest(f)'
  <2>1. Outstanding(f) => Outstanding(f)'
    BY <1>4, NewRequest DEF GetPageAst, TypeOK, Numbering, Outstanding
  <2> QED
    BY <1>2, <1>4, <2>1 DEF GetPageAst
<1>5. ASSUME NEW n \in Requests, UpdaterStep(n), ~PutUpdate(n) PROVE Newest(f)'
  <2>1. /\ request' = request /\ UNCHANGED <<queueVars, updating, parsed, disk>>
        /\ \E to \in {"lock", "cancel", "join", "put"} : updater' = [updater EXCEPT ![n] = to]
    BY <1>5 DEF UpdaterStep, ChangeTimerFires, TakeProjectLock, CancelPostprocessor, Cancelled, GotoUpdater
  <2>2. Outstanding(f) => Outstanding(f)'
    BY <2>1 DEF TypeOK, Outstanding
  <2> QED
    BY <1>2, <2>1, <2>2
<1>6. ASSUME NEW n \in Requests, PutUpdate(n) PROVE Newest(f)'
  <2> DEFINE u == request[n]
  <2>1. /\ u \in Updates /\ updater[n] = "put" /\ u.file \in Files /\ u # NoUpdate
        /\ updater'[n] = "done" /\ lastPut' = [lastPut EXCEPT ![u.file] = u]
        /\ refused' = refused \ {u.file}
        /\ UNCHANGED <<updating, parsed, disk>>
    BY <1>6, UpdateOf, NotAnUpdate DEF PutUpdate, GotoUpdater, Numbering, Calling, TypeOK
  <2>2. /\ \E i \in DOMAIN pending' : pending'[i] = u
        /\ \A i \in DOMAIN pending' : pending'[i] = u \/ \E j \in DOMAIN pending : pending'[i] = pending[j]
        /\ \A i \in DOMAIN pending' : pending'[i].file = u.file => pending'[i] = u
        /\ \A j \in DOMAIN pending : pending[j].file # u.file => \E i \in DOMAIN pending' : pending'[i] = pending[j]
    BY <1>6, <2>1, PutOne DEF PutUpdate, TypeOK, OnePerFile
  <2>3. CASE f = u.file
    <3>1. Waiting(f)'
      BY <2>2, <2>3 DEF Waiting
    <3>2. lastPut'[f] = u
      BY <2>1, <2>3 DEF TypeOK
    <3>3. Working(f)' <=> Working(f)
      BY <2>1 DEF Working
    <3>4. updating'.step = "set" /\ Working(f) => updating'.update.type = "Changed"
      BY <2>1 DEF Newest
    <3> QED
      BY <2>2, <2>3, <3>1, <3>2, <3>3, <3>4 DEF Newest
  <2>4. CASE f # u.file
    <3>1. lastPut'[f] = lastPut[f]
      BY <2>1, <2>4 DEF TypeOK
    <3>2. Waiting(f) => Waiting(f)'
      BY <2>2, <2>4 DEF Waiting
    <3>3. \A m \in Requests : m # n => updater'[m] = updater[m] /\ request'[m] = request[m]
      BY <1>6 DEF PutUpdate, GotoUpdater, TypeOK
    <3>4. Outstanding(f) => Outstanding(f)'
      BY <2>4, <3>3 DEF Outstanding
    <3>5. (Working(f)' <=> Working(f)) /\ TextOf(updating.update)' = TextOf(updating.update)
      BY <2>1 DEF Working, TextOf
    <3>6. Arrived(f) => Arrived(f)'
      BY <2>1, <2>4, <3>1 DEF Arrived, TextOf
    <3>7. \A i \in DOMAIN pending' : pending'[i].file = f => pending'[i] = lastPut'[f]
      BY <2>2, <2>4, <3>1 DEF Newest
    <3> QED
      BY <2>1, <3>1, <3>2, <3>4, <3>5, <3>6, <3>7 DEF Newest
  <2> QED
    BY <2>3, <2>4
<1>7. ASSUME GetUpdate PROVE Newest(f)'
  <2>1. /\ 1 \in DOMAIN pending /\ updating.step = "get"
        /\ updating'.step = "lock" /\ updating'.update = pending[1]
        /\ UNCHANGED <<updater, request, lastPut, refused, parsed, disk>>
        /\ \A i \in DOMAIN pending' : \E j \in DOMAIN pending : pending'[i] = pending[j]
        /\ \A j \in DOMAIN pending : pending[j].file # pending[1].file =>
              \E i \in DOMAIN pending' : pending'[i] = pending[j]
    BY <1>7, GetOne DEF GetUpdate, TypeOK, OnePerFile
  <2>2. Waiting(f) => Waiting(f)' \/ Working(f)'
    BY <2>1 DEF Waiting, Working
  <2>3. Working(f)' => updating'.update = lastPut'[f]
    BY <2>1 DEF Working, Newest
  <2>4. (Outstanding(f) => Outstanding(f)') /\ (Arrived(f) => Arrived(f)') /\ ~Working(f)
    BY <2>1 DEF Outstanding, Arrived, TextOf, Working
  <2>5. \A i \in DOMAIN pending' : pending'[i].file = f => pending'[i] = lastPut'[f]
    BY <2>1 DEF Newest
  <2> QED
    BY <2>1, <2>2, <2>3, <2>4, <2>5 DEF Newest
<1>8. ASSUME UNCHANGED <<updater, request, queueVars, disk, parsed>>,
             updating'.update = updating.update, updating.step \in {"lock", "work"},
             \/ updating'.step = "work"
             \/ /\ updating'.step = "set" /\ updating.update.type = "Changed"
                /\ updating'.text = TextOf(updating.update)
      PROVE  Newest(f)'
  <2>1. /\ Waiting(f)' <=> Waiting(f)
        /\ Outstanding(f)' <=> Outstanding(f)
        /\ Arrived(f)' <=> Arrived(f)
        /\ Working(f)' <=> Working(f)
        /\ TextOf(updating.update)' = TextOf(updating.update)
    BY <1>8 DEF Waiting, Outstanding, Arrived, Working, TextOf
  <2> QED
    BY <1>8, <2>1 DEF Newest
<1>9. ASSUME UNCHANGED <<updater, request, queueVars, disk>>,
             updating'.step \in {"get", "publish"},
             ~Working(f) => parsed'[f] = parsed[f],
             Working(f) => Outstanding(f) \/ Waiting(f) \/ Arrived(f)'
      PROVE  Newest(f)'
  <2>1. /\ Waiting(f)' <=> Waiting(f)
        /\ Outstanding(f)' <=> Outstanding(f)
        /\ ~Working(f)'
        /\ ~Working(f) /\ Arrived(f) => Arrived(f)'
    BY <1>9 DEF Waiting, Outstanding, Arrived, Working, TextOf
  <2> QED
    BY <1>9, <2>1 DEF Newest
<1>10. ASSUME LockForUpdate \/ ParseFile PROVE Newest(f)'
  <2>1. /\ UNCHANGED <<updater, request, queueVars, disk, parsed>>
        /\ updating'.update = updating.update /\ updating.step \in {"lock", "work"}
        /\ \/ updating'.step = "work"
           \/ /\ updating'.step = "set" /\ updating.update.type = "Changed"
              /\ updating'.text = TextOf(updating.update)
    BY <1>10 DEF LockForUpdate, ParseFile, Works, TypeOK
  <2> QED
    BY <1>8, <2>1
<1>11. ASSUME SetPage PROVE Newest(f)'
  <2>1. /\ UNCHANGED <<updater, request, queueVars, disk>> /\ updating.step = "set"
        /\ updating'.step = "publish"
        /\ parsed' = [parsed EXCEPT ![updating.update.file] = updating.text]
    BY <1>11 DEF SetPage, ChangePage, TypeOK
  <2>2. ~Working(f) => parsed'[f] = parsed[f]
    BY <2>1 DEF Working, TypeOK, Contents
  <2>3. ASSUME Working(f), ~Outstanding(f), ~Waiting(f) PROVE Arrived(f)'
    <3>1. parsed'[f] = TextOf(lastPut[f]) /\ lastPut[f].type = "Changed"
      BY <2>1, <2>3 DEF Newest, Working, TypeOK, Contents
    <3> QED
      BY <2>1, <3>1 DEF Arrived, TextOf
  <2> QED
    BY <1>9, <2>1, <2>2, <2>3
<1>12. ASSUME EndOfUpdate PROVE Newest(f)'
  <2>1. /\ UNCHANGED <<updater, request, queueVars, disk, parsed>>
        /\ updating'.step = "get" /\ updating.step = "publish"
    BY <1>12 DEF EndOfUpdate, ArmPostprocess, Idle
  <2>2. ~Working(f)
    BY <2>1 DEF Working
  <2> QED
    BY <1>9, <2>1, <2>2
<1>13. ASSUME UpdateRaises PROVE Newest(f)'
  <2>1. /\ UNCHANGED <<updater, request, pending, lastPut, disk, parsed>>
        /\ updating'.step = "get"
        /\ Refuse
    BY <1>13 DEF UpdateRaises, ArmPostprocess, Idle
  <2>2. /\ Waiting(f)' <=> Waiting(f)
        /\ Outstanding(f)' <=> Outstanding(f)
        /\ ~Working(f)'
        /\ Arrived(f) => Arrived(f)'
    BY <2>1 DEF Waiting, Outstanding, Arrived, Working, TextOf, Refuse
  <2>3. ASSUME Working(f), ~Waiting(f) PROVE Arrived(f)'
    BY <2>1, <2>3 DEF Newest, Working, Arrived, Refuse
  <2> QED
    BY <2>1, <2>2, <2>3 DEF Newest
<1>14. ASSUME DeletePage PROVE Newest(f)'
  <2>1. /\ UNCHANGED <<updater, request, queueVars, disk>>
        /\ updating'.step = "get" /\ updating.update.type = "Deleted" /\ updating.step = "work"
        /\ parsed' = [parsed EXCEPT ![updating.update.file] = 0]
    BY <1>14 DEF DeletePage, ChangePage, ArmPostprocess, Works, Idle
  <2>2. ~Working(f) => parsed'[f] = parsed[f]
    BY <2>1 DEF Working, TypeOK, Contents
  <2>3. ASSUME Working(f), ~Outstanding(f), ~Waiting(f) PROVE Arrived(f)'
    <3>1. parsed'[f] = 0 /\ lastPut[f].type = "Deleted"
      BY <2>1, <2>3 DEF Newest, Working, TypeOK, Contents
    <3> QED
      BY <2>1, <3>1 DEF Arrived
  <2> QED
    BY <1>9, <2>1, <2>2, <2>3
<1>15. ASSUME NEW n \in Flushes, FlushStep(n) PROVE Newest(f)'
  <2>1. /\ UNCHANGED <<request, queueVars, updating, parsed, disk>>
        /\ updater' = updater \/ (n \in Previews /\ updater' = [updater EXCEPT ![n] = "done"])
    BY <1>15 DEF FlushStep, PostprocessTimerFires, Postprocess, FlushCancels, FlushLaunches, FlushRaises, MergeDiagnostics, Publish, TakeLockForPreview, PreviewReturns
  <2>2. Outstanding(f) => Outstanding(f)'
    BY <2>1 DEF Outstanding, Previews, TypeOK
  <2> QED
    BY <1>2, <2>1, <2>2
<1>16. ASSUME NEW n \in Flushes, WorkerStep(n) PROVE Newest(f)'
  <2>1. UNCHANGED <<updater, request, queueVars, updating, parsed, disk>>
    BY <1>16 DEF WorkerStep, NothingChanged, CopyPages, SeesCancellation, PipelineFails, Commit
  <2> QED
    BY <1>2, <2>1 DEF Outstanding
<1>17. ASSUME UNCHANGED vars PROVE Newest(f)'
  BY <1>2, <1>17 DEF vars, Outstanding
<1>18. ASSUME NEW g \in Files, ClientStep(g) PROVE Newest(f)'
  BY <1>1, <1>3, <1>18 DEF ClientStep
<1>19. ASSUME UpdateThreadStep PROVE Newest(f)'
  BY <1>7, <1>10, <1>11, <1>12, <1>14, <1>19, <1>13 DEF UpdateThreadStep
<1> QED
  BY <1>4, <1>5, <1>6, <1>15, <1>16, <1>17, <1>18, <1>19 DEF Next, ServerStep

\* When the server has settled every file is parsed from what was put last for it, unless that very
\* update raised (LastPutWins), whatever the queue merged, whatever came while the update thread was
\* at work and however its earlier updates ended.
THEOREM WhatWasPutLastIsParsed == Spec => []LastPutWins
<1>1. Init => TypeOK /\ Numbering /\ \A f \in Files : Newest(f)
  <2>1. ASSUME Init, NEW f \in Files PROVE Newest(f)
    BY <2>1 DEF Init, Idle, NoUpdate, Newest, Waiting, Working, Arrived
  <2> QED
    BY <2>1, InitTypes, InitNumbering
<1>2. TypeOK /\ Numbering /\ (\A f \in Files : Newest(f)) /\ [Next]_vars
      => (TypeOK /\ Numbering /\ \A f \in Files : Newest(f))'
  BY TypeStep, NumberingStep, NewestStep
<1>3. (\A f \in Files : Newest(f)) => LastPutWins
  <2> SUFFICES ASSUME Settled, NEW f \in Files, f \notin refused, Newest(f)
               PROVE  /\ lastPut[f].type = "Deleted" => parsed[f] = 0
                      /\ lastPut[f].type = "Changed" => parsed[f] = TextOf(lastPut[f])
    BY Zenon DEF LastPutWins
  <2>1. ~Outstanding(f) /\ ~Waiting(f) /\ ~Working(f)
    BY DEF Settled, Outstanding, Waiting, Working
  <2>2. Arrived(f)
    BY <2>1, Zenon DEF Newest
  <2> QED
    BY <2>2, Zenon DEF Arrived
<1> QED
  BY <1>1, <1>2, <1>3, PTL DEF Spec
-----------------------------------------------------------------------------
\* Who waits for whom.  Whoever holds a lock is at a step that does not need it; a thread that waits
\* for a result has a worker; a request thread that waits for a page's tree is on its way to one.
\* The second part rests on timers: the one an update arms is never that of a thread under way, which
\* would lose the launcher's lock with it, because no update is processed twice.

Unprocessed ==
    /\ \A n \in Requests : updater[n] \in Calling => flush[n] = "none"
    /\ \A i \in DOMAIN pending : flush[pending[i].n] = "none"
    /\ \A i, j \in DOMAIN pending : pending[i].n = pending[j].n => i = j
    /\ updating.step # "get" =>
           /\ flush[updating.update.n] = "none"
           /\ \A i \in DOMAIN pending : pending[i].n # updating.update.n

ProjectLockHeld ==
    \/ projectLock = Nobody
    \/ \E n \in Requests : projectLock = <<"request", n>> /\ updater[n] \in {"cancel", "join"}
    \/ updating.step \in {"work", "set", "publish"}

LauncherLockHeld ==
    \/ launcherLock = Nobody
    \/ \E n \in Requests : launcherLock = <<"request", n>> /\ updater[n] = "join"
    \/ \E n \in Flushes : launcherLock = <<"flush", n>> /\ flush[n] = "join"

Awaited ==
    /\ \A n \in Flushes : flush[n] = "wait" => worker[n] # "none"
    /\ \A n \in Previews : flush[n] \in {"asked", "begin", "join", "wait"}

\* Whoever does not wait for himself can move, or one of those he waits for can.
LEMMA HoldersMove ==
    ASSUME TypeOK, ProjectLockHeld, LauncherLockHeld, Awaited, ~CanMove
    PROVE  Settled
<1>1. ~SomeWorkerAlive
  BY DEF CanMove, SomeWorkerAlive
<1>2. \A n \in Requests : updater[n] # "join"
  BY <1>1 DEF CanMove
<1>3. \A n \in Flushes : flush[n] # "join"
  BY <1>1 DEF CanMove
<1>4. launcherLock = Nobody
  BY <1>2, <1>3 DEF LauncherLockHeld
<1>5. \A n \in Requests : updater[n] # "cancel"
  BY <1>4 DEF CanMove
<1>6. \A n \in Flushes : flush[n] # "begin"
  BY <1>4 DEF CanMove
<1>7. \A n \in Flushes : flush[n] # "wait"
  <2>1. ASSUME NEW n \in Flushes, flush[n] = "wait" PROVE FALSE
    <3>1. worker[n] # "none" /\ worker[n] \in WorkerStates /\ ~Alive(n)
      BY <1>1, <2>1 DEF Awaited, TypeOK, SomeWorkerAlive
    <3>2. worker[n] \in {"result", "cancelled", "failed"}
      BY <3>1 DEF WorkerStates, Alive
    <3> QED
      BY <2>1, <3>2 DEF CanMove
  <2> QED
    BY <2>1
<1>8. ~Previewing
  <2>1. \A n \in Previews : n \in Flushes
    BY ServerAssumption DEF Previews, ServerAssumption
  <2> QED
    BY <1>3, <1>6, <1>7, <2>1 DEF Previewing
<1>9. updating.step \notin {"work", "set", "publish"}
  BY <1>8 DEF CanMove
<1>10. projectLock = Nobody
  BY <1>2, <1>5, <1>9 DEF ProjectLockHeld
<1>11. updating.step = "get" /\ pending = <<>>
  BY <1>9, <1>10 DEF CanMove, TypeOK
<1>12. \A n \in Flushes : flush[n] \in {"none", "dropped", "done"}
  <2>1. ~UpdatingProject
    BY <1>9 DEF UpdatingProject
  <2>2. \A n \in Flushes : flush[n] \notin {"armed", "publish", "asked", "called"}
    BY <1>10, <2>1 DEF CanMove
  <2> QED
    BY <1>3, <1>6, <1>7, <2>2 DEF TypeOK, FlushStates
<1>13. \A n \in Requests : updater[n] \in {"none", "dropped", "done"}
  <2>1. \A n \in Requests : updater[n] \notin {"armed", "put", "lock"}
    BY <1>10 DEF CanMove
  <2>2. ASSUME NEW n \in Requests, updater[n] = "preview" PROVE FALSE
    <3>1. n \in Flushes /\ n \in Previews
      BY <2>2, ServerAssumption DEF Previews, ServerAssumption
    <3> QED
      BY <1>12, <3>1 DEF Awaited
  <2> QED
    BY <1>2, <1>5, <2>1, <2>2 DEF TypeOK, UpdaterStates
<1> QED
  BY <1>1, <1>11, <1>12, <1>13 DEF Settled, SomeWorkerAlive

LEMMA UnprocessedStep ==
    ASSUME TypeOK, Numbering, Unprocessed, [Next]_vars
    PROVE  Unprocessed'
<1> USE ServerAssumption DEF ServerAssumption
<1>1. CASE /\ UNCHANGED <<pending, updating>>
           /\ \A n \in Flushes : flush[n] = "none" => flush'[n] = "none"
           /\ \A n \in Requests : updater'[n] \in Calling => updater[n] \in Calling \/ flush'[n] = "none"
  <2>1. \A i \in DOMAIN pending : pending[i].n \in Flushes
    BY DEF Numbering, Queued
  <2>2. updating.step # "get" => updating.update.n \in Flushes
    BY DEF Numbering, Queued
  <2> QED
    BY <1>1, <2>1, <2>2 DEF Unprocessed
<1>2. ASSUME NEW f \in Files, ClientStep(f) PROVE Unprocessed'
  <2>1. UNCHANGED <<pending, updating, flush>> /\ sent < MaxRequests
    BY <1>2 DEF ClientStep, DidOpen, DidChange, DidClose, DidChangeWatchedFile, Receive
  <2>2. sent + 1 \in Requests /\ flush[sent + 1] = "none"
    BY <2>1, NewRequest DEF Numbering
  <2>3. \A n \in Requests : n # sent + 1 => updater'[n] \in {updater[n], "dropped"}
    BY <1>2 DEF ClientStep, DidOpen, DidChange, DidClose, DidChangeWatchedFile, CallUpdateFile, Debounce, TypeOK
  <2>4. \A n \in Requests : updater'[n] \in Calling => updater[n] \in Calling \/ flush'[n] = "none"
    BY <2>1, <2>2, <2>3 DEF Calling
  <2> QED
    BY <1>1, <2>1, <2>4
<1>3. ASSUME GetPageAst PROVE Unprocessed'
  <2>1. /\ sent + 1 \in Requests /\ sent + 1 \in Flushes /\ updater[sent + 1] = "none"
        /\ UNCHANGED <<pending, updating>>
        /\ updater' = [updater EXCEPT ![sent + 1] = "preview"]
        /\ flush' = [flush EXCEPT ![sent + 1] = "asked"]
    BY <1>3, NewRequest DEF GetPageAst, Numbering
  <2>2. /\ updater'[sent + 1] = "preview"
        /\ \A n \in Requests : n # sent + 1 => updater'[n] = updater[n]
        /\ \A n \in Flushes : n # sent + 1 => flush'[n] = flush[n]
    BY <2>1 DEF TypeOK
  <2>3. \A i \in DOMAIN pending : pending[i].n # sent + 1 /\ pending[i].n \in Flushes
    BY <2>1 DEF Numbering, Queued
  <2>4. updating.step # "get" => updating.update.n # sent + 1 /\ updating.update.n \in Flushes
    BY <2>1 DEF Numbering, Queued
  <2>5. \A n \in Requests : updater'[n] \in Calling => n # sent + 1 /\ n \in Flushes
    BY <2>2 DEF Calling
  <2> QED
    BY <2>1, <2>2, <2>3, <2>4, <2>5 DEF Unprocessed
<1>4. ASSUME NEW n \in Requests, UpdaterStep(n), ~PutUpdate(n) PROVE Unprocessed'
  <2>1. /\ UNCHANGED <<pending, updating, flush>> /\ updater[n] \in Calling
        /\ \A m \in Requests : m # n => updater'[m] = updater[m]
    BY <1>4 DEF UpdaterStep, ChangeTimerFires, TakeProjectLock, CancelPostprocessor, Cancelled, GotoUpdater, Calling, TypeOK
  <2> QED
    BY <1>1, <2>1
<1>5. ASSUME NEW n \in Requests, PutUpdate(n) PROVE Unprocessed'
  <2> DEFINE u == request[n]
  <2>1. /\ u \in Updates /\ u.n = n /\ updater[n] = "put" /\ flush[n] = "none"
        /\ updater'[n] = "done" /\ \A m \in Requests : m # n => updater'[m] = updater[m]
        /\ UNCHANGED <<updating, flush>>
    BY <1>5 DEF PutUpdate, GotoUpdater, Numbering, Calling, TypeOK, Unprocessed
  <2>2. /\ OnePerFile(pending')
        /\ \A i \in DOMAIN pending' : pending'[i] = u \/ \E j \in DOMAIN pending : pending'[i] = pending[j]
    BY <1>5, <2>1, PutOne DEF PutUpdate, TypeOK, OnePerFile
  <2>3. \A j \in DOMAIN pending : pending[j].n # n
    BY <2>1 DEF Numbering, Queued
  <2>4. \A i \in DOMAIN pending' : flush'[pending'[i].n] = "none"
    BY <2>1, <2>2 DEF Unprocessed
  <2>5. ASSUME NEW i \in DOMAIN pending', NEW j \in DOMAIN pending', pending'[i].n = pending'[j].n
        PROVE  i = j
    <3>1. pending'[i] = pending'[j]
      BY <2>1, <2>2, <2>3, <2>5 DEF Unprocessed
    <3> QED
      BY <2>2, <3>1 DEF OnePerFile
  <2>6. updating.step # "get" => updating.update.n # n
    BY <2>1 DEF Numbering, Queued
  <2>7. \A m \in Requests : updater'[m] \in Calling => updater[m] \in Calling
    BY <2>1 DEF Calling
  <2> QED
    BY <2>1, <2>2, <2>4, <2>5, <2>6, <2>7 DEF Unprocessed
<1>6. ASSUME GetUpdate PROVE Unprocessed'
  <2>1. /\ 1 \in DOMAIN pending
        /\ updating'.step = "lock" /\ updating'.update = pending[1]
        /\ UNCHANGED <<updater, flush>> /\ OnePerFile(pending')
        /\ \A i \in DOMAIN pending' :
              \E j \in DOMAIN pending : pending'[i] = pending[j] /\ pending[j].file # pending[1].file
    BY <1>6, GetOne DEF GetUpdate, TypeOK, OnePerFile
  <2>2. \A i \in DOMAIN pending' : pending'[i].n # pending[1].n /\ flush[pending'[i].n] = "none"
    BY <2>1 DEF Unprocessed
  <2>3. ASSUME NEW i \in DOMAIN pending', NEW j \in DOMAIN pending', pending'[i].n = pending'[j].n
        PROVE  i = j
    <3>1. pending'[i] = pending'[j]
      BY <2>1, <2>3 DEF Unprocessed
    <3> QED
      BY <2>1, <3>1 DEF OnePerFile
  <2> QED
    BY <2>1, <2>2, <2>3 DEF Unprocessed
<1>7. ASSUME LockForUpdate \/ ParseFile \/ SetPage PROVE Unprocessed'
  <2>1. /\ UNCHANGED <<updater, flush, pending>> /\ updating.step # "get"
        /\ updating'.update = updating.update
    BY <1>7 DEF LockForUpdate, ParseFile, SetPage, Works, TypeOK
  <2> QED
    BY <2>1 DEF Unprocessed
<1>8. ASSUME ArmPostprocess, pending' = pending, updating.step # "get" PROVE Unprocessed'
  <2>1. /\ updating'.step = "get" /\ updater' = updater
        /\ \A m \in Flushes : m # updating.update.n /\ flush[m] = "none" => flush'[m] = "none"
    BY <1>8 DEF ArmPostprocess, Idle
  <2>2. updater[updating.update.n] = "done" /\ \A i \in DOMAIN pending : pending[i].n \in Flushes
    BY <1>8 DEF Numbering, Queued
  <2>3. \A n \in Requests : updater[n] \in Calling => n # updating.update.n /\ n \in Flushes
    BY <2>2 DEF Calling
  <2> QED
    BY <1>8, <2>1, <2>2, <2>3 DEF Unprocessed
<1>9. ASSUME NEW n \in Flushes, FlushStep(n) PROVE Unprocessed'
  <2>1. /\ UNCHANGED <<pending, updating>> /\ flush[n] # "none"
        /\ \A m \in Flushes : m # n => flush'[m] = flush[m]
        /\ \A m \in Requests : updater'[m] \in {updater[m], "done"}
    BY <1>9 DEF FlushStep, PostprocessTimerFires, Postprocess, FlushCancels, FlushLaunches, FlushRaises, MergeDiagnostics, Publish, TakeLockForPreview, PreviewReturns, GotoFlush, TypeOK
  <2> QED
    BY <1>1, <2>1 DEF Calling
<1>10. ASSUME NEW n \in Flushes, WorkerStep(n) PROVE Unprocessed'
  BY <1>1, <1>10 DEF WorkerStep, NothingChanged, CopyPages, SeesCancellation, PipelineFails, Commit
<1>11. ASSUME UNCHANGED vars PROVE Unprocessed'
  BY <1>1, <1>11 DEF vars
<1>12. ASSUME UpdateThreadStep PROVE Unprocessed'
  BY <1>6, <1>7, <1>8, <1>12 DEF UpdateThreadStep, EndOfUpdate, UpdateRaises, MayRaise, DeletePage, Works, ArmPostprocess
<1> QED
  BY <1>2, <1>3, <1>4, <1>5, <1>9, <1>10, <1>11, <1>12 DEF Next, ServerStep

\* What a step does to the locks, and to whoever holds one.
LEMMA LocksStep ==
    ASSUME TypeOK, Numbering, Unprocessed, ProjectLockHeld, LauncherLockHeld, [Next]_vars
    PROVE  ProjectLockHeld' /\ LauncherLockHeld'
<1> USE ServerAssumption DEF ServerAssumption
<1> DEFINE Held == ProjectLockHeld' /\ LauncherLockHeld'
<1>1. CASE /\ UNCHANGED <<projectLock, launcherLock, updating>>
           /\ \A n \in Requests : updater[n] \in {"cancel", "join"} => updater'[n] = updater[n]
           /\ \A n \in Flushes : flush[n] = "join" => flush'[n] = "join"
  BY <1>1 DEF ProjectLockHeld, LauncherLockHeld
<1>2. ASSUME NEW f \in Files, ClientStep(f) PROVE Held
  <2>1. UNCHANGED <<projectLock, launcherLock, updating, flush>> /\ sent < MaxRequests
    BY <1>2 DEF ClientStep, DidOpen, DidChange, DidClose, DidChangeWatchedFile, Receive
  <2>2. sent + 1 \in Requests /\ updater[sent + 1] = "none"
    BY <2>1, NewRequest DEF Numbering
  <2>3. \A n \in Requests : n # sent + 1 /\ updater[n] # "armed" => updater'[n] = updater[n]
    BY <1>2 DEF ClientStep, DidOpen, DidChange, DidClose, DidChangeWatchedFile, CallUpdateFile, Debounce, TypeOK
  <2> QED
    BY <1>1, <2>1, <2>2, <2>3
<1>3. ASSUME GetPageAst PROVE Held
  <2>1. /\ sent + 1 \in Requests /\ updater[sent + 1] = "none" /\ flush[sent + 1] = "none"
        /\ updater' = [updater EXCEPT ![sent + 1] = "preview"]
        /\ flush' = [flush EXCEPT ![sent + 1] = "asked"]
        /\ UNCHANGED <<projectLock, launcherLock, updating>>
    BY <1>3, NewRequest DEF GetPageAst, Numbering
  <2> QED
    BY <1>1, <2>1 DEF TypeOK
<1>4. ASSUME NEW n \in Requests, ChangeTimerFires(n) \/ PutUpdate(n) PROVE Held
  <2>1. /\ UNCHANGED <<projectLock, launcherLock, updating, flush>> /\ updater[n] \in {"armed", "put"}
        /\ \A m \in Requests : m # n => updater'[m] = updater[m]
    BY <1>4 DEF ChangeTimerFires, PutUpdate, GotoUpdater, TypeOK
  <2> QED
    BY <1>1, <2>1
<1>5. ASSUME NEW n \in Requests, TakeProjectLock(n) PROVE Held
  <2>1. /\ projectLock' = <<"request", n>> /\ updater'[n] = "cancel" /\ updater[n] = "lock"
        /\ \A m \in Requests : m # n => updater'[m] = updater[m]
        /\ UNCHANGED <<launcherLock, flush>>
    BY <1>5 DEF TakeProjectLock, GotoUpdater, TypeOK
  <2>2. ProjectLockHeld'
    BY <2>1 DEF ProjectLockHeld
  <2>3. LauncherLockHeld'
    BY <2>1 DEF LauncherLockHeld
  <2> QED
    BY <2>2, <2>3
<1>6. ASSUME NEW n \in Requests, CancelPostprocessor(n) PROVE Held
  <2>1. /\ launcherLock' = <<"request", n>> /\ updater[n] = "cancel" /\ updater'[n] = "join"
        /\ \A m \in Requests : m # n => updater'[m] = updater[m]
        /\ UNCHANGED <<projectLock, updating>>
    BY <1>6 DEF CancelPostprocessor, GotoUpdater, TypeOK
  <2>2. LauncherLockHeld'
    BY <2>1 DEF LauncherLockHeld
  <2>3. ProjectLockHeld'
    BY <2>1 DEF ProjectLockHeld
  <2> QED
    BY <2>2, <2>3
<1>7. ASSUME NEW n \in Requests, Cancelled(n) PROVE Held
  BY <1>7 DEF Cancelled, CancelEnd, ProjectLockHeld, LauncherLockHeld
<1>8. ASSUME UpdateThreadStep PROVE Held
  <2>1. UNCHANGED <<launcherLock, updater>>
    BY <1>8 DEF UpdateThreadStep, GetUpdate, LockForUpdate, ParseFile, SetPage, EndOfUpdate, UpdateRaises, DeletePage, ArmPostprocess
  <2>2. CASE GetUpdate
    BY <1>1, <2>1, <2>2 DEF GetUpdate, ProjectLockHeld, LauncherLockHeld
  <2>3. CASE LockForUpdate \/ ParseFile \/ SetPage
    <3>1. updating'.step \in {"work", "set", "publish"} /\ flush' = flush
      BY <2>3 DEF LockForUpdate, ParseFile, SetPage, TypeOK
    <3> QED
      BY <2>1, <3>1 DEF ProjectLockHeld, LauncherLockHeld
  <2>4. CASE EndOfUpdate \/ UpdateRaises \/ DeletePage
    <3>1. projectLock' = Nobody /\ ArmPostprocess /\ updating.step # "get"
      BY <2>4 DEF EndOfUpdate, UpdateRaises, MayRaise, DeletePage, Works, ArmPostprocess
    <3>2. flush[updating.update.n] = "none"
      BY <3>1 DEF Unprocessed
    <3>3. \A m \in Flushes : flush[m] = "join" => flush'[m] = "join"
      BY <3>1, <3>2 DEF ArmPostprocess
    <3> QED
      BY <2>1, <3>1, <3>3 DEF ProjectLockHeld, LauncherLockHeld
  <2> QED
    BY <1>8, <2>2, <2>3, <2>4 DEF UpdateThreadStep
<1>9. ASSUME NEW n \in Flushes, FlushStep(n) PROVE Held
  <2>1. UNCHANGED <<projectLock, updating>> /\ \A m \in Flushes : m # n => flush'[m] = flush[m]
    BY <1>9 DEF FlushStep, PostprocessTimerFires, Postprocess, FlushCancels, FlushLaunches, FlushRaises, MergeDiagnostics, Publish, TakeLockForPreview, PreviewReturns, GotoFlush, TypeOK
  <2>2. \A m \in Requests : updater[m] \in {"cancel", "join"} => updater'[m] = updater[m]
    BY <1>9 DEF FlushStep, PostprocessTimerFires, Postprocess, FlushCancels, FlushLaunches, FlushRaises, MergeDiagnostics, Publish, TakeLockForPreview, PreviewReturns, Previews, TypeOK
  <2>3. ProjectLockHeld'
    BY <2>1, <2>2 DEF ProjectLockHeld
  <2>4. CASE FlushCancels(n)
    <3>1. launcherLock' = <<"flush", n>> /\ flush'[n] = "join"
      BY <2>4 DEF FlushCancels, GotoFlush, TypeOK
    <3> QED
      BY <2>3, <3>1 DEF LauncherLockHeld
  <2>5. CASE FlushLaunches(n)
    BY <2>3, <2>5 DEF FlushLaunches, CancelEnd, LauncherLockHeld
  <2>6. FlushCancels(n) \/ FlushLaunches(n) \/ (launcherLock' = launcherLock /\ flush[n] # "join")
    BY <1>9 DEF FlushStep, PostprocessTimerFires, Postprocess, FlushRaises, MergeDiagnostics, Publish, TakeLockForPreview, PreviewReturns, GotoFlush
  <2> QED
    BY <1>1, <2>1, <2>2, <2>4, <2>5, <2>6
<1>10. ASSUME NEW n \in Flushes, WorkerStep(n) PROVE Held
  BY <1>1, <1>10 DEF WorkerStep, NothingChanged, CopyPages, SeesCancellation, PipelineFails, Commit
<1>11. ASSUME UNCHANGED vars PROVE Held
  BY <1>1, <1>11 DEF vars
<1> QED
  BY <1>2, <1>3, <1>4, <1>5, <1>6, <1>7, <1>8, <1>9, <1>10, <1>11 DEF Next, ServerStep, UpdaterStep

LEMMA AwaitedStep ==
    ASSUME TypeOK, Numbering, PreviewsStart, Awaited, [Next]_vars
    PROVE  Awaited'
<1> USE ServerAssumption DEF ServerAssumption
<1>1. \A n \in Previews : n \in Flushes /\ n \in Requests /\ updater[n] = "preview"
  BY DEF Previews
<1>2. CASE /\ Previews' \subseteq Previews /\ worker' = worker
           /\ \A n \in Flushes : flush'[n] = flush[n] \/ (flush'[n] # "wait" /\ n \notin Previews')
  BY <1>1, <1>2 DEF Awaited
<1>3. ASSUME NEW f \in Files, ClientStep(f) PROVE Awaited'
  <2>1. UNCHANGED <<flush, worker>> /\ Previews' \subseteq Previews
    BY <1>3, NewRequest DEF ClientStep, DidOpen, DidChange, DidClose, DidChangeWatchedFile, Receive, CallUpdateFile, Debounce, TypeOK, Previews
  <2> QED
    BY <1>2, <2>1
<1>4. ASSUME GetPageAst PROVE Awaited'
  <2>1. /\ sent + 1 \in Requests /\ sent + 1 \in Flushes /\ worker' = worker
        /\ flush' = [flush EXCEPT ![sent + 1] = "asked"]
        /\ Previews' = Previews \cup {sent + 1}
    BY <1>4, NewRequest DEF GetPageAst, TypeOK, Previews
  <2>2. flush'[sent + 1] = "asked" /\ \A n \in Flushes : n # sent + 1 => flush'[n] = flush[n]
    BY <2>1 DEF TypeOK
  <2> QED
    BY <1>1, <2>1, <2>2 DEF Awaited
<1>5. ASSUME NEW n \in Requests, UpdaterStep(n) PROVE Awaited'
  <2>1. UNCHANGED <<flush, worker>> /\ Previews' \subseteq Previews
    BY <1>5 DEF UpdaterStep, ChangeTimerFires, TakeProjectLock, CancelPostprocessor, Cancelled, PutUpdate, GotoUpdater, TypeOK, Previews
  <2> QED
    BY <1>2, <2>1
<1>6. ASSUME UpdateThreadStep PROVE Awaited'
  <2>1. UNCHANGED <<worker, updater>> /\ Previews' = Previews
    BY <1>6 DEF UpdateThreadStep, GetUpdate, LockForUpdate, ParseFile, SetPage, EndOfUpdate, UpdateRaises, DeletePage, ArmPostprocess, Previews
  <2>2. flush' = flush \/ (ArmPostprocess /\ updating.step # "get")
    BY <1>6 DEF UpdateThreadStep, GetUpdate, LockForUpdate, ParseFile, SetPage, EndOfUpdate, UpdateRaises, MayRaise, DeletePage, Works
  <2>3. CASE ArmPostprocess /\ updating.step # "get"
    <3>1. updating.update.n \notin Previews
      BY <2>3 DEF Numbering, Queued, Previews
    <3>2. ASSUME NEW n \in Flushes PROVE flush'[n] = flush[n] \/ (flush'[n] # "wait" /\ n \notin Previews')
      BY <2>1, <2>3, <3>1 DEF ArmPostprocess, PreviewsStart
    <3> QED
      BY <1>2, <2>1, <3>2
  <2> QED
    BY <1>2, <2>1, <2>2, <2>3
<1>7. ASSUME NEW n \in Flushes, FlushStep(n) PROVE Awaited'
  <2>1. /\ \A m \in Flushes : m # n => flush'[m] = flush[m] /\ worker'[m] = worker[m]
        /\ Previews' \subseteq Previews
    BY <1>7 DEF FlushStep, PostprocessTimerFires, Postprocess, FlushCancels, FlushLaunches, FlushRaises, MergeDiagnostics, Publish, TakeLockForPreview, PreviewReturns, GotoFlush, Previews, TypeOK
  <2>2. flush'[n] = "wait" => worker'[n] # "none"
    BY <1>7 DEF FlushStep, PostprocessTimerFires, Postprocess, FlushCancels, FlushLaunches, FlushRaises, MergeDiagnostics, Publish, TakeLockForPreview, PreviewReturns, GotoFlush, TypeOK
  <2>3. n \in Previews' => flush'[n] \in {"asked", "begin", "join", "wait"}
    <3>1. CASE PreviewReturns(n)
      BY <3>1 DEF PreviewReturns, Previews, TypeOK
    <3>2. CASE FlushCancels(n) \/ FlushLaunches(n) \/ TakeLockForPreview(n)
      BY <3>2 DEF FlushCancels, FlushLaunches, TakeLockForPreview, GotoFlush, TypeOK
    <3>3. CASE PostprocessTimerFires(n) \/ Postprocess(n) \/ FlushRaises(n) \/ MergeDiagnostics(n) \/ Publish(n)
      <4>1. n \notin Previews
        BY <3>3 DEF PostprocessTimerFires, Postprocess, FlushRaises, MergeDiagnostics, Publish, GotoFlush, Awaited
      <4> QED
        BY <2>1, <4>1
    <3> QED
      BY <1>7, <3>1, <3>2, <3>3 DEF FlushStep
  <2> QED
    BY <1>1, <2>1, <2>2, <2>3 DEF Awaited
<1>8. ASSUME NEW n \in Flushes, WorkerStep(n) PROVE Awaited'
  <2>1. UNCHANGED <<flush, updater>> /\ \A m \in Flushes : worker'[m] = worker[m] \/ worker'[m] # "none"
    BY <1>8 DEF WorkerStep, NothingChanged, CopyPages, SeesCancellation, PipelineFails, Commit, EndWorker, Returned, TypeOK
  <2> QED
    BY <2>1 DEF Awaited, Previews
<1>9. ASSUME UNCHANGED vars PROVE Awaited'
  BY <1>2, <1>9 DEF vars, Previews
<1> QED
  BY <1>3, <1>4, <1>5, <1>6, <1>7, <1>8, <1>9 DEF Next, ServerStep

\* As long as anything is left to do some thread can do it (Unblocked): the locks of the server, of
\* the project and of the launcher, the join of a worker and the wait for its result never close a
\* ring (language_server.py:308, 355-361, 394-403, util.py:459-462), however many requests come.
THEOREM SomebodyCanMove == Spec => []Unblocked
<1>1. Init => TypeOK /\ Numbering /\ PreviewsStart /\ Unprocessed /\ ProjectLockHeld /\ LauncherLockHeld /\ Awaited
  <2>1. ASSUME Init
        PROVE  PreviewsStart /\ Unprocessed /\ ProjectLockHeld /\ LauncherLockHeld /\ Awaited
    BY <2>1 DEF Init, Idle, PreviewsStart, Previews, Unprocessed, Calling, ProjectLockHeld, LauncherLockHeld, Awaited
  <2> QED
    BY <2>1, InitTypes, InitNumbering
<1>2. /\ TypeOK /\ Numbering /\ PreviewsStart /\ Unprocessed /\ ProjectLockHeld /\ LauncherLockHeld /\ Awaited
      /\ [Next]_vars
      => (TypeOK /\ Numbering /\ PreviewsStart /\ Unprocessed /\ ProjectLockHeld /\ LauncherLockHeld /\ Awaited)'
  BY TypeStep, NumberingStep, PreviewsStartStep, UnprocessedStep, LocksStep, AwaitedStep
<1>3. TypeOK /\ ProjectLockHeld /\ LauncherLockHeld /\ Awaited => Unblocked
  BY HoldersMove DEF Unblocked
<1> QED
  BY <1>1, <1>2, <1>3, PTL DEF Spec
=============================================================================
