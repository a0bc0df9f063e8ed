---------------------------- MODULE PageDatabase ----------------------------
(***************************************************************************)
(* page_database.PageDatabase (src/snooty/page_database.py): parsed pages, *)
(* the set of pages changed since the postprocessor last ran, and the      *)
(* cached PostprocessorResult.  flush() runs `start` on a WorkerLauncher,  *)
(* so the module composes WorkerLauncher: `start` is the launcher's target *)
(* and its steps take the place of the launcher's own target steps.        *)
(*                                                                         *)
(* Data.  A page's text is the number of the edit that wrote it, 0 when    *)
(* the page is not in _parsed; the postprocessed form of a set of pages is *)
(* that set of pages, so a PostprocessorResult is the content it was made  *)
(* from.  MaxEdits bounds the edits.                                       *)
(***************************************************************************)
EXTENDS Naturals, FiniteSets

CONSTANTS Runs, Cancels,    \* calls of flush() and of cancel()
          NoRun, Nobody,
          Pages,
          MaxEdits

ASSUME DatabaseAssumption ==
    /\ Runs \cap Cancels = {}
    /\ NoRun \notin Runs
    /\ Nobody \notin Runs \cup Cancels
    /\ MaxEdits \in Nat

VARIABLES lock, thread, event, pc, worker, queue, raced     \* the launcher's

VARIABLES parsed,       \* _parsed
          changed,      \* __changed_pages
          cached,       \* __cached
          dbLock,       \* the worker that holds PageDatabase._lock, or Nobody
          target,       \* where each worker is in `start`
          toCopy,       \* pages a worker's copying loop has still to copy
          copied,       \* copied_pages of each worker
          result,       \* what each worker's `start` has returned
          edits,        \* edits made so far
          history,      \* auxiliary: the content of _parsed after each edit
          overlapped    \* auxiliary: an edit fell between a copy and its commit

launcherVars == <<lock, thread, event, pc, worker, queue, raced>>
workVars == <<dbLock, target, toCopy, copied, result>>
editVars == <<parsed, edits, history, overlapped>>
dbVars == <<changed, cached, workVars, editVars>>
vars == <<launcherVars, dbVars>>

\* With the theorems about it, which hold of the launcher in this module too.
Launcher == INSTANCE WorkerLauncherProofs

Versions == 0..MaxEdits
Contents == [Pages -> Versions]
Empty == [p \in Pages |-> 0]

(***************************************************************************)
(* `start`, by the line it is about to run:                                *)
(*   enter   the first `with self._lock`                  (line 44)        *)
(*   copy    in the copying loop, holding the lock        (lines 48-55)    *)
(*   post    in Postprocessor.run                         (lines 57-58)    *)
(*   commit  the second `with self._lock`                 (lines 60-62)    *)
(*   left    returned or raised                                            *)
(***************************************************************************)
TargetStates == {"enter", "copy", "post", "commit", "left"}

Init ==
    /\ Launcher!Init
    /\ parsed = Empty
    /\ changed = {}
    /\ cached = Empty
    /\ dbLock = Nobody
    /\ target = [r \in Runs |-> "enter"]
    /\ toCopy = [r \in Runs |-> {}]
    /\ copied = [r \in Runs |-> Empty]
    /\ result = [r \in Runs |-> Empty]
    /\ edits = 0
    /\ history = [k \in Versions |-> Empty]
    /\ overlapped = FALSE

-----------------------------------------------------------------------------
\* Edits, by the threads that parse.

\* A worker has copied the pages and not yet committed what it makes of them.
InPipeline(r) == worker[r] = "running" /\ target[r] \in {"post", "commit"}

Edit(p, version) ==
    /\ edits < MaxEdits
    /\ edits' = edits + 1
    /\ parsed' = [parsed EXCEPT ![p] = version]
    /\ changed' = changed \cup {p}
    /\ history' = [history EXCEPT ![edits + 1] = parsed']
    /\ overlapped' = (overlapped \/ \E r \in Runs : InPipeline(r))
    /\ UNCHANGED <<launcherVars, cached, workVars>>

SetItem(p) ==
    /\ dbLock = Nobody
    /\ Edit(p, edits + 1)

\* A page that is not there is not an error, and counts as changed.
DelItem(p) ==
    /\ dbLock = Nobody
    /\ Edit(p, 0)

-----------------------------------------------------------------------------
\* `start`, in the worker thread.

At(r, state) == worker[r] = "running" /\ target[r] = state

MoveTo(r, state) == target' = [target EXCEPT ![r] = state]

\* `if not self.__changed_pages: return self.__cached`
NothingChanged(r) ==
    /\ At(r, "enter")
    /\ dbLock = Nobody
    /\ changed = {}
    /\ result' = [result EXCEPT ![r] = cached]
    /\ MoveTo(r, "left")
    /\ Launcher!TargetReturns(r)
    /\ UNCHANGED <<changed, cached, dbLock, toCopy, copied, editVars>>

\* Faulty variant of BeginCopy: __changed_pages is cleared with the copy, not
\* when the result is there.
BeginCopyClears(r) ==
    /\ At(r, "enter")
    /\ dbLock = Nobody
    /\ changed # {}
    /\ dbLock' = r
    /\ toCopy' = [toCopy EXCEPT ![r] = {p \in Pages : parsed[p] # 0}]
    /\ changed' = {}
    /\ MoveTo(r, "copy")
    /\ UNCHANGED <<launcherVars, cached, copied, result, editVars>>

BeginCopy(r) ==
    /\ At(r, "enter")
    /\ dbLock = Nobody
    /\ changed # {}
    /\ dbLock' = r
    /\ toCopy' = [toCopy EXCEPT ![r] = {p \in Pages : parsed[p] # 0}]
    /\ MoveTo(r, "copy")
    /\ UNCHANGED <<launcherVars, changed, cached, copied, result, editVars>>

\* One turn of the loop.  The code goes through the pages in sorted order; any
\* order is allowed here.
CopyPage(r) ==
    /\ At(r, "copy")
    /\ ~event
    /\ \E p \in toCopy[r] :
        /\ copied' = [copied EXCEPT ![r][p] = parsed[p]]
        /\ toCopy' = [toCopy EXCEPT ![r] = @ \ {p}]
    /\ UNCHANGED <<launcherVars, changed, cached, dbLock, target, result, editVars>>

\* Faulty variant of CopyCancelled: the exception leaves _lock held.
CopyCancelledKeepsLock(r) ==
    /\ At(r, "copy")
    /\ toCopy[r] # {}
    /\ MoveTo(r, "left")
    /\ Launcher!TargetCancelled(r)
    /\ UNCHANGED <<changed, cached, dbLock, toCopy, copied, result, editVars>>

\* Faulty variant of CopyCancelled: the loop is left, the pipeline goes on.
CopyCancelledBreaks(r) ==
    /\ At(r, "copy")
    /\ toCopy[r] # {}
    /\ event
    /\ dbLock' = Nobody
    /\ MoveTo(r, "post")
    /\ UNCHANGED <<launcherVars, changed, cached, toCopy, copied, result, editVars>>

\* The loop's test of the cancellation token; leaving the `with` frees the lock.
CopyCancelled(r) ==
    /\ At(r, "copy")
    /\ toCopy[r] # {}
    /\ dbLock' = Nobody
    /\ MoveTo(r, "left")
    /\ Launcher!TargetCancelled(r)
    /\ UNCHANGED <<changed, cached, toCopy, copied, result, editVars>>

CopyDone(r) ==
    /\ At(r, "copy")
    /\ toCopy[r] = {}
    /\ dbLock' = Nobody
    /\ MoveTo(r, "post")
    /\ UNCHANGED <<launcherVars, changed, cached, toCopy, copied, result, editVars>>

\* Postprocessor.run returns, sees the token before some page, or raises; with
\* no pages it can only return.
PipelineReturns(r) ==
    /\ At(r, "post")
    /\ MoveTo(r, "commit")
    /\ UNCHANGED <<launcherVars, changed, cached, dbLock, toCopy, copied, result, editVars>>

PipelineStops(r) ==
    /\ At(r, "post")
    /\ copied[r] # Empty
    /\ MoveTo(r, "left")
    /\ Launcher!TargetCancelled(r) \/ Launcher!TargetFails(r)
    /\ UNCHANGED <<changed, cached, dbLock, toCopy, copied, result, editVars>>

\* The token is not looked at again: a cancelled worker that has come this far
\* commits, and every page counts as postprocessed, also one set meanwhile.
Commit(r) ==
    /\ At(r, "commit")
    /\ dbLock = Nobody
    /\ cached' = copied[r]
    /\ changed' = {}
    /\ result' = [result EXCEPT ![r] = copied[r]]
    /\ MoveTo(r, "left")
    /\ Launcher!TargetReturns(r)
    /\ UNCHANGED <<dbLock, toCopy, copied, editVars>>

TargetStep(r) ==
    \/ NothingChanged(r)
    \/ BeginCopy(r) \/ CopyPage(r) \/ CopyCancelled(r) \/ CopyDone(r)
    \/ PipelineReturns(r) \/ PipelineStops(r)
    \/ Commit(r)

LauncherStep ==
    /\ \/ \E c \in Runs \cup Cancels : Launcher!Call(c) \/ Launcher!CancelStep(c)
       \/ \E r \in Runs : \/ Launcher!RunStep(r)
                          \/ Launcher!TestAfterTarget(r)
                          \/ Launcher!Exit(r)
    /\ UNCHANGED dbVars

Next ==
    \/ LauncherStep
    \/ \E r \in Runs : TargetStep(r)
    \/ \E p \in Pages : SetItem(p) \/ DelItem(p)
    \/ Launcher!Finished /\ edits = MaxEdits /\ UNCHANGED vars

Spec == Init /\ [][Next]_vars

-----------------------------------------------------------------------------
DataTypeOK ==
    /\ parsed \in Contents
    /\ changed \subseteq Pages
    /\ cached \in Contents
    /\ dbLock \in Runs \cup {Nobody}
    /\ target \in [Runs -> TargetStates]
    /\ toCopy \in [Runs -> SUBSET Pages]
    /\ copied \in [Runs -> Contents]
    /\ result \in [Runs -> Contents]
    /\ edits \in Versions
    /\ history \in [Versions -> Contents]
    /\ overlapped \in BOOLEAN

\* A worker holds _lock from its test for changes to the end of its copying.
CopyHoldsLock == \A r \in Runs : dbLock = r <=> At(r, "copy")

TypeOK ==
    /\ Launcher!TypeOK
    /\ DataTypeOK
    /\ CopyHoldsLock

\* A page that is not marked as changed is postprocessed, through cancelled and
\* failed runs, repeated and concurrent flushes, unless an edit has fallen
\* between the copy and the commit of some run (page_database.py:55-62).
NoLostChange ==
    ~overlapped => \A p \in Pages \ changed : cached[p] = parsed[p]

\* The sets of pages there have been, and the pairs of an earlier and a later.
Moments == {history[k] : k \in 0..edits}
Successions ==
    {pair \in Moments \X Moments :
        \E i, j \in 0..edits : i <= j /\ pair = <<history[i], history[j]>>}

\* What the postprocessor has been given is the set of pages as it was at one
\* moment, never some pages from before an edit and others from after it: the
\* lock is held over the whole copying loop (page_database.py:44-55).
CachedIsOneMoment == cached \in Moments

\* Unless two flushes have raced in the launcher, the cached result never goes
\* back to pages older than those it was made from (page_database.py:60-62).
NeverBackwards == [][~raced' => <<cached, cached'>> \in Successions]_vars

\* The looks that may still be published are the copies in the pipeline.
Promised == INSTANCE Snapshots
    WITH Readers <- Runs, Texts <- Versions, Absent <- 0,
         pages <- parsed, stale <- changed, view <- cached, answer <- result,
         look <- [r \in Runs |-> IF InPipeline(r) THEN {copied[r]} ELSE {}],
         crowded <- raced

\* For the rest of the program a flush looks at all pages at one moment, though
\* it copies them one by one, and publishes that look or nothing, though it can
\* be cancelled or fail at any step; it looks only if some page has changed and
\* alone, and is else answered with the last result (page_database.py:40-64).
KeepsSnapshots == Promised!Spec
=============================================================================
