--------------------------- MODULE LanguageServer ---------------------------
(***************************************************************************)
(* The language server (src/snooty/language_server.py) over a Project:     *)
(* the request thread, the two Debouncers, the QueueDict of pending        *)
(* updates, the update thread, the threads that postprocess, and what the  *)
(* client is shown.                                                        *)
(*                                                                         *)
(* Requests are numbered in the order they arrive, and a request's number  *)
(* names what it gives rise to: the timer or request thread that runs      *)
(* update_file for it, the postprocess timer its update arms, the thread   *)
(* that timer starts and the worker that thread runs.  Number 0 is         *)
(* m_initialize's own postprocess.  MaxRequests bounds the requests.       *)
(*                                                                         *)
(* A file's text is a version: 0 is no such file, 1 what was on disk when  *)
(* the server started, n + 1 the text that came with request n.  Files are *)
(* RST sources: what an update does to the others is in Project.           *)
(*                                                                         *)
(* WorkerLauncher and PageDatabase are modelled step by step in their own  *)
(* modules.  Here cancel() is two steps (set the Event, the worker is      *)
(* dead), the rest of run() is one with the second, and the copying of the *)
(* pages is one: the races inside the launcher are not repeated.           *)
(***************************************************************************)
EXTENDS Naturals, Sequences, FiniteSets

CONSTANTS Files, MaxRequests,
          OpenAtStart,  \* files the editor has open in the initial state
          Nobody,       \* a lock is free
          Raw           \* diagnostics of a parse that no postprocessing is merged into

ASSUME ServerAssumption ==
    /\ MaxRequests \in Nat
    /\ OpenAtStart \subseteq Files
    /\ Nobody \notin {"request", "update", "flush"} \X (0..MaxRequests)
    /\ Raw \notin [Files -> 0..(MaxRequests + 1)]

Requests == 1..MaxRequests
Flushes == 0..MaxRequests
Versions == 0..(MaxRequests + 1)
Contents == [Files -> Versions]

\* An update of a file: the request it is for, Changed or Deleted, and the text
\* that comes with it; text 0 is None, the file is read when it is parsed.
Updates == [n : Flushes, file : Files, type : {"Changed", "Deleted"}, text : Versions]

\* No update: what is forgotten when an update has been put or processed.
NoUpdate == [n |-> 0, file |-> "none", type |-> "none", text |-> 0]

VARIABLES
    \* the client
    sent,           \* requests sent so far
    request,        \* what update_file is called with for each request
    open,           \* files open in the editor
    disk,           \* the files on disk
    \* the server's threads
    serving,        \* the request the request thread is in update_file for, or 0
    updater,        \* update_file for each request
    pending,        \* pending_updates, in the order of its keys
    updating,       \* the update thread: its step, the update, the text it parses
    projectLock,    \* who holds _project_lock
    flush,          \* the thread that postprocesses for each request
    \* PageDatabase and its WorkerLauncher
    launcherLock,   \* who holds the launcher's lock
    event,          \* __cancel
    worker,         \* the worker of each flush
    copied,         \* the pages each worker copied, then what its run returned
    parsed, changed, cached,
    \* diagnostics
    merged,         \* the parsed pages each flush merged diagnostics from
    view,           \* the diagnostics the client is shown for each file
    lastPut,        \* auxiliary: the last update put in pending_updates, per file
    refused,        \* auxiliary: files whose last update put has raised
    swept           \* auxiliary: a preview has cancelled a postprocessing

clientVars == <<sent, request, open, disk>>
queueVars == <<pending, lastPut, refused>>
launchVars == <<launcherLock, event, swept>>
pageVars == <<parsed, changed>>
vars == <<clientVars, serving, updater, pending, updating, projectLock, flush, launchVars,
          worker, copied, pageVars, cached, merged, view, lastPut, refused, swept>>

\* Who holds a lock: update_file for a request, the update thread, or the
\* thread that postprocesses for a request.
Holders == ({"request", "update", "flush"} \X Flushes) \cup {Nobody}

(***************************************************************************)
(* update_file: a didChange is armed on the shared debouncer first, the    *)
(* other kinds call update_file on the request thread.                     *)
(*   lock   waits for _project_lock        join  waits for the worker      *)
(*   cancel about to cancel the worker     put   about to put the update   *)
(* A request for the tree of a page is a preview: it calls no update_file. *)
(***************************************************************************)
UpdaterStates ==
    {"none", "armed", "dropped", "lock", "cancel", "join", "put", "preview", "done"}

(***************************************************************************)
(* postprocess() and the thread it starts:                                 *)
(*   armed   in _postprocessor_debouncer   wait    on the result queue     *)
(*   called  waits for _project_lock       publish about to publish        *)
(*   begin   about to cancel the worker    join    waits for the old one   *)
(* A preview postprocesses too, on the request thread and for its answer   *)
(* alone, once it is no longer asked for the project's lock.               *)
(***************************************************************************)
FlushStates == {"none", "asked", "armed", "dropped", "called", "begin", "join", "wait",
                "publish", "done"}

\* A worker: not started, about to test for changes and copy, in the
\* pipeline, or dead with one of three outcomes.
WorkerStates == {"none", "start", "pipeline", "result", "cancelled", "failed"}

\* The update thread waiting for an update.
Idle == [step |-> "get", update |-> NoUpdate, text |-> 0]

NoContent == [f \in Files |-> 0]

Init ==
    /\ sent = 0
    /\ request = [n \in Requests |-> NoUpdate]
    /\ open = OpenAtStart
    /\ disk = [f \in Files |-> 1]
    /\ serving = 0
    /\ updater = [n \in Requests |-> "none"]
    /\ pending = <<>>
    /\ updating = Idle
    /\ projectLock = Nobody
    \* m_initialize: build(postprocess=False), start the update thread, postprocess()
    /\ flush = [n \in Flushes |-> IF n = 0 THEN "called" ELSE "none"]
    /\ launcherLock = Nobody
    /\ event = FALSE
    /\ worker = [n \in Flushes |-> "none"]
    /\ copied = [n \in Flushes |-> NoContent]
    /\ parsed = disk
    /\ changed = Files
    /\ cached = NoContent
    /\ merged = [n \in Flushes |-> NoContent]
    /\ view = [f \in Files |-> [parse |-> 1, post |-> Raw]]
    /\ lastPut = [f \in Files |-> NoUpdate]
    /\ refused = {}
    /\ swept = FALSE

-----------------------------------------------------------------------------
\* The client, and the handlers up to update_file.

\* Debouncer.run stops the timers of the run before, whatever file they are
\* for; one that has fired is not stopped.
Debounce(n) ==
    updater' = [m \in Requests |->
                    IF m = n THEN "armed"
                    ELSE IF updater[m] = "armed" THEN "dropped" ELSE updater[m]]

\* A handler that calls update_file itself keeps the request thread, so the
\* next message waits until it has put its update.
CallUpdateFile(n) ==
    /\ updater' = [updater EXCEPT ![n] = "lock"]
    /\ serving' = n

Receive(f, type, text) ==
    /\ sent < MaxRequests
    /\ serving = 0
    /\ sent' = sent + 1
    /\ request' = [request EXCEPT ![sent + 1] =
                      [n |-> sent + 1, file |-> f, type |-> type, text |-> text]]
    /\ UNCHANGED <<queueVars, updating, projectLock, flush, launchVars, worker,
                   copied, pageVars, cached, merged, view>>

DidOpen(f) ==
    /\ f \notin open
    /\ open' = open \cup {f}
    /\ Receive(f, "Changed", sent + 2)
    /\ CallUpdateFile(sent + 1)
    /\ UNCHANGED disk

DidChange(f) ==
    /\ f \in open
    /\ Receive(f, "Changed", sent + 2)
    /\ Debounce(sent + 1)
    /\ UNCHANGED <<open, disk, serving>>

DidClose(f) ==
    /\ f \in open
    /\ open' = open \ {f}
    /\ Receive(f, "Changed", 0)
    /\ CallUpdateFile(sent + 1)
    /\ UNCHANGED disk

\* The file is written or removed, and the client's watcher says so.
DidChangeWatchedFile(f, type) ==
    /\ type = "Deleted" => disk[f] # 0
    /\ disk' = [disk EXCEPT ![f] = IF type = "Deleted" THEN 0 ELSE sent + 2]
    /\ Receive(f, type, 0)
    /\ CallUpdateFile(sent + 1)
    /\ UNCHANGED open

\* m_text_document__get_page_ast, and the resolving of a directive's .rst file:
\* the request thread waits for Project._lock.
GetPageAst ==
    /\ sent < MaxRequests
    /\ serving = 0
    /\ sent' = sent + 1
    /\ serving' = sent + 1
    /\ updater' = [updater EXCEPT ![sent + 1] = "preview"]
    /\ flush' = [flush EXCEPT ![sent + 1] = "asked"]
    /\ UNCHANGED <<request, open, disk, queueVars, updating, projectLock, launchVars,
                   worker, copied, pageVars, cached, merged, view>>

-----------------------------------------------------------------------------
\* update_file.

GotoUpdater(n, from, to) ==
    /\ updater[n] = from
    /\ updater' = [updater EXCEPT ![n] = to]

ChangeTimerFires(n) ==
    /\ GotoUpdater(n, "armed", "lock")
    /\ UNCHANGED <<clientVars, serving, queueVars, updating, projectLock, flush, launchVars,
                   worker, copied, pageVars, cached, merged, view>>

TakeProjectLock(n) ==
    /\ projectLock = Nobody
    /\ projectLock' = <<"request", n>>
    /\ GotoUpdater(n, "lock", "cancel")
    /\ UNCHANGED <<clientVars, serving, queueVars, updating, flush, launchVars, worker,
                   copied, pageVars, cached, merged, view>>

Alive(n) == worker[n] \in {"start", "pipeline"}
SomeWorkerAlive == \E n \in Flushes : Alive(n)

Previews == {n \in Requests : updater[n] = "preview"}

\* Project._lock, which Project.update holds besides the server's lock.
Previewing == \E n \in Previews : flush[n] \in {"begin", "join", "wait"}
UpdatingProject == updating.step \in {"set", "publish"}

\* WorkerLauncher.cancel(), up to the join.
CancelBegin ==
    /\ launcherLock = Nobody
    /\ event' = SomeWorkerAlive

\* ... and from there.
CancelEnd ==
    /\ ~SomeWorkerAlive
    /\ launcherLock' = Nobody
    /\ event' = FALSE
    /\ UNCHANGED swept

CancelPostprocessor(n) ==
    /\ CancelBegin
    /\ launcherLock' = <<"request", n>>
    /\ GotoUpdater(n, "cancel", "join")
    /\ UNCHANGED <<swept, clientVars, serving, queueVars, updating, projectLock, flush, worker,
                   copied, pageVars, cached, merged, view>>

\* Faulty variant of Cancelled: _project_lock is not given back.
CancelledKeepsLock(n) ==
    /\ CancelEnd
    /\ GotoUpdater(n, "join", "put")
    /\ UNCHANGED <<clientVars, serving, queueVars, updating, projectLock, flush,
                   worker, copied, pageVars, cached, merged, view>>

Cancelled(n) ==
    /\ CancelEnd
    /\ GotoUpdater(n, "join", "put")
    /\ projectLock' = Nobody
    /\ UNCHANGED <<clientVars, serving, queueVars, updating, flush, worker, copied,
                   pageVars, cached, merged, view>>

\* Faulty variant of QueuePut: a key that is there is put once more.
QueuePutTwice(update) == pending' = Append(pending, update)

\* Faulty variant of QueuePut: a key that is there keeps its value.
QueuePutKeepsOld(update) ==
    pending' = IF \E i \in DOMAIN pending : pending[i].file = update.file
               THEN pending ELSE Append(pending, update)

\* QueueDict.put: a key that is there keeps its place and takes the new value.
QueuePut(update) ==
    pending' =
        IF \E i \in DOMAIN pending : pending[i].file = update.file
        THEN [i \in DOMAIN pending |->
                 IF pending[i].file = update.file THEN update ELSE pending[i]]
        ELSE Append(pending, update)

PutUpdate(n) ==
    /\ GotoUpdater(n, "put", "done")
    /\ serving' = IF serving = n THEN 0 ELSE serving
    /\ QueuePut(request[n])
    /\ lastPut' = [lastPut EXCEPT ![request[n].file] = request[n]]
    /\ refused' = refused \ {request[n].file}
    /\ request' = [request EXCEPT ![n] = NoUpdate]
    /\ UNCHANGED <<sent, open, disk, updating, projectLock, flush, launchVars,
                   worker, copied, pageVars, cached, merged, view>>

-----------------------------------------------------------------------------
\* The update thread.

\* QueueDict.get: the oldest key.
GetUpdate ==
    /\ updating.step = "get"
    /\ pending # <<>>
    /\ updating' = [step |-> "lock", update |-> Head(pending), text |-> 0]
    /\ pending' = Tail(pending)
    /\ UNCHANGED <<clientVars, serving, updater, lastPut, refused, projectLock, flush,
                   launchVars, worker, copied, pageVars, cached, merged, view>>

LockForUpdate ==
    /\ updating.step = "lock"
    /\ projectLock = Nobody
    /\ projectLock' = <<"update", updating.update.n>>
    /\ updating' = [updating EXCEPT !.step = "work"]
    /\ UNCHANGED <<clientVars, serving, updater, queueVars, flush, launchVars,
                   worker, copied, pageVars, cached, merged, view>>

Works(type) == updating.step = "work" /\ updating.update.type = type /\ ~Previewing

\* The text an update parses: its own, or else the file's, 0 if there is none.
TextOf(update) == IF update.text # 0 THEN update.text ELSE disk[update.file]

ShowParse(f, version) == view' = [view EXCEPT ![f] = [parse |-> version, post |-> Raw]]

\* project.update reads and parses the file, and publishes what the parse
\* found before the page is set.
ParseFile ==
    LET text == TextOf(updating.update) IN
    /\ Works("Changed")
    /\ text # 0
    /\ ShowParse(updating.update.file, text)
    /\ updating' = [updating EXCEPT !.step = "set", !.text = text]
    /\ UNCHANGED <<clientVars, serving, updater, queueVars, projectLock, flush,
                   launchVars, worker, copied, pageVars, cached, merged>>

ChangePage(f, version) ==
    /\ parsed' = [parsed EXCEPT ![f] = version]
    /\ changed' = changed \cup {f}

\* _page_updated sets the page, and later publishes the parse once more.
SetPage ==
    /\ updating.step = "set"
    /\ ChangePage(updating.update.file, updating.text)
    /\ updating' = [updating EXCEPT !.step = "publish"]
    /\ UNCHANGED <<clientVars, serving, updater, queueVars, projectLock, flush,
                   launchVars, worker, copied, cached, merged, view>>

\* Faulty variant of ArmPostprocess: no timer is armed while some thread is
\* postprocessing, as if it would see to the update.
ArmPostprocessUnlessBusy ==
    /\ updating' = Idle
    /\ projectLock' = Nobody
    /\ flush' = IF \E m \in Flushes : flush[m] \in {"begin", "join", "wait"}
                THEN flush ELSE [flush EXCEPT ![updating.update.n] = "armed"]
    /\ UNCHANGED <<clientVars, serving, updater, pending, lastPut, launchVars, worker,
                   copied, cached, merged>>

\* After an update, whether it raised or not: stop the timer of the update
\* before if it has not fired, arm a new one, leave the lock.  While the lock
\* is held a timer that fires gets nowhere, so this is one step with the last
\* of the update.
ArmPostprocess ==
    /\ updating' = Idle
    /\ projectLock' = Nobody
    /\ flush' = [m \in Flushes |->
                    IF m = updating.update.n THEN "armed"
                    ELSE IF flush[m] = "armed" THEN "dropped" ELSE flush[m]]
    /\ UNCHANGED <<clientVars, serving, updater, pending, lastPut, launchVars, worker,
                   copied, cached, merged>>

EndOfUpdate ==
    /\ updating.step = "publish"
    /\ ShowParse(updating.update.file, updating.text)
    /\ ArmPostprocess
    /\ UNCHANGED <<pageVars, refused>>

\* The update that raised is the last one put for its file, or a newer one waits.
Refuse ==
    refused' = IF updating.update = lastPut[updating.update.file]
               THEN refused \cup {updating.update.file} ELSE refused

\* Where an update raises: nothing to read, the parser fails at the text, or,
\* once the parse is published, one of the page's pending tasks fails.
MayRaise == Works("Changed") \/ updating.step = "set"

\* Faulty variant of UpdateRaises: the exception skips the debouncer.
UpdateRaisesUnarmed ==
    /\ MayRaise
    /\ Refuse
    /\ updating' = Idle
    /\ projectLock' = Nobody
    /\ UNCHANGED <<clientVars, serving, updater, pending, lastPut, flush, launchVars,
                   worker, copied, pageVars, cached, merged, view>>

\* project.update raises, whatever the text, and the update thread logs it: the
\* page stays what it was.
UpdateRaises ==
    /\ MayRaise
    /\ Refuse
    /\ ArmPostprocess
    /\ UNCHANGED <<pageVars, view>>

\* project.delete: nothing is published for a file that is gone.
DeletePage ==
    /\ Works("Deleted")
    /\ ChangePage(updating.update.file, 0)
    /\ ArmPostprocess
    /\ UNCHANGED <<view, refused>>

-----------------------------------------------------------------------------
\* postprocess() and the thread it starts.

GotoFlush(n, from, to) ==
    /\ flush[n] = from
    /\ flush' = [flush EXCEPT ![n] = to]

PostprocessTimerFires(n) ==
    /\ GotoFlush(n, "armed", "called")
    /\ UNCHANGED <<clientVars, serving, updater, queueVars, updating, projectLock, launchVars,
                   worker, copied, pageVars, cached, merged, view>>

\* `with self._project_lock: project = self.project`, then the thread starts.
Postprocess(n) ==
    /\ GotoFlush(n, "called", "begin")
    /\ projectLock = Nobody
    /\ UNCHANGED <<clientVars, serving, updater, queueVars, updating, projectLock, launchVars,
                   worker, copied, pageVars, cached, merged, view>>

FlushCancels(n) ==
    /\ GotoFlush(n, "begin", "join")
    /\ CancelBegin
    /\ launcherLock' = <<"flush", n>>
    /\ swept' = (swept \/ (n \in Previews /\ SomeWorkerAlive))
    /\ UNCHANGED <<clientVars, serving, updater, queueVars, updating, projectLock, worker,
                   copied, pageVars, cached, merged, view>>

FlushLaunches(n) ==
    /\ GotoFlush(n, "join", "wait")
    /\ CancelEnd
    /\ worker' = [worker EXCEPT ![n] = "start"]
    /\ UNCHANGED <<clientVars, serving, updater, queueVars, updating, projectLock, copied,
                   pageVars, cached, merged, view>>

Forget(n) ==
    /\ copied' = [copied EXCEPT ![n] = NoContent]
    /\ merged' = [merged EXCEPT ![n] = NoContent]

\* A CancelledException is swallowed, any other exception ends the thread; what
\* the thread held in its variables is forgotten when it ends.
FlushRaises(n) ==
    /\ n \notin Previews
    /\ worker[n] \in {"cancelled", "failed"}
    /\ GotoFlush(n, "wait", "done")
    /\ Forget(n)
    /\ UNCHANGED <<clientVars, serving, updater, queueVars, updating, projectLock, launchVars,
                   worker, pageVars, cached, view>>

\* The result is there: merge_diagnostics takes the parse diagnostics of the
\* pages as they are now, which may be newer.
MergeDiagnostics(n) ==
    /\ n \notin Previews
    /\ worker[n] = "result"
    /\ GotoFlush(n, "wait", "publish")
    /\ merged' = [merged EXCEPT ![n] = parsed]
    /\ UNCHANGED <<clientVars, serving, updater, queueVars, updating, projectLock, launchVars,
                   worker, copied, pageVars, cached, view>>

\* Under _backend_lock: every page parsed at the merge or postprocessed.
Publish(n) ==
    /\ GotoFlush(n, "publish", "done")
    /\ view' = [f \in Files |->
                   IF merged[n][f] # 0 \/ copied[n][f] # 0
                   THEN [parse |-> merged[n][f], post |-> copied[n]]
                   ELSE view[f]]
    /\ Forget(n)
    /\ UNCHANGED <<clientVars, serving, updater, queueVars, updating, projectLock, launchVars,
                   worker, pageVars, cached>>

TakeLockForPreview(n) ==
    /\ GotoFlush(n, "asked", "begin")
    /\ ~UpdatingProject
    /\ UNCHANGED <<clientVars, serving, updater, queueVars, updating, projectLock, launchVars,
                   worker, copied, pageVars, cached, merged, view>>

\* The tree of the page, or the exception: the result is published to nobody.
PreviewReturns(n) ==
    /\ n \in Previews
    /\ worker[n] \in {"result", "cancelled", "failed"}
    /\ GotoFlush(n, "wait", "done")
    /\ updater' = [updater EXCEPT ![n] = "done"]
    /\ serving' = 0
    /\ Forget(n)
    /\ UNCHANGED <<clientVars, queueVars, updating, projectLock, launchVars, worker, pageVars,
                   cached, view>>

-----------------------------------------------------------------------------
\* The worker: PageDatabase's `start`, between its critical sections.

EndWorker(n, outcome) == worker' = [worker EXCEPT ![n] = outcome]
Returned == IF event THEN "cancelled" ELSE "result"

NothingChanged(n) ==
    /\ worker[n] = "start"
    /\ changed = {}
    /\ copied' = [copied EXCEPT ![n] = cached]
    /\ EndWorker(n, Returned)
    /\ UNCHANGED <<clientVars, serving, updater, queueVars, updating, projectLock, flush,
                   launchVars, pageVars, cached, merged, view>>

CopyPages(n) ==
    /\ worker[n] = "start"
    /\ changed # {}
    /\ copied' = [copied EXCEPT ![n] = parsed]
    /\ EndWorker(n, "pipeline")
    /\ UNCHANGED <<clientVars, serving, updater, queueVars, updating, projectLock, flush,
                   launchVars, pageVars, cached, merged, view>>

\* Some test of the token sees it, while copying or in the pipeline.
SeesCancellation(n) ==
    /\ event
    /\ (worker[n] = "start" /\ changed # {}) \/ worker[n] = "pipeline"
    /\ EndWorker(n, "cancelled")
    /\ UNCHANGED <<clientVars, serving, updater, queueVars, updating, projectLock, flush,
                   launchVars, copied, pageVars, cached, merged, view>>

PipelineFails(n) ==
    /\ worker[n] = "pipeline"
    /\ EndWorker(n, "failed")
    /\ UNCHANGED <<clientVars, serving, updater, queueVars, updating, projectLock, flush,
                   launchVars, copied, pageVars, cached, merged, view>>

Commit(n) ==
    /\ worker[n] = "pipeline"
    /\ cached' = copied[n]
    /\ changed' = {}
    /\ EndWorker(n, Returned)
    /\ UNCHANGED <<clientVars, serving, updater, queueVars, updating, projectLock, flush,
                   launchVars, copied, parsed, merged, view>>

-----------------------------------------------------------------------------
ClientStep(f) ==
    \/ DidOpen(f) \/ DidChange(f) \/ DidClose(f)
    \/ DidChangeWatchedFile(f, "Changed") \/ DidChangeWatchedFile(f, "Deleted")

UpdaterStep(n) ==
    \/ ChangeTimerFires(n)
    \/ TakeProjectLock(n) \/ CancelPostprocessor(n) \/ Cancelled(n) \/ PutUpdate(n)

UpdateThreadStep ==
    \/ GetUpdate \/ LockForUpdate
    \/ ParseFile \/ SetPage \/ EndOfUpdate \/ UpdateRaises \/ DeletePage

FlushStep(n) ==
    \/ PostprocessTimerFires(n) \/ Postprocess(n)
    \/ FlushCancels(n) \/ FlushLaunches(n) \/ FlushRaises(n)
    \/ MergeDiagnostics(n) \/ Publish(n)
    \/ TakeLockForPreview(n) \/ PreviewReturns(n)

WorkerStep(n) ==
    \/ NothingChanged(n) \/ CopyPages(n) \/ SeesCancellation(n)
    \/ PipelineFails(n) \/ Commit(n)

\* No timer is armed and no thread has anything left to do.
Settled ==
    /\ \A n \in Requests : updater[n] \in {"none", "dropped", "done"}
    /\ pending = <<>> /\ updating.step = "get"
    /\ \A n \in Flushes : flush[n] \in {"none", "dropped", "done"} /\ ~Alive(n)

ServerStep ==
    \/ \E n \in Requests : UpdaterStep(n)
    \/ UpdateThreadStep
    \/ \E n \in Flushes : FlushStep(n) \/ WorkerStep(n)

Next ==
    \/ GetPageAst \/ \E f \in Files : ClientStep(f)
    \/ ServerStep
    \/ Settled /\ sent = MaxRequests /\ UNCHANGED vars

Spec == Init /\ [][Next]_vars

-----------------------------------------------------------------------------
TypeOK ==
    /\ sent \in 0..MaxRequests
    /\ request \in [Requests -> Updates \cup {NoUpdate}]
    /\ serving \in 0..sent
    /\ open \subseteq Files
    /\ disk \in Contents
    /\ updater \in [Requests -> UpdaterStates]
    /\ pending \in Seq(Updates)
    /\ \A i, j \in DOMAIN pending : pending[i].file = pending[j].file => i = j
    /\ updating \in [step : {"get", "lock", "work", "set", "publish"},
                     update : Updates \cup {NoUpdate}, text : Versions]
    /\ projectLock \in Holders
    /\ flush \in [Flushes -> FlushStates]
    /\ launcherLock \in Holders
    /\ event \in BOOLEAN
    /\ worker \in [Flushes -> WorkerStates]
    /\ copied \in [Flushes -> Contents] /\ merged \in [Flushes -> Contents]
    /\ parsed \in Contents /\ cached \in Contents
    /\ changed \subseteq Files
    /\ view \in [Files -> [parse : Versions, post : Contents \cup {Raw}]]
    /\ lastPut \in [Files -> Updates \cup {NoUpdate}]
    /\ refused \subseteq Files
    /\ swept \in BOOLEAN

NoRunFailed == \A n \in Flushes : worker[n] # "failed"

\* Once the server has settled, no page is left waiting for the postprocessor,
\* although every request cancels it before it is known whether its update
\* will succeed and a cancelled run is never retried by the thread that asked
\* for it (language_server.py:312-325, 355-361, 399-403).
SettledIsPostprocessed == Settled /\ NoRunFailed => changed = {}

\* Once the server has settled, no file is left with the diagnostics of its
\* parse alone: each update wipes what postprocessing had found for the file,
\* and some later publication merges it again (parser.py:2021-2027, 2158-2177).
\* A preview may cancel the postprocessing that would have; its own result is
\* published to nobody and the other is not retried (language_server.py:399-403).
SettledIsMerged ==
    Settled /\ NoRunFailed /\ ~swept => \A f \in Files : parsed[f] # 0 => view[f].post # Raw

\* Once the server has settled, each file is parsed from what was put last for
\* it, unless that very update raised and left the page of an earlier one
\* (language_server.py:322): the queue keeps one update per file and may be
\* given a newer one while the update thread works on an older, whether the
\* older one raises or not (util.py:631-650).
LastPutWins ==
    Settled => \A f \in Files \ refused :
        LET last == lastPut[f] IN
        /\ last.type = "Deleted" => parsed[f] = 0
        /\ last.type = "Changed" => parsed[f] = TextOf(last)

\* Somebody who has something to do waits for no lock, worker or queue: what
\* each thread, timer and worker waits for where it stands.
CanMove ==
    \/ \E n \in Flushes : Alive(n)
    \/ \E n \in Requests :
          \/ updater[n] \in {"armed", "put"}
          \/ updater[n] = "lock" /\ projectLock = Nobody
          \/ updater[n] = "cancel" /\ launcherLock = Nobody
          \/ updater[n] = "join" /\ ~SomeWorkerAlive
    \/ updating.step = "get" /\ pending # <<>>
    \/ updating.step = "lock" /\ projectLock = Nobody
    \/ updating.step = "work" /\ ~Previewing
    \/ updating.step \in {"set", "publish"}
    \/ \E n \in Flushes :
          \/ flush[n] \in {"armed", "publish"}
          \/ flush[n] = "asked" /\ ~UpdatingProject
          \/ flush[n] = "called" /\ projectLock = Nobody
          \/ flush[n] = "begin" /\ launcherLock = Nobody
          \/ flush[n] = "join" /\ ~SomeWorkerAlive
          \/ flush[n] = "wait" /\ worker[n] \in {"result", "cancelled", "failed"}

\* As long as anything is left to do some thread can do it: request threads,
\* the update thread, timers and postprocessing threads wait for each other's
\* locks, workers and queues (language_server.py:308, 355, 394, util.py:459-462)
\* and never all for one another.
Unblocked == Settled \/ CanMove

\* Unblocked, and who is not blocked has a step to take.  No step is taken
\* twice, so the server settles when the client stops sending.
NeverStuck == Unblocked /\ (Settled \/ ENABLED ServerStep)

\* "now runs the postprocessor (DOP-2546, #358) bringing diagnostic parity with
\* builds" (CHANGELOG.md:777-778): once the server has settled, every file
\* shows what parsing and postprocessing the pages the server holds reports.
DiagnosticParity ==
    Settled /\ NoRunFailed => \A f \in Files :
        parsed[f] # 0 => view[f] = [parse |-> parsed[f], post |-> parsed]
=============================================================================
