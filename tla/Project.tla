------------------------------- MODULE Project -------------------------------
(***************************************************************************)
(* A _Project (src/snooty/parser.py): after one build its files are        *)
(* updated and deleted, one at a time under the project's lock, while the  *)
(* postprocessor runs beside it.  With the Giza domain                     *)
(* (gizaparser/domain.py, gizaparser/nodes.py) and the graph of assets.    *)
(* The caller is the language server's update thread, which asks for       *)
(* sources only (language_server.py:352), or another user of Project.      *)
(*                                                                         *)
(* An update or a deletion is a call that makes other calls: an asset's    *)
(* makes those of the pages that show it, a YAML file's those of the files *)
(* that inherit from it.  `stack` holds the calls that have not returned;  *)
(* an exception empties it (the caller logs it and goes on).  What happens *)
(* between two accesses to the page database is one step.                  *)
(*                                                                         *)
(* No update makes a page of a YAML file: to name it, config.get_fileid is *)
(* given a FileId (gizaparser/domain.py:187), which it asserts it is not   *)
(* (types.py:246).  The pages of YAML files are those that build() made.   *)
(*                                                                         *)
(* Data.  A text is the number of the edit that wrote it, 1 what was there *)
(* when the project was built, 0 no file.  A page is the text it was made  *)
(* from and what its assets were.  What a page inherits and the            *)
(* diagnostics are in CachedBuild and LanguageServer.                      *)
(***************************************************************************)
EXTENDS Naturals, Sequences, FiniteSets

CONSTANTS RstFiles, YamlFiles, Assets,
          Outputs,      \* the pages that a text of a YAML file makes, in order
          Unparsable,   \* the texts of RST files the parser raises an exception at
          Shows,        \* the assets a page shows, of each page and text
          Categories,   \* the categories of the Giza domain
          Category,     \* the category of each YAML file
          Parent,       \* the file each YAML file inherits from, or None
          None,
          MaxEdits, MaxRequests

Sources == RstFiles \cup YamlFiles
Files == Sources \cup Assets
YamlPages == UNION {{Outputs[f, 1][i] : i \in DOMAIN Outputs[f, 1]} : f \in YamlFiles}
Keys == RstFiles \cup YamlPages
Texts == 1..(MaxEdits + 1)
DiskTexts == 0..(MaxEdits + 1)

ASSUME ProjectAssumption ==
    /\ RstFiles \cap YamlFiles = {} /\ Sources \cap Assets = {}
    /\ None \notin Files
    /\ YamlPages \cap Files = {}
    /\ Unparsable \subseteq RstFiles \X Texts
    /\ Shows \in [Keys \X Texts -> SUBSET Assets]
    /\ Category \in [YamlFiles -> Categories]
    /\ Parent \in [YamlFiles -> YamlFiles \cup {None}]
    /\ MaxEdits \in Nat /\ MaxRequests \in Nat

ASSUME OutputsAssumption ==
    /\ DOMAIN Outputs = YamlFiles \X Texts
    /\ \A f \in YamlFiles : Outputs[f, 1] \in Seq(YamlPages)

VARIABLES
    disk, edits, requests,
    built,
    stack,          \* the calls of the caller's thread, the innermost first
    \* the page database and the postprocessor
    parsed, changed, cached,
    copied,         \* what the postprocessor is working on, or None
    \* the asset graph, asset_dg
    assetNodes,     \* the assets in it
    assetEdges,     \* pairs of a source and an asset
    \* the Giza domain
    registry,       \* `nodes` of the categories: what was read for each file
    dg,             \* the graph of each category
    \* auxiliary
    due,            \* the text the last request for each file was about, None
                    \* once the file has been edited again
    failed          \* files whose last request has raised

pageVars == <<parsed, changed>>
graphVars == <<assetNodes, assetEdges>>
yamlVars == <<registry, dg>>
flushVars == <<cached, copied>>
vars == <<disk, edits, requests, built, stack, pageVars, flushVars, graphVars, yamlVars, due, failed>>

\* What a file's text says is known by the file it was written in.
Entry == [of : YamlFiles, text : Texts]
Page == [text : Texts, seen : [Assets -> DiskTexts]]
Pages == [Keys -> Page \cup {None}]
Graph == [nodes : SUBSET YamlFiles, edges : SUBSET (YamlFiles \X YamlFiles)]

Frame ==
    [op : {"asset", "delete"}, file : Assets, todo : SUBSET Sources]
        \cup [op : {"yaml"}, file : YamlFiles, optional : DiskTexts, todo : SUBSET YamlFiles,
              path : YamlFiles]

EmptyGraph == [nodes |-> {}, edges |-> {}]

Init ==
    /\ disk = [f \in Files |-> 1]
    /\ edits = 0 /\ requests = 0 /\ built = FALSE
    /\ stack = <<>>
    /\ parsed = [k \in Keys |-> None] /\ changed = {}
    /\ cached = parsed /\ copied = None
    /\ assetNodes = {} /\ assetEdges = {}
    /\ registry = [f \in YamlFiles |-> None]
    /\ dg = [c \in Categories |-> EmptyGraph]
    /\ due = [f \in Files |-> None]
    /\ failed = {}

-----------------------------------------------------------------------------
\* Pages and their assets.

\* What finishing a page finds of the assets it shows: they are opened then.
Seen(key, text) == [a \in Assets |-> IF a \in Shows[key, text] THEN disk[a] ELSE 0]

PageFrom(key, text) == [text |-> text, seen |-> Seen(key, text)]

\* Faulty variant of AssetsOf: a page's edges are added to those it had.
AssetsOfKeepOld(f, text) ==
    /\ assetEdges' = assetEdges \cup ({f} \X Shows[f, text])
    /\ assetNodes' = assetNodes \cup Shows[f, text]

\* The page is taken out of the graph with its edges, and put back with those of
\* this text.
AssetsOf(f, text) ==
    /\ assetEdges' = {e \in assetEdges : e[1] # f} \cup ({f} \X Shows[f, text])
    /\ assetNodes' = assetNodes \cup Shows[f, text]

\* An RST file is parsed and its page set.
PageUpdated(f, text) ==
    /\ AssetsOf(f, text)
    /\ parsed' = [parsed EXCEPT ![f] = PageFrom(f, text)]
    /\ changed' = changed \cup {f}

\* The text is there, and neither the parser nor a task left for the page's end
\* raises: nothing of the project has changed when one does.
Parses(f, text) == text # 0 /\ <<f, text>> \notin Unparsable

\* DiGraph.predecessors, of a node that is there.
Dependents(a) == {e[1] : e \in {x \in assetEdges : x[2] = a}}

-----------------------------------------------------------------------------
\* The Giza domain.

\* GizaCategory.add.
AddTo(graph, f, of) ==
    IF Parent[of] = None THEN graph
    ELSE [nodes |-> graph.nodes \cup {f, Parent[of]},
          edges |-> graph.edges \cup {<<f, Parent[of]>>}]

\* A file that is reified makes no pages: extracts and releases make one of each
\* node but the bases, whose names begin with "_"; steps always make one.
MakesNoPage(f) == Outputs[registry[f].of, registry[f].text] = <<>>

\* update() asks each category's graph for the files that inherit from it; a
\* graph in which the file is not raises.
IsLinked(f) == \A c \in Categories : f \in dg[c].nodes
Inheriting(f) == {e[1] : e \in UNION {{x \in dg[c].edges : x[2] = f} : c \in Categories}}

-----------------------------------------------------------------------------
\* Files are written and removed, and the caller hears of it, in any order.

Edit(f, text) ==
    /\ built /\ edits < MaxEdits
    /\ edits' = edits + 1
    /\ text \in {0, edits + 2} \ {disk[f]}
    /\ disk' = [disk EXCEPT ![f] = text]
    /\ due' = [due EXCEPT ![f] = None]
    /\ UNCHANGED <<requests, built, stack, pageVars, flushVars, graphVars, yamlVars, failed>>

\* The file that a page which build() makes comes from.
SourceOf(k) ==
    IF k \in RstFiles THEN k
    ELSE CHOOSE f \in YamlFiles : \E i \in DOMAIN Outputs[f, 1] : Outputs[f, 1][i] = k

\* All pages of a YAML file share one node in the asset graph, and each takes
\* away the edges of the one before.
LastPages == RstFiles \cup
    {Outputs[f, 1][Len(Outputs[f, 1])] : f \in {g \in YamlFiles : Outputs[g, 1] # <<>>}}

\* The graph of a category to which every file has been added.
BuiltGraph(c) ==
    LET heirs == {f \in YamlFiles : Category[f] = c /\ Parent[f] # None} IN
    [nodes |-> heirs \cup {Parent[f] : f \in heirs}, edges |-> {<<f, Parent[f]>> : f \in heirs}]

\* build(): every file is parsed, reified and made into pages.
Build ==
    /\ ~built /\ built' = TRUE
    /\ parsed' = [k \in Keys |-> PageFrom(k, 1)]
    /\ assetEdges' = UNION {{SourceOf(k)} \X Shows[k, 1] : k \in LastPages}
    /\ assetNodes' = UNION {Shows[k, 1] : k \in Keys}
    /\ changed' = Keys
    /\ registry' = [f \in YamlFiles |-> [of |-> f, text |-> 1]]
    /\ dg' = [c \in Categories |-> BuiltGraph(c)]
    /\ due' = disk
    /\ UNCHANGED <<disk, edits, requests, stack, flushVars, failed>>

\* A call of update or delete.
Call(f, text) ==
    /\ built /\ stack = <<>>
    /\ requests < MaxRequests
    /\ requests' = requests + 1
    /\ due' = [due EXCEPT ![f] = text]
    /\ UNCHANGED <<disk, built, flushVars>>

Request(f, text) ==
    /\ Call(f, text)
    /\ failed' = failed \ {f}

RequestRaises(f, text) ==
    /\ Call(f, text)
    /\ failed' = failed \cup {f}
    /\ UNCHANGED <<stack, pageVars, graphVars, yamlVars>>

\* The text that comes with an update of a file open in the editor, which counts
\* as an edit; or none, and the file is read.
OptionalTexts == {0, edits + 2} \cap DiskTexts
Takes(optional) == edits' = IF optional # 0 THEN edits + 1 ELSE edits
TextOf(f, optional) == IF optional # 0 THEN optional ELSE disk[f]
DueText(f, optional) == IF TextOf(f, optional) = 0 THEN None ELSE TextOf(f, optional)

-----------------------------------------------------------------------------
\* RST files.

UpdateRst(f, optional) ==
    LET text == TextOf(f, optional) IN
    /\ Parses(f, text)
    /\ Request(f, text) /\ Takes(optional)
    /\ PageUpdated(f, text)
    /\ UNCHANGED <<stack, yamlVars>>

\* The file cannot be read, or the parser raises.
UpdateRstRaises(f, optional) ==
    /\ ~Parses(f, TextOf(f, optional))
    /\ RequestRaises(f, DueText(f, optional)) /\ Takes(optional)

\* The page goes, its edges in the asset graph stay.
DeleteRst(f) ==
    /\ Request(f, 0)
    /\ parsed' = [parsed EXCEPT ![f] = None]
    /\ changed' = changed \cup {f}
    /\ UNCHANGED <<edits, stack, graphVars, yamlVars>>

-----------------------------------------------------------------------------
\* Calls within calls.

Push(frame) == stack' = <<frame>> \o stack
Top == Head(stack)
Runs(op) == stack # <<>> /\ Top.op = op
Become(frame) == stack' = <<frame>> \o Tail(stack)
Done(item) == [Top EXCEPT !.todo = @ \ {item}]

Internal == UNCHANGED <<disk, edits, requests, built, flushVars, due>>

Return ==
    /\ stack' = Tail(stack)
    /\ Internal
    /\ UNCHANGED <<pageVars, graphVars, yamlVars, failed>>

\* The exception leaves every call.
Abandon ==
    /\ stack' = <<>>
    /\ failed' = failed \cup {stack[i].file : i \in DOMAIN stack}
    /\ Internal
    /\ UNCHANGED <<pageVars, graphVars>>

Raise == Abandon /\ UNCHANGED yamlVars

\* A page that depends on the asset is parsed again, from its file.
Reparse(f) ==
    /\ f \in RstFiles /\ Parses(f, disk[f])
    /\ PageUpdated(f, disk[f])

-----------------------------------------------------------------------------
\* update() of an asset.

UpdateAsset(a) ==
    /\ a \in assetNodes
    /\ Request(a, disk[a])
    /\ Push([op |-> "asset", file |-> a, todo |-> Dependents(a)])
    /\ UNCHANGED <<edits, pageVars, graphVars, yamlVars>>

\* An asset that no page has shown is not in the graph.
UpdateAssetRaises(a) ==
    /\ a \notin assetNodes
    /\ RequestRaises(a, disk[a])
    /\ UNCHANGED edits

\* self.pages[f] asserts that nothing has changed since the postprocessor has
\* run and looks for a page of that name, which a YAML file is not.
Fetchable(f) == changed = {} /\ f \in RstFiles /\ cached[f] # None

UpdateDependent(f) ==
    /\ Runs("asset") /\ f \in Top.todo
    /\ Fetchable(f)
    /\ Reparse(f)
    /\ Become(Done(f))
    /\ Internal
    /\ UNCHANGED <<yamlVars, failed>>

DependentRaises(f) ==
    /\ Runs("asset") /\ f \in Top.todo
    /\ ~Fetchable(f) \/ ~Parses(f, disk[f])
    /\ Raise

DependentsDone ==
    /\ Runs("asset") /\ Top.todo = {}
    /\ Return

-----------------------------------------------------------------------------
\* delete() of an asset: the pages are not fetched, but the graph is gone
\* through while each page is taken out of it and put back.

DeleteAsset(a) ==
    /\ a \in assetNodes
    /\ Request(a, disk[a])
    /\ Push([op |-> "delete", file |-> a, todo |-> Dependents(a)])
    /\ UNCHANGED <<edits, pageVars, graphVars, yamlVars>>

DeleteAssetRaises(a) ==
    /\ a \notin assetNodes
    /\ RequestRaises(a, disk[a])
    /\ UNCHANGED edits

\* The page still shows the asset: the dictionary has as many keys as before.
\* (With four dependents or fewer each has its turn, in some order.)
DeleteDependent(f) ==
    /\ Runs("delete") /\ f \in Top.todo
    /\ Reparse(f)
    /\ Top.file \in Shows[f, disk[f]]
    /\ Become(Done(f))
    /\ Internal
    /\ UNCHANGED <<yamlVars, failed>>

\* Faulty variant of DeleteDependentRaises: the exception is swallowed.
DeleteDependentIgnores(f) ==
    /\ Runs("delete") /\ f \in Top.todo
    /\ Reparse(f)
    /\ Top.file \notin Shows[f, disk[f]]
    /\ stack' = <<>>
    /\ Internal
    /\ UNCHANGED <<yamlVars, failed>>

\* It does not: "dictionary changed size during iteration".
DeleteDependentRaises(f) ==
    /\ Runs("delete") /\ f \in Top.todo
    /\ Reparse(f)
    /\ Top.file \notin Shows[f, disk[f]]
    /\ stack' = <<>>
    /\ failed' = failed \cup {Top.file}
    /\ Internal
    /\ UNCHANGED yamlVars

\* The page's file cannot be read or parsed, or the Giza domain does not know it.
DeleteDependentFails(f) ==
    /\ Runs("delete") /\ f \in Top.todo
    /\ IF f \in RstFiles THEN ~Parses(f, disk[f]) ELSE ~IsLinked(f)
    /\ Raise

\* At the end the iterator may notice that the keys are others than they were.
DeleteDone ==
    /\ Runs("delete") /\ Top.todo = {}
    /\ Return

-----------------------------------------------------------------------------
\* update() and delete() of a YAML file.

YamlFrame(f, optional) ==
    [op |-> "yaml", file |-> f, optional |-> optional, todo |-> {f} \cup Inheriting(f),
     path |-> f]

UpdateYaml(f, optional) ==
    /\ IsLinked(f)
    /\ Request(f, DueText(f, optional)) /\ Takes(optional)
    /\ Push(YamlFrame(f, optional))
    /\ UNCHANGED <<pageVars, graphVars, yamlVars>>

UpdateYamlRaises(f, optional) ==
    /\ ~IsLinked(f)
    /\ RequestRaises(f, DueText(f, optional)) /\ Takes(optional)

\* As a dependent of an asset that is deleted.
DeleteDependentYaml(f) ==
    /\ Runs("delete") /\ f \in Top.todo \cap YamlFiles
    /\ IsLinked(f)
    /\ stack' = <<YamlFrame(f, 0), Done(f)>> \o Tail(stack)
    /\ Internal
    /\ UNCHANGED <<pageVars, graphVars, yamlVars, failed>>

InRegistry(f) == registry[f] # None /\ Category[f] = Category[Top.file]

\* A file of the loop that its category does not have is passed over.
SkipFile(f) ==
    /\ Runs("yaml") /\ f \in Top.todo
    /\ ~InRegistry(f)
    /\ Become(Done(f))
    /\ Internal
    /\ UNCHANGED <<pageVars, graphVars, yamlVars, failed>>

\* A turn of the loop.  The file is reified from what is in the registry; then
\* `path`, the file of the turn before, is parsed and put there, with the text
\* of the request if it came with one.
ParseAndAdd(f) ==
    LET text == TextOf(Top.path, Top.optional)
        of == IF Top.optional # 0 THEN Top.file ELSE Top.path
        c == Category[Top.file]
    IN
    /\ Runs("yaml") /\ f \in Top.todo
    /\ InRegistry(f)
    /\ text # 0
    /\ registry' = [registry EXCEPT ![Top.path] = [of |-> of, text |-> text]]
    /\ dg' = [dg EXCEPT ![c] = AddTo(@, Top.path, of)]

RebuildFile(f) ==
    /\ ParseAndAdd(f)
    /\ MakesNoPage(f)
    /\ Become([Done(f) EXCEPT !.path = f])
    /\ Internal
    /\ UNCHANGED <<pageVars, graphVars, failed>>

\* The first page of what was reified cannot be named; what was added stays.
CreatePageRaises(f) ==
    /\ ParseAndAdd(f)
    /\ ~MakesNoPage(f)
    /\ Abandon

RebuildRaises(f) ==
    /\ Runs("yaml") /\ f \in Top.todo
    /\ InRegistry(f)
    /\ TextOf(Top.path, Top.optional) = 0
    /\ Raise

YamlDone ==
    /\ Runs("yaml") /\ Top.todo = {}
    /\ Return

\* Faulty variant of DeleteYaml: the edges to the file's node stay.
DeleteYamlKeepsEdges(f) ==
    /\ Request(f, 0)
    /\ dg' = [c \in Categories |-> [dg[c] EXCEPT !.nodes = @ \ {f}]]
    /\ registry' = [registry EXCEPT ![f] = IF f \in dg[Category[f]].nodes THEN None ELSE @]
    /\ UNCHANGED <<edits, stack, pageVars, graphVars>>

\* A file that is in no graph is not an error, and stays in the registry; the
\* generator that would update the files that inherit from it is never run, and
\* no page goes.
DeleteYaml(f) ==
    /\ Request(f, 0)
    /\ dg' = [c \in Categories |->
                 [nodes |-> dg[c].nodes \ {f}, edges |-> {e \in dg[c].edges : f \notin {e[1], e[2]}}]]
    /\ registry' = [registry EXCEPT ![f] = IF f \in dg[Category[f]].nodes THEN None ELSE @]
    /\ UNCHANGED <<edits, stack, pageVars, graphVars>>

-----------------------------------------------------------------------------
\* The postprocessor, in its own thread (PageDatabase has it step by step).

Copy ==
    /\ copied = None /\ changed # {}
    /\ copied' = parsed
    /\ UNCHANGED <<disk, edits, requests, built, stack, pageVars, cached, graphVars, yamlVars, due, failed>>

Commit ==
    /\ copied # None
    /\ cached' = copied /\ changed' = {} /\ copied' = None
    /\ UNCHANGED <<disk, edits, requests, built, stack, parsed, graphVars, yamlVars, due, failed>>

Cancelled ==
    /\ copied # None
    /\ copied' = None
    /\ UNCHANGED <<disk, edits, requests, built, stack, pageVars, cached, graphVars, yamlVars, due, failed>>

-----------------------------------------------------------------------------
\* Nothing is left to do and no more requests are made.
Finished == requests = MaxRequests /\ stack = <<>> /\ changed = {} /\ copied = None

RstStep(f) ==
    \/ \E text \in OptionalTexts : UpdateRst(f, text) \/ UpdateRstRaises(f, text)
    \/ DeleteRst(f)

AssetStep(a) ==
    \/ UpdateAsset(a) \/ UpdateAssetRaises(a)
    \/ DeleteAsset(a) \/ DeleteAssetRaises(a)

YamlStep(f) ==
    \/ \E text \in OptionalTexts : UpdateYaml(f, text) \/ UpdateYamlRaises(f, text)
    \/ DeleteYaml(f)

DependentStep(f) ==
    \/ UpdateDependent(f) \/ DependentRaises(f)
    \/ DeleteDependent(f) \/ DeleteDependentRaises(f) \/ DeleteDependentFails(f)

YamlLoopStep(f) ==
    \/ SkipFile(f) \/ RebuildFile(f) \/ CreatePageRaises(f) \/ RebuildRaises(f)
    \/ DeleteDependentYaml(f)

Next ==
    \/ Build
    \/ \E f \in Files, text \in DiskTexts : Edit(f, text)
    \/ \E f \in RstFiles : RstStep(f)
    \/ \E a \in Assets : AssetStep(a)
    \/ \E f \in YamlFiles : YamlStep(f) \/ YamlLoopStep(f)
    \/ \E f \in Sources : DependentStep(f)
    \/ DependentsDone \/ DeleteDone \/ YamlDone
    \/ Copy \/ Commit \/ Cancelled
    \/ Finished /\ UNCHANGED vars

Spec == Init /\ [][Next]_vars

-----------------------------------------------------------------------------
TypeOK ==
    /\ disk \in [Files -> DiskTexts]
    /\ built \in BOOLEAN /\ edits \in 0..MaxEdits /\ requests \in 0..MaxRequests
    /\ stack \in Seq(Frame) /\ Len(stack) <= 2
    /\ parsed \in Pages /\ cached \in Pages /\ copied \in Pages \cup {None}
    /\ changed \subseteq Keys
    /\ assetNodes \subseteq Assets /\ assetEdges \subseteq Sources \X assetNodes
    /\ registry \in [YamlFiles -> Entry \cup {None}]
    /\ dg \in [Categories -> Graph]
    /\ \A c \in Categories : dg[c].edges \subseteq dg[c].nodes \X dg[c].nodes
    /\ due \in [Files -> DiskTexts \cup {None}]
    /\ failed \subseteq Files

\* Whatever updates, deletions and exceptions there have been, an RST page is
\* in the asset graph with the assets it shows now, no more and no fewer
\* (parser.py:2238-2249).
GraphIsCurrent ==
    \A f \in RstFiles : parsed[f] # None =>
        {e[2] : e \in {x \in assetEdges : x[1] = f}} = Shows[f, parsed[f].text]

\* Every RST page that shows the asset a shows it as it was when it was last
\* asked for, if it has not been edited since.
IsShown(a) ==
    due[a] # None => \A f \in RstFiles :
        parsed[f] # None /\ a \in Shows[f, parsed[f].text] => parsed[f].seen[a] = disk[a]

\* Once an asset's update or deletion is over, every RST page that shows the
\* asset shows it as it is, unless an exception kept some page from being
\* updated (parser.py:2042-2044, 2259-2262).
AssetsShownUnlessRaised == stack = <<>> => \A a \in Assets \ failed : IsShown(a)

\* "Rebuild any pages depending on this asset" (parser.py:2260), exception or not.
AssetsShown == stack = <<>> => \A a \in Assets : IsShown(a)

\* "updating a file based on new contents" (parser.py:2268), "Remove a file and
\* any nodes it may have created" (gizaparser/nodes.py:394): after a request for
\* a YAML file the registry has the text the request brought, or nothing.
RegistryFollows ==
    stack = <<>> => \A f \in YamlFiles :
        /\ due[f] = 0 => registry[f] = None
        /\ due[f] \in Texts => registry[f] = [of |-> f, text |-> due[f]]
=============================================================================
