--------------------------- MODULE Postprocessor ---------------------------
(***************************************************************************)
(* A run of the postprocessor (postprocess.py, Postprocessor.run, and      *)
(* eventparser.py): the handlers of each pass listen while the pages are   *)
(* walked one after the other, the passes follow each other, and the       *)
(* metadata of the project comes last.  Whoever asked for the run may      *)
(* cancel it, which it notices between two pages.                          *)
(*                                                                         *)
(* A step is a page: nothing else runs on the pages of a snapshot.  The    *)
(* projects to process are given: pages as the parser made them, and what  *)
(* the configuration says.                                                 *)
(***************************************************************************)
EXTENDS TocTree, PageDirectives

CONSTANT Projects   \* a list of projects: [pages, config]

ASSUME ProjectsAssumption == \A i \in DOMAIN Projects : Projects[i].pages # <<>>

VARIABLES project,    \* the project that is processed, by its place in the list
          context,    \* the pages and what the handlers know
          pass,       \* the pass that runs, from 1
          at,         \* the page it comes to next
          token,      \* the cancellation token
          outcome     \* "" while it runs, then "done", "CancelledException" or another exception

vars == <<project, context, pass, at, token, outcome>>

(***************************************************************************)
(* The passes, and which events their handlers listen to                   *)
(***************************************************************************)
Structure ==
  <<"Heading", "TocTitle", "AddTitles", "Footnote", "Program", "Tabs", "Method", "Tutorial",
    "Composable", "Contents", "Instruqt", "Banner", "Guides", "OpenAPI", "Changelog", "Facets",
    "Image", "Collapsible", "Wayfinding", "Dismissible">>

Sooner(handler) == <<handler>> \o SelectSeq(Structure, LAMBDA h : h # handler)

\* Mutants: targets and references in one pass; contents before the headings; composable tutorials
\* before the other selectors.
OnePassForReferences ==
  << <<"Include">>, <<"Substitution">>, Structure,
     <<"Target", "IA", "NamedReference", "Refs", "Reference">> >>

ContentsBeforeHeadings ==
  << <<"Include">>, <<"Substitution">>, Sooner("Contents"), <<"Target", "IA", "NamedReference">>,
     <<"Refs", "Reference">> >>

ComposableBeforeTabs ==
  << <<"Include">>, <<"Substitution">>, Sooner("Composable"), <<"Target", "IA", "NamedReference">>,
     <<"Refs", "Reference">> >>

Passes ==
  << <<"Include">>, <<"Substitution">>, Structure, <<"Target", "IA", "NamedReference">>,
     <<"Refs", "Reference">> >>

EnterNode(handler, c, node) ==
  CASE handler = "Include" -> IncludeEnter(c, node)
    [] handler = "Substitution" -> SubstitutionEnter(c, node)
    [] handler = "Heading" -> HeadingEnter(c, node)
    [] handler = "TocTitle" -> TocTitleEnter(c, node)
    [] handler = "AddTitles" -> AddTitlesEnter(c, node)
    [] handler = "Footnote" -> FootnoteEnter(c, node)
    [] handler = "Program" -> ProgramEnter(c, node)
    [] handler = "Tabs" -> TabsEnter(c, node)
    [] handler = "Method" -> MethodEnter(c, node)
    [] handler = "Tutorial" -> TutorialEnter(c, node)
    [] handler = "Composable" -> ComposableEnter(c, node)
    [] handler = "Contents" -> ContentsEnter(c, node)
    [] handler = "Instruqt" -> InstruqtEnter(c, node)
    [] handler = "Guides" -> GuidesEnter(c, node)
    [] handler = "OpenAPI" -> OpenAPIEnter(c, node)
    [] handler = "Changelog" -> ChangelogEnter(c, node)
    [] handler = "Facets" -> FacetsEnter(c, node)
    [] handler = "Image" -> ImageEnter(c, node)
    [] handler = "Collapsible" -> CollapsibleEnter(c, node)
    [] handler = "Wayfinding" -> WayfindingEnter(c, node)
    [] handler = "Dismissible" -> DismissibleEnter(c, node)
    [] handler = "Target" -> TargetEnter(c, node)
    [] handler = "IA" -> IAEnter(c, node)
    [] handler = "NamedReference" -> NamedReferenceEnter(c, node)
    [] handler = "Refs" -> RefsEnter(c, node)
    [] handler = "Reference" -> ReferenceEnter(c, node)
    [] OTHER -> c

ExitNode(handler, c, node) ==
  CASE handler = "Substitution" -> SubstitutionExit(c, node)
    [] handler = "Tabs" -> TabsExit(c, node)
    [] handler = "Method" -> MethodExit(c, node)
    [] handler = "Composable" -> ComposableExit(c, node)
    [] handler = "Contents" -> ContentsExit(c, node)
    [] handler = "Facets" -> FacetsExit(c, node)
    [] handler = "Collapsible" -> CollapsibleExit(c, node)
    [] handler = "Wayfinding" -> WayfindingExit(c, node)
    [] OTHER -> c

EnterPage(handler, c) ==
  CASE handler = "Footnote" -> FootnoteEnterPage(c)
    [] handler = "Program" -> ProgramEnterPage(c)
    [] handler = "Tabs" -> TabsEnterPage(c)
    [] handler = "Method" -> MethodEnterPage(c)
    [] handler = "Tutorial" -> TutorialEnterPage(c)
    [] handler = "Composable" -> ComposableEnterPage(c)
    [] handler = "Contents" -> ContentsEnterPage(c)
    [] handler = "Instruqt" -> InstruqtEnterPage(c)
    [] handler = "Banner" -> BannerEnterPage(c)
    [] handler = "Changelog" -> ChangelogEnterPage(c)
    [] handler = "Facets" -> FacetsEnterPage(c)
    [] handler = "Image" -> ImageEnterPage(c)
    [] handler = "Wayfinding" -> WayfindingEnterPage(c)
    [] handler = "Dismissible" -> DismissibleEnterPage(c)
    [] handler = "Target" -> TargetEnterPage(c)
    [] handler = "IA" -> IAEnterPage(c)
    [] OTHER -> c

ExitPage(handler, c) ==
  CASE handler = "Substitution" -> SubstitutionExitPage(c)
    [] handler = "Heading" -> HeadingExitPage(c)
    [] handler = "Tabs" -> TabsExitPage(c)
    [] handler = "Method" -> MethodExitPage(c)
    [] handler = "Tutorial" -> TutorialExitPage(c)
    [] handler = "Composable" -> ComposableExitPage(c)
    [] handler = "Contents" -> ContentsExitPage(c)
    [] handler = "Instruqt" -> InstruqtExitPage(c)
    [] handler = "Facets" -> FacetsExitPage(c)
    [] handler = "Dismissible" -> DismissibleExitPage(c)
    [] handler = "IA" -> IAExitPage(c)
    [] OTHER -> c

(***************************************************************************)
(* EventParser                                                             *)
(***************************************************************************)
Handle(event, handler, c, node) ==
  CASE event = "enter_page" -> EnterPage(handler, c)
    [] event = "enter_node" -> EnterNode(handler, c, node)
    [] event = "exit_node" -> ExitNode(handler, c, node)
    [] event = "exit_page" -> ExitPage(handler, c)

\* fire_page and fire_node: the listeners in their order; an exception ends it all.
RECURSIVE Fire(_, _, _, _)
Fire(event, handlers, c, node) ==
  IF handlers = <<>> \/ c.error # "" THEN c
  ELSE Fire(event, Tail(handlers), Handle(event, Head(handlers), c, node), node)

\* _iterate: the listeners hear of a node when it is entered, then of its term or its argument and
\* its children as they are by then, then of its being left.  A walk is the context and the visits
\* that are left to make, in the place of the calls that wait.
Entrance(node, depth) == [event |-> "enter_node", node |-> node, depth |-> depth]

Below(c, node) == Terms(c.heap[node]) \o c.heap[node].children

Inside(c, visit) ==
  IF visit.event = "exit_node" THEN <<>>
  ELSE Append([k \in DOMAIN Below(c, visit.node) |-> Entrance(Below(c, visit.node)[k], visit.depth - 1)],
              [visit EXCEPT !.event = "exit_node"])

Push(c, visit) ==
  IF visit.event = "enter_node" /\ c.heap[visit.node].kind = "root"
  THEN [c EXCEPT !.stack = Append(@, c.heap[visit.node].fileid)] ELSE c

Pop(c, visit) ==
  IF visit.event = "exit_node" /\ c.heap[visit.node].kind = "root"
  THEN [c EXCEPT !.stack = Front(@)] ELSE c

\* An exception ends the walk; so does a visit too deep for the interpreter's stack.
After(c, visit, visits) ==
  [c |-> Pop(c, visit), visits |-> IF c.error # "" THEN <<>> ELSE Inside(c, visit) \o visits]

Visit(p, c, visit, visits) ==
  IF visit.depth = 0 THEN [c |-> Fail(c, "RecursionError"), visits |-> <<>>]
  ELSE After(Fire(visit.event, Passes[p], Push(c, visit), visit.node), visit, visits)

RECURSIVE Iterate(_, _)
Iterate(p, walk) ==
  IF walk.visits = <<>> THEN walk.c
  ELSE Iterate(p, Visit(p, walk.c, Head(walk.visits), Tail(walk.visits)))

\* consume, for one page.
On(c, page) == [c EXCEPT !.stack = <<page.fileid>>]

Off(c) == [c EXCEPT !.stack = <<>>]

Close(p, c, page) == IF c.error # "" THEN c ELSE Off(Fire("exit_page", Passes[p], On(c, page), page.ast))

Open(c, page) == [c |-> Off(c), visits |-> IF c.error # "" THEN <<>> ELSE <<Entrance(page.ast, MaxDepth)>>]

ConsumePage(p, c, page) ==
  Close(p, Iterate(p, Open(Fire("enter_page", Passes[p], On(c, page), page.ast), page)), page)

(***************************************************************************)
(* Postprocessor.run                                                       *)
(***************************************************************************)
\* The pages and the trees of the configuration, read into the heap, and the handlers as new.
Opened(p) ==
  LET Read(o, page) ==
        [heap |-> Load(o.heap, page.tree),
         pages |-> Append(o.pages, [fileid |-> page.tree.fileid, ast |-> Len(o.heap) + 1,
                                    static_assets |-> page.static_assets, facets |-> <<>>])]
      read == FoldLeft(Read, [heap |-> <<>>, pages |-> <<>>], p.pages)
      ReadAll(o, tree) == [heap |-> Load(o.heap, tree), nodes |-> Append(o.nodes, Len(o.heap) + 1)]
      Substitutions(o, s) ==
        LET all == FoldLeft(ReadAll, [heap |-> o.heap, nodes |-> <<>>], s.nodes)
        IN [heap |-> all.heap, nodes |-> (s.name :> all.nodes) @@ o.nodes]
      named == FoldLeft(Substitutions, [heap |-> read.heap, nodes |-> <<>>], p.config.substitutions)
      Banners(o, b) == [heap |-> Load(o.heap, b.tree),
                        nodes |-> Append(o.nodes, [targets |-> b.targets, node |-> Len(o.heap) + 1])]
      bannered == FoldLeft(Banners, [heap |-> named.heap, nodes |-> <<>>], p.config.banners)
      displayed == FoldLeft(ReadAll, [heap |-> bannered.heap, nodes |-> <<>>], p.config.display_name)
      config == [p.config EXCEPT !.banners = bannered.nodes, !.display_name = displayed.nodes]
                @@ [substitution_nodes |-> named.nodes]
  IN [heap |-> displayed.heap, pages |-> read.pages, config |-> config,
      diagnostics |-> <<>>, stack |-> <<>>, error |-> "", in_force |-> <<>>, targets |-> <<>>,
      substitutions |-> NoSubstitutions, headings |-> NewHeadings, toc_titles |-> <<>>,
      pending_targets |-> <<>>, footnote |-> 1, program |-> 0, tabs |-> NewTabs, method |-> NewMethod,
      tutorial |-> NewTutorial, composable |-> NewComposable, contents |-> NewContents, instruqt |-> FALSE,
      guides |-> NewGuides, openapi_pages |-> <<>>, changelog |-> FALSE,
      facets |-> NewFacets(p.config.facets), images |-> NewImages, collapsible |-> FALSE,
      wayfinding |-> NewNesting, skills_card |-> <<>>, target_counter |-> <<>>, ia |-> NewIA,
      named_references |-> <<>>, metadata |-> <<>>]

\* What the pages below a tree are told: the tutorials need a slug for each of their steps.
Metadata(tree, tutorials) ==
  [tree |-> tree, toctreeOrder |-> ToctreeOrder(tree), parentPaths |-> Breadcrumbs(tree),
   multiPageTutorials |-> tutorials]

WithTutorials(c, tree, tutorials) ==
  IF \E slug \in DOMAIN tutorials : None \in Range(tutorials[slug]) THEN Fail(c, "KeyError")
  ELSE [c EXCEPT !.metadata = <<Metadata(tree, tutorials)>>]

WithTree(c, tree) ==
  WithTutorials(c, tree, IF c.config.multi_page_tutorials = {} THEN <<>>
                         ELSE MultiPageTutorials(tree, c.config.multi_page_tutorials))

\* generate_metadata: the tree of the ia directives is preferred to the one of the toctrees.
Preferred(c, iatree, toctree) ==
  IF iatree = <<>> /\ toctree = <<>> THEN c
  ELSE IF iatree = <<>> THEN WithTree(c, toctree[1])
  ELSE IF Endless \in Range(EntriesOf(iatree[1])) THEN Fail(c, "RecursionError")
  ELSE WithTree(IF toctree # <<>> /\ toctree[1].children # <<>>
                THEN Diagnose(c, Index, "InvalidTocTree", 0) ELSE c, iatree[1])

GenerateMetadata(c) ==
  LET built == BuildToctree(c) IN Preferred(built.c, BuildIatree(c), built.tree)

Init ==
  /\ project \in DOMAIN Projects
  /\ context = Opened(Projects[project])
  /\ pass = 0
  /\ at = 1
  /\ token = FALSE
  /\ outcome = ""

Running == outcome = "" /\ context.error = ""

Begin ==
  /\ Running /\ pass = 0
  /\ context' = PropagateFacets(context)
  /\ pass' = 1
  /\ UNCHANGED <<project, at, token, outcome>>

\* The files that are not pages are only walked where they are included.
IsPage(i) == context.pages[i].fileid.ext = ".txt"
Consume ==
  /\ Running /\ pass \in 1..Len(Passes) /\ at <= Len(context.pages)
  /\ IF IsPage(at) THEN ~token /\ context' = ConsumePage(pass, context, context.pages[at])
                   ELSE context' = context
  /\ at' = at + 1
  /\ UNCHANGED <<project, pass, token, outcome>>
\* Mutant: the same pass again.
NextPassAgain ==
  /\ Running /\ pass \in 1..Len(Passes) /\ at > Len(context.pages)
  /\ pass' = pass
  /\ at' = 1
  /\ UNCHANGED <<project, context, token, outcome>>

\* Mutant: a pass that begins before the first page.
NextPassFromZero ==
  /\ Running /\ pass \in 1..Len(Passes) /\ at > Len(context.pages)
  /\ pass' = pass + 1
  /\ at' = 0
  /\ UNCHANGED <<project, context, token, outcome>>

NextPass ==
  /\ Running /\ pass \in 1..Len(Passes) /\ at > Len(context.pages)
  /\ pass' = pass + 1
  /\ at' = 1
  /\ UNCHANGED <<project, context, token, outcome>>

Finish ==
  /\ Running /\ pass = Len(Passes) + 1
  /\ context' = GenerateMetadata(context)
  /\ outcome' = IF context'.error = "" THEN "done" ELSE context'.error
  /\ UNCHANGED <<project, pass, at, token>>

\* Whoever waits for the result no longer does.
Cancel ==
  /\ Running /\ ~token
  /\ token' = TRUE
  /\ UNCHANGED <<project, context, pass, at, outcome>>

Cancelled ==
  /\ Running /\ token /\ pass \in 1..Len(Passes) /\ at <= Len(context.pages) /\ IsPage(at)
  /\ outcome' = "CancelledException"
  /\ UNCHANGED <<project, context, pass, at, token>>

\* An exception of a handler goes through to the caller.
Raise ==
  /\ outcome = "" /\ context.error # ""
  /\ outcome' = context.error
  /\ UNCHANGED <<project, context, pass, at, token>>

Done == outcome # "" /\ UNCHANGED vars

Next == Begin \/ Consume \/ NextPass \/ Finish \/ Cancel \/ Cancelled \/ Raise \/ Done

\* The run goes on until it has an outcome; nobody has to cancel it.  This is weak fairness of its
\* own steps, written out: one of them is possible as long as there is no outcome, and each is
\* known by the variables it changes.
Fairness ==
  []<>(outcome # "") \/ []<><<pass' # pass \/ at' # at \/ outcome' # outcome>>_vars

Spec == Init /\ [][Next]_vars /\ Fairness

(***************************************************************************)
(* Properties                                                              *)
(***************************************************************************)
Files == {context.pages[i].fileid : i \in DOMAIN context.pages}

\* The types of what a run keeps: every node has the slots of its class, its children are nodes, and
\* only files of the project are walked or reported.
TypeOK ==
  /\ project \in DOMAIN Projects
  /\ pass \in 0..(Len(Passes) + 1)
  /\ at \in 1..(Len(context.pages) + 1)
  /\ token \in BOOLEAN
  /\ outcome \in {"", "done", "CancelledException", "RecursionError", "ValueError", "KeyError"}
  /\ LET h == context.heap
         places == 1..Len(h)
     IN \A k \in places : /\ DOMAIN h[k] = Fields(h[k])
                          /\ Range(h[k].children) \cup Range(Terms(h[k])) \subseteq places
  /\ {d.file : d \in Range(context.diagnostics)} \subseteq Files
  /\ Range(context.stack) \subseteq Files

\* The nodes of the pages as they are, and the files that are pages.
Within(i) == Nodes(context.heap, context.pages[i].ast)
PagesOf == {i \in DOMAIN context.pages : IsPage(i)}

\* Nodes left as they were, Left(i) those of page i, are reported once for each page they are on:
\* a node is known by its line.
Accounted(Left(_), kinds) ==
  \A line \in {context.heap[k].line : k \in UNION {Left(i) : i \in PagesOf}} :
    Cardinality({i \in PagesOf : \E k \in Left(i) : context.heap[k].line = line})
      <= Len(SelectSeq(context.diagnostics, LAMBDA d : d.kind \in kinds /\ d.line = line))

\* A facet directive with several values and with children: all values go on the stack, and the
\* children are given to the last.
FacetsShareChildren ==
  \E k \in DOMAIN context.heap :
    LET n == context.heap[k]
    IN Named(n, {"facet"}) /\ n.children # <<>> /\ Len(n.options["values"]) > 1

\* What a handler opens while it walks a page it closes before the next: no substitution stays
\* "seen", no replacement of an include in force, no heading, tab, facet or directive around what
\* follows (each handler's enter_node and exit_node agree, also on nodes that were changed in
\* between), but for values of facets that share their children (postprocess.py:1920).
WalksUnwind ==
  context.error = "" =>
    /\ context.stack = <<>>
    /\ context.substitutions.replacements = <<>> /\ context.substitutions.seen = <<>>
    /\ context.substitutions.unreplaced = <<>> /\ context.substitutions.definitions = <<>>
    /\ context.contents.pattern = <<>> /\ context.contents.current = 0
    /\ context.wayfinding.level = 0 /\ ~context.collapsible
    /\ context.method.option = None /\ ~context.method.described
    /\ context.facets.parents = <<>> \/ FacetsShareChildren

\* A page has the static assets of every file that is part of it, however deep it was included
\* (IncludeHandler adds them to the page, not to the file that includes).
AssetsReachThePage ==
  outcome = "done" =>
    \A i \in PagesOf : \A k \in Within(i) :
      context.heap[k].kind = "root" =>
        Projects[project].pages[PageOf(context, context.heap[k].fileid)].static_assets
          \subseteq context.pages[i].static_assets

\* A substitution reference that got no children is reported, on every page it is on: whether it
\* stands before or behind its definition, in a definition, or in a file that is included.
SubstitutionsAccounted ==
  LET Unfilled(i) ==
        {k \in Within(i) :
           /\ context.heap[k].kind \in {"substitution_reference", "block_substitution_reference"}
           /\ context.heap[k].children = <<>>}
  IN outcome = "done" => Accounted(Unfilled, {"SubstitutionRefError"})

\* The references to targets, and those of a page that lead nowhere.
Refers(n) == n.kind = "ref_role" /\ n.name # "doc"
Loose(i) == {k \in Within(i) : /\ Refers(context.heap[k])
                               /\ context.heap[k].fileid = <<>> /\ context.heap[k].url = None}

\* At the end every reference to a target leads somewhere, or it is reported and no page of the
\* project, whichever was walked last, defines what it names.
RefsAccounted ==
  outcome = "done" =>
    /\ Accounted(Loose, {"TargetNotFound"})
    /\ \A i \in PagesOf : \A k \in Loose(i) :
         LET n == context.heap[k] IN Candidates(context, Key(n.domain, n.name, n.target)) = <<>>

\* A reference to a target of the project leads to an anchor that is on the page it names, and the
\* target there has the name that was looked up.
RefsLeadToAnchors ==
  LET Led(i) == {k \in Within(i) : Refers(context.heap[k]) /\ context.heap[k].fileid # <<>>}
      Carries(k, name) == \E t \in Range(context.heap[k].children) :
        context.heap[t].kind = "target_identifier" /\ name \in Range(context.heap[t].ids)
      Leads(n) == \E j \in PagesOf : \E k \in Within(j) :
        /\ WithoutKnownSuffix(context.pages[j].fileid) = n.fileid[1]
        /\ context.heap[k].kind = "target" /\ context.heap[k].html_id = n.fileid[2]
        /\ Carries(k, n.target)
  IN outcome = "done" => \A i \in PagesOf : \A k \in Led(i) : Leads(context.heap[k])

\* What a comment of TargetHandler promises ("Disambiguate duplicate IDs, should they occur."): two
\* targets of a page have two anchors.  The third of three equal ones gets the anchor of the second,
\* for what was handed out is counted under the name that was handed out.
AnchorsDiffer ==
  outcome = "done" =>
    \A i \in PagesOf : \A j, k \in Within(i) :
      j # k /\ context.heap[j].kind = "target" /\ context.heap[k].kind = "target"
        => context.heap[j].html_id # context.heap[k].html_id

\* What a page lists under "contents" are ids that its headings and collapsibles have in the end,
\* each as often as there are headings of this id.
ContentsLeadToHeadings ==
  LET Ids(i) ==
        LET on == SelectSeq(Preorder(context.heap, context.pages[i].ast),
                            LAMBDA k : \/ context.heap[k].kind = "heading"
                                       \/ Named(context.heap[k], {"collapsible"}))
        IN [j \in 1..Len(on) |-> LET n == context.heap[on[j]]
                                 IN IF n.kind = "heading" THEN n.id ELSE n.options.id]
      Listed(i) == LET headings == Option(context.heap[context.pages[i].ast], "headings", <<>>)
                   IN [j \in 1..Len(headings) |-> headings[j].id]
      Times(ids, id) == Len(SelectSeq(ids, LAMBDA other : other = id))
  IN outcome = "done" =>
       \A i \in PagesOf : \A id \in Range(Listed(i)) : Times(Listed(i), id) <= Times(Ids(i), id)

\* A page that ends up with two kinds of selectors, one of them a composable tutorial, is reported.
SelectorsExclude ==
  outcome = "done" =>
    \A i \in PagesOf :
      LET options == DOMAIN context.heap[context.pages[i].ast].options
      IN "has_composable_tutorial" \in options /\ {"selectors", "has_method_selector"} \cap options # {}
         => \E d \in Range(context.diagnostics) :
              d.file = context.pages[i].fileid /\ d.kind = "UnexpectedDirectiveOrder"

\* The files that toctree directives lead to from the start of the project: the least set that has
\* the start and, with a file, the files its toctrees list.
ListedBy(file) ==
  UNION {{SlugFileId(context, CleanSlug(e.slug)) : e \in {e \in Range(context.heap[k].entries) :
                                                           e.url = None /\ e.slug # None}} :
         k \in {k \in Nodes(context.heap, context.pages[PageOf(context, file)].ast) :
                Named(context.heap[k], {"toctree"})}} \ {None}

Reached ==
  LET start == IF Has(context, Contents) THEN Contents ELSE Index
      Closed(s) == start \in s /\ \A f \in s : ListedBy(f) \subseteq s
  IN CHOOSE s \in SUBSET Files : Closed(s) /\ \A r \in SUBSET Files : Closed(r) => s \subseteq r

\* Orphans are the pages no toctree leads to, and no others.
OrphansAreUnreachable ==
  outcome = "done" /\ (Has(context, Contents) \/ Has(context, Index)) =>
    \A i \in PagesOf :
      (Reported(context, context.pages[i].fileid, {"OrphanedPage"}, 0)
         <=> /\ context.pages[i].fileid \notin Reached
             /\ "orphan" \notin DOMAIN context.heap[context.pages[i].ast].options)

\* A guide belongs to one chapter, and is listed there once.
GuidesInOneChapter ==
  LET listed == FlattenSeq([i \in DOMAIN context.guides.chapters |-> context.guides.chapters[i].guides])
  IN \A i, j \in DOMAIN listed : listed[i] = listed[j] => i = j

\* A relation over some nodes has no cycle.
Acyclic(nodes, Leads(_, _)) ==
  \A s \in SUBSET nodes \ {{}} : \E x \in s : \A y \in s : ~Leads(x, y)

\* The projects that have no cycle the code does not look for: of includes, of ia entries, of what
\* snooty.toml or an include directive substitutes, and of references in titles.
Grounded ==
  LET Original(i) == Load(<<>>, Projects[project].pages[i].tree)
      Includes(i, j) == \E k \in DOMAIN Original(i) :
        LET n == Original(i)[k]
        IN /\ Named(n, IncludeNames) /\ n.args # <<>>
           /\ LET written == TextOf(Original(i), n.args)[1]
              IN context.pages[j].fileid \in {SlugFileId(context, CleanSlug(written)),
                                              SlugFileId(context, StripSlashes(written))}
      Enters(i, j) == \E k \in DOMAIN Original(i) :
        LET n == Original(i)[k]
        IN /\ Named(n, {"entry"}) /\ "url" \in DOMAIN n.options
           /\ context.pages[j].fileid = SlugFileId(context, StripSlashes(n.options.url))
      Cites(h, node, kinds) == \E k \in Nodes(h, node) : h[k].kind \in kinds
      references == {"substitution_reference", "block_substitution_reference"}
  IN /\ Acyclic(DOMAIN context.pages, Includes)
     /\ Acyclic(DOMAIN context.pages, Enters)
     /\ \A s \in Range(Projects[project].config.substitutions) : \A t \in Range(s.nodes) :
          ~Cites(Load(<<>>, t), 1, references)
     /\ \A i \in DOMAIN context.pages : \A k \in DOMAIN Original(i) :
          /\ Named(Original(i)[k], {"replacement"}) => ~Cites(Original(i), k, references)
          /\ Original(i)[k].kind = "heading" => ~Cites(Original(i), k, {"ref_role"})

\* Definitions of a page may cite each other in any way: only the cycles named above use up the
\* stack (SubstitutionHandler looks for loops while it walks a definition).
OnlyCyclesRecurse == outcome = "RecursionError" => ~Grounded

\* A run comes to an end: with its result, cancelled, or with an exception.
RunEnds == <>(outcome # "")
=============================================================================
