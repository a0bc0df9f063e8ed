--------------------------- MODULE PageDirectives ---------------------------
(***************************************************************************)
(* The handlers of the third pass that look at the directives of a page    *)
(* (postprocess.py): each keeps some state while a page is walked, reports *)
(* what is out of place and leaves options on the page.  A handler is its  *)
(* state (a field of the context, "New..." at the start of the pass) and   *)
(* one operator for each event it listens to.                              *)
(***************************************************************************)
EXTENDS PageTree

(***************************************************************************)
(* TabsSelectorHandler: the tab sets a page selects, in the order of their *)
(* selectors, each with the tabs directives that follow.                   *)
(***************************************************************************)
NewTabs == [selectors |-> <<>>, default |-> <<>>, pattern |-> <<>>]

Selector(t, name) == {i \in 1..Len(t.selectors) : t.selectors[i].name = name}

\* The name a selector gives its tab set: "languages" is the old name of "drivers".
TabsetName(h, n) == LET name == TextOf(h, n.args)[1] IN IF name = "languages" THEN "drivers" ELSE name

\* tabs in tabs in a procedure, the directives around the one that ends included.
NestedTabs(pattern) ==
  \E i, j, k \in 1..Len(pattern) :
    i < j /\ j < k /\ pattern[i] = "tabs" /\ pattern[j] = "tabs" /\ pattern[k] = "procedure"

TabsEnter(c, node) ==
  LET n == c.heap[node]
      name == TabsetName(c.heap, n)
      seen == IF IsDirective(n) THEN [c EXCEPT !.tabs.pattern = Append(@, n.name)] ELSE c
      set == Option(n, "tabset", "")
      tabs == {k \in Range(ChildDirectives(c.heap, node, "tab")) : "tabid" \in DOMAIN c.heap[k].options}
  IN IF Named(n, {"tabs-pillstrip", "tabs-selector"})
     THEN IF n.args = <<>> THEN seen
          ELSE IF Selector(c.tabs, name) # {} THEN Report(seen, "DuplicateDirective", n.line)
          ELSE [seen EXCEPT !.tabs.selectors = Append(@, [name |-> name, tabsets |-> <<>>]),
                            !.tabs.default =
                               IF name = "drivers" /\ "default-tabid" \in DOMAIN n.options
                               THEN <<n.options["default-tabid"]>> ELSE @]
     ELSE IF Named(n, {"tabs"}) /\ Selector(c.tabs, set) # {}
     THEN [seen EXCEPT !.tabs.selectors[Max(Selector(c.tabs, set))].tabsets =
             Append(@, {c.heap[k].options["tabid"] : k \in tabs})]
     ELSE seen

TabsExit(c, node) ==
  LET n == c.heap[node]
      checked == IF Named(n, {"procedure"}) /\ NestedTabs(c.tabs.pattern)
                 THEN Report(c, "InvalidNestedTabStructure", n.line) ELSE c
  IN IF IsDirective(n) THEN [checked EXCEPT !.tabs.pattern = Front(@)] ELSE c

TabsEnterPage(c) == [c EXCEPT !.tabs.selectors = <<>>, !.tabs.default = <<>>]

\* The first selector without tabs, or with a default that is no tab, ends the loop: the ones
\* after it are neither checked nor put on the page.
TabsExitPage(c) ==
  LET Settle(b, s) ==
        LET tabs == s.tabsets[1]
            uneven == \E t \in Range(s.tabsets) : Cardinality(t) # Cardinality(tabs)
            checked == IF uneven THEN Report(b.c, "MissingTab", 0) ELSE b.c
            kept == SetPageOption(checked, "selectors",
                                  (s.name :> tabs) @@ PageOption(checked, "selectors", <<>>))
            defaulted == s.name = "drivers" /\ c.tabs.default # <<>>
        IN IF b.over THEN b
           ELSE IF s.tabsets = <<>> THEN [c |-> Report(b.c, "ExpectedTabs", 0), over |-> TRUE]
           ELSE IF defaulted /\ c.tabs.default[1] \notin tabs
           THEN [c |-> Report(kept, "UnknownDefaultTabId", 0), over |-> TRUE]
           ELSE [c |-> IF defaulted THEN SetPageOption(kept, "default_tabs", s.name :> c.tabs.default[1])
                       ELSE kept,
                 over |-> FALSE]
  IN FoldLeft(Settle, [c |-> [c EXCEPT !.tabs.pattern = <<>>], over |-> FALSE], c.tabs.selectors).c

(***************************************************************************)
(* MethodSelectorHandler: a tabs-selector outside the description of the   *)
(* driver option is an error on pages that turn out to have a selector.    *)
(***************************************************************************)
NewMethod == [described |-> FALSE, option |-> None, pending |-> <<>>, present |-> FALSE]

MethodEnterPage(c) == [c EXCEPT !.method.present = FALSE]

MethodEnter(c, node) ==
  LET n == c.heap[node]
      m == c.method
  IN CASE Named(n, {"tabs-selector"}) /\ m.option # "driver" /\ ~m.described ->
            [c EXCEPT !.method.pending = Append(@, n.line)]
       [] Named(n, {"method-selector"}) ->
            IF m.present THEN Report(c, "DuplicateDirective", n.line)
            ELSE [c EXCEPT !.method.present = TRUE]
       [] Named(n, {"method-option"}) /\ Option(n, "id", "") # "" ->
            [c EXCEPT !.method.option = n.options.id]
       [] Named(n, {"method-description"}) -> [c EXCEPT !.method.described = TRUE]
       [] OTHER -> c

MethodExit(c, node) ==
  LET n == c.heap[node]
  IN CASE Named(n, {"method-option"}) -> [c EXCEPT !.method.option = None]
       [] Named(n, {"method-description"}) -> [c EXCEPT !.method.described = FALSE]
       [] OTHER -> c

MethodExitPage(c) ==
  LET told == FoldLeft(LAMBDA d, line : Report(d, "UnexpectedDirectiveOrder", line), c, c.method.pending)
      marked == IF c.method.present THEN SetPageOption(told, "has_method_selector", TRUE) ELSE c
  IN [marked EXCEPT !.method.pending = <<>>]

(***************************************************************************)
(* MultiPageTutorialHandler: its directives leave the page.  They must be  *)
(* children of the page itself: list.remove raises a ValueError for one    *)
(* that is below a heading.  (A second one is noticed, not reported.)      *)
(***************************************************************************)
NewTutorial == [found |-> 0, removals |-> <<>>]

TutorialEnterPage(c) == [c EXCEPT !.tutorial = NewTutorial]

TutorialEnter(c, node) ==
  IF ~Named(c.heap[node], {"multi-page-tutorial"}) THEN c
  ELSE [c EXCEPT !.tutorial.removals = Append(@, node),
                 !.tutorial.found = IF @ = 0 THEN node ELSE @]

TutorialExitPage(c) ==
  LET time == Option(c.heap[c.tutorial.found], "time-required", 0)
      Leave(d, node) ==
        IF d.error # "" THEN d
        ELSE IF Contains(d.heap[AstOf(d)].children, node)
        THEN [d EXCEPT !.heap[AstOf(d)].children = RemoveFirst(@, node)]
        ELSE Fail(d, "ValueError")
  IN IF c.tutorial.found = 0 THEN c
     ELSE FoldLeft(Leave, SetPageOption(c, "multi_page_tutorial_settings", time), c.tutorial.removals)

(***************************************************************************)
(* ComposableTutorialHandler: what is selected below a composable tutorial *)
(* is checked against its options, which come from the specification.      *)
(* "total" keeps the selections of every page walked so far.               *)
(***************************************************************************)
NewComposable == [tutorial |-> 0, line |-> 0, total |-> <<>>]

ComposableEnterPage(c) == [c EXCEPT !.composable.tutorial = 0]

\* One selection: the option at its place names the composable it is a value of.
Select(c, tutorial, n, i) ==
  LET options == c.heap[tutorial].composable_options
      chosen == n.options["selections"][i]
      id == options[i].value
      spec == c.config.composables
      kept == [c EXCEPT !.composable.selections = (id :> chosen) @@ @]
  IN IF i > Len(options) THEN Report(c, "InvalidChildCount", n.line)
     ELSE IF id \notin DOMAIN spec THEN Report(c, "UnknownOptionId", n.line)
     ELSE IF chosen \notin spec[id] THEN kept
     ELSE [kept EXCEPT !.heap[tutorial].composable_options[i].selections = @ \cup {chosen}]

\* handle_composable_content
ComposableContent(c, node) ==
  LET n == c.heap[node]
      begun == [c EXCEPT !.composable = @ @@ [selections |-> <<>>]]
      places == [i \in 1..Len(n.options["selections"]) |-> i]
      done == FoldLeft(LAMBDA d, i : Select(d, c.composable.tutorial, n, i), begun, places)
  IN IF c.composable.tutorial = 0 THEN Report(c, "UnexpectedDirectiveOrder", n.line)
     ELSE IF "selections" \notin DOMAIN n.options THEN Report(c, "InvalidChildCount", n.line)
     ELSE [done EXCEPT !.heap[node] = [@ EXCEPT !.selections = done.composable.selections, !.options = <<>>],
                       !.composable = [c.composable EXCEPT
                                         !.total = Append(@, done.composable.selections)]]

ComposableEnter(c, node) ==
  LET n == c.heap[node]
  IN CASE Named(n, {"selected-content"}) -> ComposableContent(c, node)
       [] Named(n, {"composable-tutorial"}) ->
            IF c.composable.tutorial # 0 THEN Report(c, "DuplicateDirective", n.line)
            ELSE [c EXCEPT !.composable.tutorial = node, !.composable.line = n.line]
       [] OTHER -> c

\* The defaults must be among the contents selected.
ComposableExit(c, node) ==
  LET n == c.heap[node]
      options == Range(n.composable_options)
      Meets(selections) == \A o \in options :
        o.default # None => o.value \in DOMAIN selections /\ selections[o.value] = o.default
  IN IF ~Named(n, {"composable-tutorial"}) \/ \E s \in Range(c.composable.total) : Meets(s) THEN c
     ELSE Report(c, "MissingChild", n.line)

\* A page has one kind of selector: the other handlers have put theirs on the page by now.
ComposableExitPage(c) ==
  LET Collide(d, option) ==
        IF option \in DOMAIN PageOptions(c)
        THEN Report(d, "UnexpectedDirectiveOrder", c.composable.line) ELSE d
  IN IF c.composable.tutorial = 0 THEN c
     ELSE SetPageOption(Collide(Collide(c, "selectors"), "has_method_selector"),
                        "has_composable_tutorial", TRUE)

(***************************************************************************)
(* ContentsHandler: the headings of a page that has a contents directive,  *)
(* wherever on the page it stands.                                         *)
(***************************************************************************)
Unlimited == 99

NewContents == [depth |-> Unlimited, current |-> 0, present |-> FALSE, headings |-> <<>>, pattern |-> <<>>]

ContentsEnterPage(c) == [c EXCEPT !.contents = [NewContents EXCEPT !.pattern = c.contents.pattern]]

\* What a heading stands in: tabs, method options and selected contents.
SelectorName(n) ==
  CASE Named(n, {"method-option"}) -> <<n.name, n.options.id>>
    [] Named(n, {"tab"}) -> <<n.name, n.options.tabid>>
    [] Named(n, {"selected-content"}) -> <<n.name, n.selections>>
    [] OTHER -> <<>>

ContentsEnter(c, node) ==
  LET n == c.heap[node]
      s == IF SelectorName(n) = <<>> THEN c
           ELSE [c EXCEPT !.contents.pattern = Append(@, SelectorName(n))]
      List(depth, id) ==
        [s EXCEPT !.contents.headings = Append(@, [depth |-> depth, id |-> id,
                                                   within |-> s.contents.pattern])]
  IN CASE n.kind = "section" -> [c EXCEPT !.contents.current = @ + 1]
       [] Named(n, {"contents"}) ->
            IF c.contents.present THEN Report(c, "DuplicateDirective", n.line)
            ELSE [c EXCEPT !.contents.present = TRUE, !.contents.depth = Option(n, "depth", Unlimited)]
       [] s.contents.current > s.contents.depth + 1 -> s
       [] n.kind = "heading" /\ s.contents.current > 1 -> List(s.contents.current, n.id)
       [] Named(n, {"collapsible"}) -> List(s.contents.current + 1, n.options.id)
       [] OTHER -> s
\* Mutant: contents that were selected stay around what follows.
ContentsExitSelected(c, node) ==
  LET n == c.heap[node]
  IN CASE SelectorName(n) # <<>> /\ n.name # "selected-content" -> [c EXCEPT !.contents.pattern = Front(@)]
       [] n.kind = "section" -> [c EXCEPT !.contents.current = @ - 1]
       [] OTHER -> c

ContentsExit(c, node) ==
  LET n == c.heap[node]
  IN CASE SelectorName(n) # <<>> -> [c EXCEPT !.contents.pattern = Front(@)]
       [] n.kind = "section" -> [c EXCEPT !.contents.current = @ - 1]
       [] OTHER -> c

ContentsExitPage(c) ==
  LET listed == SelectSeq(c.contents.headings, LAMBDA h : h.depth <= c.contents.depth + 1)
  IN IF c.contents.present /\ listed # <<>> THEN SetPageOption(c, "headings", listed) ELSE c

(***************************************************************************)
(* InstruqtHandler: the option says that the last drawer before a plain    *)
(* one was there.                                                          *)
(***************************************************************************)
InstruqtEnterPage(c) == [c EXCEPT !.instruqt = FALSE]

InstruqtEnter(c, node) ==
  LET n == c.heap[node]
  IN IF ~Named(n, {"instruqt"}) THEN c
     ELSE IF c.instruqt THEN Report(c, "DuplicateDirective", n.line)
     ELSE [c EXCEPT !.instruqt = "drawer" \in DOMAIN n.options]

InstruqtExitPage(c) == IF c.instruqt THEN SetPageOption(c, "instruqt", TRUE) ELSE c

(***************************************************************************)
(* BannerHandler: copies of the banners for this page go behind the        *)
(* heading of its first section, breadth first among the first 50 nodes.   *)
(***************************************************************************)
MaxIterations == 50

RECURSIVE FirstSection(_, _, _)
FirstSection(h, queue, looked) ==
  IF queue = <<>> \/ looked = MaxIterations THEN 0
  ELSE IF h[Head(queue)].kind = "section" THEN Head(queue)
  ELSE FirstSection(h, Tail(queue) \o h[Head(queue)].children, looked + 1)

BannerIndex(h, section) ==
  LET kids == h[section].children
      headings == {i \in 1..Len(kids) : h[kids[i]].kind = "heading"}
      behind == IF headings = {} THEN 2 ELSE Min(headings) + 1
  IN IF behind > Len(kids) + 1 THEN Len(kids) + 1 ELSE behind

BannerEnterPage(c) ==
  LET Attach(d, banner) ==
        LET section == FirstSection(d.heap, d.heap[AstOf(d)].children, 0)
            copied == [d EXCEPT !.heap = DeepCopy(@, banner.node)]
        IN IF CurrentFile(d) \notin banner.targets \/ section = 0 THEN d
           ELSE [copied EXCEPT !.heap[section].children =
                   InsertAt(@, BannerIndex(d.heap, section), Len(d.heap) + 1)]
  IN FoldLeft(Attach, c, c.config.banners)

(***************************************************************************)
(* GuidesHandler: the chapters of index.txt and the guides that belong to  *)
(* them.  A guide keeps the name of the first chapter that listed it, also *)
(* when that chapter is turned down afterwards.                            *)
(***************************************************************************)
NewGuides == [chapters |-> <<>>, guides |-> <<>>]

NewGuide == [chapter_name |-> "", completion_time |-> 0, description |-> <<>>]

\* self.guides[slug] of a defaultdict
GuideOf(c, slug) == IF slug \in DOMAIN c.guides.guides THEN c.guides.guides[slug] ELSE NewGuide
\* Mutant: only a guide that is known already is kept.
SetKnownGuide(c, slug, guide) ==
  IF slug \in DOMAIN c.guides.guides THEN [c EXCEPT !.guides.guides = (slug :> guide) @@ @] ELSE c

SetGuide(c, slug, guide) == [c EXCEPT !.guides.guides = (slug :> guide) @@ @]

Chapters(c, title) == {i \in 1..Len(c.guides.chapters) : c.guides.chapters[i].title = title}

\* __get_guides
GetGuides(c, chapter, title, file) ==
  LET Take(b, k) ==
        LET n == c.heap[k]
            slug == CleanSlug(TextOf(c.heap, n.args)[1])
            guide == GuideOf(b.c, slug)
        IN IF n.name # "guide" THEN [b EXCEPT !.c = Diagnose(@, file, "InvalidChild", n.line)]
           ELSE IF n.args = <<>> THEN [b EXCEPT !.c = Diagnose(@, file, "ExpectedPathArg", n.line)]
           ELSE IF guide.chapter_name # ""
           THEN [b EXCEPT !.c = Diagnose(@, file, "GuideAlreadyHasChapter", n.line)]
           ELSE [c |-> SetGuide(b.c, slug, [guide EXCEPT !.chapter_name = title]),
                 guides |-> Append(b.guides, slug)]
  IN FoldLeft(Take, [c |-> c, guides |-> <<>>], ChildrenOfKind(c.heap, chapter, "directive"))

HandleChapter(c, chapter, file) ==
  LET n == c.heap[chapter]
      title == TextOf(c.heap, n.args)[1]
      got == GetGuides(c, chapter, title, file)
  IN IF Len(n.args) # 1 THEN Diagnose(c, file, "InvalidChapter", n.line)
     ELSE IF "description" \notin DOMAIN n.options THEN c
     ELSE IF got.guides = <<>> THEN Diagnose(got.c, file, "MissingChild", n.line)
     ELSE IF Chapters(c, title) # {} THEN Diagnose(got.c, file, "ChapterAlreadyExists", n.line)
     ELSE [got.c EXCEPT !.guides.chapters =
             Append(@, [title |-> title, number |-> Len(@) + 1, guides |-> got.guides])]

\* __handle_chapters, and __handle_include for the chapters of another file.
RECURSIVE HandleChapters(_, _, _)
HandleChapters(c, chapters, file) ==
  LET Handle(d, k) ==
        LET n == d.heap[k]
        IN CASE n.name = "chapter" -> HandleChapter(d, k, file)
             [] n.name = "include" ->
                  IF Len(n.children) = 1 /\ d.heap[n.children[1]].kind = "root"
                  THEN HandleChapters(d, n.children[1], file) ELSE d
             [] OTHER -> Diagnose(d, file, "InvalidChild", c.heap[chapters].line)
      handled == FoldLeft(Handle, c, ChildrenOfKind(c.heap, chapters, "directive"))
  IN IF handled.guides.chapters = <<>>
     THEN Diagnose(handled, file, "MissingChild", c.heap[chapters].line) ELSE handled

\* What int() makes of an argument.
Minutes == ("15" :> 15) @@ ("30" :> 30)

GuidesEnter(c, node) ==
  LET n == c.heap[node]
      file == CurrentFile(c)
      slug == WithoutKnownSuffix(file)
      text == TextOf(c.heap, n.args)[1]
  IN CASE Named(n, {"chapters"}) /\ file = [slug |-> "index", ext |-> ".txt"] ->
            IF c.guides.chapters # <<>> THEN c ELSE HandleChapters(c, node, file)
       [] Named(n, {"time"}) ->
            IF n.args = <<>> \/ text \notin DOMAIN Minutes THEN c
            ELSE SetGuide(c, slug, [GuideOf(c, slug) EXCEPT !.completion_time = Minutes[text]])
       [] Named(n, {"short-description"}) ->
            SetGuide(c, slug, [GuideOf(c, slug) EXCEPT !.description = n.children])
       [] OTHER -> c

(***************************************************************************)
(* OpenAPIHandler: one source for each page.  The versions of the cloud    *)
(* API come from a service, "config.versions": <<>> when it cannot be      *)
(* read, else one function from its names to sets of versions.             *)
(***************************************************************************)
OpenAPIEnter(c, node) ==
  LET n == c.heap[node]
      slug == WithoutKnownSuffix(CurrentFile(c))
      type == n.options["source_type"]
      source == IF type \in {"local", "atlas"} THEN TextOf(c.heap, n.args)[1] ELSE c.heap[n.args[1]].refuri
      version == Option(n, "api-version", None)
      data == c.config.versions[1]
      Keep(v, resources) ==
        [c EXCEPT !.openapi_pages = @ @@ (slug :> [source_type |-> type, source |-> source,
                                                   api_version |-> v, resource_versions |-> resources])]
  IN CASE ~Named(n, {"openapi"}) \/ "preview" \in DOMAIN n.options -> c
       [] OTHER ->
          IF slug \in DOMAIN c.openapi_pages THEN Report(c, "DuplicateDirective", n.line)
          ELSE IF "source_type" \notin DOMAIN n.options THEN c
          ELSE IF version = None \/ source # "cloud" THEN Keep(None, {})
          ELSE IF c.config.versions = <<>> THEN Report(c, "FetchError", n.line)
          ELSE IF "major" \notin DOMAIN data THEN Report(c, "InvalidOpenApiResponse", n.line)
          ELSE IF version \notin data["major"] THEN Report(c, "InvalidVersion", n.line)
          ELSE Keep(version, IF version \in DOMAIN data THEN data[version] ELSE {})

\* OpenAPIChangelogHandler
ChangelogEnterPage(c) == [c EXCEPT !.changelog = FALSE]

ChangelogEnter(c, node) ==
  LET n == c.heap[node]
  IN IF ~Named(n, {"openapi-changelog"}) THEN c
     ELSE IF c.changelog THEN Report(c, "DuplicateDirective", n.line)
     ELSE [c EXCEPT !.changelog = TRUE]

(***************************************************************************)
(* Facets.  "all" holds every facet there is, "sub" being <<>> (None) or   *)
(* <<list>>; lists of facets are lists of their places in it, for a list   *)
(* may grow after a page was given it.                                     *)
(***************************************************************************)
\* ProjectConfig.merge_facets: the facets of the child win over those of their categories.
MergeFacets(all, parent, child) ==
  child \o SelectSeq(parent, LAMBDA f : all[f].category \notin {all[g].category : g \in Range(child)})

\* propagate_facets: the directories as os.walk visits them, each with its facets.toml.  What is
\* in force is handed from one directory to the one visited next.
PropagateFacets(c) ==
  LET Give(d, file) ==
        IF d.error # "" THEN d
        ELSE IF ~Has(d, file) THEN Fail(d, "KeyError")
        ELSE [d EXCEPT !.pages[PageOf(d, file)].facets = d.in_force]
      Visit(d, dir) ==
        LET now == IF dir.facets = <<>> THEN d.in_force
                   ELSE MergeFacets(d.facets.all, d.in_force, dir.facets)
        IN IF d.error # "" \/ now = <<>> THEN d
           ELSE FoldLeft(Give, [d EXCEPT !.in_force = now], dir.files)
  IN FoldLeft(Visit, c, c.config.walk)

(***************************************************************************)
(* FacetsHandler: the facet directives of a page.  "parents" are the       *)
(* facets whose children are being read, with the number of values they    *)
(* expect.  A directive with several values puts as many on the stack,     *)
(* and takes one off when it ends: what is left stays for the next page.   *)
(***************************************************************************)
NewFacets(all) == [all |-> all, roots |-> <<>>, parents |-> <<>>, removals |-> <<>>]

FacetsEnterPage(c) == [c EXCEPT !.facets.roots = <<>>]

\* get_children_total: directives without values would raise a KeyError.
Expected(h, n) ==
  FoldLeft(LAMBDA sum, k : IF IsDirective(h[k]) THEN sum + Len(h[k].options["values"]) ELSE sum, 0, n.children)

FacetsEnter(c, node) ==
  LET n == c.heap[node]
      parents == c.facets.parents
      parent == Last(parents).facet
      Make(f, value) ==
        LET new == Len(f.all) + 1
            made == [f EXCEPT !.all = Append(@, [category |-> n.options["name"], value |-> value,
                                                 sub |-> IF n.children = <<>> THEN <<>> ELSE << <<>> >>])]
            placed == IF parents = <<>> THEN [made EXCEPT !.roots = Append(@, new)]
                      ELSE IF f.all[parent].sub = <<>> THEN made
                      ELSE [made EXCEPT !.all[parent].sub = <<Append(@[1], new)>>]
        IN IF n.children = <<>> THEN placed
           ELSE [placed EXCEPT !.parents = Append(@, [facet |-> new, expects |-> Expected(c.heap, n)])]
  IN IF ~Named(n, {"facet"}) THEN c
     ELSE IF \E k \in Range(n.children) :
               IsDirective(c.heap[k]) /\ "values" \notin DOMAIN c.heap[k].options
     THEN Fail(c, "KeyError")
     ELSE [c EXCEPT !.facets = [FoldLeft(Make, @, n.options["values"])
                                EXCEPT !.removals = Append(@, node)]]

FacetsExit(c, node) ==
  LET parents == c.facets.parents
      sub == c.facets.all[Last(parents).facet].sub
  IN IF ~Named(c.heap[node], {"facet"}) \/ parents = <<>> THEN c
     ELSE IF sub # <<>> /\ Len(sub[1]) = Last(parents).expects
     THEN [c EXCEPT !.facets.parents = Front(@)]
     ELSE c

FacetsExitPage(c) ==
  LET gone == Range(c.facets.removals)
  IN [c EXCEPT !.pages[PageOf(c, RootFile(c))].facets = MergeFacets(c.facets.all, @, c.facets.roots),
               !.heap[AstOf(c)].children = SelectSeq(@, LAMBDA k : k \notin gone)]

(***************************************************************************)
(* ImageHandler: images below the fold are loaded late.                    *)
(***************************************************************************)
MinSectionDepth == 1
MinImgIndex == 2

NewImages == [section |-> 0, index |-> 0]

ImageEnterPage(c) == [c EXCEPT !.images = NewImages]

ImageEnter(c, node) ==
  LET n == c.heap[node]
      below == c.images.section > MinSectionDepth \/ c.images.index > MinImgIndex
      lazy == [c EXCEPT !.heap[node].options = IF below THEN ("loading" :> "lazy") @@ @ ELSE @]
  IN CASE n.kind = "section" -> [c EXCEPT !.images.section = @ + 1]
       [] Named(n, {"image", "figure"}) -> [lazy EXCEPT !.images.index = @ + 1]
       [] OTHER -> c

(***************************************************************************)
(* CollapsibleHandler, NestedDirectiveHandler (for WayfindingHandler) and  *)
(* DismissibleSkillsCardHandler: what may not be nested, or used twice.    *)
(***************************************************************************)
CollapsibleEnter(c, node) ==
  LET n == c.heap[node]
      told == IF c.collapsible THEN Report(c, "NestedDirective", n.line) ELSE c
  IN IF Named(n, {"collapsible"}) THEN [told EXCEPT !.collapsible = TRUE] ELSE c

CollapsibleExit(c, node) ==
  IF Named(c.heap[node], {"collapsible"}) THEN [c EXCEPT !.collapsible = FALSE] ELSE c

NewNesting == [level |-> 0, detected |-> FALSE]

SkippableDirectives == {"include", "sharedinclude"}

WayfindingEnterPage(c) == [c EXCEPT !.wayfinding = NewNesting]

WayfindingEnter(c, node) ==
  LET n == c.heap[node]
  IN CASE ~IsDirective(n) \/ n.name \in SkippableDirectives -> c
       [] n.name # "wayfinding" -> [c EXCEPT !.wayfinding.level = @ + 1]
       [] c.wayfinding.detected -> Report(c, "DuplicateDirective", n.line)
       [] c.wayfinding.level > 0 -> Report(c, "NestedDirective", n.line)
       [] OTHER -> [c EXCEPT !.wayfinding.detected = TRUE]

WayfindingExit(c, node) ==
  LET n == c.heap[node]
  IN IF IsDirective(n) /\ n.name \notin SkippableDirectives \cup {"wayfinding"}
     THEN [c EXCEPT !.wayfinding.level = @ - 1] ELSE c

DismissibleEnterPage(c) == [c EXCEPT !.skills_card = <<>>]

\* A second card is reported, and takes the place of the first.
DismissibleEnter(c, node) ==
  LET n == c.heap[node]
      told == IF c.skills_card # <<>> THEN Report(c, "DuplicateDirective", n.line) ELSE c
  IN IF ~Named(n, {"dismissible-skills-card"}) THEN c
     ELSE IF {"skill", "url"} \subseteq DOMAIN n.options
     THEN [told EXCEPT !.skills_card = <<n.options["skill"], n.options["url"]>>]
     ELSE told

DismissibleExitPage(c) ==
  IF c.skills_card # <<>> THEN SetPageOption(c, "dismissible_skills_card", c.skills_card) ELSE c
=============================================================================
