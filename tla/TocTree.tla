------------------------------ MODULE TocTree ------------------------------
(***************************************************************************)
(* The trees of a project that follow its passes (postprocess.py,          *)
(* generate_metadata): the tree of its toctree directives and the one of   *)
(* its ia directives, the order of the pages in them, the pages above each *)
(* (breadcrumbs), and the pages of its multi-page tutorials.               *)
(*                                                                         *)
(* An entry of a tree has "slug", "url" and "project_name" (None when the  *)
(* code's dictionary has no such key), "primary" and "children"; "path" is *)
(* what clean_slug makes of its slug.  An ia entry keeps its suffix.       *)
(***************************************************************************)
EXTENDS Inclusion, PageTargets

Entry == [slug |-> None, path |-> None, url |-> None, project_name |-> None, primary |-> FALSE, children |-> <<>>]

Index == [slug |-> "index", ext |-> ".txt"]
Contents == [slug |-> "contents", ext |-> ".txt"]

PageEntry(file) ==
  LET slug == WithoutKnownSuffix(file)
  IN IF slug = "index" THEN [Entry EXCEPT !.slug = "/", !.path = ""]
     ELSE [Entry EXCEPT !.slug = slug, !.path = slug]

(***************************************************************************)
(* find_toctree_nodes: a page is entered where it is first listed.         *)
(*   t   the context, the children found, the files visited and the        *)
(*       external entries                                                  *)
(***************************************************************************)
RECURSIVE FindToctreeNodes(_, _, _)

Found(t, entry) == [t EXCEPT !.found = Append(@, entry)]

\* Another project that is listed; twice is told.
External(t, file, line, pair) ==
  [t EXCEPT !.external = @ \cup {pair},
            !.c = IF pair \in t.external THEN Diagnose(@, file, "DuplicatedExternalToc", line) ELSE @]
\* Mutant: the files below a file are not remembered.
EnterForgets(t, target) ==
  LET named == PageEntry(target)
      below == FindToctreeNodes([t EXCEPT !.found = <<>>, !.visited = @ \cup {target}], target,
                                t.c.pages[PageOf(t.c, target)].ast)
  IN IF target \in t.visited THEN Found(t, named)
     ELSE [below EXCEPT !.found = Append(t.found, [named EXCEPT !.children = below.found]),
                        !.visited = t.visited \cup {target}]

\* A file that is listed: what its own toctrees list goes below its entry, once.
Enter(t, target) ==
  LET named == PageEntry(target)
      below == FindToctreeNodes([t EXCEPT !.found = <<>>, !.visited = @ \cup {target}], target,
                                t.c.pages[PageOf(t.c, target)].ast)
  IN IF target \in t.visited THEN Found(t, named)
     ELSE [below EXCEPT !.found = Append(t.found, [named EXCEPT !.children = below.found])]

\* A file may be known as another project of the site: an associated product.
Products(c, target) == c.config.associated_products \cap {WithoutKnownSuffix(target)}

\* An entry of the toctree directive at a line of a file; "target" is the file it names.
Enlist(t, file, line, entry, target) ==
  LET Note(u, names) == FoldSet(LAMBDA name, v : External(v, file, line, <<entry.title, name>>), u, names)
      noted == Note(t, {entry.ref_project} \ {None})
  IN CASE entry.url # None -> Found(noted, [Entry EXCEPT !.url = entry.url])
       [] entry.url = None /\ entry.slug = None ->
            IF entry.ref_project = None THEN t
            ELSE Found(noted, [Entry EXCEPT !.slug = entry.ref_project, !.path = entry.ref_project])
       [] entry.url = None /\ entry.slug # None /\ target = None ->
            [noted EXCEPT !.c = Diagnose(@, file, "MissingTocTreeEntry", line)]
       [] OTHER -> Enter(Note(noted, Products(t.c, target)), target)

FindToctreeNodes(t, file, ast) ==
  LET n == t.c.heap[ast]
      entries == IF Named(n, {"toctree"}) THEN n.entries ELSE <<>>
      Target(e) == IF e.slug = None THEN None ELSE SlugFileId(t.c, CleanSlug(e.slug))
      List(u, e) == Enlist(u, file, n.line, e, Target(e))
  IN FoldLeft(LAMBDA u, k : FindToctreeNodes(u, file, k), FoldLeft(List, t, entries), n.children)

\* build_toctree: from contents.txt or else index.txt; pages it does not reach are orphans.
ReportOrphans(t) ==
  LET Orphan(page) == /\ page.fileid.ext = ".txt" /\ page.fileid \notin t.visited
                      /\ "orphan" \notin DOMAIN t.c.heap[page.ast].options
  IN [c |-> FoldLeft(LAMBDA d, page : Diagnose(d, page.fileid, "OrphanedPage", 0), t.c,
                     SelectSeq(t.c.pages, Orphan)),
      tree |-> <<[Entry EXCEPT !.slug = "/", !.children = t.found]>>]

BuildToctree(c) ==
  LET start == IF Has(c, Contents) THEN Contents ELSE Index
  IN IF ~Has(c, start) THEN [c |-> c, tree |-> <<>>]
     ELSE ReportOrphans(FindToctreeNodes([c |-> c, found |-> <<>>, visited |-> {start}, external |-> {}],
                                         start, c.pages[PageOf(c, start)].ast))

(***************************************************************************)
(* build_iatree: the entries of a page, with those of the pages they name  *)
(* as these are known, without their suffix (every page is at the root).   *)
(* Nothing remembers the pages entered: "depth" stands for the stack that  *)
(* runs out, an entry is then Endless.                                     *)
(***************************************************************************)
Endless == [Entry EXCEPT !.slug = "RecursionError"]

RECURSIVE IterateIA(_, _, _)
IterateIA(c, page, depth) ==
  LET ia == Option(c.heap[page.ast], "ia", <<>>)
      Below(e) == LET file == SlugFileId(c, e.slug)
                  IN IF e.external \/ file = None THEN <<>>
                     ELSE IterateIA(c, c.pages[PageOf(c, file)], depth - 1)
      Curr(e) == [slug |-> IF e.external THEN None ELSE e.slug, path |-> IF e.external THEN None ELSE e.path,
                  url |-> IF e.external THEN e.slug ELSE None,
                  project_name |-> e.project_name, primary |-> e.primary, children |-> Below(e)]
  IN IF depth = 0 THEN <<Endless>> ELSE [i \in 1..Len(ia) |-> Curr(ia[i])]

BuildIatree(c) ==
  LET page == c.pages[PageOf(c, Index)]
  IN IF ~Has(c, Index) \/ "ia" \notin DOMAIN c.heap[page.ast].options THEN <<>>
     ELSE <<[Entry EXCEPT !.slug = "/", !.children = IterateIA(c, page, Len(c.pages) + 1)]>>

RECURSIVE EntriesOf(_)
EntriesOf(tree) == <<tree>> \o FlattenSeq([i \in 1..Len(tree.children) |-> EntriesOf(tree.children[i])])

(***************************************************************************)
(* What is made of a tree                                                  *)
(***************************************************************************)
\* toctree_order, pre_order
ToctreeOrder(tree) ==
  LET slugs == SelectSeq(EntriesOf(tree), LAMBDA e : e.slug # None)
  IN [i \in 1..Len(slugs) |-> slugs[i].slug]

\* get_paths: the way to each leaf that has a slug, or is another project's primary entry.
RECURSIVE GetPaths(_, _)
GetPaths(entry, path) ==
  IF entry.children # <<>>
  THEN FlattenSeq([i \in 1..Len(entry.children) |-> GetPaths(entry.children[i], Append(path, entry.path))])
  ELSE IF entry.slug # None THEN <<Append(path, entry.path)>>
  ELSE IF entry.project_name # None /\ entry.primary THEN <<Append(path, entry.project_name)>>
  ELSE <<>>

\* breadcrumbs: of a page that is on several paths, the pages above it on the last of them.
Breadcrumbs(tree) ==
  LET paths == FlattenSeq([i \in 1..Len(tree.children) |-> GetPaths(tree.children[i], <<>>)])
      Add(crumbs, path) ==
        [slug \in Range(path) |-> SubSeq(path, 1, Max({i \in 1..Len(path) : path[i] = slug}) - 1)] @@ crumbs
  IN FoldLeft(Add, <<>>, paths)

\* find_multi_page_tutorial_children, for the entries below the root: the steps of each tutorial.
RECURSIVE TutorialChildren(_, _)
TutorialChildren(entry, tutorials) ==
  LET slugs == [i \in 1..Len(entry.children) |-> entry.children[i].slug]
      below == FoldLeft(LAMBDA f, e : TutorialChildren(e, tutorials) @@ f, <<>>, entry.children)
  IN IF entry.slug = None \/ entry.children = <<>> THEN <<>>
     ELSE IF entry.slug \in tutorials THEN below @@ (entry.slug :> slugs) ELSE below

MultiPageTutorials(tree, tutorials) ==
  FoldLeft(LAMBDA f, e : TutorialChildren(e, tutorials) @@ f, <<>>, tree.children)
=============================================================================
