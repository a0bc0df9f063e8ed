---------------------------- MODULE PageTargets ----------------------------
(***************************************************************************)
(* Titles, targets and references (postprocess.py, target_database.py):    *)
(* which anchors the pages have, which names lead to them, and what each   *)
(* reference is linked to.  Names become known in the third and fourth     *)
(* pass and are looked up in the fifth, so that a page may refer to one    *)
(* that is walked after it.                                                *)
(*                                                                         *)
(* An id is a sequence of words, each but the first with the period or the *)
(* hyphen that precedes it; a number that tells two equal ids apart is one *)
(* more word.  The anchor of a target begins with its domain and name.     *)
(***************************************************************************)
EXTENDS PageTree

Count(counter, id) == IF id \in DOMAIN counter THEN counter[id] ELSE 0

Numbered(counter, id) ==
  IF Count(counter, id) = 0 THEN id ELSE Append(id, "-" \o ToString(Count(counter, id)))

\* max(ids, key=...): the first of the largest; the longest id, and the one of the most periods.
Largest(ids, sizes) == ids[Min({i \in DOMAIN ids : \A j \in DOMAIN ids : sizes[j] <= sizes[i]})]

LongestOf(ids) ==
  Largest(ids, [i \in DOMAIN ids |-> FoldLeft(LAMBDA sum, word : sum + Len(word), 0, ids[i])])
CanonicalOf(ids) ==
  Largest(ids, [i \in DOMAIN ids |-> Len(SelectSeq(ids[i], LAMBDA word : SubSeq(word, 1, 1) = "."))])

(***************************************************************************)
(* TargetDatabase: local definitions by key, in the order they were made,  *)
(* and the targets of other projects (config.inventory: key -> url).       *)
(***************************************************************************)
Key(domain, name, target) == <<domain, name, target>>

\* define_local_target: max() of no ids raises.
Define(c, domain, name, ids, fileid, title, html5_id) ==
  LET entry == [canonical |-> CanonicalOf(ids), fileid |-> fileid, title |-> title, html5_id |-> html5_id]
      Put(defs, id) ==
        LET key == Key(domain, name, id)
        IN (key :> Append(IF key \in DOMAIN defs THEN defs[key] ELSE <<>>, entry)) @@ defs
  IN IF ids = <<>> THEN Fail(c, "ValueError") ELSE [c EXCEPT !.targets = FoldLeft(Put, @, ids)]

\* __getitem__: the local candidates, then those of the inventories.
Candidates(c, key) ==
  LET Local(d) == [slug |-> WithoutKnownSuffix(d.fileid), html5_id |-> d.html5_id, url |-> None,
                   canonical |-> d.canonical, title |-> d.title]
      local == IF key \in DOMAIN c.targets
               THEN [i \in 1..Len(c.targets[key]) |-> Local(c.targets[key][i])] ELSE <<>>
      external == IF key \in DOMAIN c.config.inventory
                  THEN <<[slug |-> None, html5_id |-> <<>>, url |-> c.config.inventory[key],
                          canonical |-> key[3], title |-> c.config.display_name]>>
                  ELSE <<>>
  IN local \o external

(***************************************************************************)
(* HeadingHandler: heading ids are told apart, and the first heading of a  *)
(* page is its title and the target of :doc: references (made twice).      *)
(***************************************************************************)
NewHeadings == [counter |-> <<>>, titles |-> <<>>]

GetTitle(c, slug) == IF slug \in DOMAIN c.headings.titles THEN c.headings.titles[slug] ELSE <<>>

HeadingEnter(c, node) ==
  LET n == c.heap[node]
      id == IF n.kind = "heading" THEN n.id ELSE n.options.id
      new == Numbered(c.headings.counter, id)
      file == RootFile(c)
      slug == WithoutKnownSuffix(file)
      counted == [c EXCEPT !.headings.counter = (id :> Count(@, id) + 1) @@ @]
      renamed == IF n.kind = "heading" THEN [counted EXCEPT !.heap[node].id = new]
                 ELSE [counted EXCEPT !.heap[node].options = ("id" :> new) @@ @]
      Titled(d) == Define(d, "std", "doc", << <<slug>> >>, file, n.children, id)
  IN IF n.kind # "heading" /\ ~Named(n, {"collapsible"}) THEN c
     ELSE IF n.kind # "heading" \/ slug \in DOMAIN c.headings.titles THEN renamed
     ELSE Titled([Titled(renamed) EXCEPT !.headings.titles = (slug :> n.children) @@ @])

HeadingExitPage(c) == [c EXCEPT !.headings.counter = <<>>]

\* TocTitleHandler: the first title a toctree entry gives a page is its label.
TocTitleEnter(c, node) ==
  LET n == c.heap[node]
      titled == SelectSeq(n.entries, LAMBDA e : e.slug # None /\ e.title # None)
      Label(labels, e) == labels @@ (e.slug :> e.title)
  IN IF ~Named(n, {"toctree"}) THEN c ELSE [c EXCEPT !.toc_titles = FoldLeft(Label, @, titled)]

(***************************************************************************)
(* AddTitlesToLabelTargetsHandler: labels right before a section, or a     *)
(* directive with a heading, get its title (a heading that is empty is     *)
(* refused when the option is read, util.py:219).                          *)
(***************************************************************************)
Titles(n) == n.kind = "section" \/ (IsDirective(n) /\ "heading" \in DOMAIN n.options)

AddTitlesEnter(c, node) ==
  LET n == c.heap[node]
      headings == ChildrenOfKind(c.heap, node, "heading")
      option == [kind |-> "text", line |-> n.line, children |-> <<>>, value |-> n.options["heading"]]
      made == IF n.kind = "section" THEN c ELSE [c EXCEPT !.heap = Append(@, option)]
      title == IF n.kind = "section" THEN c.heap[headings[1]].children ELSE <<Len(made.heap)>>
      Give(d, target) == [d EXCEPT !.heap[target].children = title]
      titled == IF n.kind = "section" /\ headings = <<>> THEN c ELSE FoldLeft(Give, made, c.pending_targets)
  IN CASE Titles(n) ->
            [titled EXCEPT !.pending_targets = <<>>]
       [] n.kind = "target" /\ n.domain = "std" /\ n.name = "label" ->
            [c EXCEPT !.pending_targets = @ \o n.children]
       [] n.kind \in {"target", "target_identifier"} -> c
       [] OTHER -> [c EXCEPT !.pending_targets = <<>>]

\* FootnoteHandler: the references of a page are numbered anew, over all its files.
FootnoteEnterPage(c) == [c EXCEPT !.footnote = 1]

FootnoteEnter(c, node) ==
  IF c.heap[node].kind # "footnote_reference" THEN c
  ELSE [c EXCEPT !.heap[node].id = c.footnote, !.footnote = @ + 1]

\* ProgramOptionHandler: an option is also known by the name of the program before it.
ProgramEnterPage(c) == [c EXCEPT !.program = 0]

ProgramEnter(c, node) ==
  LET n == c.heap[node]
      identifiers(k) == ChildrenOfKind(c.heap, k, "target_identifier")
      program == GetText(c.heap, c.heap[identifiers(c.program)[1]].children[1])[1]
      Prefix(d, k) ==
        [d EXCEPT !.heap[k].ids =
                    @ \o [i \in 1..Len(@) |-> <<program, "." \o Head(@[i])>> \o Tail(@[i])],
                  !.heap[d.heap[k].children[1]].value = program \o " " \o @]
  IN CASE n.kind # "target" -> c
       [] n.domain = "std" /\ n.name = "program" -> [c EXCEPT !.program = node]
       [] n.domain = "std" /\ n.name = "option" ->
            IF c.program = 0 THEN Report(c, "MissingOption", n.line)
            ELSE FoldLeft(Prefix, c, identifiers(node))
       [] OTHER -> c

(***************************************************************************)
(* TargetHandler: a target gets the anchor of its longest id, told apart   *)
(* from those of the page before it, and all its ids lead there.           *)
(***************************************************************************)
TargetEnterPage(c) == [c EXCEPT !.target_counter = <<>>]
\* Mutant: the names lead to the anchor of the next target of this name.
TargetEnterCountedFirst(c, node) ==
  LET n == c.heap[node]
      identifiers == ChildrenOfKind(c.heap, node, "target_identifier")
      named == SelectSeq(identifiers, LAMBDA k : c.heap[k].ids # <<>>)
      chosen == LongestOf([i \in 1..Len(named) |-> LongestOf(c.heap[named[i]].ids)])
      html == <<n.domain, n.name>> \o chosen
      id == Numbered(c.target_counter, html)
      anchored == [c EXCEPT !.heap[node].html_id = id,
                            !.target_counter = (id :> Count(@, id) + 1) @@ @]
      Add(d, k) == Define(d, n.domain, n.name, d.heap[k].ids, RootFile(d), d.heap[k].children,
                          Numbered(anchored.target_counter, html))
  IN IF n.kind # "target" \/ named = <<>> THEN c ELSE FoldLeft(Add, anchored, identifiers)

TargetEnter(c, node) ==
  LET n == c.heap[node]
      identifiers == ChildrenOfKind(c.heap, node, "target_identifier")
      named == SelectSeq(identifiers, LAMBDA k : c.heap[k].ids # <<>>)
      chosen == LongestOf([i \in 1..Len(named) |-> LongestOf(c.heap[named[i]].ids)])
      html == <<n.domain, n.name>> \o chosen
      id == Numbered(c.target_counter, html)
      anchored == [c EXCEPT !.heap[node].html_id = id,
                            !.target_counter = (id :> Count(@, id) + 1) @@ @]
      Add(d, k) == Define(d, n.domain, n.name, d.heap[k].ids, RootFile(d), d.heap[k].children, id)
  IN IF n.kind # "target" \/ named = <<>> THEN c ELSE FoldLeft(Add, anchored, identifiers)

(***************************************************************************)
(* IAHandler: the entries of a page, which become the side navigation, and *)
(* the cards linked to them.  "lists" holds the lists of linked cards;     *)
(* "ids" leads from the id of an entry to its list, for every page walked  *)
(* so far.                                                                 *)
(***************************************************************************)
NewIA == [entries |-> <<>>, ids |-> <<>>, lists |-> <<>>]

\* add_linked_data
AddLinkedData(c, group, id) ==
  LET Link(d, k) ==
        LET card == d.heap[k]
        IN IF card.name # "card" THEN Report(d, "InvalidChild", card.line)
           ELSE IF ~({"headline", "url"} \subseteq DOMAIN card.options)
           THEN Report(d, "InvalidIALinkedData", card.line)
           ELSE [d EXCEPT !.ia.lists[d.ia.ids[id]] = Append(@, card.options["url"])]
  IN FoldLeft(Link, c, ChildrenOfKind(c.heap, group, "directive"))

\* One entry directive of an ia directive; a url is a page, or external with a scheme.
AddEntry(c, line, entry) ==
  LET link == entry.options["url"]
      slug == CleanSlug(link)
      title == IF entry.args # <<>> THEN entry.args
               ELSE IF link.external THEN <<>> ELSE GetTitle(c, slug)
      project == Option(entry, "project-name", None)
      id == Option(entry, "id", None)
      list == Len(c.ia.lists) + 1
      listed == [c EXCEPT !.ia.entries = Append(@, [external |-> link.external, slug |-> StripSlashes(link), path |-> slug,
                                                     title |-> title, project_name |-> project, id |-> id,
                                                     primary |-> project # None /\ "primary" \in DOMAIN entry.options])]
  IN IF entry.name # "entry" THEN Report(c, "InvalidChild", line)
     ELSE IF "url" \notin DOMAIN entry.options THEN Report(c, "InvalidIAEntry", line)
     ELSE IF ~link.external /\ GetTitle(c, slug) = <<>> THEN Report(c, "MissingTocTreeEntry", line)
     ELSE IF (project # None /\ ~link.external) \/ (link.external /\ title = <<>>)
     THEN Report(c, "InvalidIAEntry", line)
     ELSE IF id = None THEN listed
     ELSE [listed EXCEPT !.ia.ids = (id :> list) @@ @, !.ia.lists = Append(@, <<>>)]

IAEnter(c, node) ==
  LET n == c.heap[node]
      id == Option(n, "ia-entry-id", None)
  IN CASE Named(n, {"card-group"}) ->
            IF id = None THEN c
            ELSE IF id \in DOMAIN c.ia.ids THEN AddLinkedData(c, node, id)
            ELSE Report(c, "InvalidIALinkedData", n.line)
       [] Named(n, {"ia"}) ->
            IF c.ia.entries # <<>> THEN Report(c, "DuplicateDirective", n.line)
            ELSE FoldLeft(LAMBDA d, k : AddEntry(d, n.line, d.heap[k]), c,
                          ChildrenOfKind(c.heap, node, "directive"))
       [] OTHER -> c

IAEnterPage(c) == [c EXCEPT !.ia.entries = <<>>]

\* The page gets its entries with the lists of their cards, which may still grow.
IAExitPage(c) ==
  LET Linked(e) == e @@ [cards |-> IF e.id \in DOMAIN c.ia.ids THEN c.ia.ids[e.id] ELSE 0]
      entries == c.ia.entries
  IN IF entries = <<>> THEN c
     ELSE SetPageOption(c, "ia", [i \in 1..Len(entries) |-> Linked(entries[i])])

(***************************************************************************)
(* NamedReferenceHandlerPass1 and 2: hyperlinks by name, page by page.     *)
(***************************************************************************)
NamedReferenceEnter(c, node) ==
  LET n == c.heap[node]
      file == RootFile(c)
      known == IF file \in DOMAIN c.named_references THEN c.named_references[file] ELSE <<>>
  IN IF n.kind # "named_reference" THEN c
     ELSE [c EXCEPT !.named_references = (file :> ((n.refname :> n.refuri) @@ known)) @@ @]

ReferenceEnter(c, node) ==
  LET n == c.heap[node]
      file == RootFile(c)
      known == IF file \in DOMAIN c.named_references THEN c.named_references[file] ELSE <<>>
  IN IF n.kind # "reference" \/ n.refuri # "" THEN c
     ELSE IF n.refname \notin DOMAIN known THEN Report(c, "TargetNotFound", n.line)
     ELSE [c EXCEPT !.heap[node].refuri = known[n.refname]]

(***************************************************************************)
(* RefsHandler                                                             *)
(***************************************************************************)
\* get_title_injection_candidate: the end of a line of only children, if that can have children.
RECURSIVE InjectionCandidate(_, _)
InjectionCandidate(h, node) ==
  IF h[node].kind \in {"text", "named_reference"} \/ Len(h[node].children) > 1 THEN 0
  ELSE IF h[node].children = <<>> THEN node
  ELSE InjectionCandidate(h, h[node].children[1])

\* A copy of title nodes becomes the children of a node, at the line of the reference.
RECURSIVE PositionAt(_, _, _)
PositionAt(h, node, line) ==
  FoldLeft(LAMBDA g, k : PositionAt(g, k, line), [h EXCEPT ![node].line = line], h[node].children)

Inject(c, place, title, line) ==
  LET copied == DeepCopies(c.heap, title)
      placed == FoldLeft(LAMBDA g, k : PositionAt(g, k, line), copied.heap, copied.nodes)
  IN [c EXCEPT !.heap = [placed EXCEPT ![place].children = copied.nodes]]

\* attempt_disambugation: the only local candidate, else the only one on this page.
Disambiguated(fileid, candidates) ==
  LET local == SelectSeq(candidates, LAMBDA d : d.url = None)
      here == SelectSeq(local, LAMBDA d : d.slug = WithoutKnownSuffix(fileid))
  IN IF Len(local) = 1 THEN local ELSE IF Len(here) = 1 THEN here ELSE candidates

\* _attach_doc_title
AttachDocTitle(c, node) ==
  LET n == c.heap[node]
      title == GetTitle(c, CleanSlug(n.fileid[1]))
  IN IF n.fileid = <<>> THEN Report(c, "ExpectedPathArg", n.line)
     ELSE IF title = <<>> THEN Report(c, "UnnamedPage", n.line)
     ELSE LET copied == DeepCopies(c.heap, title)
          IN [c EXCEPT !.heap = [copied.heap EXCEPT ![node].children = copied.nodes]]

\* The reference is linked to the last of the candidates that are left.
Link(c, node, candidates) ==
  LET n == c.heap[node]
      result == Last(candidates)
      told == IF Len(candidates) > 1 THEN Report(c, "AmbiguousTarget", n.line) ELSE c
      linked == [told EXCEPT !.heap[node] =
                   [@ EXCEPT !.target = result.canonical,
                             !.fileid = IF result.url = None THEN <<result.slug, result.html5_id>> ELSE @,
                             !.url = IF result.url = None THEN @ ELSE result.url]]
      place == InjectionCandidate(c.heap, node)
      titled == Inject(linked, place, result.title, n.line)
  IN IF place = 0 THEN linked
     ELSE IF titled.heap[node].children = <<>> THEN Report(titled, "ChildlessRef", n.line)
     ELSE titled

RefsEnter(c, node) ==
  LET n == c.heap[node]
      candidates == Candidates(c, Key(n.domain, n.name, n.target))
      place == InjectionCandidate(c.heap, node)
      text == [kind |-> "text", line |-> n.line, children |-> <<>>, value |-> Last(n.target)]
      named == IF place = 0 THEN c
               ELSE [c EXCEPT !.heap = [Append(@, text) EXCEPT ![place].children = <<Len(c.heap) + 1>>]]
  IN CASE n.kind # "ref_role" -> c
       [] n.domain = "std" /\ n.name = "doc" -> IF n.children = <<>> THEN AttachDocTitle(c, node) ELSE c
       [] candidates = <<>> -> Report(named, "TargetNotFound", n.line)
       [] OTHER -> Link(c, node, IF Len(candidates) = 1 THEN candidates
                                 ELSE Disambiguated(RootFile(c), candidates))
=============================================================================
