----------------------------- MODULE Inclusion -----------------------------
(***************************************************************************)
(* The first two passes of postprocessing (postprocess.py, IncludeHandler  *)
(* and SubstitutionHandler): include directives get a copy of the file     *)
(* they name, which is then walked in its turn, and substitution           *)
(* references get the children of their definition, at once when it is     *)
(* known and at the end of the page when it comes later.                   *)
(***************************************************************************)
EXTENDS PageTree

IncludeNames == {"include", "sharedinclude"}

(***************************************************************************)
(* IncludeHandler                                                          *)
(***************************************************************************)
\* slug_fileid_mapping: a later file of the same name but for the suffix replaces an earlier one.
SlugFileId(c, slug) ==
  LET named == {i \in 1..Len(c.pages) : WithoutKnownSuffix(c.pages[i].fileid) = slug}
  IN IF named = {} THEN None ELSE c.pages[Max(named)].fileid

\* is_bound: a comment or a label carries the text of start-after or end-before, which is one word.
IsBound(h, node, text) ==
  /\ h[node].children # <<>>
  /\ LET first == h[h[node].children[1]]
     IN \/ h[node].kind = "comment" /\ first.kind = "text" /\ first.value = text
        \/ /\ h[node].kind = "target" /\ h[node].domain = "std" /\ h[node].name = "label"
           /\ first.kind = "target_identifier" /\ <<text>> \in Range(first.ids)

\* bound_included_AST: of the nodes, those from the one that holds the start to the one that
\* holds the end, and the same below each of them.  A start behind the end raises an exception;
\* what was cut until then stays cut.
RECURSIVE BoundIncludedAST(_, _, _, _)
BoundIncludedAST(h, nodes, start, end) ==
  LET Look(b, i) ==
        LET inner == BoundIncludedAST(b.heap, b.heap[nodes[i]].children, start, end)
        IN IF b.failed THEN b
           ELSE IF inner.failed THEN [b EXCEPT !.heap = inner.heap, !.failed = TRUE]
           ELSE [heap |-> [inner.heap EXCEPT ![nodes[i]].children = inner.nodes],
                 from |-> IF inner.start \/ IsBound(b.heap, nodes[i], start) THEN i ELSE b.from,
                 to |-> IF inner.end \/ IsBound(b.heap, nodes[i], end) THEN i ELSE b.to,
                 start |-> b.start \/ inner.start \/ IsBound(b.heap, nodes[i], start),
                 end |-> b.end \/ inner.end \/ IsBound(b.heap, nodes[i], end),
                 failed |-> FALSE]
      looked == FoldLeft(Look, [heap |-> h, from |-> 1, to |-> Len(nodes) + 1,
                                start |-> FALSE, end |-> FALSE, failed |-> FALSE],
                         [i \in 1..Len(nodes) |-> i])
  IN [heap |-> looked.heap, start |-> looked.start, end |-> looked.end,
      failed |-> looked.failed \/ looked.from > looked.to,
      nodes |-> SelectSeq([i \in 1..Len(nodes) |-> IF i \in looked.from..looked.to THEN nodes[i] ELSE 0],
                          LAMBDA k : k # 0)]

\* A bound that is not found is reported.
Missing(c, n, text, found) == IF text # None /\ ~found THEN Report(c, "InvalidInclude", n.line) ELSE c

\* The copy of the file, cut at the bounds the directive gives, or whole when that fails.
Cut(c, n, copy, start, end, bound) ==
  LET kept == [c EXCEPT !.heap = bound.heap]
  IN [c |-> IF bound.failed
            THEN Missing(Missing(Report(kept, "InvalidInclude", n.line), n, start, FALSE), n, end, FALSE)
            ELSE Missing(Missing(kept, n, start, bound.start), n, end, bound.end),
      nodes |-> IF bound.failed THEN <<copy>> ELSE bound.nodes]

Bounded(c, n, copy) ==
  LET start == Option(n, "start-after", None)
      end == Option(n, "end-before", None)
  IN IF start = None /\ end = None THEN [c |-> c, nodes |-> <<copy>>]
     ELSE Cut(c, n, copy, start, end, BoundIncludedAST(c.heap, <<copy>>, start, end))
\* Mutant: the assets go to the file that includes.
AssetsOfTheIncluder(c, included) ==
  [c EXCEPT !.pages[PageOf(c, CurrentFile(c))].static_assets = @ \cup c.pages[included].static_assets]

IncludeAssets(c, included) ==
  [c EXCEPT !.pages[PageOf(c, RootFile(c))].static_assets = @ \cup c.pages[included].static_assets]

\* The directive gets its replacements and the nodes of the file.
Fill(bounded, node) ==
  [bounded.c EXCEPT !.heap[node].children = ChildDirectives(bounded.c.heap, node, "replacement") \o bounded.nodes]

IncludeFile(c, node, included) ==
  LET ast == c.pages[included].ast
  IN IF Depth(c.heap, ast) > MaxDepth THEN Fail(c, "RecursionError")
     ELSE Fill(Bounded(IncludeAssets([c EXCEPT !.heap = DeepCopy(@, ast)], included),
                       c.heap[node], Len(c.heap) + 1), node)

\* The file an include names, as it is written without a suffix or else with it.
IncludedFile(c, written) ==
  IF SlugFileId(c, CleanSlug(written)) # None THEN SlugFileId(c, CleanSlug(written))
  ELSE SlugFileId(c, StripSlashes(written))

IncludeEnter(c, node) ==
  LET n == c.heap[node]
      fileid == IncludedFile(c, TextOf(c.heap, n.args)[1])
  IN IF ~Named(n, IncludeNames) \/ n.args = <<>> THEN c
     ELSE IF fileid # None THEN IncludeFile(c, node, PageOf(c, fileid))
     ELSE IF n.name = "sharedinclude" THEN c ELSE Report(c, "CannotOpenFile", n.line)

(***************************************************************************)
(* SubstitutionHandler                                                     *)
(*   definitions    of this page so far: name -> children                  *)
(*   replacements   of the includes being walked, innermost last           *)
(*   unreplaced     references to settle at the end of the page            *)
(*   seen           <<names>> while a definition is walked, else <<>>      *)
(***************************************************************************)
NoSubstitutions == [definitions |-> <<>>, replacements |-> <<>>, unreplaced |-> <<>>, seen |-> <<>>]

\* _search: the nodes a name stands for, <<nodes>> or <<>>.
Meaning(c, name) ==
  LET s == c.substitutions
  IN IF s.replacements # <<>> /\ name \in DOMAIN Last(s.replacements) THEN <<Last(s.replacements)[name]>>
     ELSE IF name \in DOMAIN s.definitions /\ s.definitions[name] # <<>> THEN <<s.definitions[name]>>
     ELSE IF name \in DOMAIN c.config.substitution_nodes THEN <<c.config.substitution_nodes[name]>>
     ELSE <<>>
\* Mutant: nobody looks for loops.
NeverLooping(c, name) == FALSE

Looping(c, name) == c.substitutions.seen # <<>> /\ name \in c.substitutions.seen[1]

Unknown(c) == [c |-> c, found |-> FALSE, nodes |-> <<>>]

Copied(c, copies) == [c |-> [c EXCEPT !.heap = copies.heap], found |-> TRUE, nodes |-> copies.nodes]

\* A copy of them; a name seen while its definition is walked is a loop, and loses its definition.
Search(c, n) ==
  IF Looping(c, n.name)
  THEN Unknown(Report([c EXCEPT !.substitutions.definitions = [d \in DOMAIN @ \ {n.name} |-> @[d]]],
                      "CircularSubstitution", n.line))
  ELSE IF Meaning(c, n.name) = <<>> THEN Unknown(c)
  ELSE Copied(c, DeepCopies(c.heap, Meaning(c, n.name)[1]))

AllInline(h, nodes) == \A i \in 1..Len(nodes) : h[nodes[i]].kind \in InlineKinds

\* extract_inline: inline nodes, bare or as the only paragraph.
ExtractInline(h, nodes) ==
  IF AllInline(h, nodes) THEN nodes
  ELSE IF Len(nodes) = 1 /\ h[nodes[1]].kind = "paragraph" /\ AllInline(h, h[nodes[1]].children)
  THEN h[nodes[1]].children
  ELSE <<>>

Inlined(found, n) ==
  LET inline == ExtractInline(found.c.heap, found.nodes)
  IN IF ~found.found THEN found
     ELSE IF inline = <<>>
     THEN [found EXCEPT !.found = FALSE, !.c = Report(@, "InvalidContextError", n.line)]
     ELSE [found EXCEPT !.nodes = inline]

\* search_block: neighbouring inline nodes share a new paragraph.
Paragraphs(h, nodes, line) ==
  LET Place(b, k) ==
        IF b.heap[k].kind \notin InlineKinds
        THEN [b EXCEPT !.nodes = Append(@, k), !.open = FALSE]
        ELSE IF b.open THEN [b EXCEPT !.heap[Last(b.nodes)].children = Append(@, k)]
        ELSE [heap |-> Append(b.heap, [kind |-> "paragraph", line |-> line, children |-> <<k>>]),
              nodes |-> Append(b.nodes, Len(b.heap) + 1), open |-> TRUE]
  IN FoldLeft(Place, [heap |-> h, nodes |-> <<>>, open |-> FALSE], nodes)

Blocked(found, n) ==
  IF found.found THEN Copied(found.c, Paragraphs(found.c.heap, found.nodes, n.line)) ELSE found
\* Mutant: a reference in a definition does not wait for the end of the page.
SubstituteForgets(node, n, found) ==
  LET set == IF found.found THEN [found.c EXCEPT !.heap[node].children = found.nodes]
             ELSE IF found.c.substitutions.seen # <<>> THEN found.c
             ELSE [found.c EXCEPT !.substitutions.unreplaced =
                     Append(@, [node |-> node, file |-> CurrentFile(found.c)])]
  IN [set EXCEPT !.substitutions.seen = IF @ = <<>> THEN @ ELSE <<@[1] \cup {n.name}>>]

\* Its children when it was found, or it waits for the end of the page; in a definition it was seen.
Substitute(node, n, found) ==
  LET set == IF found.found THEN [found.c EXCEPT !.heap[node].children = found.nodes]
             ELSE [found.c EXCEPT !.substitutions.unreplaced =
                     Append(@, [node |-> node, file |-> CurrentFile(found.c)])]
  IN [set EXCEPT !.substitutions.seen = IF @ = <<>> THEN @ ELSE <<@[1] \cup {n.name}>>]

\* The replacements an include directive passes to the file.
Replacements(h, node) ==
  LET given == ChildDirectives(h, node, "replacement")
      Name(k) == TextOf(h, h[k].args)[1]
  IN FoldLeft(LAMBDA f, k : (Name(k) :> h[k].children) @@ f, <<>>, given)

SubstitutionEnter(c, node) ==
  LET n == c.heap[node]
  IN CASE Named(n, IncludeNames) ->
            [c EXCEPT !.substitutions.replacements = Append(@, Replacements(c.heap, node))]
       [] n.kind = "substitution_definition" ->
            [c EXCEPT !.substitutions.definitions = (n.name :> n.children) @@ @,
                      !.substitutions.seen = <<{}>>]
       [] n.kind = "substitution_reference" -> Substitute(node, n, Inlined(Search(c, n), n))
       [] n.kind = "block_substitution_reference" -> Substitute(node, n, Blocked(Search(c, n), n))
       [] OTHER -> c

SubstitutionExit(c, node) ==
  LET n == c.heap[node]
  IN IF n.kind = "substitution_definition" THEN [c EXCEPT !.substitutions.seen = <<>>]
     ELSE IF Named(n, IncludeNames) THEN [c EXCEPT !.substitutions.replacements = Front(@)]
     ELSE c

\* exit_page: references that came before their definition share its children.
SubstitutionExitPage(c) ==
  LET Settle(d, u) ==
        LET n == d.heap[u.node]
        IN IF n.name \in DOMAIN d.substitutions.definitions
           THEN [d EXCEPT !.heap[u.node].children = d.substitutions.definitions[n.name]]
           ELSE Diagnose(d, u.file, "SubstitutionRefError", n.line)
  IN [FoldLeft(Settle, c, c.substitutions.unreplaced)
      EXCEPT !.substitutions = [NoSubstitutions EXCEPT !.seen = c.substitutions.seen]]
=============================================================================
