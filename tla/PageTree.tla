------------------------------ MODULE PageTree ------------------------------
(***************************************************************************)
(* The abstract syntax trees that postprocessing rewrites (n.py), and the  *)
(* context its handlers share (postprocess.py, Context).                   *)
(*                                                                         *)
(* Handlers keep nodes and change them later (a target waits for a title,  *)
(* a substitution for the end of its page), and the end of a page may give *)
(* one list of children to several nodes.  Nodes therefore live in a heap: *)
(* a sequence of records, a node is its index, "children" a sequence of    *)
(* indices.  A record has the fields of its class; "kind" is the class and *)
(* "line" the number the node was first read at, which copies keep.        *)
(*                                                                         *)
(* A context is a record: heap, pages (in the order of the dictionary),    *)
(* diagnostics, the stack of the files being walked, error ("" or the      *)
(* exception that ended the run) and one field for each handler's state.   *)
(***************************************************************************)
EXTENDS Naturals, Sequences, SequencesExt, FiniteSetsExt, TLC

CONSTANTS None,      \* no name, no entry, no option
          MaxDepth   \* how deep a tree can be walked or copied before the interpreter's stack is used up

ASSUME DepthAssumption == MaxDepth \in Nat \ {0}

\* The classes that are InlineNodes.
InlineKinds == {"text", "substitution_reference", "footnote_reference", "reference",
                "named_reference", "role", "ref_role", "target_identifier", "literal"}

\* What a node has besides its kind, its line and its children: the slots of its class.
BlockFields ==
  [k \in {"comment", "section", "paragraph"} |-> {}]
  @@ [k \in {"substitution_definition", "block_substitution_reference"} |-> {"name"}]
  @@ [root |-> {"fileid", "options"}, heading |-> {"id"}, directive |-> {"name", "args", "options"},
      target |-> {"domain", "name", "html_id"}]

InlineFields ==
  [footnote_reference |-> {"id"}, substitution_reference |-> {"name"}, target_identifier |-> {"ids"},
   reference |-> {"refuri", "refname"}, named_reference |-> {"refuri", "refname"}, text |-> {"value"},
   role |-> {"domain", "name", "target", "flag"}, literal |-> {},
   ref_role |-> {"domain", "name", "target", "flag", "fileid", "url"}]

\* Some directives have slots of their own.
DirectiveFields ==
  [toctree |-> {"entries"}] @@ [name \in {"composable-tutorial"} |-> {"composable_options"}]
  @@ [name \in {"selected-content"} |-> {"selections"}]

Fields(n) ==
  LET own == IF n.kind = "directive" /\ n.name \in DOMAIN DirectiveFields THEN DirectiveFields[n.name] ELSE {}
  IN {"kind", "line", "children"} \cup (BlockFields @@ InlineFields)[n.kind] \cup own

\* FileId: a path, here its name and its suffix; the map from names to files has no suffixes.
KnownSuffixes == {".txt", ".rst", ".yaml", ".ast"}

WithoutKnownSuffix(fileid) ==
  IF fileid.ext \in KnownSuffixes THEN fileid.slug ELSE fileid.slug \o fileid.ext

\* clean_slug: what an author wrote, without slashes and without the suffix of a source file.
CleanSlug(written) == IF written.ext \in KnownSuffixes THEN written.slug ELSE written.slug \o written.ext

StripSlashes(written) == written.slug \o written.ext

(***************************************************************************)
(* Nodes                                                                   *)
(***************************************************************************)
Children(h, node) == h[node].children

Terms(n) == IF n.kind \in {"directive", "definitionListItem"} THEN n.args ELSE <<>>

IsDirective(n) == n.kind = "directive"

Named(n, names) == n.kind = "directive" /\ n.name \in names

\* Parent.get_child_of_type, for directives of a name and for a class.
ChildDirectives(h, node, name) == SelectSeq(Children(h, node), LAMBDA k : Named(h[k], {name}))

ChildrenOfKind(h, node, kind) == SelectSeq(Children(h, node), LAMBDA k : h[k].kind = kind)

Option(n, key, default) == IF key \in DOMAIN n.options THEN n.options[key] ELSE default

\* Every node of a tree, with those of its arguments and terms, in the order of a walk.
RECURSIVE Preorder(_, _)
Preorder(h, node) ==
  <<node>> \o FlattenSeq([i \in 1..Len(Terms(h[node]) \o h[node].children) |->
                           Preorder(h, (Terms(h[node]) \o h[node].children)[i])])

Nodes(h, node) == Range(Preorder(h, node))

RECURSIVE Depth(_, _)
Depth(h, node) ==
  1 + FoldLeft(LAMBDA most, k : Max({most, Depth(h, k)}), 0, Terms(h[node]) \o h[node].children)

\* Node.get_text
RECURSIVE GetText(_, _)
GetText(h, node) ==
  IF h[node].kind = "text" THEN <<h[node].value>>
  ELSE FlattenSeq([i \in 1..Len(h[node].children) |-> GetText(h, h[node].children[i])])

TextOf(h, nodes) == FlattenSeq([i \in 1..Len(nodes) |-> GetText(h, nodes[i])])

(***************************************************************************)
(* Growing the heap                                                        *)
(***************************************************************************)
\* The heap grows by one node at a time, a parent before its children.  What waits is a node (or a
\* tree) with its parent, 0 for none, and the field of the parent it belongs to.
Waiting(n, here) ==
  LET Wait(kids, field) == [i \in 1..Len(kids) |-> [of |-> kids[i], parent |-> here, field |-> field]]
  IN Wait(n.children, "children") \o Wait(Terms(n), "args")

Planted(h, waiting, n) ==
  LET bare == IF Terms(n) = <<>> THEN [n EXCEPT !.children = <<>>]
              ELSE [n EXCEPT !.children = <<>>, !.args = <<>>]
  IN IF waiting.parent = 0 THEN Append(h, bare)
     ELSE [Append(h, bare) EXCEPT ![waiting.parent][waiting.field] = Append(@, Len(h) + 1)]

RECURSIVE CopyAll(_, _)
CopyAll(h, waiting) ==
  IF waiting = <<>> THEN h
  ELSE LET n == h[Head(waiting).of]
       IN CopyAll(Planted(h, Head(waiting), n), Waiting(n, Len(h) + 1) \o Tail(waiting))

\* util.fast_deep_copy: the copy is the node Len(h) + 1 of the new heap.
DeepCopy(h, node) == CopyAll(h, <<[of |-> node, parent |-> 0, field |-> "children"]>>)

\* The copy of a list of nodes: [heap, nodes].
DeepCopies(h, nodes) ==
  FoldLeft(LAMBDA c, k : [heap |-> DeepCopy(c.heap, k), nodes |-> Append(c.nodes, Len(c.heap) + 1)],
           [heap |-> h, nodes |-> <<>>], nodes)

RECURSIVE LoadAll(_, _)
LoadAll(h, waiting) ==
  IF waiting = <<>> THEN h
  ELSE LET tree == Head(waiting).of
       IN LoadAll(Planted(h, Head(waiting), tree @@ [line |-> Len(h) + 1]),
                  Waiting(tree, Len(h) + 1) \o Tail(waiting))

\* A page as the parser made it, written as a tree whose "children" and "args" are trees, read
\* into the heap; its lines are its places in the heap.
Load(h, tree) == LoadAll(h, <<[of |-> tree, parent |-> 0, field |-> "children"]>>)

(***************************************************************************)
(* The context                                                             *)
(***************************************************************************)
RootFile(c) == c.stack[1]
CurrentFile(c) == c.stack[Len(c.stack)]

PageOf(c, fileid) == CHOOSE i \in 1..Len(c.pages) : c.pages[i].fileid = fileid
Has(c, fileid) == \E i \in 1..Len(c.pages) : c.pages[i].fileid = fileid

\* The options of the page that is being walked: page.ast.options
AstOf(c) == c.pages[PageOf(c, RootFile(c))].ast
PageOptions(c) == c.heap[AstOf(c)].options
PageOption(c, key, default) == Option([options |-> PageOptions(c)], key, default)
SetPageOption(c, key, value) == [c EXCEPT !.heap[AstOf(c)].options = (key :> value) @@ @]

Diagnose(c, fileid, kind, line) ==
  [c EXCEPT !.diagnostics = Append(@, [file |-> fileid, kind |-> kind, line |-> line])]

\* context.diagnostics[fileid_stack.current].append(...)
Report(c, kind, line) == Diagnose(c, CurrentFile(c), kind, line)

Reported(c, fileid, kinds, line) ==
  \E i \in 1..Len(c.diagnostics) :
    c.diagnostics[i].file = fileid /\ c.diagnostics[i].kind \in kinds /\ c.diagnostics[i].line = line

Fail(c, exception) == [c EXCEPT !.error = exception]
=============================================================================
