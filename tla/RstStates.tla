----------------------------- MODULE RstStates ------------------------------
(***************************************************************************)
(* The block parser of tinydocutils (states.py, statemachine.py) with the  *)
(* directives of rstparser.py that parse their content.                    *)
(*                                                                         *)
(* The parser is a stack of state machines.  Each reads its own list of    *)
(* lines one by one, classifies a line by the state it is in, and starts   *)
(* machines of its own for the lines nested in a construct; when such a    *)
(* machine ends, its caller jumps to the line where it stopped.  What the  *)
(* machines share is the memo: title styles, section level, and a flag.    *)
(*                                                                         *)
(* One action is one transition method up to the machine it starts, or     *)
(* what is left of the method when that machine has ended (Return).        *)
(***************************************************************************)
EXTENDS RstLines, FiniteSets

CONSTANTS Documents,    \* the documents to parse: a set of sequences of lines
          Enumerators,  \* enumerator -> its format and its ordinal in each sequence
          Directives,   \* directive -> its arguments, options, content and handler
          StepsPerLine  \* the bound of EndsSoon

NoError == "none"

ASSUME DocumentsAssumption ==
    \A d \in Documents : d \in Seq(LineType) \ {<<>>} /\ \A i \in DOMAIN d : d[i].n = i

(***************************************************************************)
(* A text and a rule go on to the end of their line (Body.patterns), and   *)
(* what reads as a directive is no text (SubstitutionDef.patterns).        *)
(***************************************************************************)
ASSUME MarksAssumption ==
    \A d \in Documents : \A i \in DOMAIN d : \A k \in DOMAIN d[i].m :
        LET mark == d[i].m[k]
        IN  /\ mark.t \in {"text", "line"} => k = Len(d[i].m)
            /\ mark.t = "text" => mark.c \notin DOMAIN Directives

(* directives.Replace takes content, and neither arguments nor options. *)
ASSUME DirectivesAssumption ==
    \A c \in DOMAIN Directives :
        Directives[c].run = "replace" => Directives[c].args = "none" /\ Directives[c].options = {}

VARIABLES doc,      \* the document
          frames,   \* the state machines, innermost last
          tree,     \* the nodes made, in order: kind, parent, lines of text it holds
          memo,     \* what the machines share (StateMachineMemo)
          cache,    \* RSTState.nested_sm_cache: the machines kept, as their Line.eofcheck
          error,    \* the exception that ended the parse
          dropped,  \* auxiliary: lines that no machine will read
          steps,    \* auxiliary: the steps taken so far
          reread    \* auxiliary: lines have been read again by mistake

vars == <<doc, frames, tree, memo, cache, error, dropped, steps, reread>>

-----------------------------------------------------------------------------
(* The states of a machine, and what the list-like ones accept. *)

Members ==
    [BulletList |-> {"bullet"}, DefinitionList |-> {"text"},
     EnumeratedList |-> {"enumerator"}, FieldList |-> {"field_marker"},
     OptionList |-> {"option_marker"}, LineBlock |-> {"line_block"},
     Explicit |-> {"explicit_markup", "anonymous"}]

TextStates == {"Text", "Definition", "Line"}
States == {"Body", "SubstitutionDef"} \cup DOMAIN Members \cup TextStates

(* The lists that begin with a marker: state, node, item, how an item is indented. *)
Lists ==
    [bullet        |-> [state |-> "BulletList", node |-> "bullet_list",
                        item |-> "list_item"],
     enumerator    |-> [state |-> "EnumeratedList", node |-> "enumerated_list",
                        item |-> "list_item"],
     field_marker  |-> [state |-> "FieldList", node |-> "field_list",
                        item |-> "field"],
     option_marker |-> [state |-> "OptionList", node |-> "option_list",
                        item |-> "option_list_item"]]

NoList == [c |-> "", seq |-> "", fmt |-> "", last |-> 0, auto |-> FALSE]

(* What the caller of a machine goes on with when it has ended. *)
Then(k, finish) == [k |-> k, finish |-> finish, state |-> "", list |-> NoList,
                    node |-> 0, of |-> {}, level |-> 0, next |-> <<>>]

Machine(state, lines, base, node, titles, then) ==
    [state |-> state, lines |-> lines, base |-> base, off |-> -1, only |-> "",
     ctx |-> <<>>, phase |-> "run", titles |-> titles, finish |-> then.finish,
     node |-> node, list |-> then.list, eofcheck |-> TRUE, then |-> then]

Node(kind, up, of) == [kind |-> kind, up |-> up, of |-> of]
Message(level, up, of) == Node(level, up, of)
Levels == {"info", "warning", "error", "severe"}

Below == Front(frames)
Top   == Last(frames)

(* StateMachine.next_line, when there is a line. *)
Moved(f, n)      == [f EXCEPT !.off = @ + n]
HasLine(f, i)    == i < Len(f.lines)
F                == [Moved(Top, 1) EXCEPT !.only = ""]
Line             == At(F.lines, F.off)
AbsOffset(f)     == f.base + f.off
NextLineBlank(f) == HasLine(f, f.off + 1) => Blank(At(f.lines, f.off + 1))

(* A line that is nothing but colons. *)
IsColons(line) == Lone(line) /\ line.m[1].t = "line" /\ line.m[1].c = ":"

(* What reads as a directive but is none that is known. *)
NoDirective == {"::", "unknown directive"}

(* StateMachine.check_line: the first transition of the state that matches. *)
Transition ==
    IF Top.only # "" THEN Top.only
    ELSE IF Blank(Line) THEN "blank"
    ELSE IF Line.ind > 0 THEN "indent"
    ELSE IF F.state \in TextStates THEN IF IsRule(Line) THEN "underline" ELSE "text"
    ELSE IF F.state = "SubstitutionDef"
         THEN IF Head(Line.m).c \in DOMAIN Directives \cup NoDirective THEN "embedded_directive"
              ELSE "text"
    ELSE Head(Line.m).t

Sees(states, transitions) ==
    /\ frames # <<>>
    /\ Top.phase = "run"
    /\ HasLine(F, F.off)
    /\ F.state \in states
    /\ Transition \in transitions

-----------------------------------------------------------------------------
(* The shapes of a step: go on in this machine, start another one, end. *)

Same == UNCHANGED <<doc, memo, cache, error, dropped>>

Goes(f, nodes) ==
    /\ frames' = Append(Below, f)
    /\ tree' = tree \o nodes

Continue(f, nodes) == Goes(f, nodes) /\ Same

(* RSTState.nested_list_parse *)
StartList(f, state, node, titles, then) ==
    frames' = Below \o <<f, Machine(state, From(f.lines, f.off + 1),
                                    AbsOffset(f) + 1, node, titles, then)>>

(***************************************************************************)
(* RSTState.nested_parse: a machine over the block, kept for another use   *)
(* afterwards.  The state objects of a kept machine are not reset.         *)
(***************************************************************************)
Kept(f) == [f EXCEPT !.eofcheck = IF cache = <<>> THEN TRUE ELSE Last(cache)]

NestedParse(f, lines, base, node, titles, then) ==
    /\ frames' = Below \o <<f, Kept(Machine("Body", lines, base, node, titles, then))>>
    /\ cache' = IF cache = <<>> THEN <<>> ELSE Front(cache)

(* raise EOFError: the state's eof method, which only these states have. *)
Ended(f) == [f EXCEPT !.phase = IF f.state \in TextStates THEN "eof" ELSE "over"]

NextNode == Len(tree) + 1

-----------------------------------------------------------------------------
Root(d) == Machine("Body", d, 0, 0, TRUE, Then("root", TRUE))

Init ==
    /\ doc = <<>>
    /\ frames = <<>>
    /\ tree = <<>>
    /\ memo = [styles |-> <<>>, level |-> 0, bubble |-> FALSE, minimum |-> <<0>>]
    /\ cache = <<>>
    /\ error = NoError
    /\ dropped = {}
    /\ steps = 0
    /\ reread = FALSE

(* RSTStateMachine.run_rst *)
Parse ==
    /\ doc = <<>> /\ frames = <<>>
    /\ doc' \in Documents
    /\ frames' = <<Root(doc')>>
    /\ UNCHANGED <<tree, memo, cache, error, dropped>>

BodyBlank ==
    /\ Sees({"Body", "SubstitutionDef"}, {"blank"})
    /\ Continue(F, <<>>)

(* Body.indent: a block quote. *)
BlockQuote ==
    /\ Sees({"Body", "SubstitutionDef"}, {"indent"})
    /\ LET b == IndentedBlock(F.lines, F.off, F.base, "unknown", FALSE)
       IN  /\ NestedParse([F EXCEPT !.off = b.last], b.lines, b.off, NextNode, FALSE,
                          Then("nothing", TRUE))
           /\ tree' = tree \o <<Node("block_quote", F.node, {})>>
                           \o (IF b.finish THEN <<>> ELSE <<Message("warning", F.node, {})>>)
    /\ UNCHANGED <<doc, memo, error, dropped>>

(* SpecializedBody.invalid_input: the caller looks at the line again. *)
InvalidInput ==
    /\ frames # <<>> /\ Top.state \in DOMAIN Members
    /\ Sees(DOMAIN Members, Transitions \cup {"blank", "indent"})
    /\ Transition \notin Members[F.state]
    /\ Continue(Ended(Moved(F, -1)), <<>>)

-----------------------------------------------------------------------------
(* Lists with markers. *)

SequenceOrder == <<"arabic", "loweralpha", "upperalpha", "lowerroman", "upperroman">>

(* Body.parse_enumerator; an ordinal of 0 is a malformed Roman numeral. *)
ParseEnumerator(c, expected) ==
    LET e == Enumerators[c]
        seqs == DOMAIN e.ords
        seq == IF c = "#." THEN "#"
               ELSE IF expected \in seqs THEN expected
               ELSE IF expected = "" /\ c = "i." THEN "lowerroman"
               ELSE SelectSeq(SequenceOrder, LAMBDA s : s \in seqs)[1]
    IN  [fmt |-> e.fmt, seq |-> seq, ord |-> IF seq = "#" THEN 1 ELSE e.ords[seq]]

(* Body.make_enumerator: does the line begin with the next enumerator, or with "#."? *)
BeginsNext(line, parsed) ==
    LET e == Enumerators[Head(line.m).c]
    IN  /\ Head(line.m).t = "enumerator" /\ ~Lone(line)
        /\ e.fmt = parsed.fmt
        /\ \/ Head(line.m).c = "#."
           \/ /\ parsed.seq \in DOMAIN e.ords
              /\ e.ords[parsed.seq] = parsed.ord + 1

IsEnumeratedListItem(f, parsed) ==
    HasLine(f, f.off + 1) =>
        LET next == At(f.lines, f.off + 1)
        IN  \/ Blank(next) \/ next.ind > 0
            \/ Head(next.m).t = "enumerator" /\ BeginsNext(next, parsed)

(* Body.list_item, field and option_list_item: the lines of an item. *)
ItemBlock(f, t) ==
    IndentedBlock(f.lines, f.off, f.base,
                  IF t \in {"bullet", "enumerator"} /\ ~Lone(At(f.lines, f.off))
                  THEN "known" ELSE "first", FALSE)

(* The list a marker begins: its bullet, or its format, sequence and ordinal. *)
ListOf(line) ==
    LET mark == Head(line.m)
    IN  IF mark.t = "enumerator"
        THEN LET parsed == ParseEnumerator(mark.c, "")
             IN  [c |-> "", seq |-> IF parsed.seq = "#" THEN "arabic" ELSE parsed.seq,
                  fmt |-> parsed.fmt, last |-> parsed.ord, auto |-> parsed.seq = "#"]
        ELSE [NoList EXCEPT !.c = IF mark.t = "bullet" THEN mark.c ELSE ""]

(* EnumeratedList.enumerator and BulletList.bullet: does this item belong to the list? *)
Belongs(f) ==
    LET mark == Head(At(f.lines, f.off).m)
        p == ParseEnumerator(mark.c, f.list.seq)
    IN  CASE mark.t = "bullet" -> mark.c = f.list.c
          [] mark.t = "enumerator" ->
                /\ p.fmt = f.list.fmt
                /\ p.seq # "#" => /\ p.seq = f.list.seq
                                  /\ ~f.list.auto
                                  /\ p.ord = f.list.last + 1
                /\ IsEnumeratedListItem(f, p)
          [] OTHER -> TRUE

Advanced(f) ==
    LET mark == Head(At(f.lines, f.off).m)
        p == ParseEnumerator(mark.c, f.list.seq)
    IN  IF mark.t # "enumerator" THEN f.list
        ELSE [f.list EXCEPT !.auto = @ \/ p.seq = "#", !.last = p.ord]

(* A change of Correct: the line is looked at again as if for the first time. *)
CorrectAnew(f) == [Moved(f, -1) EXCEPT !.only = ""]

(* StateMachine.check_line after TransitionCorrection("text"). *)
Correct(f) == [Moved(f, -1) EXCEPT !.only = "text"]

MalformedEnumerator(f, expected) ==
    /\ Head(At(f.lines, f.off).m).t = "enumerator"
    /\ ParseEnumerator(Head(At(f.lines, f.off).m).c, expected).ord = 0

(* Is the marker only text after all? *)
NotAnItem(f, t) ==
    CASE t = "enumerator" ->
            ~IsEnumeratedListItem(f, ParseEnumerator(Head(At(f.lines, f.off).m).c, ""))
      [] t = "option_marker" -> ItemBlock(f, t).lines = <<>>
      [] OTHER -> FALSE

(* Body.bullet, enumerator, field_marker and option_marker: the first item. *)
FirstItem(t) ==
    /\ Sees({"Body"}, {t})
    /\ ~MalformedEnumerator(F, "") /\ ~NotAnItem(F, t)
    /\ LET b == ItemBlock(F, t)
           start == t = "enumerator" /\ ListOf(Line).last # 1
       IN  /\ NestedParse([F EXCEPT !.off = b.last], b.lines, b.off, NextNode + 1, FALSE,
                          [Then("first", b.finish) EXCEPT
                              !.state = Lists[t].state, !.node = NextNode,
                              !.list = ListOf(Line)])
           /\ tree' = tree \o <<Node(Lists[t].node, F.node, {}), Node(Lists[t].item, NextNode, {})>>
                           \o (IF start THEN <<Message("info", F.node, {})>> ELSE <<>>)
    /\ UNCHANGED <<doc, memo, error, dropped>>

TextAfterAll(t) ==
    /\ Sees({"Body"}, {t})
    /\ ~MalformedEnumerator(F, "") /\ NotAnItem(F, t)
    /\ Continue(Correct(F), <<>>)

(* BulletList.bullet, EnumeratedList.enumerator, FieldList.field_marker, OptionList.option_marker *)
NextItem(t) ==
    /\ Sees({Lists[t].state}, {t})
    /\ ~MalformedEnumerator(F, F.list.seq)
    /\ LET b == ItemBlock(F, t)
       IN  IF ~Belongs(F)
           THEN Continue(Ended(Moved(F, -1)), <<>>)
           ELSE IF t = "option_marker" /\ b.lines = <<>>
           THEN Continue(Correct(F), <<>>)
           ELSE /\ NestedParse([F EXCEPT !.off = b.last, !.finish = b.finish,
                                         !.list = Advanced(F)],
                               b.lines, b.off, NextNode, FALSE, Then("nothing", TRUE))
                /\ tree' = Append(tree, Node(Lists[t].item, F.node, {}))
                /\ UNCHANGED <<doc, memo, error, dropped>>

(* ParserError("Roman numeral error") is caught by nothing between here and the caller. *)
EnumeratorFails ==
    /\ Sees({"Body", "EnumeratedList"}, {"enumerator"})
    /\ MalformedEnumerator(F, IF F.state = "Body" THEN "" ELSE F.list.seq)
    /\ error' = "ParserError"
    /\ frames' = <<>>
    /\ UNCHANGED <<doc, tree, memo, cache, dropped>>

-----------------------------------------------------------------------------
(* Line blocks and doctest blocks. *)

LineBlockLine ==
    /\ Sees({"Body", "LineBlock"}, {"line_block"})
    /\ LET b == IndentedBlock(F.lines, F.off, F.base, "first", TRUE)
           f == [F EXCEPT !.off = b.last]
           of == NumbersOf(Slice(F.lines, F.off, b.last + 1))
           list == NextNode
       IN  IF F.state = "LineBlock"
           THEN Continue([f EXCEPT !.finish = b.finish], <<Node("line", F.node, of)>>)
           ELSE /\ tree' = tree \o <<Node("line_block", F.node, {}), Node("line", list, of)>>
                /\ IF b.finish THEN frames' = Append(Below, f)
                   ELSE StartList(f, "LineBlock", list, FALSE, Then("list", FALSE))
                /\ Same

Doctest ==
    /\ Sees({"Body"}, {"doctest"})
    /\ LET end == TextBlockEnd(F.lines, F.off, FALSE)
       IN  Continue([F EXCEPT !.off = end - 1],
                    <<Node("doctest_block", F.node, NumbersOf(Slice(F.lines, F.off, end)))>>)
-----------------------------------------------------------------------------
(* Explicit markup: footnotes, targets, comments, substitutions, directives. *)

(***************************************************************************)
(* After a construct: Body.explicit_list starts a machine for those that   *)
(* follow, in which Explicit only notes how this one finished; an embedded *)
(* directive ends the machine of its substitution definition.              *)
(***************************************************************************)
EndConstruct(f, finish, below) ==
    CASE f.state = "Explicit" -> Append(below, [f EXCEPT !.finish = finish])
      [] f.state = "SubstitutionDef" ->
            Append(below, Ended([f EXCEPT !.finish = IF HasLine(f, f.off + 1) THEN finish
                                                     ELSE @]))
      [] OTHER ->
            below \o <<f, Machine("Explicit", From(f.lines, f.off + 1), AbsOffset(f) + 1,
                                  f.node, f.titles, Then("list", finish))>>

Construct(f, finish, nodes) ==
    /\ frames' = EndConstruct(f, finish, Below)
    /\ tree' = tree \o nodes

SeesExplicit(cs) ==
    /\ Sees({"Body", "Explicit"}, {"explicit_markup"})
    /\ Head(Line.m).c \in cs

FirstKnown(f, untilBlank) == IndentedBlock(f.lines, f.off, f.base, "first", untilBlank)
NumbersTo(f, last) == NumbersOf(Slice(f.lines, f.off, last + 1))

(* Body.comment; the line is not always the one where the construct begins. *)
CommentAt(f, whole) ==
    LET b == FirstKnown(f, FALSE)
    IN  IF Lone(At(f.lines, f.off)) /\ ~whole /\ NextLineBlank(f)
        THEN [last |-> f.off, finish |-> TRUE, of |-> {At(f.lines, f.off).n}]
        ELSE [last |-> b.last, finish |-> b.finish, of |-> NumbersTo(f, b.last)]

Comment ==
    /\ SeesExplicit({"comment"})
    /\ LET c == CommentAt(F, FALSE)
       IN  Construct([F EXCEPT !.off = c.last], c.finish, <<Node("comment", F.node, c.of)>>)
    /\ Same

(* Body.footnote, Body.citation *)
FootnoteOrCitation ==
    /\ SeesExplicit({"footnote", "citation"})
    /\ LET b == FirstKnown(F, FALSE)
       IN  NestedParse([F EXCEPT !.off = b.last], b.lines, b.off, NextNode, FALSE,
                       Then("construct", b.finish))
    /\ tree' = Append(tree, Node(Head(Line.m).c, F.node, {}))
    /\ UNCHANGED <<doc, memo, error, dropped>>

(* Body.hyperlink_target, Body.anonymous_target *)
Target ==
    /\ SeesExplicit({"target"}) \/ Sees({"Body", "Explicit"}, {"anonymous"})
    /\ LET b == FirstKnown(F, TRUE)
       IN  Construct([F EXCEPT !.off = b.last], b.finish,
                     <<Node("target", F.node, NumbersTo(F, b.last))>>)
    /\ Same

(***************************************************************************)
(* MarkupError in a target or a substitution definition whose name does    *)
(* not end: what is left becomes a comment, from the line where the        *)
(* construct gave up, which is the last of its block and loses as many     *)
(* characters as the marker has; a line that loses a part counts as        *)
(* dropped, even when the comment keeps the rest of it.                    *)
(***************************************************************************)
Malformed ==
    /\ SeesExplicit({"malformed target", "malformed substitution"})
    /\ LET b == FirstKnown(F, Head(Line.m).c = "malformed target")
           c == CommentAt([F EXCEPT !.off = b.last], TRUE)
           of == IF b.last = F.off THEN c.of ELSE c.of \ {At(F.lines, b.last).n}
       IN  /\ Construct([F EXCEPT !.off = c.last], c.finish,
                        <<Node("comment", F.node, of), Message("warning", F.node, {})>>)
           /\ dropped' = dropped \cup (NumbersTo(F, b.last) \ of)
    /\ UNCHANGED <<doc, memo, cache, error>>

(* Body.unknown_directive *)
UnknownDirective ==
    /\ \/ SeesExplicit({"unknown directive"})
       \/ Sees({"SubstitutionDef"}, {"embedded_directive"}) /\ Head(Line.m).c \in NoDirective
    /\ LET b == GetIndented(F.lines, F.off, "first", FALSE)
       IN  Construct([F EXCEPT !.off = b.last], b.finish,
                     <<Message("error", F.node, NumbersTo(F, b.last))>>)
    /\ Same

(***************************************************************************)
(* Body.substitution_def: the block after the name is read by a machine of *)
(* its own, in SubstitutionDef.                                            *)
(***************************************************************************)
SubstitutionBlock(f) ==
    LET b == GetIndented(f.lines, f.off, "first", FALSE)
        first == Behind(At(f.lines, f.off))
        rest == Slice(f.lines, f.off + 1, b.last + 1)
        block == TrimEnd(IF Blank(first) THEN rest ELSE <<first>> \o rest)
    IN  [lines |-> IF block = <<>> THEN <<>> ELSE [block EXCEPT ![1].ind = 0],
         off |-> AbsOffset(f) + (IF Blank(first) THEN 1 ELSE 0),
         last |-> b.last, finish |-> b.finish]

SubstitutionDefinition ==
    /\ SeesExplicit({"substitution"})
    /\ LET b == SubstitutionBlock(F)
           f == [F EXCEPT !.off = b.last]
           of == NumbersTo(F, b.last)
       IN  IF b.lines = <<>>
           THEN Construct(f, b.finish, <<Message("warning", F.node, of)>>)
           ELSE /\ tree' = Append(tree, Node("substitution_definition", F.node, {}))
                /\ frames' = Below \o
                     <<f, Machine("SubstitutionDef", b.lines, b.off, NextNode, FALSE,
                                  [Then("substitution", b.finish) EXCEPT
                                      !.node = NextNode, !.of = of])>>
    /\ Same

(* SubstitutionDef.text *)
SubstitutionText ==
    /\ Sees({"SubstitutionDef"}, {"text"})
    /\ Continue(Ended([F EXCEPT !.finish = IF HasLine(F, F.off + 1) THEN NextLineBlank(F)
                                           ELSE @]), <<>>)

-----------------------------------------------------------------------------
(* Directives. *)

(***************************************************************************)
(* Body.parse_directive_block and parse_directive_options: the block up to *)
(* the first blank line is arguments and, from the first field on,         *)
(* options; the rest is content.  Without arguments to take, what came     *)
(* before the options is content as well, and its offset that of the block.*)
(***************************************************************************)
Divided(args, options, content, from) ==
    [args |-> args, options |-> options, content |-> TrimStart(content),
     off |-> from + Len(content) - Len(TrimStart(content))]

(* The first field of the arguments, and the first blank line. *)
OptionsAt(d, args) ==
    IF d.options = {} THEN Len(args)
    ELSE FirstFrom(args, 0, LAMBDA k : /\ At(args, k).ind = 0
                                       /\ Head(At(args, k).m).t = "field_marker")
BlankAt(lines) == FirstFrom(lines, 0, LAMBDA k : Blank(At(lines, k)))

DividedAt(d, indented, start, i, options) ==
    IF d.args = "none" /\ options > 0
    THEN Divided(<<>>, Slice(indented, options, i),
                 Slice(indented, 0, options) \o From(indented, i), start)
    ELSE Divided(Slice(indented, 0, options), Slice(indented, options, i),
                 From(indented, i + 1), start + i + 1)

DividedFrom(d, indented, start) ==
    IF indented = <<>> \/ (d.args = "none" /\ d.options = {})
    THEN Divided(<<>>, <<>>, indented, start)
    ELSE DividedAt(d, indented, start, BlankAt(indented),
                   OptionsAt(d, Slice(indented, 0, BlankAt(indented))))

DirectiveBlock(d, block, offset) ==
    LET first == IF block # <<>> /\ Blank(block[1]) THEN 1 ELSE 0
    IN  DividedFrom(d, TrimEnd(From(block, first)), offset + first)

(* Body.parse_extension_options, with ExtensionOptions: fields the directive has. *)
BadOptions(d, options) ==
    \E i \in DOMAIN options :
        /\ options[i].ind = 0
        /\ \/ Head(options[i].m).t # "field_marker"
           \/ Head(options[i].m).c \notin d.options

(* MarkupError in parse_directive_block or _arguments *)
Refused(d, b) ==
    \/ BadOptions(d, b.options)
    \/ (d.args = "required" /\ b.args = <<>>)
    \/ (b.content # <<>> /\ ~d.content)

SeesDirective ==
    \/ SeesExplicit(DOMAIN Directives)
    \/ Sees({"SubstitutionDef"}, {"embedded_directive"}) /\ Head(Line.m).c \notin NoDirective

Here     == GetIndented(F.lines, F.off, "first", FALSE)
Parsed   == DirectiveBlock(Directives[Head(Line.m).c], Here.lines, AbsOffset(F))
AtEnd    == [F EXCEPT !.off = Here.last]
Handler  == Directives[Head(Line.m).c].run
Accepted == ~Refused(Directives[Head(Line.m).c], Parsed)

(* The directive's result: state of the machine and blank_finish (Body.run_directive). *)
Finishes(f, finish) == finish \/ NextLineBlank(f)

RefuseDirective ==
    /\ SeesDirective
    /\ \/ ~Accepted
       \/ /\ Accepted /\ Handler = "replace"
          /\ F.state # "SubstitutionDef" \/ Parsed.content = <<>>
    /\ Construct(AtEnd, IF Accepted THEN Finishes(AtEnd, Here.finish) ELSE Here.finish,
                 <<Message("error", F.node, NumbersTo(F, Here.last))>>)
    /\ Same

(* rstparser.BaseCodeDirective: the content is the value of the node. *)
CodeDirective ==
    /\ SeesDirective /\ Accepted /\ Handler = "code"
    /\ Construct(AtEnd, Finishes(AtEnd, Here.finish),
                 <<Node("code", F.node, NumbersOf(Parsed.args) \cup NumbersOf(Parsed.options)
                                        \cup NumbersOf(Parsed.content))>>)
    /\ Same

(***************************************************************************)
(* BaseDocutilsDirective.parse_argument: an argument of several lines is   *)
(* parsed as content, unless there are options or the directive is         *)
(* embedded in a substitution; then only its first line is the argument.   *)
(* One that begins with a colon is taken for an option, and is no argument.*)
(***************************************************************************)
BeginsWithColon == /\ Parsed.args # <<>>
                   /\ \/ Head(Parsed.args[1].m).t = "field_marker"
                      \/ IsColons(Parsed.args[1])

ArgumentIsContent == /\ Len(Parsed.args) > 1
                     /\ ~BeginsWithColon
                     /\ Parsed.options = <<>>
                     /\ F.state # "SubstitutionDef"

DirectiveNode(of) == Node("directive", F.node, of)

Content(level) == [Then("directive", Here.finish) EXCEPT !.level = level]

BlockDirective ==
    /\ SeesDirective /\ Accepted /\ Handler = "block" /\ ~ArgumentIsContent
    /\ LET kept == IF BeginsWithColon THEN <<>> ELSE Slice(Parsed.args, 0, 1)
       IN  /\ NestedParse(AtEnd, Parsed.content, Parsed.off, NextNode, TRUE, Content(1))
           /\ tree' = Append(tree, DirectiveNode(NumbersOf(kept) \cup NumbersOf(Parsed.options)))
           /\ dropped' = dropped \cup (NumbersOf(Parsed.args) \ NumbersOf(kept))
    /\ memo' = [memo EXCEPT !.minimum = Append(@, memo.level)]
    /\ UNCHANGED <<doc, error>>

(* The nested parse of the argument comes first, and numbers its lines from 1. *)
BlockArgument ==
    /\ SeesDirective /\ Accepted /\ Handler = "block" /\ ArgumentIsContent
    /\ NestedParse(AtEnd, [Parsed.args EXCEPT ![1].ind = 0], AbsOffset(F) + 1, NextNode, TRUE,
                   [Then("argument", Here.finish) EXCEPT
                       !.next = <<Parsed.content>>, !.level = Parsed.off, !.node = NextNode])
    /\ tree' = Append(tree, DirectiveNode({}))
    /\ UNCHANGED <<doc, memo, error, dropped>>

(* rstparser.BaseVersionDirective: sections in it have no lowest level. *)
VersionDirective ==
    /\ SeesDirective /\ Accepted /\ Handler = "version"
    /\ NestedParse(AtEnd, Parsed.content, Parsed.off, NextNode, TRUE, Content(0))
    /\ tree' = Append(tree, DirectiveNode(NumbersOf(Parsed.args) \cup NumbersOf(Parsed.options)))
    /\ UNCHANGED <<doc, memo, error, dropped>>

(* directives.Replace *)
ReplaceDirective ==
    /\ SeesDirective /\ Accepted /\ Handler = "replace"
    /\ F.state = "SubstitutionDef" /\ Parsed.content # <<>>
    /\ NestedParse(AtEnd, Parsed.content, Parsed.off, NextNode, FALSE,
                   [Then("replace", Here.finish) EXCEPT
                       !.node = NextNode, !.of = NumbersTo(F, Here.last)])
    /\ tree' = Append(tree, Node("element", F.node, {}))
    /\ UNCHANGED <<doc, memo, error, dropped>>
-----------------------------------------------------------------------------
(* Sections (RSTState.section, check_subsection, new_subsection). *)

IndexOf(styles, style) ==
    IF style \in {styles[i] : i \in DOMAIN styles}
    THEN CHOOSE i \in DOMAIN styles : styles[i] = style ELSE 0

BackToBody(f) == [f EXCEPT !.state = "Body", !.ctx = <<>>]

(***************************************************************************)
(* A title of a style unknown so far, or of the next level, begins a       *)
(* subsection: a machine over the rest of the lines.  One of this level or *)
(* a higher one ends this machine before the title, and the memo has its   *)
(* level until the machine that it belongs to is reached.  f has read the  *)
(* title, whose lines are "of".                                            *)
(***************************************************************************)
Section(f, style, of, messages) ==
    LET level == IndexOf(memo.styles, style)
        new   == level = 0 /\ Len(memo.styles) = memo.level
        rises == level # 0 /\ level <= memo.level
    IN  CASE new \/ level = memo.level + 1 ->
                /\ NestedParse(f, From(f.lines, f.off + 1), AbsOffset(f) + 1, NextNode, TRUE,
                               [Then("section", TRUE) EXCEPT !.level = memo.level])
                /\ tree' = tree \o <<Node("section", f.node, {}), Node("title", NextNode, of)>>
                                \o messages
                /\ memo' = [memo EXCEPT !.level = @ + 1,
                                        !.styles = IF new THEN Append(@, style) ELSE @]
                /\ UNCHANGED <<doc, error, dropped>>
          [] rises ->
                /\ Goes(Ended(Moved(f, IF style.over THEN -3 ELSE -2)),
                        IF level <= Last(memo.minimum)
                        THEN <<Message("error", f.node, {})>> ELSE <<>>)
                /\ memo' = [memo EXCEPT !.level = level, !.bubble = @ \/ style.over]
                /\ UNCHANGED <<doc, cache, error, dropped>>
          [] OTHER ->   (* "Title level inconsistent" *)
                Continue([BackToBody(f) EXCEPT !.eofcheck = TRUE],
                         <<Message("severe", f.node, of)>>)

-----------------------------------------------------------------------------
(* The second line of a block of text. *)

(* Body.text and DefinitionList.text *)
BodyText ==
    /\ Sees({"Body", "DefinitionList"}, {"text"})
    /\ Continue([F EXCEPT !.ctx = <<Line>>,
                          !.state = IF F.state = "Body" THEN "Text" ELSE "Definition"], <<>>)

LiteralNext(lines) ==
    LET m == Last(lines).m
    IN  /\ m # <<>>
        /\ \/ Last(m).c \in NoDirective \cup DOMAIN Directives
           \/ IsColons(Last(lines))

(* RSTState.paragraph and, after "::", Text.literal_block at the machine's line. *)
Paragraph(lines, up) ==
    IF Len(lines) = 1 /\ IsColons(lines[1]) THEN <<>>
    ELSE <<Node("paragraph", up, NumbersOf(lines))>>

Literal(f, lines) ==
    LET b == IndentedBlock(f.lines, f.off, f.base, "unknown", FALSE)
        colons == IF Len(lines) = 1 /\ IsColons(lines[1]) THEN {lines[1].n} ELSE {}
    IN  [f |-> IF LiteralNext(lines) THEN [f EXCEPT !.off = b.last] ELSE f,
         nodes |-> IF ~LiteralNext(lines) THEN <<>>
                   ELSE <<Node("literal_block", f.node, colons \cup NumbersOf(b.lines))>>
                        \o (IF b.finish THEN <<>> ELSE <<Message("warning", f.node, {})>>)]

(* Text.blank *)
TextBlank ==
    /\ Sees({"Text"}, {"blank"})
    /\ LET l == Literal(F, F.ctx)
       IN  Continue(BackToBody(l.f), Paragraph(F.ctx, F.node) \o l.nodes)

(* Text.text *)
TextText ==
    /\ Sees({"Text"}, {"text"})
    /\ LET end == TextBlockEnd(F.lines, F.off, TRUE)
           lines == F.ctx \o Slice(F.lines, F.off, end)
           f == [F EXCEPT !.off = IF LiteralNext(lines) THEN end ELSE end - 1]
           l == Literal(f, lines)
       IN  Continue(BackToBody(l.f),
                    Paragraph(lines, F.node)
                    \o (IF UnexpectedIndentation(F.lines, F.off)
                        THEN <<Message("error", F.node, {})>> ELSE <<>>)
                    \o l.nodes)

(* Text.definition_list_item: item n, in list "up". *)
DefinitionItem(up, n) ==
    <<Node("definition_list_item", up, {}), Node("term", n, NumbersOf(F.ctx))>>
    \o (IF LiteralNext(F.ctx) THEN <<Message("info", n, {})>> ELSE <<>>)

DefinitionBlock == IndentedBlock(F.lines, F.off, F.base, "unknown", FALSE)

(* Text.indent: the first item of a definition list. *)
TextIndent ==
    /\ Sees({"Text"}, {"indent"})
    /\ NestedParse([BackToBody(F) EXCEPT !.off = DefinitionBlock.last],
                   DefinitionBlock.lines, DefinitionBlock.off, NextNode + 1, FALSE,
                   [Then("first", DefinitionBlock.finish) EXCEPT
                       !.state = "DefinitionList", !.node = NextNode])
    /\ tree' = tree \o <<Node("definition_list", F.node, {})>>
                    \o DefinitionItem(NextNode, NextNode + 1)
    /\ UNCHANGED <<doc, memo, error, dropped>>

(* Definition.indent: another item. *)
DefinitionIndent ==
    /\ Sees({"Definition"}, {"indent"})
    /\ NestedParse([F EXCEPT !.off = DefinitionBlock.last, !.state = "DefinitionList",
                             !.ctx = <<>>, !.finish = DefinitionBlock.finish],
                   DefinitionBlock.lines, DefinitionBlock.off, NextNode, FALSE,
                   Then("nothing", TRUE))
    /\ tree' = tree \o DefinitionItem(F.node, NextNode)
    /\ UNCHANGED <<doc, memo, error, dropped>>

(* SpecializedText.invalid_input: no definition after all. *)
NoDefinition ==
    /\ Sees({"Definition"}, {"blank", "underline", "text"})
    /\ Continue(Ended(F), <<>>)

RuleOf(line) == line.m[1]

(* Text.underline *)
Underline ==
    /\ Sees({"Text"}, {"underline"})
    /\ LET rule == RuleOf(Line)
           short == Width(F.ctx[1]) > rule.u
           of == NumbersOf(<<F.ctx[1], Line>>)
           warned(up) == IF short THEN <<Message("warning", up, of)>> ELSE <<>>
       IN  IF short /\ rule.u < 4
           THEN Continue(Correct(F), IF F.titles THEN <<Message("info", F.node, {})>> ELSE <<>>)
           ELSE IF ~F.titles
           THEN Continue(BackToBody(F), Append(warned(F.node), Message("severe", F.node, of)))
           ELSE Section([F EXCEPT !.ctx = <<>>], [c |-> rule.c, over |-> FALSE], of,
                        warned(NextNode))

-----------------------------------------------------------------------------
(* Rules: transitions and overlines. *)

(* Body.line *)
BodyLine ==
    /\ Sees({"Body"}, {"line"})
    /\ CASE F.titles -> Continue([F EXCEPT !.ctx = <<Line>>, !.state = "Line"], <<>>)
         [] ~F.titles /\ IsColons(Line) -> Continue(Correct(F), <<>>)
         [] ~F.titles /\ ~IsColons(Line) /\ RuleOf(Line).u < 4 ->
                Continue(Correct(F), <<Message("info", F.node, {})>>)
         [] OTHER -> Continue(F, <<Message("severe", F.node, {Line.n})>>)

IsShort(f) == RuleOf(f.ctx[1]).u < 4

(* Line.state_correction and the StateCorrection to Body: the overline is text. *)
AsText(f, lines) == [Moved(f, -lines - 1) EXCEPT !.state = "Body", !.ctx = <<>>, !.only = "text"]

(* Line.blank *)
LineBlank ==
    /\ Sees({"Line"}, {"blank"})
    /\ IF IsShort(F) THEN Continue(AsText(F, 1), <<>>)
       ELSE Continue(BackToBody(F), <<Node("transition", F.node, NumbersOf(F.ctx))>>)

(* Line.text and Line.indent: overline, title, underline. *)
LineText ==
    /\ Sees({"Line"}, {"text", "indent"})
    /\ LET f == Moved(F, 1)
           over == RuleOf(F.ctx[1])
           of == NumbersOf(F.ctx \o Slice(F.lines, F.off, F.off + 2))
           matches == /\ HasLine(f, f.off)
                      /\ IsRule(At(f.lines, f.off))
                      /\ RuleOf(At(f.lines, f.off)).c = over.c
                      /\ RuleOf(At(f.lines, f.off)).u = over.u
           wide == Width(Line) > over.u
           warned == IF wide THEN <<Message("warning", NextNode, of)>> ELSE <<>>
       IN  IF IsShort(f) /\ (wide \/ ~matches)
           THEN Continue(AsText(f, 2), <<Message("info", F.node, {})>>)
           ELSE IF ~matches
           THEN Continue(BackToBody(f), <<Message("severe", F.node, of)>>)
           ELSE Section([f EXCEPT !.eofcheck = FALSE], [c |-> over.c, over |-> TRUE], of, warned)

(* Line.underline *)
LineUnderline ==
    /\ Sees({"Line"}, {"underline"})
    /\ IF IsShort(F) THEN Continue(AsText(F, 1), <<Message("info", F.node, {})>>)
       ELSE Continue(BackToBody(F),
                     <<Message("error", F.node, NumbersOf(F.ctx \o <<Line>>))>>)

-----------------------------------------------------------------------------
(* The end of a machine's input, and of the machine. *)

(* StateMachine.next_line raises EOFError. *)
EndOfInput ==
    /\ frames # <<>> /\ Top.phase = "run" /\ ~HasLine(F, F.off)
    /\ Continue(Ended(F), <<>>)

InEof(state) == frames # <<>> /\ Top.phase = "eof" /\ Top.state = state

Over(f) == [f EXCEPT !.phase = "over"]

(* Text.eof *)
TextEof ==
    /\ InEof("Text")
    /\ IF Top.ctx = <<>> THEN Continue(Over(Top), <<>>)
       ELSE LET l == Literal(Top, Top.ctx)
            IN  Continue(Over(l.f), Paragraph(Top.ctx, Top.node) \o l.nodes)

(* A change of Definition.eof: one line back only. *)
DefinitionEofTooLate == InEof("Definition") /\ Continue(Over(Moved(Top, -1)), <<>>)

(* Definition.eof *)
DefinitionEof == InEof("Definition") /\ Continue(Over(Moved(Top, -2)), <<>>)

(* Line.eof: a transition, text, or the end before the title of another section. *)
LineEof ==
    /\ InEof("Line")
    /\ IF ~memo.bubble /\ IsShort(Top)
       THEN Goes([AsText(Top, 1) EXCEPT !.phase = "run"], <<>>)
       ELSE Goes([Over(Top) EXCEPT !.eofcheck = TRUE],
                 IF Top.eofcheck THEN <<Node("transition", Top.node, NumbersOf(Top.ctx))>>
                 ELSE <<>>)
    /\ memo' = [memo EXCEPT !.bubble = FALSE]
    /\ UNCHANGED <<doc, cache, error, dropped>>

(***************************************************************************)
(* What the caller does when the machine it started has ended.             *)
(***************************************************************************)
Caller    == frames[Len(frames) - 1]
Others    == SubSeq(frames, 1, Len(frames) - 2)
Returns(k) == /\ frames # <<>> /\ Top.phase = "over" /\ Top.then.k = k
              /\ UNCHANGED doc
Release == cache' = Append(cache, Top.eofcheck)
Unread  == NumbersOf(From(Top.lines, Top.off + 1))

(* A change of goto_line: it takes the line as the machine that stopped counts it. *)
GoToRelative(f) == [f EXCEPT !.off = Top.off - f.base]

(* RSTState.goto_line(abs), where the machine stopped; past the end is ignored. *)
GoTo(f) == [f EXCEPT !.off = AbsOffset(Top) - f.base]

(* After a nested parse nothing looks at the lines it has not read. *)
Finished ==
    /\ Release
    /\ dropped' = dropped \cup Unread

ReturnNothing ==
    /\ Returns("nothing")
    /\ frames' = Below
    /\ Finished
    /\ UNCHANGED <<tree, memo, error>>

(* The list goes on after its first item. *)
ReturnFirst ==
    /\ Returns("first")
    /\ LET t == Top.then
       IN  frames' = Others \o <<Caller, Machine(t.state, From(Caller.lines, Caller.off + 1),
                                                AbsOffset(Caller) + 1, t.node, FALSE,
                                                [Then("list", t.finish) EXCEPT !.list = t.list])>>
    /\ Finished
    /\ UNCHANGED <<tree, memo, error>>

(***************************************************************************)
(* RSTState.unindent_warning is about the line below, which the reporter   *)
(* looks up in the document: it may be the one just past the end, but when *)
(* the machine that ended had no lines the caller is there already, and    *)
(* StringList.info raises IndexError.                                      *)
(***************************************************************************)
BeyondTheEnd == /\ ~Top.finish /\ Top.state # "LineBlock"
                /\ AbsOffset(GoTo(Caller)) + 1 > Len(doc)

ReturnList ==
    /\ Returns("list") /\ ~BeyondTheEnd
    /\ frames' = Append(Others, GoTo(Caller))
    /\ tree' = IF Top.finish THEN tree ELSE Append(tree, Message("warning", Caller.node, {}))
    /\ UNCHANGED <<memo, cache, error, dropped>>

ListFails ==
    /\ Returns("list") /\ BeyondTheEnd
    /\ error' = "IndexError"
    /\ frames' = <<>>
    /\ UNCHANGED <<tree, memo, cache, dropped>>

(* A change of new_subsection: the level is not restored after a subsection. *)
ReturnSectionKeepsLevel ==
    /\ Returns("section")
    /\ IF memo.level <= Top.then.level
       THEN frames' = Append(Others, Ended(GoTo(Caller)))
       ELSE frames' = Append(Others, [BackToBody(GoTo(Caller)) EXCEPT !.eofcheck = TRUE])
    /\ Release
    /\ UNCHANGED <<tree, memo, error, dropped>>

(* new_subsection: the next title may belong to a section above this one, too. *)
ReturnSection ==
    /\ Returns("section")
    /\ IF memo.level <= Top.then.level
       THEN frames' = Append(Others, Ended(GoTo(Caller))) /\ UNCHANGED memo
       ELSE /\ frames' = Append(Others, [BackToBody(GoTo(Caller)) EXCEPT !.eofcheck = TRUE])
            /\ memo' = [memo EXCEPT !.level = Top.then.level]
    /\ Release
    /\ UNCHANGED <<tree, error, dropped>>

ReturnConstruct ==
    /\ Returns("construct")
    /\ frames' = EndConstruct(Caller, Top.then.finish, Others)
    /\ Finished
    /\ UNCHANGED <<tree, memo, error>>

(* A change of nested_parse: the lowest section level is not popped. *)
ReturnDirectiveKeepsMinimum ==
    /\ Returns("directive")
    /\ frames' = EndConstruct(Caller, Finishes(Caller, Top.then.finish), Others)
    /\ Finished
    /\ UNCHANGED <<tree, memo, error>>

ReturnDirective ==
    /\ Returns("directive")
    /\ frames' = EndConstruct(Caller, Finishes(Caller, Top.then.finish), Others)
    /\ memo' = IF Top.then.level = 1 THEN [memo EXCEPT !.minimum = Front(@)] ELSE memo
    /\ Finished
    /\ UNCHANGED <<tree, error>>

(* BaseDocutilsDirective.run after parse_argument: the content. *)
ReturnArgument ==
    /\ Returns("argument")
    /\ LET content == Machine("Body", Top.then.next[1], Top.then.level, Top.then.node, TRUE,
                              [Then("directive", Top.then.finish) EXCEPT !.level = 1])
       IN  frames' = Others \o <<Caller, [content EXCEPT !.eofcheck = Top.eofcheck]>>
    /\ memo' = [memo EXCEPT !.minimum = Append(@, memo.level)]
    /\ dropped' = dropped \cup Unread
    /\ UNCHANGED <<tree, cache, error>>

IsMessage(node) == node.kind \in Levels
Children(up)    == {i \in DOMAIN tree : tree[i].up = up /\ ~IsMessage(tree[i])}

(* The nodes inside a node: the least set with its children and their children. *)
Within(up) ==
    {i \in DOMAIN tree : \A S \in SUBSET DOMAIN tree :
        (\A j \in DOMAIN tree : tree[j].up \in S \cup {up} => j \in S) => i \in S}

(* directives.Replace.run: a single paragraph gives its text, anything else is an error. *)
ReturnReplace ==
    /\ Returns("replace")
    /\ LET e == Top.then.node
           single == Children(e) = {} \/ \E i \in Children(e) :
                         Children(e) = {i} /\ tree[i].kind = "paragraph"
       IN  /\ tree' = [i \in DOMAIN tree |->
                         IF i = e THEN IF single THEN Node("gone", 0, {})
                                       ELSE Message("error", Caller.node, Top.then.of)
                         ELSE IF i \notin Within(e) THEN tree[i]
                         ELSE IF ~single THEN Node("gone", 0, {})
                         ELSE IF IsMessage(tree[i]) THEN [tree[i] EXCEPT !.up = Caller.node]
                         ELSE [tree[i] EXCEPT !.up = Caller.node, !.kind = "inline"]]
           /\ frames' = EndConstruct(Caller, Finishes(Caller, Top.then.finish), Others)
    /\ Finished
    /\ UNCHANGED <<memo, error>>

(* The end of Body.substitution_def: what is not inline moves out of the definition. *)
ReturnSubstitution ==
    /\ Returns("substitution")
    /\ LET s == Top.then.node
           empty == \A i \in DOMAIN tree : tree[i].up = s => tree[i].kind # "inline"
       IN  tree' = [i \in DOMAIN tree |->
                      IF i = s /\ empty THEN Message("warning", Caller.node, Top.then.of)
                      ELSE IF tree[i].up = s /\ tree[i].kind # "inline"
                           THEN [tree[i] EXCEPT !.up = Caller.node]
                      ELSE tree[i]]
    /\ frames' = EndConstruct(Caller, Top.finish, Others)
    /\ UNCHANGED <<memo, cache, error, dropped>>

ReturnRoot ==
    /\ Returns("root")
    /\ frames' = <<>>
    /\ UNCHANGED <<tree, memo, cache, error, dropped>>

(***************************************************************************)
(* A section has ended before a title further out, so that Line.eof of the *)
(* machine around it runs where the section stopped.  If the section's     *)
(* overline was short, it is taken for text once more, two lines back: the *)
(* last lines of the section are read again (Line.state_correction).  At   *)
(* the end of the input the line two back may be a text as well: a title   *)
(* in a directive has lowered the level, and no line is behind the section.*)
(***************************************************************************)
RereadsSection ==
    /\ InEof("Line") /\ ~memo.bubble /\ IsShort(Top)
    /\ HasLine(Top, Top.off) \/ Last(Top.lines) # Top.ctx[1]

Done == doc # <<>> /\ frames = <<>> /\ UNCHANGED vars
-----------------------------------------------------------------------------
Step ==
    \/ Parse \/ BodyBlank \/ BlockQuote \/ InvalidInput
    \/ \E t \in DOMAIN Lists : FirstItem(t) \/ TextAfterAll(t) \/ NextItem(t)
    \/ EnumeratorFails \/ LineBlockLine \/ Doctest
    \/ Comment \/ FootnoteOrCitation \/ Target \/ Malformed \/ UnknownDirective
    \/ SubstitutionDefinition \/ SubstitutionText
    \/ RefuseDirective \/ CodeDirective \/ BlockDirective \/ BlockArgument
    \/ VersionDirective \/ ReplaceDirective
    \/ BodyText \/ TextBlank \/ TextText \/ TextIndent \/ DefinitionIndent \/ NoDefinition
    \/ Underline \/ BodyLine \/ LineBlank \/ LineText \/ LineUnderline
    \/ EndOfInput \/ TextEof \/ DefinitionEof \/ LineEof
    \/ ReturnNothing \/ ReturnFirst \/ ReturnList \/ ListFails \/ ReturnSection
    \/ ReturnConstruct \/ ReturnDirective \/ ReturnArgument \/ ReturnReplace
    \/ ReturnSubstitution \/ ReturnRoot

Next ==
    \/ Step /\ steps' = steps + 1 /\ reread' = (reread \/ RereadsSection)
    \/ Done

Spec == Init /\ [][Next]_vars
-----------------------------------------------------------------------------
Depth == Cardinality({i \in DOMAIN frames : frames[i].then.k = "section"})

(* The machines, the nodes and what the machines share have their types. *)
TypeOK ==
    /\ \A i \in DOMAIN frames :
          /\ frames[i].state \in States
          /\ frames[i].phase \in {"run", "eof", "over"}
          /\ frames[i].off >= -1
          /\ frames[i].node \in 0 .. Len(tree)
          /\ frames[i].state \in TextStates => Len(frames[i].ctx) <= 1
    /\ \A i \in DOMAIN tree : tree[i].up \in 0 .. i - 1 /\ tree[i].of \subseteq DOMAIN doc
    /\ memo.level \in 0 .. Len(memo.styles)
    /\ memo.bubble \in BOOLEAN
    /\ cache \in Seq(BOOLEAN)
    /\ error \in {NoError, "ParserError", "IndexError"}
    /\ dropped \subseteq DOMAIN doc

Parsing  == frames # <<>>
Complete == doc # <<>> /\ frames = <<>> /\ error = NoError

TextLines == {n \in DOMAIN doc : ~Blank(doc[n]) /\ Last(doc[n].m).t = "text"}
Holders(n) == {i \in DOMAIN tree : n \in tree[i].of}
Contents(n) == {i \in Holders(n) : ~IsMessage(tree[i])}

(***************************************************************************)
(* When a document has been parsed, every line of text in it is content of *)
(* exactly one node, or is quoted by a message, or no machine has read it: *)
(* the jumps between machines, the steps back of a correction and the end  *)
(* of a section by a title further out neither repeat nor skip a line      *)
(* (goto_line, previous_line, check_subsection).  Only behind a section    *)
(* that is read again is a line repeated, and none is skipped even then.   *)
(***************************************************************************)
EachLineOnce ==
    Complete => \A n \in TextLines : /\ reread \/ Cardinality(Contents(n)) <= 1
                                     /\ Holders(n) = {} => n \in dropped

(***************************************************************************)
(* While no text has been lost or read again, the section level of the     *)
(* memo is the number of sections that are open around the machine that    *)
(* reads, whichever way the machines ended before (new_subsection restores *)
(* the level, a title further out unwinds to its own).                     *)
(***************************************************************************)
LevelIsDepth ==
    Parsing /\ Top.phase = "run" /\ dropped = {} /\ ~reread => memo.level = Depth

(***************************************************************************)
(* The content of a directive that takes no argument, but was given one:   *)
(* it is put back in front of the content, and the lines of the options    *)
(* that were between are missing (Body.parse_directive_block).             *)
(***************************************************************************)
OptionsCut(f) ==
    /\ f.then.k = "directive"
    /\ \E gap \in 2 .. Len(f.lines) :
          /\ Blank(f.lines[gap])
          /\ f.lines[gap].n > f.base + gap
          /\ InStep(SubSeq(f.lines, 1, gap - 1), f.base)

(***************************************************************************)
(* A machine numbers the lines it reads as the file does, or its messages  *)
(* and nodes point at other lines.  There are two exceptions, and what is  *)
(* nested in them: the lines of an argument that is parsed as content are  *)
(* counted from the line after the directive, and those behind the options *)
(* of a directive without argument as if the options were not there.       *)
(***************************************************************************)
OffsetsInStep ==
    \A i \in DOMAIN frames :
        (\A j \in 1 .. i : frames[j].then.k # "argument" /\ ~OptionsCut(frames[j])) =>
            InStep(frames[i].lines, frames[i].base)

(***************************************************************************)
(* A parse leaves nothing behind in the memo: every lowest level a         *)
(* directive pushed is popped again, and an overlined title that ended its *)
(* section has been seen to by the machine it belongs to.                  *)
(***************************************************************************)
MemoRestored == Complete => memo.minimum = <<0>> /\ ~memo.bubble

(***************************************************************************)
(* The steps back and the second looks (previous_line, TransitionCorrec-   *)
(* tion, StateCorrection, the machines over the same lines) come to an end *)
(* soon: a parse takes at most StepsPerLine steps for each line.           *)
(***************************************************************************)
EndsSoon == steps <= StepsPerLine * (Len(doc) + 1)

(***************************************************************************)
(* "An argument spans from the 0th line to the first non-option line"      *)
(* (BaseDocutilsDirective.parse_argument): text does not vanish without    *)
(* any message.                                                            *)
(***************************************************************************)
NothingLostSilently == Complete /\ dropped # {} => \E i \in DOMAIN tree : IsMessage(tree[i])
=============================================================================
