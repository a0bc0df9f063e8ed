------------------------------ MODULE RstLines ------------------------------
(***************************************************************************)
(* The lines the reStructuredText parser reads (tinydocutils/              *)
(* statemachine.py, StringList) and what their first characters say        *)
(* (tinydocutils/states.py, the patterns of Body and Text).                *)
(*                                                                         *)
(* A line is what its text tells the parser: where it is in the file, how  *)
(* far it is indented, and the marks it is made of.  Every mark but the    *)
(* last is a marker (a bullet, "..", a field name) with text after it; no  *)
(* mark at all is a blank line.  Offsets count from 0, as in the code.     *)
(***************************************************************************)
EXTENDS Integers, SequencesExt, FiniteSetsExt

(***************************************************************************)
(* A mark has the name t of the transition that matches it, a name c, the  *)
(* width w it takes with the blank that follows it, and the length u it    *)
(* has as a rule when the line is nothing but punctuation (0: it is not).  *)
(***************************************************************************)
Transitions == {"bullet", "enumerator", "field_marker", "option_marker", "doctest",
                "line_block", "explicit_markup", "anonymous", "line", "text"}

MarkType == [t : Transitions, c : STRING, w : Nat, u : Nat]
LineType == [n : Nat, ind : Nat, m : Seq(MarkType)]

Blank(line) == line.m = <<>>
Lone(line)  == Len(line.m) = 1
Width(line) == line.ind + FoldLeft(LAMBDA sum, mark : sum + mark.w, 0, line.m)

(* Body.LINE_PAT: one punctuation character, repeated to the end. *)
IsRule(line) == line.ind = 0 /\ Lone(line) /\ line.m[1].u > 0

(* The line at an offset, and the lines from one offset up to another. *)
At(lines, i)          == lines[i + 1]
Slice(lines, i, j)    == SubSeq(lines, i + 1, IF j > Len(lines) THEN Len(lines) ELSE j)
From(lines, i)        == Slice(lines, i, Len(lines))
NumbersOf(lines)      == {lines[i].n : i \in {k \in DOMAIN lines : ~Blank(lines[k])}}

(* Are the lines numbered as in the file, when base lines are before them? *)
InStep(lines, base)   == \A k \in DOMAIN lines : lines[k].n = base + k

(* The first offset from i on that satisfies P, or the number of lines. *)
FirstFrom(lines, i, P(_)) ==
    Min({k \in i .. Len(lines) - 1 : P(k)} \cup {Len(lines)})

(* What follows the first marker of a line. *)
Behind(line) == IF Blank(line) THEN line ELSE [line EXCEPT !.ind = 0, !.m = Tail(@)]

Dedent(line, by) == [line EXCEPT !.ind = IF @ > by THEN @ - by ELSE 0]

TrimStart(lines) ==
    From(lines, FirstFrom(lines, 0, LAMBDA k : ~Blank(At(lines, k))))
TrimEnd(lines) == Reverse(TrimStart(Reverse(lines)))

(***************************************************************************)
(* StringList.get_text_block: up to a blank line or, if flush_left, up to  *)
(* an indented one, which is UnexpectedIndentationError.                   *)
(***************************************************************************)
TextBlockEnd(lines, start, flush) ==
    FirstFrom(lines, start, LAMBDA k : \/ Blank(At(lines, k))
                                       \/ (flush /\ At(lines, k).ind > 0))

UnexpectedIndentation(lines, start) ==
    LET end == TextBlockEnd(lines, start, TRUE)
    IN  end < Len(lines) /\ ~Blank(At(lines, end))

(* Does a line that is not blank end a block whose marker has a known width? *)
Outside(line, known) == ~Blank(line) /\ (line.ind = 0 \/ line.ind < known)

(* The least indentation of some lines. *)
Indentation(lines) ==
    LET indents == {lines[i].ind : i \in {k \in DOMAIN lines : ~Blank(lines[k])}}
    IN  IF indents = {} THEN 0 ELSE Min(indents)

DedentAll(lines, by) == [i \in DOMAIN lines |-> Dedent(lines[i], by)]

(***************************************************************************)
(* StringList.get_indented.  "unknown" takes the indentation of no line as *)
(* known, "first" that of the first line (a marker is stripped from it),   *)
(* "known" that of all lines: the width of the marker.                     *)
(***************************************************************************)
IndentedEnd(lines, start, mode, known, untilBlank) ==
    FirstFrom(lines, IF mode = "unknown" THEN start ELSE start + 1,
              LAMBDA k : \/ Outside(At(lines, k), known)
                         \/ (untilBlank /\ Blank(At(lines, k))))

IndentedTo(lines, start, mode, known, end) ==
    [lines  |-> IF mode = "known"
                THEN <<Behind(At(lines, start))>> \o DedentAll(Slice(lines, start + 1, end), known)
                ELSE IF mode = "first"
                THEN <<Behind(At(lines, start))>>
                     \o DedentAll(Slice(lines, start + 1, end),
                                  Indentation(Slice(lines, start + 1, end)))
                ELSE DedentAll(Slice(lines, start, end), Indentation(Slice(lines, start, end))),
     last   |-> IF end > start THEN end - 1 ELSE start,
     finish |-> \/ end = Len(lines)
                \/ ~Outside(At(lines, end), known)
                \/ end > start /\ Blank(At(lines, end - 1))]

GetIndented(lines, start, mode, untilBlank) ==
    LET known == IF mode = "known" THEN Head(At(lines, start).m).w ELSE 0
    IN  IndentedTo(lines, start, mode, known,
                   IndentedEnd(lines, start, mode, known, untilBlank))

(* A change of Trimmed: the blank lines at the top are not counted. *)
TrimmedUncounted(got, from) ==
    [lines |-> TrimStart(got.lines), last |-> got.last, finish |-> got.finish, off |-> from]

(***************************************************************************)
(* StateMachine.get_indented, get_known_indented and                       *)
(* get_first_known_indented also drop the blank lines at the top and count *)
(* them in the offset of the block.                                        *)
(***************************************************************************)
Trimmed(got, from) ==
    [lines |-> TrimStart(got.lines), last |-> got.last, finish |-> got.finish,
     off   |-> from + Len(got.lines) - Len(TrimStart(got.lines))]

IndentedBlock(lines, start, base, mode, untilBlank) ==
    Trimmed(GetIndented(lines, start, mode, untilBlank), base + start)
=============================================================================
