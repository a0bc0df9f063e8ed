-------------------------- MODULE RstStatesProofs --------------------------
(***************************************************************************)
(* The steps of the machines that read text and titles, the ends of the    *)
(* machines, and the theorems: types, the numbers of the lines, what a     *)
(* parse leaves behind, and the section level, whatever the document.  At  *)
(* the end, the invariant for the lines of text, which RstOnceProofs is    *)
(* about.                                                                  *)
(***************************************************************************)
EXTENDS RstMachineProofs

-----------------------------------------------------------------------------
(* Text: paragraphs, literal blocks and definitions. *)

\* A machine that has seen the first line of a text, or an overline.
LEMMA TextMachine ==
    ASSUME Stack, NEW S, NEW T, Sees(S, T), NEW state \in TextStates
    PROVE  LET f == [F EXCEPT !.ctx = <<Line>>, !.state = state]
           IN  FrameOK(f, Len(tree), DOMAIN doc) /\ Keeps(Top, f) /\ TopOK(f, FALSE)
<1> DEFINE f == [F EXCEPT !.ctx = <<Line>>, !.state = state]
           D == DOMAIN doc
<1>1. /\ FrameOK(F, Len(tree), D) /\ Keeps(Top, F) /\ F.phase = "run" /\ F.only = ""
      /\ Line \in LineOf(D)
  BY Seen, Zenon
<1>2. F.off \in Nat
  BY SeenAt
<1>3. DOMAIN F = MachineFields /\ F.eofcheck \in BOOLEAN
  BY <1>1, Zenon DEF FrameOK
<1> DEFINE ctx == <<Line>>
<1>4. ctx \in LinesOf(D) /\ Len(ctx) = 1 /\ Len(ctx) <= 1
  <2> DEFINE line == Line
  <2>1. line \in LineOf(D)
    BY <1>1, Zenon
  <2> HIDE DEF line, D
  <2>2. <<line>> \in LinesOf(D) /\ Len(<<line>>) = 1
    BY <2>1 DEF LinesOf
  <2>3. Len(<<line>>) <= 1
    BY <2>2
  <2> QED
    BY <2>2, <2>3 DEF line
<1>5. DOMAIN f = MachineFields /\ Keeps(F, f)
  BY <1>3 DEF Keeps, MachineFields
<1>6. f.state = state /\ f.phase = "run" /\ f.only = ""
  BY <1>1, <1>3, Zenon DEF MachineFields
<1>7. f.off = F.off
  BY <1>3 DEF MachineFields
<1>8. f.ctx = ctx
  BY <1>3 DEF MachineFields
<1>9. f.eofcheck = F.eofcheck
  BY <1>3 DEF MachineFields
<1> HIDE DEF f, ctx, D
<1>10. f.off \in Int /\ f.off >= -1 /\ f.off >= 0
  BY <1>2, <1>7
<1>11. f.ctx \in LinesOf(D) /\ Len(f.ctx) = 1 /\ Len(f.ctx) <= 1
  BY <1>4, <1>8, Zenon
<1>12. f.state \in States /\ f.phase \in {"run", "eof", "over"} /\ f.only \in {"", "text"}
  BY <1>6, Zenon DEF States
<1>13. f.eofcheck \in BOOLEAN
  BY <1>3, <1>9
<1>14. FrameOK(f, Len(tree), D)
  BY <1>1, <1>5, <1>10, <1>11, <1>12, <1>13, Changed, Zenon
<1>15. Keeps(Top, f)
  BY <1>1, <1>5, KeptTwice, Zenon
<1>16. TopOK(f, FALSE)
  BY <1>6, <1>10, <1>11, Zenon DEF TopOK
<1> QED
  BY <1>14, <1>15, <1>16 DEF f, D

\* A machine that is back in the body.
LEMMA BodyMachine ==
    ASSUME NEW n, NEW D, NEW f, FrameOK(f, n, D), f.phase = "run"
    PROVE  /\ FrameOK(BackToBody(f), n, D) /\ Keeps(f, BackToBody(f))
           /\ TopOK(BackToBody(f), FALSE)
           /\ BackToBody(f).phase = "run" /\ BackToBody(f).state = "Body"
           /\ BackToBody(f).state \notin TextStates
<1> DEFINE g == BackToBody(f)
<1>1. /\ DOMAIN f = MachineFields /\ f.eofcheck \in BOOLEAN /\ f.only \in {"", "text"}
  BY Zenon DEF FrameOK
<1>2. f.off \in Int /\ f.off >= -1
  BY Zenon DEF FrameOK
<1>3. DOMAIN g = MachineFields /\ Keeps(f, g)
  BY <1>1, Zenon DEF BackToBody, Keeps, MachineFields
<1>4. g.state = "Body" /\ g.phase = "run" /\ g.only = f.only
  BY <1>1, Zenon DEF BackToBody, MachineFields
<1>5. g.off = f.off
  BY <1>1, Zenon DEF BackToBody, MachineFields
<1>6. g.ctx = <<>>
  BY <1>1, Zenon DEF BackToBody, MachineFields
<1>7. g.eofcheck = f.eofcheck
  BY <1>1, Zenon DEF BackToBody, MachineFields
<1> HIDE DEF g
<1>8. g.off \in Int /\ g.off >= -1
  BY <1>2, <1>5
<1>9. g.ctx \in LinesOf(D)
  BY <1>6 DEF LinesOf
<1>10. /\ g.state \in States /\ g.phase \in {"run", "eof", "over"} /\ g.only \in {"", "text"}
       /\ g.state \notin TextStates /\ g.phase # "eof"
  BY <1>1, <1>4, Zenon DEF States, TextStates
<1>11. g.eofcheck \in BOOLEAN
  BY <1>1, <1>7, Zenon
<1>12. FrameOK(g, n, D)
  BY <1>3, <1>8, <1>9, <1>10, <1>11, Changed, Zenon
<1>13. TopOK(g, FALSE)
  BY <1>10, Zenon DEF TopOK
<1> QED
  BY <1>3, <1>4, <1>10, <1>12, <1>13, Zenon DEF g

\* The first line of a block of text.
LEMMA BodyTextStep ==
    ASSUME Stack, BodyText
    PROVE  Stack'
<1> DEFINE S == {"Body", "DefinitionList"}
           T == {"text"}
           state == IF F.state = "Body" THEN "Text" ELSE "Definition"
           f == [F EXCEPT !.ctx = <<Line>>, !.state = state]
<1>1. Sees(S, T) /\ Continue(f, <<>>)
  BY DEF BodyText
<1>2. state \in TextStates
  BY DEF TextStates
<1> HIDE DEF S, T, state
<1>3. frames # <<>> /\ memo.bubble = FALSE
  BY <1>1, Seen, Zenon
<1>4. FrameOK(f, Len(tree), DOMAIN doc) /\ Keeps(Top, f) /\ TopOK(f, FALSE)
  BY <1>1, <1>2, TextMachine, Zenon
<1> HIDE DEF f
<1>5. NodesOK(<<>>, Len(tree), DOMAIN doc)
  BY <1>1, SeenNode, NoNodes
<1> QED
  BY <1>1, <1>3, <1>4, <1>5, Continuing

\* The paragraph of some lines.
LEMMA ParagraphNodes ==
    ASSUME NEW n \in Nat, NEW D, NEW lines \in LinesOf(D), NEW up \in 0 .. n
    PROVE  NodesOK(Paragraph(lines, up), n, D)
<1> DEFINE of == NumbersOf(lines)
<1>1. of \in SUBSET D
  BY NumbersInFile
<1> HIDE DEF of
<1>2. NodesOK(<<Node("paragraph", up, of)>>, n, D)
  BY <1>1, OneNode
<1>3. NodesOK(<<>>, n, D)
  BY NoNodes
<1> QED
  BY <1>2, <1>3 DEF Paragraph, of

\* The literal block that follows some lines, if one does.
LEMMA LiteralPart ==
    ASSUME NEW n \in Nat, NEW D, NEW f, FrameOK(f, n, D), f.phase = "run" \/ f.phase = "eof",
           f.off \in Nat, NEW lines \in LinesOf(D)
    PROVE  LET l == Literal(f, lines)
           IN  /\ FrameOK(l.f, n, D) /\ Keeps(f, l.f) /\ l.f.phase = f.phase
               /\ l.f.state = f.state
               /\ NodesOK(l.nodes, n, D)
<1> DEFINE s == f.lines
           off == f.off
           base == f.base
           mode == "unknown"
           b == IndentedBlock(s, off, base, mode, FALSE)
           last == b.last
           block == b.lines
           up == f.node
           colons == IF Len(lines) = 1 /\ IsColons(lines[1]) THEN {lines[1].n} ELSE {}
           next == LiteralNext(lines)
           g == [f EXCEPT !.off = last]
           of == colons \cup NumbersOf(block)
           one == <<Node("literal_block", up, of)>>
           more == IF b.finish THEN <<>> ELSE <<Node("warning", up, {})>>
           l == Literal(f, lines)
<1>1. s \in LinesOf(D) /\ off \in Nat /\ base \in Int /\ up \in 0 .. n
  BY Zenon DEF FrameOK
<1>2. mode \in Modes /\ mode # "unknown" => off < Len(s)
  BY DEF Modes
<1>3. mode # "known" /\ mode = "unknown"
  OBVIOUS
<1>4. /\ l.f = IF next THEN g ELSE f
      /\ l.nodes = IF next THEN one \o more ELSE <<>>
  BY DEF Literal, Message
<1> HIDE DEF s, off, base, mode
<1>12. mode \in Modes /\ (mode # "unknown" => off < Len(s)) /\ (mode = "known" => ~Blank(At(s, off)))
  BY <1>3 DEF Modes
<1>18. /\ b.lines \in LinesOf(D) /\ b.last \in Int /\ b.last >= off
  BY <1>1, <1>12, IndentedBlockPart
<1> HIDE DEF b
<1>5. last \in Int /\ last >= off /\ block \in LinesOf(D)
  BY <1>18
<1>6. last >= -1
  BY <1>1, <1>5
<1> HIDE DEF last, block, next
<1>7. FrameOK(g, n, D) /\ Keeps(f, g) /\ g.phase = f.phase /\ g.state = f.state
  BY <1>5, <1>6, MovedMachine
<1> HIDE DEF g
<1>8. colons \in SUBSET D
  <2>1. CASE Len(lines) = 1 /\ IsColons(lines[1])
    <3>1. 1 \in DOMAIN lines /\ lines \in Seq(LineOf(D))
      BY <2>1 DEF LinesOf
    <3>2. lines[1] \in LineOf(D)
      BY <3>1
    <3> QED
      BY <2>1, <3>2, LineFields
  <2>2. CASE ~(Len(lines) = 1 /\ IsColons(lines[1]))
    BY <2>2
  <2> QED
    BY <2>1, <2>2
<1> HIDE DEF colons
<1>9. of \in SUBSET D /\ {} \in SUBSET D
  BY <1>5, <1>8, NumbersInFile
<1> HIDE DEF of, up
<1>10. NodesOK(one, n, D) /\ Len(one) = 1
  BY <1>1, <1>9, OneNode
<1>11. NodesOK(more, n, D)
  BY <1>1, <1>9, MaybeNode
<1> HIDE DEF one, more
<1>13. NodesOK(one \o more, n, D)
  <2>1. n <= n + Len(one)
    BY <1>10
  <2> QED
    BY <1>10, <1>11, <2>1, MoreJoined
<1>14. NodesOK(<<>>, n, D)
  BY NoNodes
<1>15. NodesOK(l.nodes, n, D)
  BY <1>4, <1>13, <1>14, Zenon
<1>16. Keeps(f, f)
  BY DEF Keeps
<1>17. FrameOK(l.f, n, D) /\ Keeps(f, l.f) /\ l.f.phase = f.phase /\ l.f.state = f.state
  BY <1>4, <1>7, <1>16, Zenon
<1> QED
  BY <1>15, <1>17

\* Text ends with a paragraph, and the literal block it announces.
LEMMA TextEnding ==
    ASSUME Stack, NEW S, NEW T, Sees(S, T), F.state \in TextStates,
           NEW f, FrameOK(f, Len(tree), DOMAIN doc), Keeps(F, f), f.phase = "run", f.off \in Nat,
           NEW lines \in LinesOf(DOMAIN doc), NEW more, NodesOK(more, Len(tree), DOMAIN doc),
           Continue(BackToBody(Literal(f, lines).f),
                    Paragraph(lines, F.node) \o more \o Literal(f, lines).nodes)
    PROVE  Stack'
<1> DEFINE l == Literal(f, lines)
           nodes == l.nodes
           g == BackToBody(l.f)
           a == Paragraph(lines, F.node)
<1>1. /\ FrameOK(l.f, Len(tree), DOMAIN doc) /\ Keeps(f, l.f) /\ l.f.phase = f.phase
      /\ NodesOK(nodes, Len(tree), DOMAIN doc) /\ Len(tree) \in Nat
  BY LiteralPart, SeenNode
<1>2. FrameOK(g, Len(tree), DOMAIN doc) /\ Keeps(l.f, g) /\ TopOK(g, FALSE)
  BY <1>1, BodyMachine
<1>3. F.node \in 0 .. Len(tree)
  BY SeenNode
<1>4. NodesOK(a, Len(tree), DOMAIN doc)
  BY <1>1, <1>3, ParagraphNodes
<1>5. Continue(g, a \o more \o nodes)
  OBVIOUS
<1>6. Keeps(Top, F) /\ frames # <<>> /\ memo.bubble = FALSE
  BY Seen, Zenon
<1>7. Keeps(Top, g)
  <2> DEFINE h == l.f
  <2>1. Keeps(f, h) /\ Keeps(h, g)
    BY <1>1, <1>2
  <2> HIDE DEF h, g
  <2> QED
    BY <1>6, <2>1, KeptTwice
<1> HIDE DEF g, l, a, nodes
<1>8. NodesOK(a \o more, Len(tree), DOMAIN doc)
  <2>1. Len(a) \in Nat
    BY <1>4, LenProperties DEF NodesOK, IsSeq
  <2>2. Len(tree) <= Len(tree) + Len(a)
    BY <1>1, <2>1
  <2> QED
    BY <1>1, <1>4, <2>2, MoreJoined
<1> DEFINE b == a \o more
<1>9. NodesOK(b, Len(tree), DOMAIN doc)
  BY <1>8
<1> HIDE DEF b
<1>10. NodesOK(b \o nodes, Len(tree), DOMAIN doc)
  <2>1. Len(b) \in Nat
    BY <1>9, LenProperties DEF NodesOK, IsSeq
  <2>2. Len(tree) <= Len(tree) + Len(b)
    BY <1>1, <2>1
  <2> QED
    BY <1>1, <1>9, <2>2, MoreJoined
<1>11. Continue(g, b \o nodes)
  BY <1>5 DEF b
<1> QED
  BY <1>2, <1>6, <1>7, <1>10, <1>11, Continuing

\* A paragraph of one line.
LEMMA TextBlankStep ==
    ASSUME Stack, TextBlank
    PROVE  Stack'
<1> DEFINE S == {"Text"}
           T == {"blank"}
           l == Literal(F, F.ctx)
           a == Paragraph(F.ctx, F.node)
           none == <<>>
<1>1. Sees(S, T)
  BY DEF TextBlank
<1>2. Continue(BackToBody(l.f), a \o l.nodes)
  BY DEF TextBlank
<1>3. S \subseteq TextStates
  BY DEF TextStates
<1> HIDE DEF S, T
<1>4. /\ F.state \in TextStates /\ FrameOK(F, Len(tree), DOMAIN doc) /\ Keeps(F, F)
      /\ F.phase = "run" /\ F.off \in Nat /\ F.ctx \in LinesOf(DOMAIN doc)
  BY <1>1, <1>3, Seen, SeenAt, Zenon DEF Keeps, FrameOK
<1>5. NodesOK(none, Len(tree), DOMAIN doc) /\ NodesOK(a, Len(tree), DOMAIN doc)
  BY <1>1, <1>4, SeenNode, NoNodes, ParagraphNodes
<1>6. a \o none = a
  BY <1>5, ConcatEmptySeq DEF NodesOK, IsSeq
<1>7. a \o none \o l.nodes = a \o l.nodes
  BY <1>6
<1> HIDE DEF l, a, none
<1>8. Continue(BackToBody(l.f), a \o none \o l.nodes)
  BY <1>2, <1>7
<1> QED
  BY <1>1, <1>4, <1>5, <1>8, TextEnding DEF l, a

\* A paragraph of several lines.
LEMMA TextTextStep ==
    ASSUME Stack, TextText
    PROVE  Stack'
<1> DEFINE S == {"Text"}
           T == {"text"}
           end == TextBlockEnd(F.lines, F.off, TRUE)
           lines == F.ctx \o Slice(F.lines, F.off, end)
           off == IF LiteralNext(lines) THEN end ELSE end - 1
           f == [F EXCEPT !.off = off]
           l == Literal(f, lines)
           more == IF UnexpectedIndentation(F.lines, F.off)
                   THEN <<Node("error", F.node, {})>> ELSE <<>>
<1>1. Sees(S, T)
  BY DEF TextText
<1>2. Continue(BackToBody(l.f), Paragraph(lines, F.node) \o more \o l.nodes)
  BY DEF TextText, Message
<1>3. S \subseteq TextStates
  BY DEF TextStates
<1> HIDE DEF S, T
<1>4. F.state \in TextStates /\ F.phase = "run" /\ FrameOK(F, Len(tree), DOMAIN doc)
  BY <1>1, <1>3, Seen, Zenon
<1>5. F.ctx \in LinesOf(DOMAIN doc)
  BY <1>4, Zenon DEF FrameOK
<1>6. F.off >= 1 /\ F.off \in Nat /\ F.off < Len(F.lines) /\ F.lines \in LinesOf(DOMAIN doc)
  BY <1>1, <1>4, SeenAt, SeenLines
<1>7. end \in Int /\ F.off <= end
  <2> DEFINE s == F.lines
             start == F.off
             flush == TRUE
             e == TextBlockEnd(s, start, flush)
             m == Len(s)
  <2>1. s \in LinesOf(DOMAIN doc) /\ start \in Int /\ start < m /\ m \in Nat
    BY <1>6, LenProperties DEF LinesOf
  <2>2. e \in Int /\ (start <= m => start <= e)
    BY <2>1, TextBlockRange
  <2> HIDE DEF s, start, e, m, flush
  <2>3. e \in Int /\ start <= e
    BY ONLY <2>1, <2>2
  <2> QED
    BY <2>3 DEF s, start, e, flush
<1> HIDE DEF end
<1>8. off \in Nat
  <2> DEFINE start == F.off
  <2>1. start \in Nat /\ start >= 1 /\ start <= end /\ end \in Int
    BY <1>6, <1>7
  <2> HIDE DEF start
  <2>2. end \in Nat /\ end - 1 \in Nat
    BY ONLY <2>1
  <2> QED
    BY <2>2, Zenon
<1>9. lines \in LinesOf(DOMAIN doc)
  <2>1. Slice(F.lines, F.off, end) \in LinesOf(DOMAIN doc)
    BY <1>1, <1>6, <1>7, SeenNumbers
  <2> QED
    BY <1>5, <2>1, ConcatProperties DEF LinesOf
<1> HIDE DEF off, lines
<1>10. /\ FrameOK(f, Len(tree), DOMAIN doc) /\ Keeps(F, f) /\ f.phase = F.phase
  <2>1. off \in Int /\ off >= -1
    BY <1>8
  <2> QED
    BY <1>4, <2>1, MovedMachine
<1>11. f.off \in Nat
  <2>1. f.off = off
    BY <1>4, Zenon DEF FrameOK, MachineFields
  <2> QED
    BY <1>8, <2>1
<1>12. NodesOK(more, Len(tree), DOMAIN doc)
  BY <1>1, SeenNode, MaybeNode
<1> HIDE DEF f, more
<1>13. f.phase = "run"
  BY <1>4, <1>10
<1> QED
  BY <1>1, <1>2, <1>4, <1>9, <1>10, <1>11, <1>12, <1>13, TextEnding DEF l

\* The item a definition begins with.
LEMMA DefinitionNodes ==
    ASSUME Stack, NEW S, NEW T, Sees(S, T), NEW k \in Nat, NEW up \in 0 .. k, NEW n, n = k + 1
    PROVE  /\ NodesOK(DefinitionItem(up, n), k, DOMAIN doc)
           /\ Len(DefinitionItem(up, n)) >= 1 /\ Len(DefinitionItem(up, n)) \in Nat
<1> DEFINE of == NumbersOf(F.ctx)
           next == LiteralNext(F.ctx)
           a == <<Node("definition_list_item", up, {}), Node("term", n, of)>>
           b == IF next THEN <<Node("info", n, {})>> ELSE <<>>
<1>1. F.ctx \in LinesOf(DOMAIN doc)
  BY Seen, Zenon DEF FrameOK
<1>2. of \in SUBSET (DOMAIN doc) /\ {} \in SUBSET (DOMAIN doc)
  BY <1>1, NumbersInFile
<1>3. DefinitionItem(up, n) = a \o b
  BY DEF DefinitionItem, Message
<1> HIDE DEF of, next
<1>4. n \in 0 .. k + 1 /\ k + 1 \in Nat /\ n \in Nat
  OBVIOUS
<1>5. NodesOK(a, k, DOMAIN doc) /\ Len(a) = 2
  BY <1>2, <1>4, TwoNodes
<1>6. NodesOK(b, k + 1, DOMAIN doc)
  BY <1>2, <1>4, MaybeNode
<1> HIDE DEF a, b
<1>7. k + 1 <= k + Len(a)
  BY <1>5
<1>8. /\ NodesOK(a \o b, k, DOMAIN doc) /\ Len(a \o b) = Len(a) + Len(b)
      /\ Len(a) \in Nat /\ Len(b) \in Nat
  BY <1>4, <1>5, <1>6, <1>7, MoreJoined
<1> DEFINE c == a \o b
           k1 == Len(a)
           k2 == Len(b)
<1>9. NodesOK(c, k, DOMAIN doc) /\ Len(c) = k1 + k2 /\ k1 = 2 /\ k2 \in Nat
  BY <1>5, <1>8
<1>10. DefinitionItem(up, n) = c
  BY <1>3
<1> HIDE DEF c, k1, k2
<1>11. Len(c) >= 1 /\ Len(c) \in Nat
  BY <1>9
<1> QED
  BY <1>9, <1>10, <1>11

\* Another item of a definition list.
LEMMA DefinitionIndentStep ==
    ASSUME Stack, DefinitionIndent
    PROVE  Stack'
<1> DEFINE S == {"Definition"}
           T == {"indent"}
           mode == "unknown"
           b == IndentedBlock(F.lines, F.off, F.base, mode, FALSE)
           last == b.last
           finish == b.finish
           state == "DefinitionList"
           f == [F EXCEPT !.off = last, !.state = state, !.ctx = <<>>, !.finish = finish]
           then == Then("nothing", TRUE)
           nodes == DefinitionItem(F.node, NextNode)
<1>1. Sees(S, T)
  BY DEF DefinitionIndent
<1>2. /\ NestedParse(f, b.lines, b.off, NextNode, FALSE, then)
      /\ tree' = tree \o nodes
      /\ UNCHANGED <<doc, memo, error, dropped>>
  BY DEF DefinitionIndent, DefinitionBlock
<1>3. mode \in Modes /\ mode # "known"
  BY DEF Modes
<1>14. state \in States \ TextStates
  BY DEF States, TextStates, Members
<1> HIDE DEF S, T, mode, b, state
<1>30. F.off \in Nat
  BY <1>1, SeenAt
<1>31. b.last \in Int /\ b.last >= F.off
  BY <1>1, <1>3, SeenBlock DEF b
<1>4. b.last \in Int /\ b.last >= F.off /\ F.off \in Nat
  BY <1>30, <1>31
<1>5. last \in Int /\ last >= -1
  BY <1>4
<1> HIDE DEF last, finish
<1>6. FrameOK(F, Len(tree), DOMAIN doc) /\ F.phase = "run" /\ F.only = ""
  BY <1>1, Seen, Zenon
<1>7. DOMAIN f = MachineFields /\ Keeps(F, f)
  BY <1>6, Zenon DEF FrameOK, Keeps, MachineFields
<1>8. f.state = state /\ f.phase = "run" /\ f.only = ""
  BY <1>6, Zenon DEF FrameOK, MachineFields
<1>9. f.off = last
  BY <1>6, Zenon DEF FrameOK, MachineFields
<1>10. f.ctx = <<>>
  BY <1>6, Zenon DEF FrameOK, MachineFields
<1>11. f.eofcheck = F.eofcheck /\ F.eofcheck \in BOOLEAN
  BY <1>6, Zenon DEF FrameOK, MachineFields
<1> HIDE DEF f
<1>12. f.ctx \in LinesOf(DOMAIN doc)
  BY <1>10 DEF LinesOf
<1>13. f.off \in Int /\ f.off >= -1
  BY <1>5, <1>9
<1>15. /\ f.state \in States /\ f.phase \in {"run", "eof", "over"} /\ f.only \in {"", "text"}
       /\ f.state \notin TextStates
  BY <1>8, <1>14, Zenon
<1>16. f.eofcheck \in BOOLEAN
  BY <1>11
<1>17. FrameOK(f, Len(tree), DOMAIN doc)
  BY <1>6, <1>7, <1>12, <1>13, <1>15, <1>16, Changed, Zenon
<1>18. /\ Len(tree) \in Nat /\ F.node \in 0 .. Len(tree) /\ NextNode = Len(tree) + 1
  BY <1>1, SeenNode
<1>19. NodesOK(nodes, Len(tree), DOMAIN doc) /\ Len(nodes) >= 1 /\ Len(nodes) \in Nat
  BY <1>1, <1>18, DefinitionNodes
<1> HIDE DEF nodes
<1>20. NextNode \in 0 .. Len(tree) + Len(nodes) /\ Len(tree) + Len(nodes) \in Nat
  BY <1>18, <1>19
<1>21. ThenOK(then, Len(tree) + Len(nodes), DOMAIN doc) /\ then.k \in {"nothing", "first", "construct"}
  BY <1>20, ThenIsOK
<1> HIDE DEF then
<1> QED
  BY <1>1, <1>2, <1>3, <1>7, <1>8, <1>15, <1>17, <1>19, <1>20, <1>21, BlockNesting, Zenon DEF b

\* The first item of a definition list.
LEMMA TextIndentStep ==
    ASSUME Stack, TextIndent
    PROVE  Stack'
<1> DEFINE S == {"Text"}
           T == {"indent"}
           mode == "unknown"
           b == IndentedBlock(F.lines, F.off, F.base, mode, FALSE)
           last == b.last
           finish == b.finish
           state == "DefinitionList"
           list == NextNode
           node == NextNode + 1
           g == BackToBody(F)
           f == [g EXCEPT !.off = last]
           then == [Then("first", finish) EXCEPT !.state = state, !.node = list]
           one == <<Node("definition_list", F.node, {})>>
           more == DefinitionItem(list, node)
           nodes == one \o more
<1>1. Sees(S, T)
  BY DEF TextIndent
<1>2. /\ NestedParse(f, b.lines, b.off, node, FALSE, then)
      /\ tree' = tree \o one \o more
      /\ UNCHANGED <<doc, memo, error, dropped>>
  BY DEF TextIndent, DefinitionBlock
<1>3. mode \in Modes /\ mode # "known"
  BY DEF Modes
<1>4. state \in States \ TextStates
  BY DEF States, TextStates, Members
<1> HIDE DEF S, T, mode, b, state
<1>30. F.off \in Nat
  BY <1>1, SeenAt
<1>31. b.last \in Int /\ b.last >= F.off
  BY <1>1, <1>3, SeenBlock DEF b
<1>5. b.last \in Int /\ b.last >= F.off /\ F.off \in Nat
  BY <1>30, <1>31
<1>6. last \in Int /\ last >= -1
  BY <1>5
<1> HIDE DEF last, finish
<1>7. FrameOK(F, Len(tree), DOMAIN doc) /\ F.phase = "run"
  BY <1>1, Seen, Zenon
<1>8. FrameOK(g, Len(tree), DOMAIN doc) /\ Keeps(F, g) /\ g.phase = "run" /\ g.state \notin TextStates
  BY <1>7, BodyMachine
<1> HIDE DEF g
<1>9. /\ FrameOK(f, Len(tree), DOMAIN doc) /\ Keeps(g, f) /\ f.phase = g.phase
      /\ f.state = g.state
  BY <1>6, <1>8, MovedMachine
<1>10. Keeps(F, f)
  BY <1>8, <1>9, KeptTwice
<1>11. f.phase = "run" /\ f.state \notin TextStates
  BY <1>8, <1>9
<1> HIDE DEF f
<1>12. /\ Len(tree) \in Nat /\ F.node \in 0 .. Len(tree) /\ NextNode = Len(tree) + 1
       /\ {} \in SUBSET (DOMAIN doc) /\ TreeOK(tree, DOMAIN doc)
  BY <1>1, SeenNode
<1>13. NodesOK(one, Len(tree), DOMAIN doc) /\ Len(one) = 1
  BY <1>12, OneNode
<1>14. /\ Len(tree) + 1 \in Nat /\ list \in 0 .. Len(tree) + 1 /\ node = (Len(tree) + 1) + 1
  BY <1>12
<1>15. NodesOK(more, Len(tree) + 1, DOMAIN doc) /\ Len(more) >= 1 /\ Len(more) \in Nat
  BY <1>1, <1>14, DefinitionNodes
<1> HIDE DEF one, more, list, node
<1>16. NodesOK(more, Len(tree) + Len(one), DOMAIN doc)
  BY <1>13, <1>15
<1>32. TreeOK(tree, DOMAIN doc) /\ NodesOK(one, Len(tree), DOMAIN doc)
  BY <1>12, <1>13
<1>33. /\ tree \o one \o more = tree \o (one \o more)
       /\ NodesOK(one \o more, Len(tree), DOMAIN doc)
       /\ Len(one \o more) = Len(one) + Len(more) /\ Len(more) \in Nat
  BY ONLY <1>16, <1>32, JoinedNodes
<1>17. /\ tree \o one \o more = tree \o nodes /\ NodesOK(nodes, Len(tree), DOMAIN doc)
       /\ Len(nodes) = Len(one) + Len(more)
  BY <1>33
<1> HIDE DEF nodes
<1>18. /\ Len(tree) + Len(nodes) \in Nat /\ node \in 0 .. Len(tree) + Len(nodes)
       /\ list \in 0 .. Len(tree) + Len(nodes)
  BY <1>12, <1>13, <1>14, <1>15, <1>17
<1>19. ThenOK(then, Len(tree) + Len(nodes), DOMAIN doc)
  BY <1>4, <1>18, ThenFirst, Zenon
<1>20. then.k \in {"nothing", "first", "construct"}
  BY DEF Then
<1> HIDE DEF then
<1>21. tree' = tree \o nodes
  BY <1>2, <1>17
<1> QED
  BY <1>1, <1>2, <1>3, <1>9, <1>10, <1>11, <1>17, <1>18, <1>19, <1>20, <1>21, BlockNesting DEF b

\* The end of a definition list.
LEMMA NoDefinitionStep ==
    ASSUME Stack, NoDefinition
    PROVE  Stack'
<1> DEFINE S == {"Definition"}
           T == {"blank", "underline", "text"}
           f == Ended(F)
           none == <<>>
<1>1. Sees(S, T) /\ Continue(f, none)
  BY DEF NoDefinition
<1>2. S \subseteq TextStates
  BY DEF TextStates
<1> HIDE DEF T
<1>20. F.state \in S
  BY <1>1, Seen, Zenon
<1>3. F.state = "Definition"
  BY <1>20
<1> HIDE DEF S
<1>4. F.state \in TextStates /\ F.off >= 1
  BY <1>1, <1>3, SeenAt DEF TextStates
<1>5. FrameOK(F, Len(tree), DOMAIN doc) /\ Keeps(Top, F) /\ frames # <<>> /\ memo.bubble = FALSE
  BY <1>1, Seen, Zenon
<1>6. DOMAIN f = MachineFields /\ Keeps(F, f)
  BY <1>5, Zenon DEF Ended, FrameOK, Keeps, MachineFields
<1>7. f.state = "Definition" /\ f.phase = "eof" /\ f.only = F.only
  BY <1>3, <1>4, <1>5, Zenon DEF Ended, FrameOK, MachineFields
<1>8. f.off = F.off
  BY <1>5, Zenon DEF Ended, FrameOK, MachineFields
<1>9. f.ctx = F.ctx
  BY <1>5, Zenon DEF Ended, FrameOK, MachineFields
<1>10. f.eofcheck = F.eofcheck
  BY <1>5, Zenon DEF Ended, FrameOK, MachineFields
<1> HIDE DEF f
<1>11. f.off \in Int /\ f.off >= 1
  BY <1>4, <1>5, <1>8, Zenon DEF FrameOK
<1>12. /\ f.ctx \in LinesOf(DOMAIN doc) /\ Len(f.ctx) <= 1
  BY <1>4, <1>5, <1>9, Zenon DEF FrameOK
<1>13. /\ f.state \in States /\ f.phase \in {"run", "eof", "over"} /\ f.only \in {"", "text"}
       /\ f.eofcheck \in BOOLEAN
  <2>1. "Definition" \in States
    BY DEF States, TextStates
  <2> QED
    BY <1>5, <1>7, <1>10, <2>1, Zenon DEF FrameOK
<1>14. FrameOK(f, Len(tree), DOMAIN doc)
  <2>1. f.off >= -1
    BY <1>11
  <2>2. f.off \in Int
    BY <1>11
  <2> QED
    BY <1>5, <1>6, <1>12, <1>13, <2>1, <2>2, Changed, Zenon
<1>15. TopOK(f, memo.bubble)
  BY <1>5, <1>7, <1>11 DEF TopOK
<1>16. Keeps(Top, f)
  BY <1>5, <1>6, KeptTwice
<1>17. NodesOK(none, Len(tree), DOMAIN doc)
  BY <1>1, SeenNode, NoNodes
<1> QED
  BY <1>1, <1>5, <1>14, <1>15, <1>16, <1>17, Continuing

-----------------------------------------------------------------------------
(* Rules: transitions, overlines and underlines. *)

\* What reads as an underline is one: a mark of its own.
LEMMA RuleMark ==
    ASSUME NEW D, NEW line \in LineOf(D), IsRule(line)
    PROVE  RuleOf(line) \in MarkType
<1>1. line.m \in Seq(MarkType)
  BY LineFields
<1>2. Len(line.m) = 1
  BY DEF IsRule, Lone
<1>3. 1 \in DOMAIN line.m
  BY <1>1, <1>2
<1> QED
  BY <1>1, <1>3 DEF RuleOf

\* The style of a rule is the character it is made of.
LEMMA SeenRule ==
    ASSUME Stack, NEW S, Sees(S, {"underline"}), F.state \in TextStates
    PROVE  RuleOf(Line).c \in STRING
<1> DEFINE T == {"underline"}
           only == Top.only
<1>1. Sees(S, T)
  OBVIOUS
<1>2. Transition = "underline"
  <2>1. Transition \in T
    BY <1>1, Seen, Zenon
  <2> QED
    BY <2>1
<1> HIDE DEF T
<1>3. Line \in LineOf(DOMAIN doc) /\ frames # <<>>
  BY <1>1, Seen, Zenon
<1>4. only \in {"", "text"}
  BY <1>3, Tops, Zenon DEF FrameOK
<1>5. Transition = IF only # "" THEN only
                   ELSE IF Blank(Line) THEN "blank"
                   ELSE IF Line.ind > 0 THEN "indent"
                   ELSE IF IsRule(Line) THEN "underline" ELSE "text"
  BY DEF Transition
<1> HIDE DEF only
<1>6. IsRule(Line)
  BY <1>2, <1>4, <1>5, Zenon
<1>7. RuleOf(Line) \in MarkType
  BY <1>3, <1>6, RuleMark
<1> QED
  BY <1>7 DEF MarkType

\* A machine that takes its overline for text goes back to the line before.
LEMMA AsTextPart ==
    ASSUME NEW n, NEW D, NEW f, FrameOK(f, n, D), NEW lines \in Nat, f.off >= lines
    PROVE  LET g == AsText(f, lines)
           IN  /\ FrameOK(g, n, D) /\ Keeps(f, g) /\ g.phase = f.phase
               /\ g.state = "Body" /\ g.ctx = <<>>
               /\ f.phase = "run" => TopOK(g, FALSE)
<1> DEFINE g == AsText(f, lines)
           off == f.off
<1>1. /\ DOMAIN f = MachineFields
      /\ f.phase \in {"run", "eof", "over"} /\ f.eofcheck \in BOOLEAN
  BY Zenon DEF FrameOK
<1>2. off \in Int
  BY Zenon DEF FrameOK
<1>3. DOMAIN g = MachineFields /\ Keeps(f, g)
  BY <1>1 DEF AsText, Moved, Keeps, MachineFields
<1>4. g.state = "Body" /\ g.phase = f.phase /\ g.only = "text"
  BY <1>1 DEF AsText, Moved, MachineFields
<1>5. g.off = off + (-lines - 1)
  BY <1>1 DEF AsText, Moved, MachineFields
<1>6. g.ctx = <<>>
  BY <1>1 DEF AsText, Moved, MachineFields
<1>7. g.eofcheck = f.eofcheck
  BY <1>1 DEF AsText, Moved, MachineFields
<1>12. off >= lines
  OBVIOUS
<1> HIDE DEF g, off
<1>8. g.off \in Int /\ g.off >= -1
  BY <1>2, <1>5, <1>12
<1>9. g.ctx \in LinesOf(D)
  BY <1>6 DEF LinesOf
<1>10. /\ g.state \in States /\ g.phase \in {"run", "eof", "over"} /\ g.only \in {"", "text"}
       /\ g.state \notin TextStates /\ g.eofcheck \in BOOLEAN
  BY <1>1, <1>4, <1>7 DEF States, TextStates
<1>11. FrameOK(g, n, D)
  BY <1>3, <1>8, <1>9, <1>10, Changed, Zenon
<1>13. f.phase = "run" => TopOK(g, FALSE)
  BY <1>4, <1>10 DEF TopOK
<1> QED
  BY <1>3, <1>4, <1>6, <1>11, <1>13 DEF g

\* The first line of what may be an overline or a transition.
LEMMA BodyLineStep ==
    ASSUME Stack, BodyLine
    PROVE  Stack'
<1> DEFINE S == {"Body"}
           T == {"line"}
           f == [F EXCEPT !.ctx = <<Line>>, !.state = "Line"]
           none == <<>>
           info == <<Node("info", F.node, {})>>
           severe == <<Node("severe", F.node, {Line.n})>>
<1>1. Sees(S, T)
  BY DEF BodyLine
<1>2. \/ Continue(f, none) \/ Continue(Correct(F), none) \/ Continue(Correct(F), info)
      \/ Continue(F, severe)
  BY DEF BodyLine, Message
<1>3. "Line" \in TextStates /\ S \cap TextStates = {}
  BY DEF TextStates
<1> HIDE DEF S, T
<1>4. /\ frames # <<>> /\ memo.bubble = FALSE /\ FrameOK(F, Len(tree), DOMAIN doc)
      /\ Keeps(Top, F) /\ F.phase = "run" /\ F.state \notin TextStates
      /\ Line \in LineOf(DOMAIN doc)
  BY <1>1, <1>3, Seen, Zenon
<1>5. Len(tree) \in Nat /\ F.node \in 0 .. Len(tree) /\ {} \in SUBSET (DOMAIN doc)
  BY <1>1, SeenNode
<1>6. {Line.n} \in SUBSET (DOMAIN doc)
  BY <1>4, LineFields
<1>7. NodesOK(none, Len(tree), DOMAIN doc)
  BY <1>5, NoNodes
<1>8. NodesOK(info, Len(tree), DOMAIN doc)
  BY <1>5, OneNode
<1>9. NodesOK(severe, Len(tree), DOMAIN doc)
  BY <1>5, <1>6, OneNode
<1> HIDE DEF none, info, severe
<1>10. CASE Continue(f, none)
  <2>1. FrameOK(f, Len(tree), DOMAIN doc) /\ Keeps(Top, f) /\ TopOK(f, FALSE)
    BY <1>1, <1>3, TextMachine, Zenon
  <2> HIDE DEF f
  <2> QED
    BY <1>4, <1>7, <1>10, <2>1, Continuing
<1>11. CASE Continue(Correct(F), none)
  BY <1>1, <1>7, <1>11, Correcting
<1>12. CASE Continue(Correct(F), info)
  BY <1>1, <1>8, <1>12, Correcting
<1>13. CASE Continue(F, severe)
  <2>1. TopOK(F, FALSE)
    BY <1>4 DEF TopOK
  <2> QED
    BY <1>4, <1>9, <1>13, <2>1, Continuing
<1> QED
  BY <1>2, <1>10, <1>11, <1>12, <1>13

\* A transition.
LEMMA LineBlankStep ==
    ASSUME Stack, LineBlank
    PROVE  Stack'
<1> DEFINE S == {"Line"}
           T == {"blank"}
           one == 1
           f == AsText(F, one)
           g == BackToBody(F)
           none == <<>>
           of == NumbersOf(F.ctx)
           nodes == <<Node("transition", F.node, of)>>
<1>1. Sees(S, T)
  BY DEF LineBlank
<1>2. Continue(f, none) \/ Continue(g, nodes)
  BY DEF LineBlank
<1>3. S \subseteq TextStates /\ one \in Nat /\ one <= 1
  BY DEF TextStates
<1> HIDE DEF S, T, one
<1>4. /\ frames # <<>> /\ memo.bubble = FALSE /\ FrameOK(F, Len(tree), DOMAIN doc)
      /\ Keeps(Top, F) /\ F.phase = "run" /\ F.state \in TextStates
  BY <1>1, <1>3, Seen, Zenon
<1>5. F.off >= one
  <2> DEFINE off == F.off
  <2>1. off >= 1 /\ off \in Nat
    BY <1>1, <1>4, SeenAt
  <2> HIDE DEF off
  <2>2. off >= one
    BY <1>3, <2>1
  <2> QED
    BY <2>2 DEF off
<1>6. Len(tree) \in Nat /\ F.node \in 0 .. Len(tree)
  BY <1>1, SeenNode
<1>7. of \in SUBSET (DOMAIN doc)
  BY <1>4, NumbersInFile, Zenon DEF FrameOK
<1> HIDE DEF of
<1>8. NodesOK(none, Len(tree), DOMAIN doc) /\ NodesOK(nodes, Len(tree), DOMAIN doc)
  BY <1>6, <1>7, NoNodes, OneNode
<1> HIDE DEF none, nodes
<1>9. FrameOK(f, Len(tree), DOMAIN doc) /\ Keeps(F, f) /\ TopOK(f, FALSE)
  BY <1>3, <1>4, <1>5, AsTextPart
<1>10. FrameOK(g, Len(tree), DOMAIN doc) /\ Keeps(F, g) /\ TopOK(g, FALSE)
  BY <1>4, BodyMachine
<1> HIDE DEF f, g
<1>11. Keeps(Top, f) /\ Keeps(Top, g)
  BY <1>4, <1>9, <1>10, KeptTwice
<1>12. CASE Continue(f, none)
  BY <1>4, <1>8, <1>9, <1>11, <1>12, Continuing
<1>13. CASE Continue(g, nodes)
  BY <1>4, <1>8, <1>10, <1>11, <1>13, Continuing
<1> QED
  BY <1>2, <1>12, <1>13

\* Two rules in a row.
LEMMA LineUnderlineStep ==
    ASSUME Stack, LineUnderline
    PROVE  Stack'
<1> DEFINE S == {"Line"}
           T == {"underline"}
           one == 1
           f == AsText(F, one)
           g == BackToBody(F)
           info == <<Node("info", F.node, {})>>
           of == NumbersOf(F.ctx \o <<Line>>)
           nodes == <<Node("error", F.node, of)>>
<1>1. Sees(S, T)
  BY DEF LineUnderline
<1>2. Continue(f, info) \/ Continue(g, nodes)
  BY DEF LineUnderline, Message
<1>3. S \subseteq TextStates /\ one \in Nat /\ one <= 1
  BY DEF TextStates
<1> HIDE DEF S, T, one
<1>4. /\ frames # <<>> /\ memo.bubble = FALSE /\ FrameOK(F, Len(tree), DOMAIN doc)
      /\ Keeps(Top, F) /\ F.phase = "run" /\ F.state \in TextStates
      /\ Line \in LineOf(DOMAIN doc)
  BY <1>1, <1>3, Seen, Zenon
<1>5. F.off >= one
  <2> DEFINE off == F.off
  <2>1. off >= 1 /\ off \in Nat
    BY <1>1, <1>4, SeenAt
  <2> HIDE DEF off
  <2>2. off >= one
    BY <1>3, <2>1
  <2> QED
    BY <2>2 DEF off
<1>6. Len(tree) \in Nat /\ F.node \in 0 .. Len(tree) /\ {} \in SUBSET (DOMAIN doc)
  BY <1>1, SeenNode
<1>7. of \in SUBSET (DOMAIN doc)
  <2>1. F.ctx \in LinesOf(DOMAIN doc)
    BY <1>4, Zenon DEF FrameOK
  <2>2. <<Line>> \in LinesOf(DOMAIN doc)
    BY <1>4 DEF LinesOf
  <2>3. F.ctx \o <<Line>> \in LinesOf(DOMAIN doc)
    BY <2>1, <2>2, ConcatProperties DEF LinesOf
  <2> QED
    BY <2>3, NumbersInFile
<1> HIDE DEF of
<1>8. NodesOK(info, Len(tree), DOMAIN doc) /\ NodesOK(nodes, Len(tree), DOMAIN doc)
  BY <1>6, <1>7, OneNode
<1> HIDE DEF info, nodes
<1>9. FrameOK(f, Len(tree), DOMAIN doc) /\ Keeps(F, f) /\ TopOK(f, FALSE)
  BY <1>3, <1>4, <1>5, AsTextPart
<1>10. FrameOK(g, Len(tree), DOMAIN doc) /\ Keeps(F, g) /\ TopOK(g, FALSE)
  BY <1>4, BodyMachine
<1> HIDE DEF f, g
<1>11. Keeps(Top, f) /\ Keeps(Top, g)
  BY <1>4, <1>9, <1>10, KeptTwice
<1>12. CASE Continue(f, info)
  BY <1>4, <1>8, <1>9, <1>11, <1>12, Continuing
<1>13. CASE Continue(g, nodes)
  BY <1>4, <1>8, <1>10, <1>11, <1>13, Continuing
<1> QED
  BY <1>2, <1>12, <1>13

\* The place of a style among those seen so far.
LEMMA IndexPart ==
    ASSUME NEW T, NEW styles \in Seq(T), NEW style
    PROVE  IndexOf(styles, style) \in 0 .. Len(styles)
<1>1. CASE style \in {styles[i] : i \in DOMAIN styles}
  <2>1. \E i \in DOMAIN styles : styles[i] = style
    BY <1>1
  <2> DEFINE j == CHOOSE i \in DOMAIN styles : styles[i] = style
  <2>2. j \in DOMAIN styles
    BY <2>1
  <2>3. IndexOf(styles, style) = j
    BY <1>1 DEF IndexOf
  <2> HIDE DEF j
  <2> QED
    BY <2>2, <2>3, LenProperties
<1>2. CASE style \notin {styles[i] : i \in DOMAIN styles}
  BY <1>2, LenProperties DEF IndexOf
<1> QED
  BY <1>1, <1>2

(***************************************************************************)
(* A title: its section's machine reads the lines below it; the machine    *)
(* that read the title waits in its state, or ends before the title when   *)
(* the section belongs further out.                                        *)
(***************************************************************************)
LEMMA SectionMachine ==
    ASSUME NEW n \in Nat, NEW D, NEW f, FrameOK(f, n, D), f.phase = "run",
           f.state \in {"Text", "Line"}, f.off >= 1,
           Len(f.ctx) = IF f.state = "Text" THEN 0 ELSE 1,
           NEW node, NEW titles, NEW then, then.k = "section"
    PROVE  LET g == Machine("Body", From(f.lines, f.off + 1), AbsOffset(f) + 1, node, titles, then)
           IN  /\ From(f.lines, f.off + 1) \in LinesOf(D)
               /\ AbsOffset(f) + 1 \in Int
               /\ LinkOK(f, g)
<1> DEFINE s == f.lines
           off == f.off
           base == f.base
           rest == From(s, off + 1)
           at == base + off + 1
           g == Machine("Body", rest, at, node, titles, then)
<1>1. s \in Seq(LineOf(D)) /\ off \in Int /\ base \in Int /\ off >= 1
  BY Zenon DEF FrameOK, LinesOf
<1>2. AbsOffset(f) + 1 = at
  BY DEF AbsOffset
<1>3. g.then = then /\ g.lines = rest
  BY DEF Machine
<1>9. g.base = at
  BY DEF Machine
<1>10. Counted(f) <=> InStep(s, base)
  BY DEF Counted
<1>11. Counted(g) <=> InStep(rest, at)
  BY <1>3, <1>9 DEF Counted
<1> HIDE DEF s, off, base, g
<1>4. off + 1 \in Nat /\ at = base + (off + 1) /\ at \in Int
  BY <1>1
<1>5. rest \in Seq(LineOf(D)) /\ (InStep(s, base) => InStep(rest, base + (off + 1)))
  BY <1>1, <1>4, FromInStep
<1>6. Counted(f) => Counted(g)
  BY <1>4, <1>5, <1>10, <1>11
<1>7. g.base = base + off + 1
  BY <1>9
<1>8. g.then.k = "section"
  BY <1>3
<1>12. LinkOK(f, g)
  BY <1>6, <1>7, <1>8 DEF LinkOK, base, off
<1> QED
  BY <1>2, <1>4, <1>5, <1>12 DEF s, off, base, g, LinesOf

\* A machine that ends before a title it has read.
LEMMA EndedBeforeTitle ==
    ASSUME NEW n, NEW D, NEW f, FrameOK(f, n, D), NEW over \in BOOLEAN,
           f.state = IF over THEN "Line" ELSE "Text",
           Len(f.ctx) = IF over THEN 1 ELSE 0,
           f.off >= IF over THEN 2 ELSE 1
    PROVE  LET g == Ended(Moved(f, IF over THEN -3 ELSE -2))
           IN  FrameOK(g, n, D) /\ Keeps(f, g) /\ TopOK(g, over)
<1> DEFINE by == IF over THEN -3 ELSE -2
           g == Ended(Moved(f, by))
           off == f.off
<1>1. /\ DOMAIN f = MachineFields /\ f.state \in TextStates
      /\ f.only \in {"", "text"} /\ f.eofcheck \in BOOLEAN
  BY Zenon DEF FrameOK, TextStates
<1>2. off \in Int
  BY Zenon DEF FrameOK
<1>3. off >= IF over THEN 2 ELSE 1
  OBVIOUS
<1> HIDE DEF by
<1>4. DOMAIN g = MachineFields /\ Keeps(f, g)
  BY <1>1, Zenon DEF Ended, Moved, Keeps, MachineFields
<1>5. g.state = f.state /\ g.phase = "eof" /\ g.only = f.only
  BY <1>1, Zenon DEF Ended, Moved, MachineFields
<1>6. g.off = off + by
  BY <1>1, Zenon DEF Ended, Moved, MachineFields
<1>7. g.ctx = f.ctx
  BY <1>1, Zenon DEF Ended, Moved, MachineFields
<1>8. g.eofcheck = f.eofcheck
  BY <1>1, Zenon DEF Ended, Moved, MachineFields
<1> HIDE DEF g, off
<1>9. g.off \in Int /\ g.off >= -1
  BY <1>2, <1>3, <1>6 DEF by
<1>10. g.ctx \in LinesOf(D) /\ Len(g.ctx) = IF over THEN 1 ELSE 0
  BY <1>7, Zenon DEF FrameOK
<1>11. Len(g.ctx) <= 1
  BY <1>10
<1>12. /\ g.state \in States /\ g.phase \in {"run", "eof", "over"} /\ g.only \in {"", "text"}
       /\ g.eofcheck \in BOOLEAN
  BY <1>1, <1>5, <1>8, Zenon DEF States
<1>13. FrameOK(g, n, D)
  BY <1>4, <1>9, <1>10, <1>11, <1>12, Changed, Zenon
<1>14. CASE over
  <2>1. g.state = "Line" /\ Len(g.ctx) = 1 /\ g.phase = "eof"
    BY <1>5, <1>10, <1>14
  <2> QED
    BY <1>4, <1>13, <1>14, <2>1 DEF TopOK, g, by
<1>15. CASE ~over
  <2>1. g.state = "Text" /\ Len(g.ctx) = 0 /\ g.phase = "eof"
    BY <1>5, <1>10, <1>15
  <2>2. g.ctx = <<>>
    BY <1>10, <2>1, EmptySeq DEF LinesOf
  <2> QED
    BY <1>4, <1>13, <1>15, <2>1, <2>2 DEF TopOK, g, by
<1> QED
  BY <1>14, <1>15

\* A title: a new section, the end of this one, or a level that is inconsistent.
LEMMA SectionStep ==
    ASSUME Stack, NEW S, NEW T, Sees(S, T),
           NEW f, FrameOK(f, Len(tree), DOMAIN doc), Keeps(Top, f), Keeps(F, f), f.phase = "run",
           NEW over \in BOOLEAN,
           f.state = IF over THEN "Line" ELSE "Text",
           Len(f.ctx) = IF over THEN 1 ELSE 0,
           f.off >= IF over THEN 2 ELSE 1,
           NEW c \in STRING, NEW of \in SUBSET (DOMAIN doc),
           NEW messages, NodesOK(messages, Len(tree) + 2, DOMAIN doc),
           Section(f, [c |-> c, over |-> over], of, messages)
    PROVE  Stack'
<1> DEFINE style == [c |-> c, over |-> over]
           level == IndexOf(memo.styles, style)
           new == level = 0 /\ Len(memo.styles) = memo.level
           mlevel == memo.level
           deeper == mlevel + 1
           more == IF new THEN Append(memo.styles, style) ELSE memo.styles
           bubble == memo.bubble \/ over
           m1 == [memo EXCEPT !.level = deeper, !.styles = more]
           m2 == [memo EXCEPT !.level = level, !.bubble = bubble]
           title == Len(tree) + 1
           two == <<Node("section", f.node, {}), Node("title", title, of)>>
           then == [Then("section", TRUE) EXCEPT !.level = mlevel]
           rest == From(f.lines, f.off + 1)
           base == AbsOffset(f) + 1
           below == Ended(Moved(f, IF over THEN -3 ELSE -2))
           none == <<>>
           lowest == <<Node("error", f.node, {})>>
           severe == <<Node("severe", f.node, of)>>
           g == BackToBody(f)
           h == [g EXCEPT !.eofcheck = TRUE]
<1>1. \/ /\ new \/ level = mlevel + 1
         /\ NestedParse(f, rest, base, NextNode, TRUE, then)
         /\ tree' = tree \o two \o messages
         /\ memo' = m1
         /\ UNCHANGED <<doc, error, dropped>>
      \/ /\ level # 0 /\ level <= mlevel
         /\ Goes(below, lowest) \/ Goes(below, none)
         /\ memo' = m2
         /\ UNCHANGED <<doc, cache, error, dropped>>
      \/ Continue(h, severe)
  BY DEF Section, Message, NextNode
<1>2. /\ frames # <<>> /\ memo.bubble = FALSE /\ error = NoError
      /\ memo \in MemoType /\ cache \in Seq(BOOLEAN) /\ dropped \subseteq DOMAIN doc
  BY Seen, Zenon DEF Stack
<1>3. memo.styles \in Seq(Style) /\ mlevel \in Nat /\ mlevel <= Len(memo.styles)
  BY DEF Stack, MemoType
<1>4. style \in Style
  BY DEF Style
<1> HIDE DEF style
<1>5. level \in 0 .. Len(memo.styles)
  BY <1>3, IndexPart
<1>6. Len(tree) \in Nat /\ F.node \in 0 .. Len(tree) /\ {} \in SUBSET (DOMAIN doc)
      /\ TreeOK(tree, DOMAIN doc) /\ NextNode = Len(tree) + 1
  BY SeenNode
<1>7. f.node = F.node
  BY DEF Keeps
<1>8. f.node \in 0 .. Len(tree)
  BY <1>6, <1>7
<1>9. NodesOK(none, Len(tree), DOMAIN doc)
  BY <1>6, NoNodes
<1>10. NodesOK(lowest, Len(tree), DOMAIN doc)
  BY <1>6, <1>8, OneNode
<1>11. NodesOK(severe, Len(tree), DOMAIN doc)
  BY <1>6, <1>8, OneNode
<1>12. CASE Continue(h, severe)
  <2>1. FrameOK(g, Len(tree), DOMAIN doc) /\ Keeps(f, g) /\ TopOK(g, FALSE)
    BY BodyMachine
  <2> HIDE DEF g
  <2>2. FrameOK(h, Len(tree), DOMAIN doc) /\ Keeps(g, h) /\ TopOK(h, FALSE)
    BY <1>2, <2>1, KeptMachine
  <2> HIDE DEF h
  <2>3. Keeps(Top, h)
    BY <2>1, <2>2, KeptTwice
  <2> HIDE DEF severe
  <2> QED
    BY <1>2, <1>11, <1>12, <2>2, <2>3, Continuing
<1>13. ASSUME Goes(below, lowest) \/ Goes(below, none), level # 0, level <= mlevel, memo' = m2,
              UNCHANGED <<doc, cache, error, dropped>>
       PROVE  Stack'
  <2>1. FrameOK(below, Len(tree), DOMAIN doc) /\ Keeps(f, below) /\ TopOK(below, over)
    BY EndedBeforeTitle
  <2>2. level \in Nat /\ bubble \in BOOLEAN /\ bubble = over
    BY <1>2, <1>5
  <2> HIDE DEF level, bubble, below, lowest, none
  <2>30. memo \in MemoType /\ level \in Nat /\ bubble \in BOOLEAN
    BY <1>2, <2>2
  <2>3. /\ m2 \in MemoType /\ m2.level = level /\ m2.styles = memo.styles
        /\ m2.bubble = bubble /\ m2.minimum = memo.minimum
    BY ONLY <2>30 DEF MemoType
  <2> HIDE DEF m2
  <2>4. /\ memo' \in MemoType /\ memo'.bubble = over /\ memo'.minimum = memo.minimum
    BY <1>13, <2>2, <2>3
  <2>5. memo'.level <= Len(memo'.styles)
    <3>1. memo'.level = level /\ memo'.styles = memo.styles
      BY <1>13, <2>3
    <3>2. Len(memo.styles) \in Nat
      BY <1>3, LenProperties
    <3>3. level <= Len(memo.styles)
      BY <1>3, <1>13, <2>2, <3>2
    <3> QED
      BY <3>1, <3>3
  <2>6. Keeps(Top, below) /\ TopOK(below, memo'.bubble)
    BY <2>1, <2>4, KeptTwice
  <2>7. /\ doc' = doc /\ cache' \in Seq(BOOLEAN) /\ error' = error /\ dropped' \subseteq DOMAIN doc
    BY <1>2, <1>13
  <2>8. CASE Goes(below, lowest)
    BY <1>2, <1>10, <2>1, <2>4, <2>5, <2>6, <2>7, <2>8, Going
  <2>9. CASE Goes(below, none)
    BY <1>2, <1>9, <2>1, <2>4, <2>5, <2>6, <2>7, <2>9, Going
  <2> QED
    BY <1>13, <2>8, <2>9
<1>14. ASSUME new \/ level = mlevel + 1, NestedParse(f, rest, base, NextNode, TRUE, then),
              tree' = tree \o two \o messages, memo' = m1, UNCHANGED <<doc, error, dropped>>
       PROVE  Stack'
  <2>1. title \in 0 .. Len(tree) + 1
    BY <1>6
  <2> HIDE DEF title
  <2>2. NodesOK(two, Len(tree), DOMAIN doc) /\ Len(two) = 2
    BY <1>6, <1>8, <2>1, TwoNodes
  <2> HIDE DEF two
  <2>3. NodesOK(messages, Len(tree) + Len(two), DOMAIN doc)
    BY <2>2
  <2>4. TreeOK(tree, DOMAIN doc) /\ NodesOK(two, Len(tree), DOMAIN doc)
    BY <1>6, <2>2
  <2>5. /\ tree \o two \o messages = tree \o (two \o messages)
        /\ NodesOK(two \o messages, Len(tree), DOMAIN doc)
        /\ Len(two \o messages) = Len(two) + Len(messages) /\ Len(messages) \in Nat
    BY ONLY <2>3, <2>4, JoinedNodes
  <2> DEFINE nodes == two \o messages
             n == Len(tree) + Len(nodes)
  <2>6. tree' = tree \o nodes /\ NodesOK(nodes, Len(tree), DOMAIN doc)
        /\ Len(nodes) \in Nat /\ Len(nodes) >= 2
    BY <1>14, <2>2, <2>5
  <2> HIDE DEF nodes
  <2>7. n \in Nat /\ NextNode \in 0 .. n
    BY <1>6, <2>6
  <2>8. then.k = "section" /\ then.level = mlevel /\ DOMAIN then = ThenFields
    BY DEF Then, ThenFields
  <2>9. then.node = 0 /\ then.of = {}
    BY DEF Then
  <2> HIDE DEF then, n, mlevel
  <2>10. ThenOK(then, n, DOMAIN doc)
    <3>1. then.node \in 0 .. n /\ then.level \in Int /\ then.level \in Nat
      BY <1>3, <2>7, <2>8, <2>9
    <3> QED
      BY <2>8, <2>9, <3>1 DEF ThenOK
  <2>11. /\ f.state \in {"Text", "Line"} /\ Len(f.ctx) = IF f.state = "Text" THEN 0 ELSE 1
    OBVIOUS
  <2>12. f.off >= 1
    <3> DEFINE off == f.off
    <3>1. off \in Int /\ off >= IF over THEN 2 ELSE 1
      BY Zenon DEF FrameOK
    <3> HIDE DEF off
    <3>2. off >= 1
      BY <3>1
    <3> QED
      BY <3>2 DEF off
  <2>13. /\ rest \in LinesOf(DOMAIN doc) /\ base \in Int
         /\ LinkOK(f, Machine("Body", rest, base, NextNode, TRUE, then))
    BY <1>6, <2>8, <2>11, <2>12, SectionMachine
  <2>14. more \in Seq(Style) /\ deeper \in Nat /\ deeper <= Len(more)
    <3> DEFINE styles == memo.styles
    <3>1. styles \in Seq(Style) /\ Len(styles) \in Nat /\ level \in 0 .. Len(styles)
      BY <1>3, <1>5, LenProperties
    <3>2. (level = 0 /\ Len(styles) = mlevel) \/ level = mlevel + 1
      BY <1>14 DEF mlevel
    <3>3. more = IF level = 0 /\ Len(styles) = mlevel THEN Append(styles, style) ELSE styles
      BY DEF mlevel
    <3>4. deeper = mlevel + 1 /\ mlevel \in Nat
      BY <1>3 DEF mlevel
    <3>5. /\ Append(styles, style) \in Seq(Style) /\ Len(Append(styles, style)) = Len(styles) + 1
      BY <1>4, <3>1, AppendProperties
    <3> HIDE DEF styles, more, deeper, level
    <3> QED
      BY <3>1, <3>2, <3>3, <3>4, <3>5
  <2> HIDE DEF more, deeper, rest, base, level
  <2>30. memo \in MemoType /\ more \in Seq(Style) /\ deeper \in Nat
    BY <1>2, <2>14
  <2>15. /\ m1 \in MemoType /\ m1.level = deeper /\ m1.styles = more
         /\ m1.bubble = memo.bubble /\ m1.minimum = memo.minimum
    BY ONLY <2>30 DEF MemoType
  <2> HIDE DEF m1
  <2>16. /\ memo' \in MemoType /\ memo'.bubble = FALSE /\ memo'.minimum = memo.minimum
    BY <1>2, <1>14, <2>15
  <2>17. memo'.level <= Len(memo'.styles)
    BY <1>14, <2>14, <2>15
  <2>21. doc' = doc /\ error' = error /\ dropped' = dropped
    BY <1>14
  <2>22. NestedParse(f, rest, base, NextNode, TRUE, then)
    BY <1>14
  <2>18. /\ doc' = doc /\ error' = error /\ dropped' \subseteq DOMAIN doc 
    BY <1>2, <2>21
  <2>19. memo'.minimum = IF then.k = "directive" /\ then.level = 1
                         THEN Append(memo.minimum, 0) ELSE memo.minimum
    BY <2>8, <2>16
  <2>23. 0 \in Int
    OBVIOUS
  <2>20. /\ NextNode \in 0 .. Len(tree) + Len(nodes)
         /\ ThenOK(then, Len(tree) + Len(nodes), DOMAIN doc)
    BY <2>7, <2>10 DEF n
  <2> QED
    BY <1>2, <2>6, <2>13, <2>16, <2>17, <2>18, <2>19, <2>20, <2>22, <2>23, Nesting
<1> QED
  BY <1>1, <1>12, <1>13, <1>14

\* A title with an underline.
LEMMA UnderlineStep ==
    ASSUME Stack, Underline
    PROVE  Stack'
<1> DEFINE S == {"Text"}
           T == {"underline"}
           rule == RuleOf(Line)
           short == Width(F.ctx[1]) > rule.u
           of == NumbersOf(<<F.ctx[1], Line>>)
           none == <<>>
           info == <<Node("info", F.node, {})>>
           warned == IF short THEN <<Node("warning", F.node, of)>> ELSE <<>>
           messages == IF short THEN <<Node("warning", NextNode, of)>> ELSE <<>>
           severe == Append(warned, Node("severe", F.node, of))
           g == BackToBody(F)
           f == [F EXCEPT !.ctx = <<>>]
           c == rule.c
           over == FALSE
<1>1. Sees(S, T)
  BY DEF Underline
<1>2. \/ Continue(Correct(F), info) \/ Continue(Correct(F), none) \/ Continue(g, severe)
      \/ Section(f, [c |-> c, over |-> over], of, messages)
  BY DEF Underline, Message
<1>3. S \subseteq TextStates
  BY DEF TextStates
<1>4. F.state \in S /\ frames # <<>> /\ memo.bubble = FALSE /\ FrameOK(F, Len(tree), DOMAIN doc)
      /\ Keeps(Top, F) /\ F.phase = "run" /\ F.only = "" /\ Line \in LineOf(DOMAIN doc)
  BY <1>1, Seen, Zenon
<1>5. F.state = "Text"
  BY <1>4, Zenon
<1>6. Sees(S, {"underline"})
  BY <1>1
<1> HIDE DEF S, T
<1>7. F.state \in TextStates
  BY <1>3, <1>4, Zenon
<1>8. F.off >= 1 /\ Len(F.ctx) = 1
  BY <1>1, <1>7, SeenAt
<1>9. c \in STRING
  BY <1>6, <1>7, SeenRule
<1>10. of \in SUBSET (DOMAIN doc)
  <2>1. F.ctx \in Seq(LineOf(DOMAIN doc))
    BY <1>4, Zenon DEF FrameOK, LinesOf
  <2>2. 1 \in DOMAIN F.ctx
    BY <1>8, <2>1
  <2>3. F.ctx[1] \in LineOf(DOMAIN doc)
    BY <2>1, <2>2
  <2>4. <<F.ctx[1], Line>> \in LinesOf(DOMAIN doc)
    <3> DEFINE first == F.ctx[1]
               line == Line
               D == DOMAIN doc
    <3>1. first \in LineOf(D) /\ line \in LineOf(D)
      BY <1>4, <2>3, Zenon
    <3> HIDE DEF first, line, D
    <3>2. <<first, line>> \in Seq(LineOf(D))
      BY <3>1
    <3> QED
      BY <3>2 DEF first, line, D, LinesOf
  <2> QED
    BY <2>4, NumbersInFile
<1>11. /\ Len(tree) \in Nat /\ F.node \in 0 .. Len(tree) /\ {} \in SUBSET (DOMAIN doc)
       /\ NextNode = Len(tree) + 1
  BY <1>1, SeenNode
<1> HIDE DEF rule, short, of, c
<1>12. NodesOK(none, Len(tree), DOMAIN doc)
  BY <1>11, NoNodes
<1>13. NodesOK(info, Len(tree), DOMAIN doc)
  BY <1>11, OneNode
<1>14. NodesOK(warned, Len(tree), DOMAIN doc)
  BY <1>10, <1>11, MaybeNode
<1>15. NodesOK(messages, Len(tree) + 2, DOMAIN doc)
  <2>1. Len(tree) + 2 \in Nat /\ NextNode \in 0 .. Len(tree) + 2
    BY <1>11
  <2> QED
    BY <1>10, <2>1, MaybeNode
<1> HIDE DEF none, info, warned, messages
<1>16. NodesOK(severe, Len(tree), DOMAIN doc)
  <2> DEFINE one == <<Node("severe", F.node, of)>>
  <2>1. NodesOK(one, Len(tree), DOMAIN doc)
    BY <1>10, <1>11, OneNode
  <2>2. severe = warned \o one
    BY <1>14, AppendedNode
  <2> HIDE DEF one, severe
  <2>3. Len(warned) \in Nat
    BY <1>14, LenProperties DEF NodesOK, IsSeq
  <2>4. Len(tree) <= Len(tree) + Len(warned)
    BY <1>11, <2>3
  <2>5. NodesOK(warned \o one, Len(tree), DOMAIN doc)
    BY <1>11, <1>14, <2>1, <2>4, MoreJoined
  <2> QED
    BY <2>2, <2>5
<1> HIDE DEF severe
<1>17. CASE Continue(Correct(F), info)
  BY <1>1, <1>13, <1>17, Correcting
<1>18. CASE Continue(Correct(F), none)
  BY <1>1, <1>12, <1>18, Correcting
<1>19. CASE Continue(g, severe)
  <2>1. FrameOK(g, Len(tree), DOMAIN doc) /\ Keeps(F, g) /\ TopOK(g, FALSE)
    BY <1>4, BodyMachine, Zenon
  <2> HIDE DEF g
  <2>2. Keeps(Top, g)
    BY <1>4, <2>1, KeptTwice, Zenon
  <2> QED
    BY <1>4, <1>16, <1>19, <2>1, <2>2, Continuing, Zenon
<1>20. ASSUME Section(f, [c |-> c, over |-> over], of, messages)
       PROVE  Stack'
  <2>1. f.state = "Text" /\ f.phase = "run" /\ f.only = ""
    BY <1>4, <1>5, Zenon DEF FrameOK, MachineFields
  <2>2. DOMAIN f = MachineFields /\ Keeps(F, f)
    BY <1>4, Zenon DEF FrameOK, MachineFields, Keeps
  <2>3. f.ctx = <<>>
    BY <1>4, Zenon DEF FrameOK, MachineFields
  <2>4. f.off = F.off
    BY <1>4, Zenon DEF FrameOK, MachineFields
  <2>5. f.eofcheck = F.eofcheck
    BY <1>4, Zenon DEF FrameOK, MachineFields
  <2> HIDE DEF f
  <2>6. f.ctx \in LinesOf(DOMAIN doc) /\ Len(f.ctx) = 0
    BY <2>3 DEF LinesOf
  <2>7. f.off \in Int /\ f.off >= 1
    BY <1>4, <1>8, <2>4, Zenon DEF FrameOK
  <2>8. f.off >= -1
    BY <2>7
  <2>9. f.eofcheck \in BOOLEAN
    BY <1>4, <2>5, Zenon DEF FrameOK
  <2>10. f.state \in States /\ f.phase \in {"run", "eof", "over"} /\ f.only \in {"", "text"}
    BY <2>1, Zenon DEF States, TextStates
  <2>11. Len(f.ctx) <= 1
    BY <2>6
  <2>12. FrameOK(f, Len(tree), DOMAIN doc)
    BY <1>4, <2>2, <2>6, <2>7, <2>8, <2>9, <2>10, <2>11, Changed, Zenon
  <2>13. Keeps(Top, f)
    BY <1>4, <2>2, KeptTwice, Zenon
  <2>14. over \in BOOLEAN /\ ~over
    OBVIOUS
  <2> HIDE DEF over
  <2>15. f.state = (IF over THEN "Line" ELSE "Text")
    BY <2>1, <2>14, Zenon
  <2>16. Len(f.ctx) = (IF over THEN 1 ELSE 0)
    BY <2>6, <2>14
  <2>17. f.off >= (IF over THEN 2 ELSE 1)
    BY <2>7, <2>14
  <2> QED
    BY <1>1, <1>9, <1>10, <1>15, <1>20, <2>1, <2>2, <2>12, <2>13, <2>14, <2>15, <2>16, <2>17,
       SectionStep, Zenon
<1> QED
  BY <1>2, <1>17, <1>18, <1>19, <1>20

\* A title with an overline and an underline.
LEMMA LineTextStep ==
    ASSUME Stack, LineText
    PROVE  Stack'
<1> DEFINE S == {"Line"}
           T == {"text", "indent"}
           m == Moved(F, 1)
           two == 2
           rule == RuleOf(F.ctx[1])
           of == NumbersOf(F.ctx \o Slice(F.lines, F.off, F.off + 2))
           matches == /\ HasLine(m, m.off)
                      /\ IsRule(At(m.lines, m.off))
                      /\ RuleOf(At(m.lines, m.off)).c = rule.c
           wide == Width(Line) > rule.u
           messages == IF wide THEN <<Node("warning", NextNode, of)>> ELSE <<>>
           info == <<Node("info", F.node, {})>>
           severe == <<Node("severe", F.node, of)>>
           t == AsText(m, two)
           g == BackToBody(m)
           f == [m EXCEPT !.eofcheck = FALSE]
           c == rule.c
           over == TRUE
<1>1. Sees(S, T)
  BY DEF LineText
<1>2. \/ Continue(t, info) \/ Continue(g, severe)
      \/ matches /\ Section(f, [c |-> c, over |-> over], of, messages)
  BY DEF LineText, Message
<1>3. S \subseteq TextStates
  BY DEF TextStates
<1>4. F.state \in S /\ frames # <<>> /\ memo.bubble = FALSE /\ FrameOK(F, Len(tree), DOMAIN doc)
      /\ Keeps(Top, F) /\ F.phase = "run" /\ F.only = "" /\ Line \in LineOf(DOMAIN doc)
  BY <1>1, Seen, Zenon
<1>5. F.state = "Line"
  BY <1>4, Zenon
<1> HIDE DEF S, T
<1>6. F.state \in TextStates
  BY <1>3, <1>4, Zenon
<1>7. F.off >= 1 /\ Len(F.ctx) = 1
  BY <1>1, <1>6, SeenAt
<1>8. F.off \in Nat
  BY <1>1, SeenAt
<1>9. DOMAIN m = MachineFields /\ Keeps(F, m)
  BY <1>4, Zenon DEF FrameOK, MachineFields, Keeps, Moved
<1>10. m.state = "Line" /\ m.phase = "run" /\ m.only = ""
  BY <1>4, <1>5, Zenon DEF FrameOK, MachineFields, Moved
<1>11. m.ctx = F.ctx
  BY <1>4, Zenon DEF FrameOK, MachineFields, Moved
<1>12. m.off = F.off + 1
  BY <1>4, Zenon DEF FrameOK, MachineFields, Moved
<1>13. m.eofcheck = F.eofcheck
  BY <1>4, Zenon DEF FrameOK, MachineFields, Moved
<1> HIDE DEF m
<1>14. m.off \in Nat /\ m.off >= 2
  BY <1>7, <1>8, <1>12
<1>15. m.off \in Int /\ m.off >= -1
  BY <1>14
<1>16. m.ctx \in LinesOf(DOMAIN doc) /\ F.ctx \in LinesOf(DOMAIN doc)
  BY <1>4, <1>11, Zenon DEF FrameOK
<1>17. Len(m.ctx) = 1
  BY <1>7, <1>11
<1>18. Len(m.ctx) <= 1
  BY <1>17
<1>19. /\ m.state \in States /\ m.phase \in {"run", "eof", "over"} /\ m.only \in {"", "text"}
  BY <1>10, Zenon DEF States, TextStates
<1>20. m.eofcheck \in BOOLEAN
  BY <1>4, <1>13, Zenon DEF FrameOK
<1>21. FrameOK(m, Len(tree), DOMAIN doc)
  BY <1>4, <1>9, <1>15, <1>16, <1>18, <1>19, <1>20, Changed, Zenon
<1>22. of \in SUBSET (DOMAIN doc)
  <2>1. Slice(F.lines, F.off, F.off + 2) \in LinesOf(DOMAIN doc)
    <3>1. F.off + 2 \in Int
      BY <1>8
    <3> QED
      BY <1>1, <1>8, <3>1, SeenNumbers
  <2>2. F.ctx \o Slice(F.lines, F.off, F.off + 2) \in LinesOf(DOMAIN doc)
    BY <1>16, <2>1, ConcatProperties DEF LinesOf
  <2> QED
    BY <2>2, NumbersInFile
<1>23. /\ Len(tree) \in Nat /\ F.node \in 0 .. Len(tree) /\ {} \in SUBSET (DOMAIN doc)
       /\ NextNode = Len(tree) + 1
  BY <1>1, SeenNode
<1> HIDE DEF wide, of
<1>24. NodesOK(info, Len(tree), DOMAIN doc)
  BY <1>23, OneNode
<1>25. NodesOK(severe, Len(tree), DOMAIN doc)
  BY <1>22, <1>23, OneNode
<1>26. NodesOK(messages, Len(tree) + 2, DOMAIN doc)
  <2>1. Len(tree) + 2 \in Nat /\ NextNode \in 0 .. Len(tree) + 2
    BY <1>23
  <2> QED
    BY <1>22, <2>1, MaybeNode
<1> HIDE DEF info, severe, messages
<1>27. Keeps(Top, m)
  BY <1>4, <1>9, KeptTwice, Zenon
<1>28. CASE Continue(t, info)
  <2>1. two \in Nat /\ m.off >= two
    BY <1>14
  <2> HIDE DEF two
  <2>2. FrameOK(t, Len(tree), DOMAIN doc) /\ Keeps(m, t) /\ TopOK(t, FALSE)
    BY <1>10, <1>21, <2>1, AsTextPart, Zenon
  <2> HIDE DEF t
  <2>3. Keeps(Top, t)
    BY <1>27, <2>2, KeptTwice
  <2> QED
    BY <1>4, <1>24, <1>28, <2>2, <2>3, Continuing, Zenon
<1>29. CASE Continue(g, severe)
  <2>1. FrameOK(g, Len(tree), DOMAIN doc) /\ Keeps(m, g) /\ TopOK(g, FALSE)
    BY <1>10, <1>21, BodyMachine, Zenon
  <2> HIDE DEF g
  <2>2. Keeps(Top, g)
    BY <1>27, <2>1, KeptTwice
  <2> QED
    BY <1>4, <1>25, <1>29, <2>1, <2>2, Continuing, Zenon
<1>30. ASSUME matches, Section(f, [c |-> c, over |-> over], of, messages)
       PROVE  Stack'
  <2>1. c \in STRING
    <3> DEFINE line == At(m.lines, m.off)
    <3>1. m.lines \in LinesOf(DOMAIN doc) /\ m.off < Len(m.lines)
      BY <1>21, <1>30, Zenon DEF FrameOK, HasLine
    <3>2. line \in LineOf(DOMAIN doc)
      BY <1>14, <3>1, LineAt
    <3>3. IsRule(line) /\ RuleOf(line).c = c
      BY <1>30
    <3> HIDE DEF line
    <3>4. RuleOf(line) \in MarkType
      BY <3>2, <3>3, RuleMark
    <3>5. RuleOf(line).c \in STRING
      BY <3>4 DEF MarkType
    <3> QED
      BY <3>3, <3>5
  <2> HIDE DEF rule, c
  <2>2. FrameOK(f, Len(tree), DOMAIN doc) /\ Keeps(m, f)
    <3>1. cache \in Seq(BOOLEAN)
      BY DEF Stack
    <3> DEFINE no == FALSE
    <3>2. no \in BOOLEAN
      OBVIOUS
    <3> HIDE DEF no
    <3>3. FrameOK([m EXCEPT !.eofcheck = no], Len(tree), DOMAIN doc) /\ Keeps(m, [m EXCEPT !.eofcheck = no])
      BY <1>21, <3>1, <3>2, KeptMachine
    <3> QED
      BY <3>3 DEF no
  <2>3. f.state = "Line" /\ f.phase = "run"
    BY <1>9, <1>10, Zenon DEF MachineFields
  <2>4. f.ctx = m.ctx
    BY <1>9 DEF MachineFields
  <2>5. f.off = m.off
    BY <1>9 DEF MachineFields
  <2> HIDE DEF f
  <2>6. Keeps(Top, f) /\ Keeps(F, f)
    BY <1>9, <1>27, <2>2, KeptTwice
  <2>7. over \in BOOLEAN /\ over
    OBVIOUS
  <2> HIDE DEF over
  <2>8. f.state = (IF over THEN "Line" ELSE "Text")
    BY <2>3, <2>7
  <2>9. Len(f.ctx) = (IF over THEN 1 ELSE 0)
    BY <1>17, <2>4, <2>7
  <2>10. f.off >= (IF over THEN 2 ELSE 1)
    BY <1>14, <2>5, <2>7
  <2> QED
    BY <1>1, <1>22, <1>26, <1>30, <2>1, <2>2, <2>3, <2>6, <2>7, <2>8, <2>9, <2>10, SectionStep
<1> QED
  BY <1>2, <1>28, <1>29, <1>30

-----------------------------------------------------------------------------
(* The end of a machine's input, and of the machine. *)

\* The machine that reads, when it has gone on to the next line.
LEMMA NextLine ==
    ASSUME Stack, frames # <<>>, Top.phase = "run"
    PROVE  /\ FrameOK(F, Len(tree), DOMAIN doc) /\ Keeps(Top, F)
           /\ F.phase = "run" /\ F.state = Top.state /\ memo.bubble = FALSE
           /\ F.state \in TextStates => F.off >= 1 /\ Len(F.ctx) = 1
<1> DEFINE off == Top.off
           ctx == Top.ctx
<1>1. FrameOK(Top, Len(tree), DOMAIN doc) /\ TopOK(Top, memo.bubble) /\ memo \in MemoType
  BY Tops DEF Stack
<1>2. /\ DOMAIN Top = MachineFields /\ Top.state \in States /\ Top.eofcheck \in BOOLEAN
      /\ Top.phase = "run"
  BY <1>1, Zenon DEF FrameOK
<1>3. off \in Int /\ off >= -1
  BY <1>1, Zenon DEF FrameOK
<1>4. ctx \in LinesOf(DOMAIN doc)
  BY <1>1, Zenon DEF FrameOK
<1>5. Top.state \in TextStates => Len(ctx) <= 1
  BY <1>1, Zenon DEF FrameOK
<1>6. DOMAIN F = MachineFields /\ Keeps(Top, F)
  BY <1>2 DEF F, Moved, Keeps, MachineFields
<1>7. F.state = Top.state /\ F.phase = "run" /\ F.only = ""
  BY <1>2 DEF F, Moved, MachineFields
<1>8. F.off = off + 1
  BY <1>2 DEF F, Moved, MachineFields
<1>9. F.ctx = ctx
  BY <1>2 DEF F, Moved, MachineFields
<1>10. F.eofcheck = Top.eofcheck
  BY <1>2 DEF F, Moved, MachineFields
<1>11. Top.state \in TextStates => off >= 0 /\ Len(ctx) = 1
  BY <1>1, <1>2 DEF TopOK
<1>12. memo.bubble = FALSE
  <2>1. memo.bubble \in BOOLEAN
    BY <1>1 DEF MemoType
  <2>2. ~memo.bubble
    BY <1>1, <1>2 DEF TopOK
  <2> QED
    BY <2>1, <2>2
<1> HIDE DEF off, ctx
<1>13. F.off \in Int /\ F.off >= -1
  BY <1>3, <1>8
<1>14. F.ctx \in LinesOf(DOMAIN doc) /\ (F.state \in TextStates => Len(F.ctx) <= 1)
  BY <1>4, <1>5, <1>7, <1>9, Zenon
<1>15. /\ F.state \in States /\ F.phase \in {"run", "eof", "over"} /\ F.only \in {"", "text"}
       /\ F.eofcheck \in BOOLEAN
  BY <1>2, <1>7, <1>10, Zenon
<1>16. FrameOK(F, Len(tree), DOMAIN doc)
  BY <1>1, <1>6, <1>13, <1>14, <1>15, Changed, Zenon
<1>17. F.state \in TextStates => F.off >= 1 /\ Len(F.ctx) = 1
  <2> HAVE F.state \in TextStates
  <2>1. off >= 0 /\ Len(ctx) = 1
    BY <1>7, <1>11, Zenon
  <2>2. F.off >= 1
    BY <1>3, <1>8, <2>1
  <2> QED
    BY <1>9, <2>1, <2>2
<1> QED
  BY <1>6, <1>7, <1>12, <1>16, <1>17, Zenon

\* A machine of text that has come to the end of its lines.
LEMMA EofMachine ==
    ASSUME NEW n, NEW D, NEW f, FrameOK(f, n, D), f.state \in TextStates, f.off >= 1,
           f.state = "Line" => Len(f.ctx) = 1, NEW bubble, ~bubble
    PROVE  FrameOK(Ended(f), n, D) /\ Keeps(f, Ended(f)) /\ TopOK(Ended(f), bubble)
<1> DEFINE g == Ended(f)
<1>1. /\ DOMAIN f = MachineFields /\ f.state \in States
      /\ f.only \in {"", "text"} /\ f.eofcheck \in BOOLEAN
  BY Zenon DEF FrameOK
<1>2. DOMAIN g = MachineFields /\ Keeps(f, g)
  BY <1>1, Zenon DEF Ended, Keeps, MachineFields
<1>3. g.state = f.state /\ g.phase = "eof" /\ g.only = f.only
  BY <1>1, Zenon DEF Ended, MachineFields
<1>4. g.off = f.off
  BY <1>1, Zenon DEF Ended, MachineFields
<1>5. g.ctx = f.ctx
  BY <1>1, Zenon DEF Ended, MachineFields
<1>6. g.eofcheck = f.eofcheck
  BY <1>1, Zenon DEF Ended, MachineFields
<1> HIDE DEF g
<1>7. g.off \in Int /\ g.off >= 1
  BY <1>4, Zenon DEF FrameOK
<1>8. g.off >= -1 /\ g.off >= 0
  BY <1>7
<1>9. g.ctx \in LinesOf(D) /\ (g.state = "Line" => Len(g.ctx) = 1)
  BY <1>3, <1>5, Zenon DEF FrameOK
<1>10. Len(g.ctx) <= 1
  BY <1>5, Zenon DEF FrameOK
<1>11. /\ g.state \in States /\ g.phase \in {"run", "eof", "over"} /\ g.only \in {"", "text"}
       /\ g.eofcheck \in BOOLEAN
  BY <1>1, <1>3, <1>6, Zenon
<1>12. FrameOK(g, n, D)
  BY <1>2, <1>7, <1>8, <1>9, <1>10, <1>11, Changed, Zenon
<1>13. g.state \in {"Text", "Definition", "Line"}
  BY <1>3 DEF TextStates
<1>14. TopOK(g, bubble)
  BY <1>3, <1>7, <1>8, <1>9, <1>13 DEF TopOK
<1> QED
  BY <1>2, <1>12, <1>14 DEF g

\* No line is left.
LEMMA EndOfInputStep ==
    ASSUME Stack, EndOfInput
    PROVE  Stack'
<1> DEFINE none == <<>>
<1>1. frames # <<>> /\ Top.phase = "run" /\ Continue(Ended(F), none)
  BY DEF EndOfInput
<1>2. /\ FrameOK(F, Len(tree), DOMAIN doc) /\ Keeps(Top, F)
      /\ F.phase = "run" /\ memo.bubble = FALSE
      /\ F.state \in TextStates => F.off >= 1 /\ Len(F.ctx) = 1
  BY <1>1, NextLine
<1>3. NodesOK(none, Len(tree), DOMAIN doc)
  BY <1>1, Tops, NoNodes
<1> HIDE DEF none
<1>4. CASE F.state \notin TextStates
  BY <1>1, <1>2, <1>3, <1>4, Ending
<1>5. CASE F.state \in TextStates
  <2> DEFINE f == Ended(F)
  <2>1. FrameOK(f, Len(tree), DOMAIN doc) /\ Keeps(F, f) /\ TopOK(f, memo.bubble)
    BY <1>2, <1>5, EofMachine
  <2>2. Continue(f, none)
    BY <1>1
  <2> HIDE DEF f
  <2>3. Keeps(Top, f)
    BY <1>2, <2>1, KeptTwice
  <2> QED
    BY <1>1, <1>3, <2>1, <2>2, <2>3, Continuing
<1> QED
  BY <1>4, <1>5

\* A machine that has ended.
LEMMA OverMachine ==
    ASSUME NEW n, NEW D, NEW f, FrameOK(f, n, D)
    PROVE  FrameOK(Over(f), n, D) /\ Keeps(f, Over(f)) /\ TopOK(Over(f), FALSE)
<1> DEFINE g == Over(f)
<1>1. /\ DOMAIN f = MachineFields /\ f.state \in States
      /\ f.only \in {"", "text"} /\ f.eofcheck \in BOOLEAN
  BY Zenon DEF FrameOK
<1>2. DOMAIN g = MachineFields /\ Keeps(f, g)
  BY <1>1, Zenon DEF Over, Keeps, MachineFields
<1>3. g.state = f.state /\ g.phase = "over" /\ g.only = f.only
  BY <1>1, Zenon DEF Over, MachineFields
<1>4. g.off = f.off
  BY <1>1, Zenon DEF Over, MachineFields
<1>5. g.ctx = f.ctx
  BY <1>1, Zenon DEF Over, MachineFields
<1>6. g.eofcheck = f.eofcheck
  BY <1>1, Zenon DEF Over, MachineFields
<1> HIDE DEF g
<1>7. g.off \in Int /\ g.off >= -1
  BY <1>4, Zenon DEF FrameOK
<1>8. g.ctx \in LinesOf(D)
  BY <1>5, Zenon DEF FrameOK
<1>9. g.state \in TextStates => Len(g.ctx) <= 1
  BY <1>3, <1>5, Zenon DEF FrameOK
<1>10. /\ g.state \in States /\ g.phase \in {"run", "eof", "over"} /\ g.only \in {"", "text"}
       /\ g.eofcheck \in BOOLEAN
  BY <1>1, <1>3, <1>6, Zenon
<1>11. FrameOK(g, n, D)
  BY <1>2, <1>7, <1>8, <1>9, <1>10, Changed, Zenon
<1>12. TopOK(g, FALSE)
  BY <1>3 DEF TopOK
<1> QED
  BY <1>2, <1>11, <1>12 DEF g

\* A paragraph at the end of the lines.
LEMMA TextEofStep ==
    ASSUME Stack, TextEof
    PROVE  Stack'
<1> DEFINE ctx == Top.ctx
           up == Top.node
           none == <<>>
           l == Literal(Top, ctx)
           nodes == l.nodes
           a == Paragraph(ctx, up)
           f == Over(Top)
           g == Over(l.f)
<1>1. /\ frames # <<>> /\ Top.phase = "eof" /\ Top.state = "Text"
      /\ Continue(f, none) \/ (ctx # <<>> /\ Continue(g, a \o nodes))
  BY DEF TextEof, InEof
<1>2. /\ FrameOK(Top, Len(tree), DOMAIN doc) /\ TopOK(Top, memo.bubble)
      /\ Len(tree) \in Nat
  BY <1>1, Tops
<1>3. memo.bubble = FALSE
  <2>1. memo.bubble \in BOOLEAN
    BY DEF Stack, MemoType
  <2>2. ~memo.bubble
    BY <1>1, <1>2 DEF TopOK
  <2> QED
    BY <2>1, <2>2
<1>4. ctx \in LinesOf(DOMAIN doc) /\ up \in 0 .. Len(tree)
  BY <1>2, Zenon DEF FrameOK
<1>5. NodesOK(none, Len(tree), DOMAIN doc)
  BY <1>2, NoNodes
<1>6. CASE Continue(f, none)
  <2>1. FrameOK(f, Len(tree), DOMAIN doc) /\ Keeps(Top, f) /\ TopOK(f, FALSE)
    BY <1>2, OverMachine
  <2> HIDE DEF f, none
  <2> QED
    BY <1>1, <1>3, <1>5, <1>6, <2>1, Continuing
<1>7. ASSUME ctx # <<>>, Continue(g, a \o nodes)
      PROVE  Stack'
  <2>1. Top.off \in Nat
    <3> DEFINE off == Top.off
    <3>1. off \in Int
      BY <1>2, Zenon DEF FrameOK
    <3>2. off >= 0
      BY <1>1, <1>2, <1>7 DEF TopOK
    <3> HIDE DEF off
    <3>3. off \in Nat
      BY <3>1, <3>2
    <3> QED
      BY <3>3 DEF off
  <2>2. NodesOK(a, Len(tree), DOMAIN doc)
    BY <1>2, <1>4, ParagraphNodes
  <2> HIDE DEF ctx, a
  <2>3. /\ FrameOK(l.f, Len(tree), DOMAIN doc) /\ Keeps(Top, l.f)
        /\ NodesOK(nodes, Len(tree), DOMAIN doc)
    BY <1>1, <1>2, <1>4, <2>1, LiteralPart
  <2> DEFINE h == l.f
  <2>4. FrameOK(h, Len(tree), DOMAIN doc) /\ Keeps(Top, h) /\ g = Over(h)
    BY <2>3
  <2> HIDE DEF h, l, nodes
  <2>5. FrameOK(g, Len(tree), DOMAIN doc) /\ Keeps(h, g) /\ TopOK(g, FALSE)
    BY <2>4, OverMachine
  <2> HIDE DEF g
  <2>6. Keeps(Top, g)
    BY <2>4, <2>5, KeptTwice
  <2>7. Len(a) \in Nat
    BY <2>2, LenProperties DEF NodesOK, IsSeq
  <2>8. Len(tree) <= Len(tree) + Len(a)
    BY <1>2, <2>7
  <2>9. NodesOK(a \o nodes, Len(tree), DOMAIN doc)
    BY <1>2, <2>2, <2>3, <2>8, MoreJoined
  <2> QED
    BY <1>1, <1>3, <1>7, <2>5, <2>6, <2>9, Continuing
<1> QED
  BY <1>1, <1>6, <1>7

\* A term without a definition at the end of the lines.
LEMMA DefinitionEofStep ==
    ASSUME Stack, DefinitionEof
    PROVE  Stack'
<1> DEFINE none == <<>>
           m == Moved(Top, -2)
           f == Over(m)
           off == Top.off
<1>1. /\ frames # <<>> /\ Top.phase = "eof" /\ Top.state = "Definition"
      /\ Continue(f, none)
  BY DEF DefinitionEof, InEof
<1>2. /\ FrameOK(Top, Len(tree), DOMAIN doc) /\ TopOK(Top, memo.bubble)
      /\ Len(tree) \in Nat
  BY <1>1, Tops
<1>3. memo.bubble = FALSE
  <2>1. memo.bubble \in BOOLEAN
    BY DEF Stack, MemoType
  <2>2. ~memo.bubble
    BY <1>1, <1>2 DEF TopOK
  <2> QED
    BY <2>1, <2>2
<1>4. off \in Int
  BY <1>2, Zenon DEF FrameOK
<1>5. off >= 1
  BY <1>1, <1>2 DEF TopOK
<1> DEFINE at == off + (-2)
<1>6. m = [Top EXCEPT !.off = at]
  BY DEF Moved
<1> HIDE DEF off
<1>7. at \in Int /\ at >= -1
  BY <1>4, <1>5
<1> HIDE DEF at
<1> DEFINE n == [Top EXCEPT !.off = at]
<1>8. FrameOK(n, Len(tree), DOMAIN doc) /\ Keeps(Top, n)
  BY <1>2, <1>7, MovedMachine
<1>9. FrameOK(m, Len(tree), DOMAIN doc) /\ Keeps(Top, m)
  BY <1>8 DEF at, off, Moved
<1> HIDE DEF m
<1>10. FrameOK(f, Len(tree), DOMAIN doc) /\ Keeps(m, f) /\ TopOK(f, FALSE)
  BY <1>9, OverMachine
<1> HIDE DEF f
<1>11. Keeps(Top, f)
  BY <1>9, <1>10, KeptTwice
<1>12. NodesOK(none, Len(tree), DOMAIN doc)
  BY <1>2, NoNodes
<1> QED
  BY <1>1, <1>3, <1>10, <1>11, <1>12, Continuing

\* A rule at the end of the lines, or before the title of another section.
LEMMA LineEofStep ==
    ASSUME Stack, LineEof
    PROVE  Stack'
<1> DEFINE one == 1
           none == <<>>
           of == NumbersOf(Top.ctx)
           rule == <<Node("transition", Top.node, of)>>
           t == AsText(Top, one)
           f == [t EXCEPT !.phase = "run"]
           e == Over(Top)
           yes == TRUE
           g == [e EXCEPT !.eofcheck = yes]
<1>1. /\ frames # <<>> /\ Top.phase = "eof" /\ Top.state = "Line"
      /\ (~memo.bubble /\ Goes(f, none)) \/ Goes(g, rule) \/ Goes(g, none)
  BY DEF LineEof, InEof
<1>20. memo' = [memo EXCEPT !.bubble = FALSE] /\ UNCHANGED <<doc, cache, error, dropped>>
  BY DEF LineEof
<1>2. /\ FrameOK(Top, Len(tree), DOMAIN doc) /\ TopOK(Top, memo.bubble)
      /\ Len(tree) \in Nat
  BY <1>1, Tops
<1>3. memo \in MemoType /\ memo.level <= Len(memo.styles) /\ cache \in Seq(BOOLEAN)
      /\ dropped \subseteq DOMAIN doc
  BY DEF Stack
<1> DEFINE m == [memo EXCEPT !.bubble = FALSE]
<1>4. /\ m \in MemoType /\ m.level = memo.level /\ m.styles = memo.styles
      /\ m.bubble = FALSE /\ m.minimum = memo.minimum
  BY ONLY <1>3 DEF MemoType
<1>5. memo' = m
  BY <1>20
<1> HIDE DEF m
<1>6. /\ memo' \in MemoType /\ memo'.level <= Len(memo'.styles) /\ memo'.bubble = FALSE
      /\ memo'.minimum = memo.minimum
  BY <1>3, <1>4, <1>5
<1>7. doc' = doc /\ cache' \in Seq(BOOLEAN) /\ error' = error /\ dropped' \subseteq DOMAIN doc
  BY <1>3, <1>20
<1>8. of \in SUBSET (DOMAIN doc)
  BY <1>2, NumbersInFile, Zenon DEF FrameOK
<1>9. Top.node \in 0 .. Len(tree)
  BY <1>2, Zenon DEF FrameOK
<1> HIDE DEF of
<1>10. NodesOK(none, Len(tree), DOMAIN doc)
  BY <1>2, NoNodes
<1>11. NodesOK(rule, Len(tree), DOMAIN doc)
  BY <1>2, <1>8, <1>9, OneNode
<1> HIDE DEF none, rule
<1>12. ASSUME ~memo.bubble, Goes(f, none)
       PROVE  Stack'
  <2>1. Top.off >= one
    BY <1>1, <1>2, <1>12 DEF TopOK
  <2>2. one \in Nat
    OBVIOUS
  <2> HIDE DEF one
  <2>16. FrameOK(Top, Len(tree), DOMAIN doc)
    BY <1>2
  <2>17. FrameOK(t, Len(tree), DOMAIN doc) /\ Keeps(Top, t)
    BY <2>1, <2>2, <2>16, AsTextPart, Zenon
  <2>18. DOMAIN Top = MachineFields
    BY <2>16, Zenon DEF FrameOK
  <2>19. t.state = "Body"
    BY <2>18 DEF AsText, Moved, MachineFields
  <2>3. FrameOK(t, Len(tree), DOMAIN doc) /\ Keeps(Top, t) /\ t.state = "Body"
    BY <2>17, <2>19
  <2> HIDE DEF t
  <2>4. DOMAIN f = MachineFields /\ Keeps(t, f)
    BY <2>3, Zenon DEF FrameOK, MachineFields, Keeps
  <2>5. f.state = "Body" /\ f.phase = "run" /\ f.only = t.only
    BY <2>3, Zenon DEF FrameOK, MachineFields
  <2>6. f.off = t.off
    BY <2>3, Zenon DEF FrameOK, MachineFields
  <2>7. f.ctx = t.ctx
    BY <2>3, Zenon DEF FrameOK, MachineFields
  <2>8. f.eofcheck = t.eofcheck
    BY <2>3, Zenon DEF FrameOK, MachineFields
  <2> HIDE DEF f
  <2>9. f.off \in Int /\ f.off >= -1
    BY <2>3, <2>6, Zenon DEF FrameOK
  <2>10. f.ctx \in LinesOf(DOMAIN doc)
    BY <2>3, <2>7, Zenon DEF FrameOK
  <2>11. /\ f.state \in States /\ f.phase \in {"run", "eof", "over"} /\ f.only \in {"", "text"}
         /\ f.eofcheck \in BOOLEAN
    BY <2>3, <2>5, <2>8, Zenon DEF FrameOK, States
  <2>12. f.state \notin TextStates
    BY <2>5 DEF TextStates
  <2>13. FrameOK(f, Len(tree), DOMAIN doc)
    BY <2>3, <2>4, <2>9, <2>10, <2>11, <2>12, Changed, Zenon
  <2>14. TopOK(f, memo'.bubble)
    BY <1>6, <2>5, <2>12 DEF TopOK
  <2>15. Keeps(Top, f)
    BY <2>3, <2>4, KeptTwice
  <2> QED
    BY <1>1, <1>6, <1>7, <1>10, <1>12, <2>13, <2>14, <2>15, Going
<1>13. /\ FrameOK(g, Len(tree), DOMAIN doc) /\ Keeps(Top, g) /\ TopOK(g, memo'.bubble)
  <2>1. FrameOK(e, Len(tree), DOMAIN doc) /\ Keeps(Top, e) /\ TopOK(e, FALSE)
    BY <1>2, OverMachine
  <2>2. yes \in BOOLEAN
    OBVIOUS
  <2> HIDE DEF e, yes
  <2>3. FrameOK(g, Len(tree), DOMAIN doc) /\ Keeps(e, g) /\ TopOK(g, FALSE)
    BY <1>3, <2>1, <2>2, KeptMachine
  <2> HIDE DEF g
  <2> QED
    BY <1>6, <2>1, <2>3, KeptTwice
<1> HIDE DEF g
<1>14. CASE Goes(g, rule)
  BY <1>1, <1>6, <1>7, <1>11, <1>13, <1>14, Going
<1>15. CASE Goes(g, none)
  BY <1>1, <1>6, <1>7, <1>10, <1>13, <1>15, Going
<1> QED
  BY <1>1, <1>12, <1>14, <1>15

-----------------------------------------------------------------------------
(* What the caller of a machine does when it has ended. *)

\* What is known when a machine has ended that another one has started.
LEMMA Returned ==
    ASSUME Stack, NEW k, k # "root", Returns(k)
    PROVE  /\ frames # <<>> /\ Top.then.k = k /\ doc' = doc /\ memo.bubble = FALSE
           /\ FrameOK(Top, Len(tree), DOMAIN doc) /\ ThenOK(Top.then, Len(tree), DOMAIN doc)
           /\ FrameOK(Caller, Len(tree), DOMAIN doc) /\ LinkOK(Caller, Top)
           /\ Keeps(Caller, Caller) /\ Caller.phase = "run"
           /\ memo \in MemoType /\ memo.level <= Len(memo.styles) /\ cache \in Seq(BOOLEAN)
           /\ dropped \subseteq DOMAIN doc /\ TreeOK(tree, DOMAIN doc)
           /\ Len(tree) \in Nat /\ Len(tree) <= Len(tree)
<1>1. frames # <<>> /\ Top.phase = "over" /\ Top.then.k = k /\ doc' = doc
  BY DEF Returns
<1>2. FrameOK(Top, Len(tree), DOMAIN doc) /\ TopOK(Top, memo.bubble) /\ Len(tree) \in Nat
  BY <1>1, Tops
<1>3. memo.bubble = FALSE
  <2>1. memo.bubble \in BOOLEAN
    BY DEF Stack, MemoType
  <2>2. ~memo.bubble
    BY <1>1, <1>2 DEF TopOK
  <2> QED
    BY <2>1, <2>2
<1>4. FrameOK(Caller, Len(tree), DOMAIN doc) /\ LinkOK(Caller, Top)
  BY <1>1, Callers
<1>5. Keeps(Caller, Caller) /\ Caller.phase = "run"
  BY <1>4 DEF Keeps, LinkOK
<1>6. ThenOK(Top.then, Len(tree), DOMAIN doc)
  BY <1>2, Zenon DEF FrameOK
<1>7. Len(tree) <= Len(tree)
  BY <1>2
<1>8. /\ memo \in MemoType /\ memo.level <= Len(memo.styles) /\ cache \in Seq(BOOLEAN)
      /\ dropped \subseteq DOMAIN doc /\ TreeOK(tree, DOMAIN doc)
  BY DEF Stack
<1> QED
  BY <1>1, <1>2, <1>3, <1>4, <1>5, <1>6, <1>7, <1>8

\* A machine that ends is kept, and the lines it has not read are lost.
LEMMA UnreadInFile ==
    ASSUME NEW D, NEW n, FrameOK(Top, n, D)
    PROVE  Unread \in SUBSET D
<1> DEFINE s == Top.lines
           off == Top.off
           i == off + 1
           base == 0
<1>1. s \in Seq(LineOf(D)) /\ off \in Int /\ off >= -1
  BY Zenon DEF FrameOK, LinesOf
<1>2. Unread = NumbersOf(From(s, i))
  BY DEF Unread
<1> HIDE DEF s, off
<1>3. i \in Nat /\ base \in Int
  BY <1>1
<1> HIDE DEF i, base
<1>4. From(s, i) \in LinesOf(D)
  BY <1>1, <1>3, FromInStep DEF LinesOf
<1> QED
  BY <1>2, <1>4, NumbersInFile

\* The cache holds one more machine.
LEMMA ReleasedCache ==
    ASSUME Stack, FrameOK(Top, Len(tree), DOMAIN doc), Release
    PROVE  cache' \in Seq(BOOLEAN)
<1> DEFINE kept == Top.eofcheck
<1>1. kept \in BOOLEAN
  BY Zenon DEF FrameOK
<1>2. cache \in Seq(BOOLEAN) /\ cache' = Append(cache, kept)
  BY DEF Stack, Release
<1> HIDE DEF kept
<1> QED
  BY <1>1, <1>2, AppendProperties

\* Both at the end of a nested parse.
LEMMA FinishedParse ==
    ASSUME Stack, FrameOK(Top, Len(tree), DOMAIN doc), Finished
    PROVE  cache' \in Seq(BOOLEAN) /\ dropped' \subseteq DOMAIN doc
<1>1. dropped \subseteq DOMAIN doc
  BY DEF Stack
<1>2. Release /\ dropped' = dropped \cup Unread
  BY DEF Finished
<1> QED
  BY <1>1, <1>2, UnreadInFile, ReleasedCache

\* Off the top of the stack, the caller is on top.
LEMMA BelowIsCaller ==
    ASSUME Stack, frames # <<>>, Top.then.k # "root"
    PROVE  Below = Append(Others, Caller)
<1> DEFINE n == Len(frames)
           a == SubSeq(frames, 1, (n - 1) - 1)
           b == SubSeq(frames, 1, n - 1)
           c == frames[n - 1]
           d == Append(a, c)
<1>1. /\ n - 1 \in 1 .. n /\ Caller = c /\ Others = a /\ Below = b
      /\ IsSeq(frames) /\ n \in Nat
  BY Callers, Tops DEF Stack, StackOK
<1>2. /\ n - 1 \in 0 .. n /\ (n - 1) - 1 \in 0 .. n /\ n >= 2
  BY <1>1
<1>3. /\ IsSeq(a) /\ Len(a) = (n - 1) - 1
      /\ \A i \in 1 .. (n - 1) - 1 : a[i] = frames[i]
  BY <1>1, <1>2, CutSeq
<1>4. /\ IsSeq(b) /\ Len(b) = n - 1
      /\ \A i \in 1 .. n - 1 : b[i] = frames[i]
  BY <1>1, <1>2, CutSeq
<1> HIDE DEF a, b
<1> DEFINE T == Range(a) \cup Range(b) \cup {c}
<1>5. a \in Seq(T) /\ b \in Seq(T) /\ c \in T
  BY <1>3, <1>4, SeqMonotonic DEF IsSeq
<1> HIDE DEF T
<1>6. /\ d \in Seq(T) /\ Len(d) = Len(a) + 1
      /\ \A i \in 1 .. Len(a) : d[i] = a[i]
      /\ d[Len(a) + 1] = c
  BY <1>5, AppendProperties
<1> HIDE DEF d, c
<1>7. Len(d) = n - 1
  BY <1>2, <1>3, <1>6
<1>8. \A i \in 1 .. n - 1 : d[i] = b[i]
  <2> TAKE i \in 1 .. n - 1
  <2>1. CASE i = n - 1
    BY <1>2, <1>3, <1>4, <1>6, <2>1 DEF c
  <2>2. CASE i # n - 1
    <3>1. i \in 1 .. (n - 1) - 1
      BY <1>2, <2>2
    <3> QED
      BY <1>3, <1>4, <1>6, <3>1
  <2> QED
    BY <2>1, <2>2
<1>9. d = b
  BY <1>4, <1>5, <1>6, <1>7, <1>8, SeqEqual
<1> QED
  BY <1>1, <1>9 DEF d

\* The caller has nothing left to do.
LEMMA ReturnNothingStep ==
    ASSUME Stack, ReturnNothing
    PROVE  Stack'
<1> DEFINE k == "nothing"
<1>1. Returns(k) /\ frames' = Below /\ Finished /\ UNCHANGED <<tree, memo, error>>
  BY DEF ReturnNothing
<1>2. k # "root" /\ k # "section" /\ k # "directive"
  OBVIOUS
<1> HIDE DEF k
<1>3. /\ frames # <<>> /\ Top.then.k = k /\ doc' = doc /\ memo.bubble = FALSE
      /\ FrameOK(Top, Len(tree), DOMAIN doc)
      /\ FrameOK(Caller, Len(tree), DOMAIN doc) /\ LinkOK(Caller, Top)
      /\ Keeps(Caller, Caller) /\ Caller.phase = "run"
      /\ memo \in MemoType /\ memo.level <= Len(memo.styles) /\ TreeOK(tree, DOMAIN doc)
      /\ Len(tree) <= Len(tree)
  BY <1>1, <1>2, Returned
<1>4. Top.then.k # "root" /\ ~Pushes(Top) /\ Caller.state \notin TextStates
  BY <1>2, <1>3 DEF Pushes, LinkOK
<1>5. frames' = Append(Others, Caller)
  BY <1>1, <1>3, <1>4, BelowIsCaller
<1>6. TopOK(Caller, FALSE)
  BY <1>3, <1>4 DEF TopOK
<1>7. /\ cache' \in Seq(BOOLEAN) /\ dropped' \subseteq DOMAIN doc
  BY <1>1, <1>3, FinishedParse
<1>8. memo' = memo /\ tree' = tree /\ error' = error
  BY <1>1
<1>9. memo'.minimum = IF Pushes(Top) THEN Front(memo.minimum) ELSE memo.minimum
  BY <1>4, <1>8
<1>10. /\ memo' \in MemoType /\ memo'.level <= Len(memo'.styles) /\ TopOK(Caller, memo'.bubble)
       /\ TreeOK(tree', DOMAIN doc) /\ Len(tree) <= Len(tree')
  BY <1>3, <1>6, <1>8
<1> QED
  BY <1>3, <1>4, <1>5, <1>7, <1>8, <1>9, <1>10, Returning

\* The caller's construct has ended, and it goes on as after any other.
LEMMA ReturningConstruct ==
    ASSUME Stack, NEW k, k \notin {"root", "section"}, Returns(k),
           NEW finish, frames' = EndConstruct(Caller, finish, Others),
           TreeOK(tree', DOMAIN doc), Len(tree) <= Len(tree'),
           memo' \in MemoType, memo'.level <= Len(memo'.styles), memo'.bubble = FALSE,
           memo'.minimum = IF Pushes(Top) THEN Front(memo.minimum) ELSE memo.minimum,
           cache' \in Seq(BOOLEAN), error' = error, dropped' \subseteq DOMAIN doc
    PROVE  Stack'
<1> DEFINE D == DOMAIN doc
           n == Len(tree)
           f == Caller
<1>1. /\ k # "root" /\ k # "section"
  OBVIOUS
<1>2. /\ frames # <<>> /\ Top.then.k = k /\ doc' = doc
      /\ FrameOK(f, n, D) /\ LinkOK(f, Top) /\ Keeps(Caller, f) /\ f.phase = "run"
      /\ n \in Nat
  BY <1>1, Returned
<1>3. Top.then.k # "root" /\ f.state \notin TextStates
  BY <1>1, <1>2 DEF LinkOK
<1>4. frames' = EndConstruct(f, finish, Others)
  OBVIOUS
<1> HIDE DEF f, n, D
<1>5. CASE f.state = "Explicit"
  <2> DEFINE g == [f EXCEPT !.finish = finish]
  <2>1. TopOK(f, FALSE)
    BY <1>2, <1>3 DEF TopOK
  <2>2. FrameOK(g, n, D) /\ Keeps(f, g) /\ TopOK(g, FALSE)
    BY <1>2, <2>1, FinishedMachine
  <2>3. frames' = Append(Others, g)
    BY <1>4, <1>5 DEF EndConstruct
  <2> HIDE DEF g
  <2>4. Keeps(Caller, g) /\ TopOK(g, memo'.bubble) /\ FrameOK(g, Len(tree), DOMAIN doc)
    BY <1>2, <2>2, KeptTwice DEF n, D
  <2> QED
    BY <1>2, <1>3, <2>3, <2>4, Returning
<1>6. CASE f.state = "SubstitutionDef"
  <2> DEFINE late == IF HasLine(f, f.off + 1) THEN finish ELSE f.finish
             e == [f EXCEPT !.finish = late]
             g == Ended(e)
  <2>1. frames' = Append(Others, g)
    BY <1>4, <1>6 DEF EndConstruct
  <2> HIDE DEF late
  <2>2. FrameOK(e, n, D) /\ Keeps(f, e) /\ e.state = f.state
    BY <1>2, FinishedMachine
  <2> HIDE DEF e
  <2>3. FrameOK(g, n, D) /\ Keeps(e, g) /\ TopOK(g, FALSE)
    BY <1>3, <2>2, EndedMachine
  <2> HIDE DEF g
  <2>4. Keeps(Caller, g) /\ TopOK(g, memo'.bubble) /\ FrameOK(g, Len(tree), DOMAIN doc)
    BY <1>2, <2>2, <2>3, KeptTwice DEF n, D
  <2> QED
    BY <1>2, <1>3, <2>1, <2>4, Returning
<1>7. CASE f.state # "Explicit" /\ f.state # "SubstitutionDef"
  <2> DEFINE t == Then("list", finish)
             g == Machine("Explicit", From(f.lines, f.off + 1), AbsOffset(f) + 1,
                          f.node, f.titles, t)
  <2>1. frames' = Others \o <<f, g>>
    BY <1>4, <1>7 DEF EndConstruct
  <2>2. "Explicit" \in States \ TextStates /\ f.node \in 0 .. n
    BY <1>2, Zenon DEF States, Members, TextStates, FrameOK
  <2>3. ThenOK(t, n, D) /\ t.k = "list"
    BY <1>2, ThenIsOK
  <2> HIDE DEF t
  <2>4. FrameOK(g, n, D) /\ TopOK(g, FALSE) /\ LinkOK(f, g) /\ ~Pushes(g)
    BY <1>2, <1>3, <2>2, <2>3, ListMachine
  <2> HIDE DEF g
  <2> DEFINE minimum == memo'.minimum
  <2>5. minimum = IF Pushes(Top) THEN Front(memo.minimum) ELSE memo.minimum
    OBVIOUS
  <2> HIDE DEF minimum
  <2>6. minimum[1] = 0 /\ Len(minimum) = 1 + Pushers(Below)
    BY <1>2, <2>5, Popped
  <2>7. /\ memo'.minimum[1] = 0
        /\ Len(memo'.minimum) = IF Pushes(g) THEN 2 + Pushers(Below) ELSE 1 + Pushers(Below)
    BY <2>4, <2>6 DEF minimum
  <2>8. /\ FrameOK(f, Len(tree), DOMAIN doc) /\ FrameOK(g, Len(tree), DOMAIN doc)
        /\ TopOK(g, memo'.bubble)
    BY <1>2, <2>4 DEF n, D
  <2> QED
    BY <1>2, <1>3, <2>1, <2>4, <2>7, <2>8, ReturningStart
<1> QED
  BY <1>5, <1>6, <1>7

\* The end of a footnote or a citation.
LEMMA ReturnConstructStep ==
    ASSUME Stack, ReturnConstruct
    PROVE  Stack'
<1> DEFINE k == "construct"
           finish == Top.then.finish
<1>1. /\ Returns(k) /\ frames' = EndConstruct(Caller, finish, Others) /\ Finished
      /\ UNCHANGED <<tree, memo, error>>
  BY DEF ReturnConstruct
<1>2. k # "root" /\ k \notin {"root", "section"} /\ k # "directive"
  OBVIOUS
<1> HIDE DEF k, finish
<1>3. /\ frames # <<>> /\ Top.then.k = k /\ doc' = doc /\ memo.bubble = FALSE
      /\ FrameOK(Top, Len(tree), DOMAIN doc)
      /\ memo \in MemoType /\ memo.level <= Len(memo.styles) /\ TreeOK(tree, DOMAIN doc)
      /\ Len(tree) <= Len(tree)
  BY <1>1, <1>2, Returned
<1>4. ~Pushes(Top)
  BY <1>2, <1>3 DEF Pushes
<1>5. /\ cache' \in Seq(BOOLEAN) /\ dropped' \subseteq DOMAIN doc
  BY <1>1, <1>3, FinishedParse
<1>6. memo' = memo /\ tree' = tree /\ error' = error
  BY <1>1
<1>7. memo'.minimum = IF Pushes(Top) THEN Front(memo.minimum) ELSE memo.minimum
  BY <1>4, <1>6
<1>8. /\ memo' \in MemoType /\ memo'.level <= Len(memo'.styles) /\ memo'.bubble = FALSE
      /\ TreeOK(tree', DOMAIN doc) /\ Len(tree) <= Len(tree')
  BY <1>3, <1>6
<1> QED
  BY <1>1, <1>2, <1>5, <1>6, <1>7, <1>8, ReturningConstruct

\* The end of the content of a directive, which pops its level.
LEMMA ReturnDirectiveStep ==
    ASSUME Stack, ReturnDirective
    PROVE  Stack'
<1> DEFINE k == "directive"
           finish == Finishes(Caller, Top.then.finish)
           minimum == IF Pushes(Top) THEN Front(memo.minimum) ELSE memo.minimum
           m == [memo EXCEPT !.minimum = minimum]
<1>1. /\ Returns(k) /\ frames' = EndConstruct(Caller, finish, Others) /\ Finished
      /\ UNCHANGED <<tree, error>>
  BY DEF ReturnDirective
<1>2. k # "root" /\ k \notin {"root", "section"} /\ k = "directive"
  OBVIOUS
<1> HIDE DEF finish
<1>3. /\ frames # <<>> /\ Top.then.k = k /\ doc' = doc /\ memo.bubble = FALSE
      /\ FrameOK(Top, Len(tree), DOMAIN doc)
      /\ memo \in MemoType /\ memo.level <= Len(memo.styles) /\ TreeOK(tree, DOMAIN doc)
      /\ Len(tree) <= Len(tree)
  BY <1>1, <1>2, Returned
<1>4. Pushes(Top) <=> Top.then.level = 1
  BY <1>3 DEF Pushes
<1>5. memo' = IF Pushes(Top) THEN [memo EXCEPT !.minimum = Front(memo.minimum)] ELSE memo
  BY <1>4 DEF ReturnDirective
<1>6. minimum \in Seq(Int)
  <2>1. memo.minimum \in Seq(Int)
    BY <1>3 DEF MemoType
  <2>2. CASE ~Pushes(Top)
    BY <2>1, <2>2
  <2>3. CASE Pushes(Top)
    <3>1. Len(memo.minimum) >= 1
      <4>1. /\ Len(memo.minimum) = 1 + Pushers(frames) /\ Pushers(frames) \in Nat
        BY <1>3, Tops DEF MemoOK
      <4> DEFINE len == Len(memo.minimum)
                 count == Pushers(frames)
      <4> HIDE DEF len, count
      <4>2. len >= 1
        BY <4>1 DEF len, count
      <4> QED
        BY <4>2 DEF len
    <3> DEFINE q == memo.minimum
               l == Len(q)
               less == SubSeq(q, 1, l - 1)
    <3>2. minimum = less
      BY <2>3 DEF Front
    <3>3. q \in Seq(Int) /\ l \in Nat /\ l >= 1
      BY <2>1, <3>1, LenProperties
    <3>4. \A i \in 1 .. l - 1 : q[i] \in Int
      BY <3>3, ElementOfSeq
    <3> HIDE DEF q
    <3>5. less \in Seq(Int)
      BY <3>3, <3>4, SubSeqProperties
    <3> HIDE DEF minimum, less
    <3> QED
      BY <3>2, <3>5
  <2> QED
    BY <2>2, <2>3
<1>7. memo' = IF Pushes(Top) THEN m ELSE memo
  BY <1>5
<1> HIDE DEF minimum
<1>8. /\ m \in MemoType /\ m.level = memo.level /\ m.styles = memo.styles
      /\ m.bubble = memo.bubble /\ m.minimum = minimum
  BY <1>3, <1>6, MinimumOf
<1> HIDE DEF m
<1>9. memo'.minimum = IF Pushes(Top) THEN Front(memo.minimum) ELSE memo.minimum
  <2>1. CASE Pushes(Top)
    <3>1. memo' = m
      BY <1>7, <2>1
    <3> QED
      BY <1>8, <2>1, <3>1 DEF minimum
  <2>2. CASE ~Pushes(Top)
    BY <1>7, <2>2
  <2> QED
    BY <2>1, <2>2
<1>10. /\ memo' \in MemoType /\ memo'.level <= Len(memo'.styles) /\ memo'.bubble = FALSE
  <2>1. CASE memo' = m
    BY <1>3, <1>8, <2>1
  <2>2. CASE memo' = memo
    BY <1>3, <2>2
  <2> QED
    BY <1>7, <2>1, <2>2
<1>11. /\ cache' \in Seq(BOOLEAN) /\ dropped' \subseteq DOMAIN doc
  BY <1>1, <1>3, FinishedParse
<1>12. tree' = tree /\ error' = error
  BY <1>1
<1>13. TreeOK(tree', DOMAIN doc) /\ Len(tree) <= Len(tree')
  BY <1>3, <1>12
<1> QED
  BY <1>1, <1>2, <1>9, <1>10, <1>11, <1>12, <1>13, ReturningConstruct

\* After its first item a list goes on in a machine of its own.
LEMMA ReturnFirstStep ==
    ASSUME Stack, ReturnFirst
    PROVE  Stack'
<1> DEFINE k == "first"
           t == Top.then
           state == t.state
           node == t.node
           finish == t.finish
           list == t.list
           then == [Then("list", finish) EXCEPT !.list = list]
           f == Caller
           g == Machine(state, From(f.lines, f.off + 1), AbsOffset(f) + 1, node, FALSE, then)
           minimum == memo.minimum
           n == Len(tree)
           D == DOMAIN doc
<1>1. /\ Returns(k) /\ frames' = Others \o <<f, g>> /\ Finished
      /\ UNCHANGED <<tree, memo, error>>
  BY DEF ReturnFirst
<1>2. k # "root" /\ k # "section" /\ k # "directive" /\ k = "first"
  OBVIOUS
<1>3. /\ frames # <<>> /\ Top.then.k = k /\ doc' = doc /\ memo.bubble = FALSE
      /\ FrameOK(Top, n, D) /\ ThenOK(Top.then, n, D)
      /\ FrameOK(f, n, D) /\ LinkOK(f, Top)
      /\ Keeps(Caller, f) /\ f.phase = "run"
      /\ memo \in MemoType /\ memo.level <= Len(memo.styles) /\ TreeOK(tree, DOMAIN doc)
      /\ n \in Nat /\ Len(tree) <= Len(tree)
  BY <1>1, <1>2, Returned
<1>4. Top.then.k # "root" /\ ~Pushes(Top) /\ f.state \notin TextStates
  BY <1>2, <1>3 DEF Pushes, LinkOK
<1>5. state \in States \ TextStates
  BY <1>3 DEF ThenOK
<1>6. node \in 0 .. n
  BY <1>3 DEF ThenOK
<1>7. DOMAIN then = ThenFields /\ then.k = "list"
  BY DEF Then, ThenFields
<1>8. then.node = 0 /\ then.level = 0
  BY DEF Then
<1>9. then.of = {}
  BY DEF Then
<1> HIDE DEF then, state, node, n, D, f, t
<1>10. then.node \in 0 .. n /\ then.level \in Int
  BY <1>3, <1>8
<1>11. then.of \in SUBSET D
  BY <1>9
<1>12. then.k \notin {"first", "section", "argument"}
  BY <1>7
<1>13. ThenOK(then, n, D)
  BY <1>7, <1>10, <1>11, <1>12, ThenParts
<1>14. FrameOK(g, n, D) /\ TopOK(g, FALSE) /\ LinkOK(f, g) /\ ~Pushes(g)
  BY <1>3, <1>4, <1>5, <1>6, <1>7, <1>13, ListMachine
<1> HIDE DEF g
<1>15. /\ cache' \in Seq(BOOLEAN) /\ dropped' \subseteq DOMAIN doc
  BY <1>1, <1>3, FinishedParse DEF n, D
<1>16. memo' = memo /\ tree' = tree /\ error' = error
  BY <1>1
<1>17. minimum = IF Pushes(Top) THEN Front(memo.minimum) ELSE memo.minimum
  BY <1>4
<1> HIDE DEF minimum
<1>18. minimum[1] = 0 /\ Len(minimum) = 1 + Pushers(Below)
  BY <1>3, <1>17, Popped
<1>19. /\ memo'.minimum[1] = 0
       /\ Len(memo'.minimum) = IF Pushes(g) THEN 2 + Pushers(Below) ELSE 1 + Pushers(Below)
  BY <1>14, <1>16, <1>18 DEF minimum
<1>20. /\ memo' \in MemoType /\ memo'.level <= Len(memo'.styles) /\ TopOK(g, memo'.bubble)
       /\ TreeOK(tree', DOMAIN doc) /\ Len(tree) <= Len(tree')
  BY <1>3, <1>14, <1>16
<1>21. FrameOK(f, Len(tree), DOMAIN doc) /\ FrameOK(g, Len(tree), DOMAIN doc)
  BY <1>3, <1>14 DEF n, D
<1> QED
  BY <1>1, <1>3, <1>4, <1>14, <1>15, <1>16, <1>19, <1>20, <1>21, ReturningStart

\* After the argument of a directive comes its content.
LEMMA ReturnArgumentStep ==
    ASSUME Stack, ReturnArgument
    PROVE  Stack'
<1> DEFINE k == "argument"
           t == Top.then
           lines == t.next[1]
           base == t.level
           node == t.node
           finish == t.finish
           then == [Then("directive", finish) EXCEPT !.level = 1]
           c == Machine("Body", lines, base, node, TRUE, then)
           kept == Top.eofcheck
           f == Caller
           g == [c EXCEPT !.eofcheck = kept]
           level == memo.level
           minimum == Append(memo.minimum, level)
           m == [memo EXCEPT !.minimum = minimum]
           n == Len(tree)
           D == DOMAIN doc
<1>1. /\ Returns(k) /\ frames' = Others \o <<f, g>> /\ dropped' = dropped \cup Unread
      /\ memo' = m /\ UNCHANGED <<tree, cache, error>>
  BY DEF ReturnArgument
<1>2. k # "root" /\ k # "section" /\ k # "directive" /\ k = "argument"
  OBVIOUS
<1>3. /\ frames # <<>> /\ Top.then.k = k /\ doc' = doc /\ memo.bubble = FALSE
      /\ FrameOK(Top, n, D) /\ ThenOK(Top.then, n, D)
      /\ FrameOK(f, n, D) /\ LinkOK(f, Top)
      /\ Keeps(Caller, f) /\ f.phase = "run"
      /\ memo \in MemoType /\ memo.level <= Len(memo.styles) /\ TreeOK(tree, DOMAIN doc)
      /\ n \in Nat /\ Len(tree) <= Len(tree) /\ cache \in Seq(BOOLEAN)
      /\ dropped \subseteq DOMAIN doc
  BY <1>1, <1>2, Returned
<1>4. Top.then.k # "root" /\ ~Pushes(Top) /\ f.state \notin TextStates
  BY <1>2, <1>3 DEF Pushes, LinkOK
<1>5. lines \in LinesOf(D)
  BY <1>3 DEF ThenOK
<1>6. node \in 0 .. n
  BY <1>3 DEF ThenOK
<1>7. base \in Int
  BY <1>3 DEF ThenOK
<1>8. Counted(f) => InStep(lines, base)
  BY <1>2, <1>3 DEF LinkOK
<1>9. DOMAIN then = ThenFields /\ then.k = "directive"
  BY DEF Then, ThenFields
<1>10. then.node = 0 /\ then.level = 1
  BY DEF Then
<1>11. then.of = {}
  BY DEF Then
<1>12. kept \in BOOLEAN
  BY <1>3, Zenon DEF FrameOK
<1>13. "Body" \in States \ TextStates
  BY DEF States, TextStates
<1> HIDE DEF then, lines, base, node, n, D, f, t, kept
<1>14. then.node \in 0 .. n /\ then.level \in Int
  BY <1>3, <1>10
<1>15. then.of \in SUBSET D
  BY <1>11
<1>16. then.k \notin {"first", "section", "argument"}
  BY <1>9
<1>17. ThenOK(then, n, D)
  BY <1>9, <1>14, <1>15, <1>16, ThenParts
<1>18. FrameOK(c, n, D) /\ TopOK(c, FALSE)
  BY <1>5, <1>6, <1>7, <1>13, <1>17, NewMachine
<1>19. c.lines = lines /\ c.then = then
  BY DEF Machine
<1>20. c.base = base
  BY DEF Machine
<1> HIDE DEF c
<1>21. FrameOK(g, n, D) /\ Keeps(c, g) /\ TopOK(g, FALSE)
  BY <1>3, <1>12, <1>18, KeptMachine
<1> HIDE DEF g
<1>22. g.lines = lines /\ g.then = then
  BY <1>19, <1>21 DEF Keeps
<1>23. g.base = base
  BY <1>20, <1>21 DEF Keeps
<1>24. Pushes(g)
  BY <1>9, <1>10, <1>22 DEF Pushes
<1>25. LinkOK(f, g)
  <2>1. Counted(f) => InStep(g.lines, g.base)
    BY <1>8, <1>22, <1>23
  <2>2. g.then.k \in {"nothing", "first", "construct", "directive"}
    BY <1>9, <1>22
  <2> QED
    BY <1>3, <1>4, <2>1, <2>2, PartLink
<1>26. level \in Int /\ memo.minimum \in Seq(Int)
  BY <1>3 DEF MemoType
<1> HIDE DEF level
<1>27. minimum \in Seq(Int)
  BY <1>26, AppendProperties
<1>28. minimum[1] = 0 /\ Len(minimum) = 2 + Pushers(Below)
  <2> DEFINE more == minimum
  <2>1. more = Append(memo.minimum, level)
    OBVIOUS
  <2> HIDE DEF more
  <2>2. more[1] = 0 /\ Len(more) = 2 + Pushers(Below)
    BY <1>3, <1>4, <1>26, <2>1, Pushed
  <2> QED
    BY <2>2 DEF more
<1> HIDE DEF minimum
<1>29. /\ m \in MemoType /\ m.level = memo.level /\ m.styles = memo.styles
       /\ m.bubble = memo.bubble /\ m.minimum = minimum
  BY <1>3, <1>27, MinimumOf
<1> HIDE DEF m
<1>30. /\ memo'.minimum[1] = 0
       /\ Len(memo'.minimum) = IF Pushes(g) THEN 2 + Pushers(Below) ELSE 1 + Pushers(Below)
  BY <1>1, <1>24, <1>28, <1>29
<1>31. tree' = tree /\ error' = error /\ cache' = cache
  BY <1>1
<1>32. /\ memo' \in MemoType /\ memo'.level <= Len(memo'.styles) /\ TopOK(g, memo'.bubble)
       /\ TreeOK(tree', DOMAIN doc) /\ Len(tree) <= Len(tree') /\ cache' \in Seq(BOOLEAN)
  BY <1>1, <1>3, <1>21, <1>29, <1>31
<1>33. FrameOK(f, Len(tree), DOMAIN doc) /\ FrameOK(g, Len(tree), DOMAIN doc)
  BY <1>3, <1>21 DEF n, D
<1>34. dropped' \subseteq DOMAIN doc
  BY <1>1, <1>3, UnreadInFile DEF n, D
<1> QED
  BY <1>1, <1>3, <1>4, <1>25, <1>30, <1>31, <1>32, <1>33, <1>34, ReturningStart

(***************************************************************************)
(* goto_line takes the caller of a list or a section no further back than  *)
(* it was: the machine that ended has read from the line below on.         *)
(***************************************************************************)
LEMMA GoToForward ==
    ASSUME NEW n, NEW D, NEW f, FrameOK(f, n, D), FrameOK(Top, n, D),
           LinkOK(f, Top), Top.then.k \in {"section", "list"}
    PROVE  /\ FrameOK(GoTo(f), n, D) /\ Keeps(f, GoTo(f))
           /\ GoTo(f).state = f.state /\ GoTo(f).phase = f.phase
           /\ GoTo(f).ctx = f.ctx /\ GoTo(f).only = f.only
           /\ GoTo(f).off \in Int /\ GoTo(f).off >= f.off
<1> DEFINE off == AbsOffset(Top) - f.base
           base == f.base
           from == f.off
           read == Top.off
           start == Top.base
<1>1. base \in Int /\ from \in Int /\ from >= -1 /\ read \in Int /\ read >= -1 /\ start \in Int
  BY Zenon DEF FrameOK
<1>2. start = base + from + 1
  BY DEF LinkOK
<1>3. off = start + read - base
  <2>1. AbsOffset(Top) = Top.base + Top.off
    BY DEF AbsOffset
  <2> DEFINE abs == AbsOffset(Top)
  <2>2. abs = start + read
    BY <2>1
  <2>3. off = abs - base
    OBVIOUS
  <2> HIDE DEF off, abs, start, read, base
  <2> QED
    BY <1>1, <2>2, <2>3
<1>4. GoTo(f) = [f EXCEPT !.off = off]
  BY DEF GoTo
<1>7. DOMAIN f = MachineFields
  BY Zenon DEF FrameOK
<1> HIDE DEF base, from, read, start, off
<1>5. off \in Int /\ off >= from /\ off >= -1
  BY <1>1, <1>2, <1>3
<1>6. [f EXCEPT !.off = off].off = off
  BY <1>7 DEF MachineFields
<1>8. /\ FrameOK([f EXCEPT !.off = off], n, D) /\ Keeps(f, [f EXCEPT !.off = off])
      /\ [f EXCEPT !.off = off].state = f.state /\ [f EXCEPT !.off = off].phase = f.phase
      /\ [f EXCEPT !.off = off].ctx = f.ctx /\ [f EXCEPT !.off = off].only = f.only
  BY <1>5, MovedMachine
<1>9. GoTo(f).off \in Int /\ GoTo(f).off >= f.off
  BY <1>4, <1>5, <1>6 DEF from
<1> QED
  BY <1>4, <1>8, <1>9

\* The end of a list, with a warning or without.
LEMMA ReturnListStep ==
    ASSUME Stack, ReturnList
    PROVE  Stack'
<1> DEFINE k == "list"
           f == Caller
           g == GoTo(f)
           n == Len(tree)
           D == DOMAIN doc
           up == f.node
           x == Node("warning", up, {})
           one == <<x>>
<1>1. /\ Returns(k) /\ frames' = Append(Others, g)
      /\ tree' = tree \/ tree' = Append(tree, x)
      /\ UNCHANGED <<memo, cache, error, dropped>>
  BY DEF ReturnList, Message
<1>2. k # "root" /\ k # "section" /\ k # "directive" /\ k \in {"section", "list"}
  OBVIOUS
<1> HIDE DEF k
<1>3. /\ frames # <<>> /\ Top.then.k = k /\ doc' = doc /\ memo.bubble = FALSE
      /\ FrameOK(Top, n, D) /\ FrameOK(f, n, D) /\ LinkOK(f, Top) /\ f.phase = "run"
      /\ memo \in MemoType /\ memo.level <= Len(memo.styles) /\ TreeOK(tree, DOMAIN doc)
      /\ cache \in Seq(BOOLEAN) /\ dropped \subseteq DOMAIN doc
      /\ n \in Nat
  BY <1>1, <1>2, Returned
<1>4. Top.then.k # "root" /\ ~Pushes(Top) /\ f.state \notin TextStates
  BY <1>2, <1>3 DEF Pushes, LinkOK
<1>5. up \in 0 .. n
  BY <1>3, Zenon DEF FrameOK
<1>15. Top.then.k \in {"section", "list"}
  BY <1>2, <1>3
<1>6. FrameOK(g, n, D) /\ Keeps(f, g) /\ g.state = f.state /\ g.phase = f.phase
  <2> HIDE DEF f, n, D, x, one
  <2> QED
    BY <1>3, <1>15, GoToForward, Zenon
<1> HIDE DEF g
<1>7. TopOK(g, FALSE)
  BY <1>3, <1>4, <1>6 DEF TopOK
<1>8. TreeOK(tree', D) /\ Len(tree) <= Len(tree')
  <2>1. {} \in SUBSET D
    OBVIOUS
  <2>2. TreeOK(tree, D) /\ Len(tree) \in Nat
    BY <1>3
  <2>3. CASE tree' = tree
    BY <2>2, <2>3
  <2>4. CASE tree' = Append(tree, x)
    <3>1. NodesOK(one, n, D) /\ Len(one) = 1
      BY <1>3, <1>5, <2>1, OneNode
    <3>2. Append(tree, x) = tree \o one
      BY <2>2, AppendedNode DEF TreeOK
    <3> HIDE DEF one, D
    <3>3. TreeOK(tree \o one, D) /\ Len(tree \o one) = Len(tree) + Len(one)
      BY <2>2, <3>1, GrownTree, Zenon
    <3> QED
      <4>1. tree' = tree \o one
        BY <2>4, <3>2
      <4>2. Len(tree \o one) = Len(tree) + 1
        BY <3>1, <3>3
      <4> HIDE DEF n
      <4>3. Len(tree) <= Len(tree')
        BY <2>2, <4>1, <4>2
      <4> QED
        BY <3>3, <4>1, <4>3
  <2> QED
    BY <1>1, <2>3, <2>4
<1>9. memo' = memo /\ cache' = cache /\ error' = error /\ dropped' = dropped
  BY <1>1
<1>10. memo'.minimum = IF Pushes(Top) THEN Front(memo.minimum) ELSE memo.minimum
  BY <1>4, <1>9
<1>11. /\ memo' \in MemoType /\ memo'.level <= Len(memo'.styles) /\ TopOK(g, memo'.bubble)
       /\ cache' \in Seq(BOOLEAN) /\ dropped' \subseteq DOMAIN doc
  BY <1>3, <1>7, <1>9
<1>12. FrameOK(g, Len(tree), DOMAIN doc) /\ Keeps(Caller, g)
  BY <1>6
<1>13. frames # <<>> /\ doc' = doc /\ frames' = Append(Others, g)
  BY <1>1, <1>3
<1>14. TreeOK(tree', DOMAIN doc) /\ Len(tree) <= Len(tree')
  BY <1>8
<1> QED
  BY ONLY Stack, <1>4, <1>9, <1>10, <1>11, <1>12, <1>13, <1>14, Returning

\* The warning about a line behind the end of the document ends the parse.
LEMMA ListFailsStep ==
    ASSUME Stack, ListFails
    PROVE  Stack'
<1>1. frames # <<>> /\ frames' = <<>> /\ error' \in {"ParserError", "IndexError"}
      /\ UNCHANGED <<doc, tree, memo, cache, dropped>>
  BY DEF ListFails, Returns
<1> QED
  BY <1>1, Failing

\* What Init means for the stack.
LEMMA StartsEmpty ==
    ASSUME Init
    PROVE  Stack
<1>1. /\ doc = <<>> /\ frames = <<>> /\ tree = <<>> /\ cache = <<>> /\ error = NoError
      /\ dropped = {}
      /\ memo = [styles |-> <<>>, level |-> 0, bubble |-> FALSE, minimum |-> <<0>>]
  BY DEF Init
<1>2. IsSeq(frames) /\ Len(frames) = 0
  BY <1>1 DEF IsSeq
<1>3. StackOK(frames, Len(tree), DOMAIN doc)
  BY <1>1, <1>2 DEF StackOK
<1>4. 0 \in Nat /\ Len(tree) = 0
  BY <1>1
<1>5. TreeOK(tree, DOMAIN doc)
  BY <1>1, <1>4, NoNodes DEF TreeOK
<1>6. Pushers(frames) = 0
  <2>1. {i \in 1 .. Len(frames) : Pushes(frames[i])} = {}
    BY <1>2
  <2> QED
    BY <2>1, FS_EmptySet DEF Pushers
<1>7. memo \in MemoType /\ memo.level <= Len(memo.styles)
  BY <1>1 DEF MemoType
<1>8. MemoOK(memo, Pushers(frames))
  BY <1>1, <1>6, <1>7 DEF MemoOK
<1>9. memo.bubble = FALSE /\ cache \in Seq(BOOLEAN)
  BY <1>1
<1> QED
  BY <1>1, <1>3, <1>5, <1>7, <1>8, <1>9 DEF Stack

(***************************************************************************)
(* The end of a section: either the next title ends the caller, too, or    *)
(* the caller reads on in its body, at the level it had before.            *)
(***************************************************************************)
LEMMA ReturnSectionStep ==
    ASSUME Stack, ReturnSection
    PROVE  Stack'
<1> DEFINE k == "section"
           f == Caller
           n == Len(tree)
           D == DOMAIN doc
           g == GoTo(f)
           e == Ended(g)
           b == BackToBody(g)
           yes == TRUE
           h == [b EXCEPT !.eofcheck = yes]
           low == Top.then.level
           m == [memo EXCEPT !.level = low]
<1>1. /\ Returns(k) /\ Release
      /\ UNCHANGED <<tree, error, dropped>>
      /\ \/ frames' = Append(Others, e) /\ memo' = memo
         \/ ~(memo.level <= low) /\ frames' = Append(Others, h) /\ memo' = m
  BY DEF ReturnSection
<1>2. k # "root" /\ k # "directive" /\ k = "section"
  OBVIOUS
<1> HIDE DEF k
<1>3. /\ frames # <<>> /\ Top.then.k = k /\ doc' = doc /\ memo.bubble = FALSE
      /\ FrameOK(Top, n, D) /\ ThenOK(Top.then, n, D)
      /\ FrameOK(f, n, D) /\ LinkOK(f, Top) /\ f.phase = "run"
      /\ memo \in MemoType /\ memo.level <= Len(memo.styles) /\ TreeOK(tree, D)
      /\ cache \in Seq(BOOLEAN) /\ dropped \subseteq D
      /\ n \in Nat /\ n <= n
  BY <1>1, <1>2, Returned
<1>4. Top.then.k # "root" /\ ~Pushes(Top) /\ Top.then.k \in {"section", "list"}
  BY <1>2, <1>3 DEF Pushes
<1>5. /\ f.state \in {"Text", "Line"}
      /\ f.state = "Line" => Len(f.ctx) = 1
  BY <1>2, <1>3 DEF LinkOK
<1>6. f.off >= 1
  BY <1>2, <1>3 DEF LinkOK
<1>7. low \in Nat
  BY <1>2, <1>3 DEF ThenOK
<1> DEFINE from == f.off
<1>8. from \in Int /\ from >= 1
  BY <1>3, <1>6, Zenon DEF FrameOK
<1>9. cache' \in Seq(BOOLEAN)
  BY <1>1, <1>3, ReleasedCache
<1> HIDE DEF f, n, D
<1>10. /\ FrameOK(g, n, D) /\ Keeps(f, g) /\ g.state = f.state /\ g.phase = f.phase
       /\ g.ctx = f.ctx
  BY <1>3, <1>4, GoToForward, Zenon
<1>11. g.off \in Int /\ g.off >= from
  BY <1>3, <1>4, GoToForward, Zenon DEF from
<1> HIDE DEF g, low, from
<1>12. g.off >= 1
  <2> DEFINE to == g.off
  <2> HIDE DEF to
  <2>1. to >= 1
    BY <1>8, <1>11 DEF to
  <2> QED
    BY <2>1 DEF to
<1>13. ASSUME frames' = Append(Others, e), memo' = memo
       PROVE  Stack'
  <2> DEFINE bubble == memo.bubble
  <2>1. g.state \in TextStates /\ ~bubble
    BY <1>3, <1>5, <1>10 DEF TextStates
  <2>2. g.state = "Line" => Len(g.ctx) = 1
    BY <1>5, <1>10
  <2> HIDE DEF bubble
  <2>3. FrameOK(e, n, D) /\ Keeps(g, e) /\ TopOK(e, bubble)
    BY <1>10, <1>12, <2>1, <2>2, EofMachine
  <2> HIDE DEF e
  <2>4. Keeps(Caller, e) /\ FrameOK(e, Len(tree), DOMAIN doc) /\ TopOK(e, memo'.bubble)
    BY <1>10, <1>13, <2>3, KeptTwice DEF f, n, D, bubble
  <2>5. memo'.minimum = IF Pushes(Top) THEN Front(memo.minimum) ELSE memo.minimum
    BY <1>4, <1>13
  <2>6. memo' \in MemoType /\ memo'.level <= Len(memo'.styles)
    BY <1>3, <1>13
  <2>7. /\ error' = error /\ dropped' \subseteq DOMAIN doc
        /\ TreeOK(tree', DOMAIN doc) /\ Len(tree) <= Len(tree')
    BY <1>1, <1>3 DEF n, D
  <2> QED
    BY <1>3, <1>4, <1>9, <1>13, <2>4, <2>5, <2>6, <2>7, Returning
<1>14. ASSUME ~(memo.level <= low), frames' = Append(Others, h), memo' = m
       PROVE  Stack'
  <2>1. FrameOK(b, n, D) /\ Keeps(g, b) /\ TopOK(b, FALSE)
    BY <1>3, <1>10, BodyMachine
  <2>2. yes \in BOOLEAN
    OBVIOUS
  <2> HIDE DEF b, yes
  <2>3. FrameOK(h, n, D) /\ Keeps(b, h) /\ TopOK(h, FALSE)
    BY <1>3, <2>1, <2>2, KeptMachine
  <2> HIDE DEF h
  <2>4. /\ m \in MemoType /\ m.level = low /\ m.styles = memo.styles
        /\ m.bubble = FALSE /\ m.minimum = memo.minimum
    BY ONLY <1>3, <1>7 DEF MemoType
  <2> HIDE DEF m
  <2>5. memo'.minimum = IF Pushes(Top) THEN Front(memo.minimum) ELSE memo.minimum
    BY <1>4, <1>14, <2>4
  <2>6. memo' \in MemoType /\ memo'.level <= Len(memo'.styles)
    <3> DEFINE old == memo.level
               len == Len(memo.styles)
    <3>1. old \in Nat /\ len \in Nat /\ old <= len
      BY <1>3 DEF MemoType
    <3> HIDE DEF old, len
    <3>2. low <= len
      BY <1>7, <1>14, <3>1 DEF old
    <3> QED
      BY <1>14, <2>4, <3>2 DEF len
  <2>7. Keeps(Caller, h) /\ FrameOK(h, Len(tree), DOMAIN doc) /\ TopOK(h, memo'.bubble)
    BY <1>10, <1>14, <2>1, <2>3, <2>4, KeptTwice DEF f, n, D
  <2>8. /\ error' = error /\ dropped' \subseteq DOMAIN doc
        /\ TreeOK(tree', DOMAIN doc) /\ Len(tree) <= Len(tree')
    BY <1>1, <1>3 DEF n, D
  <2> QED
    BY <1>3, <1>4, <1>9, <1>14, <2>5, <2>6, <2>7, <2>8, Returning
<1> QED
  BY <1>1, <1>13, <1>14

\* The nodes of a tree are replaced one by one, and each still comes after its parent.
LEMMA ReplacedTree ==
    ASSUME NEW D, NEW t, TreeOK(t, D), NEW u, u = [i \in DOMAIN t |-> u[i]],
           \A i \in 1 .. Len(t) : NodeOK(u[i], D) /\ u[i].up < i
    PROVE  TreeOK(u, D) /\ Len(t) <= Len(u)
<1> DEFINE n == Len(t)
           r == Range(u)
<1>1. t \in Seq(Range(t))
  BY DEF TreeOK, NodesOK, IsSeq
<1>2. n \in Nat /\ DOMAIN t = 1 .. n
  BY <1>1, LenProperties
<1>3. \A i \in 1 .. n : NodeOK(u[i], D) /\ u[i].up < i
  OBVIOUS
<1> HIDE DEF n
<1>4. u = [i \in 1 .. n |-> u[i]]
  BY <1>2
<1>5. DOMAIN u = 1 .. n
  BY <1>4
<1>6. \A i \in 1 .. n : u[i] \in r
  BY <1>5 DEF Range
<1> HIDE DEF r
<1>7. u \in [1 .. n -> r]
  BY <1>4, <1>6
<1>8. u \in Seq(r)
  BY <1>2, <1>7
<1>9. Len(u) = n
  BY <1>2, <1>5, <1>8, LenProperties
<1>10. IsSeq(u)
  BY <1>8 DEF IsSeq, r
<1>11. TreeOK(u, D)
  <2> SUFFICES ASSUME NEW i \in 1 .. n
               PROVE  NodeOK(u[i], D) /\ u[i].up < 0 + i
    BY <1>9, <1>10 DEF TreeOK, NodesOK
  <2>1. NodeOK(u[i], D) /\ u[i].up < i /\ 0 + i = i
    BY <1>2, <1>3
  <2> QED
    BY <2>1
<1> QED
  BY <1>2, <1>9, <1>11 DEF n

\* A node of a tree, and what it is when it moves to another parent.
LEMMA TreeNode ==
    ASSUME NEW D, NEW t, TreeOK(t, D), NEW i \in 1 .. Len(t)
    PROVE  NodeOK(t[i], D) /\ t[i].up \in Nat /\ t[i].up < i /\ i \in Nat
<1> DEFINE x == t[i]
<1>1. NodeOK(x, D) /\ x.up < 0 + i
  BY DEF TreeOK, NodesOK
<1>2. i \in Nat
  <2>1. Len(t) \in Nat
    BY TreeLength
  <2> QED
    BY <2>1
<1>3. x.up \in Nat
  BY <1>1 DEF NodeOK
<1> HIDE DEF x
<1>4. x.up < i
  BY <1>1, <1>2, <1>3
<1> QED
  BY <1>1, <1>2, <1>3, <1>4 DEF x

\* A node below another parent.
LEMMA MovedNode ==
    ASSUME NEW D, NEW x, NodeOK(x, D), NEW up \in Nat
    PROVE  NodeOK([x EXCEPT !.up = up], D) /\ [x EXCEPT !.up = up].up = up
<1> DEFINE y == [x EXCEPT !.up = up]
<1>1. DOMAIN x = {"kind", "up", "of"}
  BY DEF NodeOK
<1>2. DOMAIN y = {"kind", "up", "of"} /\ y.up = up /\ y.of = x.of
  BY <1>1
<1> HIDE DEF y
<1>3. NodeOK(y, D)
  BY <1>2 DEF NodeOK
<1> QED
  BY <1>2, <1>3 DEF y

\* A node of another kind.
LEMMA RenamedNode ==
    ASSUME NEW D, NEW x, NodeOK(x, D), NEW kind
    PROVE  NodeOK([x EXCEPT !.kind = kind], D) /\ [x EXCEPT !.kind = kind].up = x.up
<1> DEFINE y == [x EXCEPT !.kind = kind]
<1>1. DOMAIN x = {"kind", "up", "of"}
  BY DEF NodeOK
<1>2. DOMAIN y = {"kind", "up", "of"} /\ y.up = x.up /\ y.of = x.of
  BY <1>1
<1> HIDE DEF y
<1>3. NodeOK(y, D)
  BY <1>2 DEF NodeOK
<1> QED
  BY <1>2, <1>3 DEF y

\* What is within a node comes after it.
LEMMA WithinAfter ==
    ASSUME NEW D, TreeOK(tree, D), NEW up \in Nat, NEW i \in Within(up)
    PROVE  i \in DOMAIN tree /\ i > up
<1> DEFINE S == {j \in DOMAIN tree : j > up}
<1>1. DOMAIN tree = 1 .. Len(tree) /\ Len(tree) \in Nat
  <2>1. tree \in Seq(Range(tree))
    BY DEF TreeOK, NodesOK, IsSeq
  <2> QED
    BY <2>1, LenProperties
<1>2. S \in SUBSET DOMAIN tree
  OBVIOUS
<1>3. ASSUME NEW j \in DOMAIN tree, tree[j].up \in S \cup {up}
      PROVE  j \in S
  <2> DEFINE above == tree[j].up
  <2>1. above \in Nat /\ above < j /\ j \in Nat
    BY <1>1, TreeNode
  <2>2. above \in S \cup {up}
    BY <1>3
  <2>3. above = up \/ above > up
    BY <2>2
  <2> HIDE DEF above, S
  <2>4. j > up
    BY <2>1, <2>3
  <2> QED
    BY <2>4 DEF S
<1>4. i \in DOMAIN tree /\ i \in S
  <2>1. /\ i \in DOMAIN tree
        /\ \A T \in SUBSET DOMAIN tree :
              (\A j \in DOMAIN tree : tree[j].up \in T \cup {up} => j \in T) => i \in T
    BY DEF Within
  <2> HIDE DEF S
  <2> QED
    BY <1>2, <1>3, <2>1
<1> QED
  BY <1>4

\* The end of a substitution definition: what is not inline moves out of it.
LEMMA ReturnSubstitutionStep ==
    ASSUME Stack, ReturnSubstitution
    PROVE  Stack'
<1> DEFINE k == "substitution"
           f == Caller
           D == DOMAIN doc
           s == Top.then.node
           of == Top.then.of
           up == f.node
           finish == Top.finish
           empty == \A i \in DOMAIN tree : tree[i].up = s => tree[i].kind # "inline"
           x == Node("warning", up, of)
           u == [i \in DOMAIN tree |->
                   IF i = s /\ empty THEN x
                   ELSE IF tree[i].up = s /\ tree[i].kind # "inline"
                        THEN [tree[i] EXCEPT !.up = up]
                   ELSE tree[i]]
<1>1. /\ Returns(k) /\ tree' = u
      /\ frames' = EndConstruct(f, finish, Others)
      /\ UNCHANGED <<memo, cache, error, dropped>>
  BY DEF ReturnSubstitution, Message
<1>2. k # "root" /\ k \notin {"root", "section"} /\ k # "directive" /\ k \in {"replace", "substitution"}
  OBVIOUS
<1> HIDE DEF k, finish
<1>3. /\ frames # <<>> /\ Top.then.k = k /\ doc' = doc /\ memo.bubble = FALSE
      /\ ThenOK(Top.then, Len(tree), D) /\ FrameOK(f, Len(tree), D) /\ LinkOK(f, Top)
      /\ memo \in MemoType /\ memo.level <= Len(memo.styles) /\ TreeOK(tree, D)
      /\ cache \in Seq(BOOLEAN) /\ dropped \subseteq D /\ Len(tree) \in Nat
  BY <1>1, <1>2, Returned
<1>4. ~Pushes(Top)
  BY <1>2, <1>3 DEF Pushes
<1>5. of \in SUBSET D
  BY <1>3 DEF ThenOK
<1>6. s \in 0 .. Len(tree)
  BY <1>3 DEF ThenOK
<1>7. up \in 0 .. Len(tree)
  BY <1>3, Zenon DEF FrameOK
<1>8. up < s
  BY <1>2, <1>3 DEF LinkOK
<1> HIDE DEF s, of, up, f, D, empty
<1>9. up \in Nat /\ s \in Nat
  BY <1>3, <1>6, <1>7
<1>10. NodeOK(x, D) /\ x.up = up
  BY <1>5, <1>9, NewNode
<1> HIDE DEF x
<1>11. ASSUME NEW i \in 1 .. Len(tree)
       PROVE  NodeOK(u[i], D) /\ u[i].up < i
  <2>1. i \in DOMAIN tree
    <3>1. tree \in Seq(Range(tree))
      BY <1>3 DEF TreeOK, NodesOK, IsSeq
    <3> QED
      BY <3>1, LenProperties
  <2> DEFINE y == tree[i]
             z == [y EXCEPT !.up = up]
  <2>2. /\ NodeOK(y, D) /\ y.up \in Nat /\ y.up < i /\ i \in Nat /\ NodeOK(z, D) /\ z.up = up
    <3>1. NodeOK(y, D) /\ y.up \in Nat /\ y.up < i /\ i \in Nat
      BY <1>3, TreeNode
    <3> HIDE DEF u, y
    <3>2. NodeOK(z, D) /\ z.up = up
      BY <1>9, <3>1, MovedNode
    <3> HIDE DEF z
    <3> QED
      BY <3>1, <3>2
  <2>3. \/ i = s /\ u[i] = x
        \/ y.up = s /\ u[i] = z
        \/ u[i] = y
    BY <2>1
  <2> HIDE DEF u, y, z
  <2>4. CASE i = s /\ u[i] = x
    BY <1>8, <1>10, <2>4
  <2>5. CASE y.up = s /\ u[i] = z
    <3> DEFINE above == y.up
    <3>1. above = s /\ above < i /\ i \in Nat
      BY <2>2, <2>5
    <3> HIDE DEF above
    <3>2. up < i
      BY <1>8, <1>9, <3>1
    <3> QED
      BY <2>2, <2>5, <3>2
  <2>6. CASE u[i] = y
    BY <2>2, <2>6
  <2> QED
    BY <2>3, <2>4, <2>5, <2>6
<1>12. u = [i \in DOMAIN tree |-> u[i]]
  OBVIOUS
<1> HIDE DEF u
<1>13. TreeOK(u, D) /\ Len(tree) <= Len(u)
  BY <1>3, <1>11, <1>12, ReplacedTree
<1>14. TreeOK(tree', DOMAIN doc) /\ Len(tree) <= Len(tree')
  BY <1>1, <1>13 DEF D
<1>15. memo' = memo /\ cache' = cache /\ error' = error /\ dropped' = dropped
  BY <1>1
<1>16. memo'.minimum = IF Pushes(Top) THEN Front(memo.minimum) ELSE memo.minimum
  BY <1>4, <1>15
<1>17. /\ memo' \in MemoType /\ memo'.level <= Len(memo'.styles) /\ memo'.bubble = FALSE
       /\ cache' \in Seq(BOOLEAN) /\ dropped' \subseteq DOMAIN doc
  BY <1>3, <1>15 DEF D
<1> QED
  BY <1>1, <1>2, <1>14, <1>15, <1>16, <1>17, ReturningConstruct DEF f

\* The end of a replacement: its text moves out of the element, or the element fails.
LEMMA ReturnReplaceStep ==
    ASSUME Stack, ReturnReplace
    PROVE  Stack'
<1> DEFINE k == "replace"
           f == Caller
           D == DOMAIN doc
           e == Top.then.node
           of == Top.then.of
           up == f.node
           finish == Finishes(f, Top.then.finish)
           single == Children(e) = {} \/ \E i \in Children(e) :
                         Children(e) = {i} /\ tree[i].kind = "paragraph"
           gone == Node("gone", 0, {})
           x == Node("error", up, of)
           kind == "inline"
           u == [i \in DOMAIN tree |->
                   IF i = e THEN IF single THEN gone ELSE x
                   ELSE IF i \notin Within(e) THEN tree[i]
                   ELSE IF ~single THEN gone
                   ELSE IF IsMessage(tree[i]) THEN [tree[i] EXCEPT !.up = up]
                   ELSE [tree[i] EXCEPT !.up = up, !.kind = kind]]
<1>1. /\ Returns(k) /\ tree' = u
      /\ frames' = EndConstruct(f, finish, Others)
      /\ Finished
      /\ UNCHANGED <<memo, error>>
  BY Zenon DEF ReturnReplace, Message
<1>2. k # "root" /\ k \notin {"root", "section"} /\ k # "directive" /\ k \in {"replace", "substitution"}
  OBVIOUS
<1> HIDE DEF k, finish
<1>3. /\ frames # <<>> /\ Top.then.k = k /\ doc' = doc /\ memo.bubble = FALSE
      /\ FrameOK(Top, Len(tree), D)
      /\ ThenOK(Top.then, Len(tree), D) /\ FrameOK(f, Len(tree), D) /\ LinkOK(f, Top)
      /\ memo \in MemoType /\ memo.level <= Len(memo.styles) /\ TreeOK(tree, D)
      /\ Len(tree) \in Nat
  BY <1>1, <1>2, Returned, Zenon
<1>4. ~Pushes(Top)
  BY <1>2, <1>3 DEF Pushes
<1>18. cache' \in Seq(BOOLEAN) /\ dropped' \subseteq DOMAIN doc
  BY <1>1, <1>3, FinishedParse, Zenon
<1>5. of \in SUBSET D
  BY <1>3 DEF ThenOK
<1>6. e \in 0 .. Len(tree)
  BY <1>3 DEF ThenOK
<1>7. up \in 0 .. Len(tree)
  BY <1>3, Zenon DEF FrameOK
<1>8. up < e
  BY <1>2, <1>3 DEF LinkOK
<1> HIDE DEF e, of, up, f, D, single, kind
<1>9. up \in Nat /\ e \in Nat
  BY <1>3, <1>6, <1>7
<1>10. NodeOK(x, D) /\ x.up = up
  BY <1>5, <1>9, NewNode
<1>19. NodeOK(gone, D) /\ gone.up = 0
  <2>1. 0 \in Nat /\ {} \in SUBSET D
    OBVIOUS
  <2> QED
    BY <2>1, NewNode
<1> HIDE DEF x, gone
<1>11. ASSUME NEW i \in 1 .. Len(tree)
       PROVE  NodeOK(u[i], D) /\ u[i].up < i
  <2>1. i \in DOMAIN tree
    <3>1. tree \in Seq(Range(tree))
      BY <1>3 DEF TreeOK, NodesOK, IsSeq
    <3> QED
      BY <3>1, LenProperties
  <2> DEFINE y == tree[i]
             z == [y EXCEPT !.up = up]
             w == [z EXCEPT !.kind = kind]
  <2>2. /\ NodeOK(y, D) /\ y.up < i /\ i \in Nat /\ NodeOK(z, D) /\ z.up = up
        /\ NodeOK(w, D) /\ w.up = up
    <3>1. NodeOK(y, D) /\ y.up \in Nat /\ y.up < i /\ i \in Nat
      BY <1>3, TreeNode
    <3> HIDE DEF u, y
    <3>2. NodeOK(z, D) /\ z.up = up
      BY <1>9, <3>1, MovedNode
    <3> HIDE DEF z
    <3>3. NodeOK(w, D) /\ w.up = up
      BY <3>2, RenamedNode
    <3> QED
      BY <3>1, <3>2, <3>3
  <2>3. \/ u[i] = y
        \/ u[i] = gone
        \/ i = e /\ u[i] = x
        \/ i \in Within(e) /\ (u[i] = z \/ u[i] = w)
    BY <2>1
  <2>7. i >= 1
    OBVIOUS
  <2> HIDE DEF u, y, z, w
  <2>4. CASE u[i] = gone
    <3>1. gone.up < i
      BY <1>19, <2>2, <2>7
    <3> QED
      BY <1>19, <2>4, <3>1
  <2>5. CASE i = e /\ u[i] = x
    BY <1>8, <1>10, <2>5
  <2>6. CASE i \in Within(e) /\ (u[i] = z \/ u[i] = w)
    <3>1. i > e
      BY <1>3, <1>9, <2>6, WithinAfter
    <3>2. up < i
      BY <1>8, <1>9, <2>2, <3>1
    <3> QED
      BY <2>2, <2>6, <3>2
  <2>8. CASE u[i] = y
    BY <2>2, <2>8
  <2> QED
    BY <2>3, <2>4, <2>5, <2>6, <2>8
<1>12. u = [i \in DOMAIN tree |-> u[i]]
  OBVIOUS
<1> HIDE DEF u
<1>13. TreeOK(u, D) /\ Len(tree) <= Len(u)
  BY <1>3, <1>11, <1>12, ReplacedTree
<1>14. TreeOK(tree', DOMAIN doc) /\ Len(tree) <= Len(tree')
  BY <1>1, <1>13 DEF D
<1>15. memo' = memo /\ error' = error
  BY <1>1
<1>16. memo'.minimum = IF Pushes(Top) THEN Front(memo.minimum) ELSE memo.minimum
  BY <1>4, <1>15
<1>17. memo' \in MemoType /\ memo'.level <= Len(memo'.styles) /\ memo'.bubble = FALSE
  BY <1>3, <1>15
<1> QED
  BY <1>1, <1>2, <1>14, <1>15, <1>16, <1>17, <1>18, ReturningConstruct DEF f

\* The end of the parse: no machine is left that pushed a level.
LEMMA ReturnRootStep ==
    ASSUME Stack, ReturnRoot
    PROVE  Stack'
<1> DEFINE n == Len(frames)
<1>1. /\ frames # <<>> /\ Top.phase = "over" /\ Top.then.k = "root" /\ frames' = <<>>
      /\ UNCHANGED <<doc, tree, memo, cache, error, dropped>>
  BY DEF ReturnRoot, Returns
<1>2. /\ n \in Nat /\ n >= 1 /\ Top = frames[n] /\ TopOK(Top, memo.bubble) /\ error = NoError
      /\ MemoOK(memo, Pushers(frames)) /\ doc # <<>>
  BY <1>1, Tops
<1>3. ~(n >= 2)
  <2>2. SUFFICES ASSUME n >= 2 PROVE FALSE
    OBVIOUS
  <2>1. \A i \in 2 .. n : LinkOK(frames[i - 1], frames[i])
    BY DEF Stack, StackOK
  <2> DEFINE f == frames[n - 1]
             g == frames[n]
  <2>3. LinkOK(f, g)
    BY <1>2, <2>1, <2>2
  <2>4. g.then.k = "root"
    BY <1>1, <1>2
  <2> HIDE DEF f, g
  <2> QED
    BY <2>3, <2>4 DEF LinkOK
<1> DEFINE m == n
<1> HIDE DEF m
<1>11. m \in Nat /\ m >= 1 /\ ~(m >= 2)
  BY <1>2, <1>3 DEF m
<1>12. m = 1
  BY <1>11
<1>13. n = 1
  BY <1>12 DEF m
<1>4. Pushers(frames) = 0
  <2>1. ~Pushes(Top)
    BY <1>1 DEF Pushes
  <2>2. {i \in 1 .. n : Pushes(frames[i])} = {}
    <3>1. ASSUME NEW i \in 1 .. n PROVE ~Pushes(frames[i])
      <4>1. i = n
        BY <1>13
      <4> QED
        BY <1>2, <2>1, <4>1
    <3> QED
      BY <3>1
  <2> QED
    BY <2>2, FS_EmptySet DEF Pushers
<1>5. ~memo.bubble
  BY <1>1, <1>2 DEF TopOK
<1>6. IsSeq(frames') /\ Len(frames') = 0 /\ 0 \in Nat
  BY <1>1 DEF IsSeq
<1>7. Pushers(frames') = 0
  <2>1. {i \in 1 .. Len(frames') : Pushes(frames'[i])} = {}
    BY <1>6
  <2> QED
    BY <2>1, FS_EmptySet DEF Pushers
<1>8. StackOK(frames', Len(tree'), DOMAIN doc')
  BY <1>1, <1>6 DEF StackOK
<1>9. MemoOK(memo', Pushers(frames'))
  BY <1>1, <1>2, <1>4, <1>7
<1>10. /\ TreeOK(tree', DOMAIN doc') /\ memo' \in MemoType /\ memo'.level <= Len(memo'.styles)
       /\ cache' \in Seq(BOOLEAN) /\ error' = NoError /\ dropped' \subseteq DOMAIN doc'
       /\ ~memo'.bubble /\ doc' # <<>>
  BY <1>1, <1>2, <1>5 DEF Stack
<1> QED
  BY <1>1, <1>8, <1>9, <1>10 DEF Stack

\* Nothing but the auxiliary counter changes.
LEMMA IdleStep ==
    ASSUME Stack, UNCHANGED <<doc, frames, tree, memo, cache, error, dropped>>
    PROVE  Stack'
<1>1. StackOK(frames', Len(tree'), DOMAIN doc')
  BY DEF Stack
<1>2. IF frames' = <<>> THEN error' = NoError => ~memo'.bubble ELSE TopOK(Last(frames'), memo'.bubble)
  BY DEF Stack
<1>3. error' = NoError => MemoOK(memo', Pushers(frames'))
  BY DEF Stack
<1>4. TreeOK(tree', DOMAIN doc') /\ memo' \in MemoType /\ memo'.level <= Len(memo'.styles)
  BY DEF Stack
<1>5. /\ cache' \in Seq(BOOLEAN) /\ error' \in {NoError, "ParserError", "IndexError"}
      /\ (error' # NoError => frames' = <<>>) /\ dropped' \subseteq DOMAIN doc'
      /\ (doc' = <<>> => frames' = <<>> /\ error' = NoError)
  BY DEF Stack
<1> QED
  BY <1>1, <1>2, <1>3, <1>4, <1>5 DEF Stack

-----------------------------------------------------------------------------
(* The theorems. *)

\* Every step of the block parser keeps the stack.
LEMMA StepKeepsStack ==
    ASSUME Stack, Step
    PROVE  Stack'
<1>1. CASE Parse
  BY <1>1, ParseStep
<1>2. CASE BodyBlank
  BY <1>2, BodyBlankStep
<1>3. CASE BlockQuote
  BY <1>3, BlockQuoteStep
<1>4. CASE InvalidInput
  BY <1>4, InvalidInputStep
<1>5. CASE \E t \in DOMAIN Lists : FirstItem(t) \/ TextAfterAll(t) \/ NextItem(t)
  <2>1. PICK t \in DOMAIN Lists : FirstItem(t) \/ TextAfterAll(t) \/ NextItem(t)
    BY <1>5
  <2>2. CASE FirstItem(t)
    BY <2>2, FirstItemStep
  <2>3. CASE TextAfterAll(t)
    BY <2>3, TextAfterAllStep
  <2>4. CASE NextItem(t)
    BY <2>4, NextItemStep
  <2> QED
    BY <2>1, <2>2, <2>3, <2>4
<1>6. CASE EnumeratorFails \/ LineBlockLine \/ Doctest
  BY <1>6, EnumeratorFailsStep, LineBlockLineStep, DoctestStep
<1>7. CASE Comment \/ FootnoteOrCitation \/ Target
  BY <1>7, CommentStep, FootnoteOrCitationStep, TargetStep
<1>8. CASE Malformed \/ UnknownDirective \/ SubstitutionDefinition \/ SubstitutionText
  BY <1>8, MalformedStep, UnknownDirectiveStep, SubstitutionDefinitionStep, SubstitutionTextStep
<1>9. CASE RefuseDirective \/ CodeDirective \/ BlockDirective \/ BlockArgument
  BY <1>9, RefuseDirectiveStep, CodeDirectiveStep, BlockDirectiveStep, BlockArgumentStep
<1>10. CASE VersionDirective \/ ReplaceDirective
  BY <1>10, VersionDirectiveStep, ReplaceDirectiveStep
<1>11. CASE BodyText \/ TextBlank \/ TextText \/ TextIndent \/ DefinitionIndent \/ NoDefinition
  BY <1>11, BodyTextStep, TextBlankStep, TextTextStep, TextIndentStep, DefinitionIndentStep,
     NoDefinitionStep
<1>12. CASE Underline \/ BodyLine \/ LineBlank \/ LineText \/ LineUnderline
  BY <1>12, UnderlineStep, BodyLineStep, LineBlankStep, LineTextStep, LineUnderlineStep
<1>13. CASE EndOfInput \/ TextEof \/ DefinitionEof \/ LineEof
  BY <1>13, EndOfInputStep, TextEofStep, DefinitionEofStep, LineEofStep
<1>14. CASE ReturnNothing \/ ReturnFirst \/ ReturnList \/ ListFails \/ ReturnSection
  BY <1>14, ReturnNothingStep, ReturnFirstStep, ReturnListStep, ListFailsStep, ReturnSectionStep
<1>15. CASE ReturnConstruct \/ ReturnDirective \/ ReturnArgument \/ ReturnReplace
  BY <1>15, ReturnConstructStep, ReturnDirectiveStep, ReturnArgumentStep, ReturnReplaceStep
<1>16. CASE ReturnSubstitution \/ ReturnRoot
  BY <1>16, ReturnSubstitutionStep, ReturnRootStep
<1> QED
  BY <1>1, <1>2, <1>3, <1>4, <1>5, <1>6, <1>7, <1>8, <1>9, <1>10, <1>11, <1>12, <1>13, <1>14,
     <1>15, <1>16 DEF Step

(***************************************************************************)
(* The stack of state machines is as StackOK, TreeOK and MemoOK describe   *)
(* it in every state of a parse, whatever the document, the enumerators    *)
(* and the directives.                                                     *)
(***************************************************************************)
THEOREM StackHolds == Spec => []Stack
<1>1. Init => Stack
  BY StartsEmpty
<1>2. Stack /\ [Next]_vars => Stack'
  <2> SUFFICES ASSUME Stack, [Next]_vars
               PROVE  Stack'
    OBVIOUS
  <2>1. CASE Step
    BY <2>1, StepKeepsStack
  <2>2. CASE UNCHANGED vars
    <3>1. UNCHANGED <<doc, frames, tree, memo, cache, error, dropped>>
      BY <2>2 DEF vars
    <3> QED
      BY <3>1, IdleStep
  <2> QED
    BY <2>1, <2>2 DEF Next, Done
<1> QED
  BY <1>1, <1>2, PTL DEF Spec

\* The stack has the types TypeOK gives it.
LEMMA StackTypes ==
    ASSUME Stack
    PROVE  TypeOK
<1> DEFINE n == Len(tree)
           D == DOMAIN doc
<1>1. IsSeq(frames) /\ DOMAIN frames = 1 .. Len(frames)
      /\ \A i \in 1 .. Len(frames) : FrameOK(frames[i], n, D)
  BY LenProperties DEF Stack, StackOK, IsSeq
<1>2. ASSUME NEW i \in DOMAIN frames
      PROVE  /\ frames[i].state \in States
             /\ frames[i].phase \in {"run", "eof", "over"}
             /\ frames[i].off >= -1
             /\ frames[i].node \in 0 .. Len(tree)
             /\ frames[i].state \in TextStates => Len(frames[i].ctx) <= 1
  <2> DEFINE f == frames[i]
  <2>1. FrameOK(f, n, D)
    BY <1>1
  <2> HIDE DEF f
  <2>2. f.state \in States /\ f.phase \in {"run", "eof", "over"}
    BY <2>1, Zenon DEF FrameOK
  <2>3. f.off >= -1
    BY <2>1, Zenon DEF FrameOK
  <2>4. f.node \in 0 .. Len(tree)
    BY <2>1, Zenon DEF FrameOK
  <2>5. f.state \in TextStates => Len(f.ctx) <= 1
    BY <2>1, Zenon DEF FrameOK
  <2> QED
    BY <2>2, <2>3, <2>4, <2>5 DEF f
<1>3. ASSUME NEW i \in DOMAIN tree
      PROVE  tree[i].up \in 0 .. i - 1 /\ tree[i].of \subseteq DOMAIN doc
  <2>1. TreeOK(tree, D)
    BY DEF Stack
  <2>2. i \in 1 .. Len(tree)
    BY <2>1, LenProperties DEF TreeOK, NodesOK, IsSeq
  <2>3. NodeOK(tree[i], D) /\ tree[i].up \in Nat /\ tree[i].up < i /\ i \in Nat
    BY <2>1, <2>2, TreeNode
  <2>4. tree[i].up \in 0 .. i - 1
    <3> DEFINE up == tree[i].up
    <3> HIDE DEF up
    <3>1. up \in 0 .. i - 1
      BY <2>3 DEF up
    <3> QED
      BY <3>1 DEF up
  <2> QED
    BY <2>3, <2>4 DEF NodeOK
<1>4. memo.level \in 0 .. Len(memo.styles) /\ memo.bubble \in BOOLEAN
  <2>1. memo.level \in Nat /\ Len(memo.styles) \in Nat /\ memo.level <= Len(memo.styles)
    BY LenProperties DEF Stack, MemoType
  <2> DEFINE level == memo.level
             len == Len(memo.styles)
  <2> HIDE DEF level, len
  <2>2. level \in 0 .. len
    BY <2>1 DEF level, len
  <2>3. memo.bubble \in BOOLEAN
    BY DEF Stack, MemoType
  <2> QED
    BY <2>2, <2>3 DEF level, len
<1>5. /\ cache \in Seq(BOOLEAN) /\ error \in {NoError, "ParserError", "IndexError"}
      /\ dropped \subseteq DOMAIN doc
  BY DEF Stack
<1> QED
  BY <1>2, <1>3, <1>4, <1>5 DEF TypeOK

(***************************************************************************)
(* The machines, the nodes and what the machines share have their types:   *)
(* a node's parent is made before it, and the lines it holds are lines of  *)
(* the document.                                                           *)
(***************************************************************************)
THEOREM TypesHold == Spec => []TypeOK
<1>1. Stack => TypeOK
  BY StackTypes
<1> QED
  BY <1>1, StackHolds, PTL

\* The numbers of the lines, from a machine to the one it started.
LEMMA StackCounts ==
    ASSUME Stack
    PROVE  OffsetsInStep
<1> DEFINE Plain(i) == frames[i].then.k # "argument" /\ ~OptionsCut(frames[i])
           Off(i) == i \in DOMAIN frames /\ (\A j \in 1 .. i : Plain(j)) /\ ~Counted(frames[i])
           S == {i \in DOMAIN frames : Off(i)}
<1>1. DOMAIN frames = 1 .. Len(frames) /\ Len(frames) \in Nat
  BY LenProperties DEF Stack, StackOK, IsSeq
<1>2. /\ \A i \in 2 .. Len(frames) : LinkOK(frames[i - 1], frames[i])
      /\ frames # <<>> => Counted(frames[1])
  BY DEF Stack, StackOK
<1>3. S = {}
  <2> SUFFICES ASSUME S # {}
               PROVE  FALSE
    OBVIOUS
  <2>1. PICK i \in S : \A j \in S : i <= j
    <3>1. S \in SUBSET Nat /\ S # {}
      BY <1>1
    <3> HIDE DEF S
    <3> QED
      BY <3>1, LeastNatural
  <2>2. i \in 1 .. Len(frames) /\ ~Counted(frames[i]) /\ \A j \in 1 .. i : Plain(j)
    BY <1>1, <2>1
  <2>3. CASE i = 1
    <3>1. frames # <<>>
      BY <1>1, <2>2
    <3> QED
      BY <1>2, <2>2, <2>3, <3>1
  <2>4. CASE i # 1
    <3>1. /\ i - 1 \in 1 .. Len(frames) /\ i \in 2 .. Len(frames)
          /\ \A j \in 1 .. i - 1 : j \in 1 .. i
      BY <1>1, <2>2, <2>4
    <3>2. LinkOK(frames[i - 1], frames[i])
      BY <1>2, <3>1
    <3>3. Plain(i)
      BY <2>2
    <3>4. ~Counted(frames[i - 1])
      BY <2>2, <3>2, <3>3 DEF LinkOK, Exempt
    <3>5. i - 1 \in S
      BY <1>1, <2>2, <3>1, <3>4
    <3>6. i <= i - 1
      BY <2>1, <3>5
    <3> QED
      BY <1>1, <2>2, <3>6
  <2> QED
    BY <2>3, <2>4
<1> QED
  BY <1>3 DEF OffsetsInStep, Counted

(***************************************************************************)
(* A machine numbers the lines it reads as the file does, in every         *)
(* document, unless it or one around it reads the argument of a directive  *)
(* as content, or the content of a directive whose options were cut out.   *)
(***************************************************************************)
THEOREM OffsetsStayInStep == Spec => []OffsetsInStep
<1>1. Stack => OffsetsInStep
  BY StackCounts
<1> QED
  BY <1>1, StackHolds, PTL

\* With no machine left, no directive has a level on the memo.
LEMMA StackRestores ==
    ASSUME Stack
    PROVE  MemoRestored
<1> SUFFICES ASSUME Complete
             PROVE  memo.minimum = <<0>> /\ ~memo.bubble
  BY DEF MemoRestored
<1>1. frames = <<>> /\ error = NoError
  BY DEF Complete
<1>2. ~memo.bubble /\ MemoOK(memo, Pushers(frames))
  BY <1>1 DEF Stack
<1>3. Pushers(frames) = 0
  <2>1. {i \in 1 .. Len(frames) : Pushes(frames[i])} = {}
    BY <1>1
  <2> QED
    BY <2>1, FS_EmptySet DEF Pushers
<1> DEFINE minimum == memo.minimum
<1>4. minimum \in Seq(Int) /\ Len(minimum) = 1 /\ minimum[1] = 0
  BY <1>2, <1>3 DEF MemoOK, MemoType
<1> HIDE DEF minimum
<1>5. minimum = <<0>>
  BY <1>4
<1> QED
  BY <1>2, <1>5 DEF minimum

(***************************************************************************)
(* A parse that completes leaves nothing behind in the memo, whatever the  *)
(* document: every lowest level a directive pushed has been popped, and no *)
(* overlined title waits for the machine it belongs to.                    *)
(***************************************************************************)
THEOREM MemoIsRestored == Spec => []MemoRestored
<1>1. Stack => MemoRestored
  BY StackRestores
<1> QED
  BY <1>1, StackHolds, PTL

-----------------------------------------------------------------------------
(***************************************************************************)
(* The section level of the memo follows the nesting of the sections,      *)
(* whatever the document (RSTState.check_subsection, new_subsection).      *)
(*                                                                         *)
(* A title further out sets the level at once, and the machines between it *)
(* and the machine it belongs to end one after the other.  The inductive   *)
(* invariant, Unwound, says where the level may be lower than the depth:   *)
(* only while the innermost machine ends before that title.  If it is the  *)
(* machine of a section, its caller is before the title too; any other     *)
(* machine loses the title, and what is lost is known.                     *)
(***************************************************************************)

(* The invariant. *)

\* No line has been lost or read again.
Clean == dropped = {} /\ ~reread

\* The sections among the first m machines.
IsSection(f) == f.then.k = "section"
Sections(s, m) == Cardinality({j \in 1 .. m : IsSection(s[j])})

\* The states in which a machine reads the body of a section or a directive.
BodyStates == {"Body", "Text", "Line"}

\* The machines of lists and of substitution definitions never read titles.
Listed(f) ==
    /\ f.then.k \in {"list", "substitution"} => f.state \notin BodyStates
    /\ f.then.k = "first" => f.then.state \notin BodyStates

\* The machine of a section reads what is left of its caller's lines.
Rest(f, g) == IsSection(g) => g.lines = From(f.lines, f.off + 1)

\* A machine stops before the title of a section further out, which it has not read.
BeforeTitle(f) ==
    /\ f.phase # "run"
    /\ f.state \in {"Text", "Line"} /\ (f.state = "Text" => f.ctx = <<>>)
    /\ \E i \in f.off + 2 .. Len(f.lines) : ~Blank(f.lines[i])

\* The level, when f is the innermost machine and m sections are open.
LevelOK(level, m, f) == level = m \/ (level < m /\ BeforeTitle(f))

\* What is always true of a stack, and what is true while nothing is lost.
Chained(s) ==
    /\ \A i \in 1 .. Len(s) : Listed(s[i])
    /\ \A i \in 2 .. Len(s) : Rest(s[i - 1], s[i])
Nested(s, level) ==
    /\ \A i \in 1 .. Len(s) : IsSection(s[i]) => s[i].then.level = Sections(s, i - 1)
    /\ s # <<>> => LevelOK(level, Sections(s, Len(s)), Last(s))

Unwound == Chained(frames) /\ (Clean => Nested(frames, memo.level))

\* What is clean was clean before.
Cleaner == dropped \subseteq dropped' /\ (reread => reread')

-----------------------------------------------------------------------------
(* Counting sections. *)

\* Their number, in a stack and in one with the same sections.
LEMMA SectionsCount ==
    ASSUME NEW s, NEW m \in Nat
    PROVE  /\ IsFiniteSet({j \in 1 .. m : IsSection(s[j])})
           /\ Sections(s, m) \in Nat /\ Sections(s, 0) = 0
<1> DEFINE P == {j \in 1 .. m : IsSection(s[j])}
<1>1. IsFiniteSet(1 .. m)
  <2>1. 1 \in Int /\ m \in Int
    OBVIOUS
  <2> QED
    BY <2>1, FS_Interval
<1>2. P \subseteq 1 .. m
  OBVIOUS
<1>3. IsFiniteSet(P) /\ Cardinality(P) \in Nat
  <2> HIDE DEF P
  <2> QED
    BY <1>1, <1>2, FS_Subset, FS_CardinalityType
<1>4. {j \in 1 .. 0 : IsSection(s[j])} = {}
  OBVIOUS
<1>5. Sections(s, 0) = 0
  BY <1>4, FS_EmptySet DEF Sections
<1> QED
  BY <1>3, <1>5 DEF Sections

LEMMA SameSections ==
    ASSUME NEW s, NEW t, NEW m \in Nat, \A i \in 1 .. m : IsSection(t[i]) <=> IsSection(s[i])
    PROVE  Sections(t, m) = Sections(s, m)
<1>1. {j \in 1 .. m : IsSection(t[j])} = {j \in 1 .. m : IsSection(s[j])}
  OBVIOUS
<1> QED
  BY <1>1 DEF Sections

\* One more machine.
LEMMA OneSection ==
    ASSUME NEW s, NEW m \in Nat
    PROVE  Sections(s, m + 1) = IF IsSection(s[m + 1]) THEN Sections(s, m) + 1 ELSE Sections(s, m)
<1> DEFINE P == {j \in 1 .. m : IsSection(s[j])}
           Q == {j \in 1 .. m + 1 : IsSection(s[j])}
<1>1. IsFiniteSet(P)
  BY SectionsCount
<1>2. CASE IsSection(s[m + 1])
  <2>1. Q = P \cup {m + 1} /\ m + 1 \notin P
    BY <1>2
  <2> HIDE DEF P, Q
  <2>2. Cardinality(Q) = Cardinality(P) + 1
    BY <1>1, <2>1, FS_AddElement
  <2> QED
    BY <1>2, <2>2 DEF P, Q, Sections
<1>3. CASE ~IsSection(s[m + 1])
  <2>1. Q = P
    BY <1>3
  <2> QED
    BY <1>3, <2>1 DEF Sections
<1> QED
  BY <1>2, <1>3

-----------------------------------------------------------------------------
(* The invariant when the top of the stack changes. *)

\* The last of a stack.
LEMMA LastMachine ==
    ASSUME NEW s, IsSeq(s), s # <<>>
    PROVE  Last(s) = s[Len(s)]
  BY LenProperties DEF Last, IsSeq

\* A machine goes on, and those above it have ended.
LEMMA PutChained ==
    ASSUME NEW s, IsSeq(s), Chained(s), NEW m \in 1 .. Len(s), NEW f, Keeps(s[m], f), Listed(f)
    PROVE  Chained(Put(s, m, f))
<1> DEFINE t == Put(s, m, f)
<1>1. Len(s) \in Nat
  BY LenProperties DEF IsSeq
<1>2. /\ IsSeq(t) /\ Len(t) = m /\ t[m] = f
      /\ \A i \in 1 .. m - 1 : t[i] = s[i]
  BY PutSeq
<1> HIDE DEF t
<1>3. \A i \in 1 .. m : Listed(t[i])
  <2> TAKE i \in 1 .. m
  <2>1. i = m \/ (i \in 1 .. m - 1 /\ i \in 1 .. Len(s))
    BY <1>1
  <2> QED
    BY <1>2, <2>1 DEF Chained
<1>4. \A i \in 2 .. m : Rest(t[i - 1], t[i])
  <2> TAKE i \in 2 .. m
  <2>1. i \in 2 .. Len(s) /\ i - 1 \in 1 .. m - 1 /\ (i = m \/ i \in 1 .. m - 1)
    BY <1>1
  <2>2. Rest(s[i - 1], s[i]) /\ t[i - 1] = s[i - 1]
    BY <1>2, <2>1 DEF Chained
  <2>3. t[i].then = s[i].then /\ t[i].lines = s[i].lines
    BY <1>2, <2>1 DEF Keeps
  <2> QED
    BY <2>2, <2>3 DEF Rest, IsSection
<1> QED
  BY <1>2, <1>3, <1>4 DEF Chained, t

LEMMA PutNested ==
    ASSUME NEW s, IsSeq(s), NEW m \in 1 .. Len(s), NEW f, Keeps(s[m], f),
           NEW level, Nested(s, level), NEW next, LevelOK(next, Sections(s, m), f)
    PROVE  Nested(Put(s, m, f), next)
<1> DEFINE t == Put(s, m, f)
<1>1. Len(s) \in Nat
  BY LenProperties DEF IsSeq
<1>2. /\ IsSeq(t) /\ Len(t) = m /\ t[m] = f
      /\ \A i \in 1 .. m - 1 : t[i] = s[i]
  BY PutSeq
<1> HIDE DEF t
<1>3. \A i \in 1 .. m : t[i].then = s[i].then
  <2> TAKE i \in 1 .. m
  <2>1. i = m \/ i \in 1 .. m - 1
    BY <1>1
  <2> QED
    BY <1>2, <2>1 DEF Keeps
<1>4. \A i \in 0 .. m : Sections(t, i) = Sections(s, i)
  <2> TAKE i \in 0 .. m
  <2>1. i \in Nat /\ \A j \in 1 .. i : j \in 1 .. m
    OBVIOUS
  <2>2. \A j \in 1 .. i : IsSection(t[j]) <=> IsSection(s[j])
    BY <1>3, <2>1 DEF IsSection
  <2> QED
    BY <2>1, <2>2, SameSections
<1>5. ASSUME NEW i \in 1 .. m, IsSection(t[i])
      PROVE  t[i].then.level = Sections(t, i - 1)
  <2>1. i \in 1 .. Len(s) /\ i - 1 \in 0 .. m
    BY <1>1
  <2>2. t[i].then = s[i].then /\ IsSection(s[i])
    BY <1>3, <1>5 DEF IsSection
  <2> QED
    BY <1>4, <2>1, <2>2 DEF Nested
<1>6. Last(t) = f
  <2>1. t # <<>>
    BY <1>2
  <2> QED
    BY <1>2, <2>1, LastMachine
<1>7. LevelOK(next, Sections(t, m), f)
  <2>1. m \in 0 .. m
    OBVIOUS
  <2> QED
    BY <1>4, <2>1
<1> QED
  BY <1>2, <1>5, <1>6, <1>7 DEF Nested, t

\* A machine starts another one.
LEMMA StartChained ==
    ASSUME NEW s, IsSeq(s), Chained(s), NEW m \in 1 .. Len(s), NEW f, Keeps(s[m], f), Listed(f),
           NEW g, Listed(g), Rest(f, g)
    PROVE  Chained(Start(s, m, f, g))
<1> DEFINE t == Start(s, m, f, g)
<1>1. Len(s) \in Nat
  BY LenProperties DEF IsSeq
<1>2. /\ IsSeq(t) /\ Len(t) = m + 1 /\ t[m] = f /\ t[m + 1] = g
      /\ \A i \in 1 .. m - 1 : t[i] = s[i]
  BY StartSeq
<1> HIDE DEF t
<1>3. \A i \in 1 .. m + 1 : Listed(t[i])
  <2> TAKE i \in 1 .. m + 1
  <2>1. i = m + 1 \/ i = m \/ (i \in 1 .. m - 1 /\ i \in 1 .. Len(s))
    BY <1>1
  <2> QED
    BY <1>2, <2>1 DEF Chained
<1>4. \A i \in 2 .. m + 1 : Rest(t[i - 1], t[i])
  <2> TAKE i \in 2 .. m + 1
  <2>1. CASE i = m + 1
    <3>1. i - 1 = m
      BY <1>1, <2>1
    <3> QED
      BY <1>2, <2>1, <3>1
  <2>2. CASE i # m + 1
    <3>1. i \in 2 .. Len(s) /\ i - 1 \in 1 .. m - 1 /\ (i = m \/ i \in 1 .. m - 1)
      BY <1>1, <2>2
    <3>2. Rest(s[i - 1], s[i]) /\ t[i - 1] = s[i - 1]
      BY <1>2, <3>1 DEF Chained
    <3>3. t[i].then = s[i].then /\ t[i].lines = s[i].lines
      BY <1>2, <3>1 DEF Keeps
    <3> QED
      BY <3>2, <3>3 DEF Rest, IsSection
  <2> QED
    BY <2>1, <2>2
<1> QED
  BY <1>2, <1>3, <1>4 DEF Chained, t

LEMMA StartNested ==
    ASSUME NEW s, IsSeq(s), NEW m \in 1 .. Len(s), NEW f, Keeps(s[m], f),
           NEW level, Nested(s, level), NEW g, IsSection(g) => g.then.level = Sections(s, m),
           NEW next, next = IF IsSection(g) THEN Sections(s, m) + 1 ELSE Sections(s, m)
    PROVE  Nested(Start(s, m, f, g), next)
<1> DEFINE t == Start(s, m, f, g)
<1>1. Len(s) \in Nat
  BY LenProperties DEF IsSeq
<1>2. /\ IsSeq(t) /\ Len(t) = m + 1 /\ t[m] = f /\ t[m + 1] = g
      /\ \A i \in 1 .. m - 1 : t[i] = s[i]
  BY StartSeq
<1> HIDE DEF t
<1>3. \A i \in 1 .. m : t[i].then = s[i].then
  <2> TAKE i \in 1 .. m
  <2>1. i = m \/ i \in 1 .. m - 1
    BY <1>1
  <2> QED
    BY <1>2, <2>1 DEF Keeps
<1>4. \A i \in 0 .. m : Sections(t, i) = Sections(s, i)
  <2> TAKE i \in 0 .. m
  <2>1. i \in Nat /\ \A j \in 1 .. i : j \in 1 .. m
    OBVIOUS
  <2>2. \A j \in 1 .. i : IsSection(t[j]) <=> IsSection(s[j])
    BY <1>3, <2>1 DEF IsSection
  <2> QED
    BY <2>1, <2>2, SameSections
<1>5. Sections(t, m) = Sections(s, m)
  <2>1. m \in 0 .. m
    OBVIOUS
  <2> QED
    BY <1>4, <2>1
<1>6. ASSUME NEW i \in 1 .. m + 1, IsSection(t[i])
      PROVE  t[i].then.level = Sections(t, i - 1)
  <2>1. CASE i = m + 1
    <3>1. i - 1 = m
      BY <1>1, <2>1
    <3> QED
      BY <1>2, <1>5, <1>6, <2>1, <3>1
  <2>2. CASE i # m + 1
    <3>1. i \in 1 .. m /\ i \in 1 .. Len(s) /\ i - 1 \in 0 .. m
      BY <1>1, <2>2
    <3>2. t[i].then = s[i].then /\ IsSection(s[i])
      BY <1>3, <1>6, <3>1 DEF IsSection
    <3> QED
      BY <1>4, <3>1, <3>2 DEF Nested
  <2> QED
    BY <2>1, <2>2
<1>7. m \in Nat
  BY <1>1
<1>8. LevelOK(next, Sections(t, m + 1), Last(t))
  <2>1. Sections(t, m + 1) = IF IsSection(t[m + 1]) THEN Sections(t, m) + 1 ELSE Sections(t, m)
    BY <1>7, OneSection
  <2> QED
    BY <1>2, <1>5, <2>1 DEF LevelOK
<1> QED
  BY <1>2, <1>6, <1>8 DEF Nested, t

\* The sections that are open.
Open == Sections(frames, Len(frames))

\* What a step leaves of a machine that it does not end.
Like(f, g) ==
    /\ DOMAIN f = MachineFields /\ DOMAIN g = MachineFields
    /\ Keeps(f, g)
    /\ f.state \in BodyStates <=> g.state \in BodyStates

LEMMA LikeTwice ==
    ASSUME NEW f, NEW g, NEW h, Like(f, g), Like(g, h)
    PROVE  Like(f, h)
  BY DEF Like, Keeps

LEMMA LikeListed ==
    ASSUME NEW f, NEW g, Like(f, g), Listed(f)
    PROVE  Keeps(f, g) /\ Listed(g)
  BY DEF Like, Keeps, Listed

\* The innermost machine.
LEMMA TopLevel ==
    ASSUME Stack, Unwound, frames # <<>>
    PROVE  /\ IsSeq(frames) /\ Len(frames) \in 1 .. Len(frames) /\ Len(frames) \in Nat
           /\ Top = frames[Len(frames)] /\ FrameOK(Top, Len(tree), DOMAIN doc) /\ Listed(Top)
           /\ Open \in Nat
           /\ Clean => Nested(frames, memo.level) /\ LevelOK(memo.level, Open, Top)
           /\ Clean /\ Top.phase = "run" => memo.level = Open
<1>1. IsSeq(frames)
  BY DEF Stack, StackOK
<1>2. /\ Len(frames) \in 1 .. Len(frames) /\ Len(frames) \in Nat
      /\ Top = frames[Len(frames)] /\ FrameOK(Top, Len(tree), DOMAIN doc)
  BY Tops
<1>3. Listed(Top)
  BY <1>2 DEF Unwound, Chained
<1>4. Open \in Nat
  BY <1>2, SectionsCount DEF Open
<1>5. Clean => Nested(frames, memo.level) /\ LevelOK(memo.level, Open, Top)
  BY DEF Unwound, Nested, Open, Top
<1>6. Clean /\ Top.phase = "run" => memo.level = Open
  BY <1>5 DEF LevelOK, BeforeTitle
<1> QED
  BY <1>1, <1>2, <1>3, <1>4, <1>5, <1>6

\* A step that ends the parse.
LEMMA LevelsEnd ==
    ASSUME frames' = <<>>
    PROVE  Unwound'
<1> DEFINE t == frames'
           level == memo'.level
<1>1. t = <<>> /\ Len(t) = 0
  OBVIOUS
<1> HIDE DEF t
<1>2. Chained(t) /\ Nested(t, level)
  BY <1>1 DEF Chained, Nested
<1> QED
  BY <1>2 DEF Unwound, t

\* A machine goes on: the innermost, or the one it returns to.
LEMMA LevelsPut ==
    ASSUME Stack, Unwound, Cleaner, NEW m \in 1 .. Len(frames), NEW f,
           frames' = Put(frames, m, f), Like(frames[m], f),
           Clean /\ Clean' => LevelOK(memo'.level, Sections(frames, m), f)
    PROVE  Unwound'
<1>1. IsSeq(frames) /\ Chained(frames) /\ (Clean => Nested(frames, memo.level))
  BY DEF Stack, StackOK, Unwound
<1>2. Keeps(frames[m], f) /\ Listed(f)
  BY <1>1, LikeListed DEF Chained
<1>3. Chained(Put(frames, m, f))
  BY <1>1, <1>2, PutChained
<1> DEFINE next == memo'.level
<1>4. ASSUME Clean' PROVE Nested(Put(frames, m, f), next)
  <2>1. Clean
    BY <1>4 DEF Clean, Cleaner
  <2>2. LevelOK(next, Sections(frames, m), f)
    BY <1>4, <2>1
  <2> HIDE DEF next
  <2> QED
    BY <1>1, <1>2, <2>1, <2>2, PutNested
<1> QED
  BY <1>3, <1>4 DEF Unwound

\* It starts another one.
LEMMA LevelsStart ==
    ASSUME Stack, Unwound, Cleaner, NEW m \in 1 .. Len(frames), NEW f, NEW g,
           frames' = Start(frames, m, f, g), Like(frames[m], f), Listed(g), Rest(f, g),
           Clean /\ Clean' => memo'.level = IF IsSection(g) THEN Sections(frames, m) + 1
                                           ELSE Sections(frames, m),
           Clean /\ Clean' /\ IsSection(g) => g.then.level = Sections(frames, m)
    PROVE  Unwound'
<1>1. IsSeq(frames) /\ Chained(frames) /\ (Clean => Nested(frames, memo.level))
  BY DEF Stack, StackOK, Unwound
<1>2. Keeps(frames[m], f) /\ Listed(f)
  BY <1>1, LikeListed DEF Chained
<1>3. Chained(Start(frames, m, f, g))
  BY <1>1, <1>2, StartChained
<1> DEFINE next == memo'.level
<1>4. ASSUME Clean' PROVE Nested(Start(frames, m, f, g), next)
  <2>1. Clean
    BY <1>4 DEF Clean, Cleaner
  <2>2. /\ next = IF IsSection(g) THEN Sections(frames, m) + 1 ELSE Sections(frames, m)
        /\ IsSection(g) => g.then.level = Sections(frames, m)
    BY <1>4, <2>1
  <2> HIDE DEF next
  <2> QED
    BY <1>1, <1>2, <2>1, <2>2, StartNested
<1> QED
  BY <1>3, <1>4 DEF Unwound

-----------------------------------------------------------------------------
(* The steps of the innermost machine. *)

LEMMA GoLevels ==
    ASSUME Stack, Unwound, Cleaner, frames # <<>>, NEW f, frames' = Append(Below, f), Like(Top, f),
           Clean /\ Clean' /\ LevelOK(memo.level, Open, Top) => LevelOK(memo'.level, Open, f)
    PROVE  Unwound'
<1>1. /\ Len(frames) \in 1 .. Len(frames) /\ Top = frames[Len(frames)]
      /\ Clean => LevelOK(memo.level, Open, Top)
  BY TopLevel
<1>2. Below = SubSeq(frames, 1, Len(frames) - 1) /\ IsSeq(Below)
  BY Tops
<1>3. frames' = Put(frames, Len(frames), f)
  BY <1>2, AppendIsPut DEF Put
<1> QED
  BY <1>1, <1>3, LevelsPut DEF Open

\* It goes on in its state, or ends.
LEMMA RunLevels ==
    ASSUME Stack, Unwound, Cleaner, frames # <<>>, Top.phase = "run", memo'.level = memo.level,
           NEW f, frames' = Append(Below, f), Like(Top, f)
    PROVE  Unwound'
<1>1. Clean => memo.level = Open
  BY TopLevel
<1> QED
  BY <1>1, GoLevels DEF LevelOK

\* It starts one that does not belong to a section.
LEMMA NestLevels ==
    ASSUME Stack, Unwound, Cleaner, frames # <<>>, Top.phase = "run", memo'.level = memo.level,
           NEW f, NEW g, frames' = Below \o <<f, g>>, Like(Top, f), ~IsSection(g), Listed(g)
    PROVE  Unwound'
<1>1. /\ Len(frames) \in 1 .. Len(frames) /\ Top = frames[Len(frames)]
      /\ Clean => memo.level = Open
  BY TopLevel
<1>2. Below = SubSeq(frames, 1, Len(frames) - 1)
  BY Tops
<1>3. frames' = Start(frames, Len(frames), f, g)
  BY <1>2 DEF Start
<1> QED
  BY <1>1, <1>3, LevelsStart DEF Open, Rest

LEMMA BlockLevels ==
    ASSUME Stack, Unwound, Cleaner, frames # <<>>, Top.phase = "run", memo'.level = memo.level,
           NEW f, NEW lines, NEW base, NEW node, NEW titles, NEW then,
           NestedParse(f, lines, base, node, titles, then), Like(Top, f),
           then.k \notin {"section", "list", "substitution"},
           then.k = "first" => then.state \notin BodyStates
    PROVE  Unwound'
<1> DEFINE g == Kept(Machine("Body", lines, base, node, titles, then))
<1>1. g.then = then
  BY DEF Kept, Machine
<1>2. frames' = Below \o <<f, g>>
  BY DEF NestedParse
<1> HIDE DEF g
<1>3. ~IsSection(g) /\ Listed(g)
  BY <1>1 DEF IsSection, Listed
<1> QED
  BY <1>2, <1>3, NestLevels

\* After a construct, the machine is what it was, or starts one for those that follow.
LEMMA EndedConstruct ==
    ASSUME NEW f, DOMAIN f = MachineFields, NEW finish, NEW below
    PROVE  \/ \E g : Like(f, g) /\ EndConstruct(f, finish, below) = Append(below, g)
           \/ \E h : /\ EndConstruct(f, finish, below) = below \o <<f, h>>
                    /\ Like(f, f) /\ ~IsSection(h) /\ Listed(h)
<1>1. CASE f.state = "Explicit"
  <2> DEFINE g == [f EXCEPT !.finish = finish]
  <2>1. Like(f, g)
    BY DEF Like, Keeps, MachineFields
  <2>2. EndConstruct(f, finish, below) = Append(below, g)
    BY <1>1 DEF EndConstruct
  <2> QED
    BY <2>1, <2>2
<1>2. CASE f.state = "SubstitutionDef"
  <2> DEFINE x == IF HasLine(f, f.off + 1) THEN finish ELSE f.finish
             g == Ended([f EXCEPT !.finish = x])
  <2>1. EndConstruct(f, finish, below) = Append(below, g)
    <3>1. [f EXCEPT !.finish = IF HasLine(f, f.off + 1) THEN finish ELSE @]
          = [f EXCEPT !.finish = x]
      OBVIOUS
    <3> QED
      BY <1>2, <3>1 DEF EndConstruct
  <2> HIDE DEF x
  <2>2. Like(f, g)
    BY DEF Like, Keeps, MachineFields, Ended
  <2> QED
    BY <2>1, <2>2
<1>3. CASE f.state \notin {"Explicit", "SubstitutionDef"}
  <2> DEFINE h == Machine("Explicit", From(f.lines, f.off + 1), AbsOffset(f) + 1, f.node, f.titles,
                          Then("list", finish))
  <2>1. EndConstruct(f, finish, below) = below \o <<f, h>>
    BY <1>3 DEF EndConstruct
  <2>2. h.then.k = "list" /\ h.state = "Explicit"
    BY Zenon DEF Machine, Then
  <2> HIDE DEF h
  <2>3. ~IsSection(h) /\ Listed(h)
    BY <2>2 DEF IsSection, Listed, BodyStates
  <2>4. Like(f, f)
    BY DEF Like, Keeps
  <2> QED
    BY <2>1, <2>3, <2>4
<1> QED
  BY <1>1, <1>2, <1>3

LEMMA ConstructLevels ==
    ASSUME Stack, Unwound, Cleaner, frames # <<>>, Top.phase = "run", memo'.level = memo.level,
           NEW f, NEW finish, NEW nodes, Construct(f, finish, nodes), Like(Top, f)
    PROVE  Unwound'
<1>1. frames' = EndConstruct(f, finish, Below)
  BY DEF Construct
<1>2. DOMAIN f = MachineFields
  BY DEF Like
<1>3. CASE \E g : Like(f, g) /\ EndConstruct(f, finish, Below) = Append(Below, g)
  <2>1. PICK g : Like(f, g) /\ EndConstruct(f, finish, Below) = Append(Below, g)
    BY <1>3
  <2> QED
    BY <1>1, <2>1, LikeTwice, RunLevels
<1>4. CASE \E h : /\ EndConstruct(f, finish, Below) = Below \o <<f, h>>
                  /\ Like(f, f) /\ ~IsSection(h) /\ Listed(h)
  <2>1. PICK h : /\ EndConstruct(f, finish, Below) = Below \o <<f, h>>
                 /\ Like(f, f) /\ ~IsSection(h) /\ Listed(h)
    BY <1>4
  <2> QED
    BY <1>1, <2>1, NestLevels
<1> QED
  BY <1>2, <1>3, <1>4, EndedConstruct

\* The machine that sees a line.
LEMMA SeenLevel ==
    ASSUME Stack, NEW S, NEW T, Sees(S, T)
    PROVE  /\ frames # <<>> /\ Top.phase = "run" /\ F.state \in S /\ Transition \in T
           /\ DOMAIN F = MachineFields /\ Like(Top, F) /\ F.state = Top.state
<1>1. frames # <<>> /\ Top.phase = "run" /\ F.state \in S /\ Transition \in T
  BY DEF Sees
<1>2. DOMAIN Top = MachineFields
  BY <1>1, Tops, Zenon DEF FrameOK
<1>3. DOMAIN F = MachineFields /\ Like(Top, F) /\ F.state = Top.state
  BY <1>2 DEF F, Moved, Like, Keeps, MachineFields
<1> QED
  BY <1>1, <1>3

\* It goes on, or starts a machine, or ends a construct.
LEMMA SeenRun ==
    ASSUME Stack, Unwound, Cleaner, NEW S, NEW T, Sees(S, T), memo'.level = memo.level,
           NEW f, frames' = Append(Below, f), Like(F, f)
    PROVE  Unwound'
  BY SeenLevel, LikeTwice, RunLevels

LEMMA SeenNest ==
    ASSUME Stack, Unwound, Cleaner, NEW S, NEW T, Sees(S, T), memo'.level = memo.level,
           NEW f, NEW g, frames' = Below \o <<f, g>>, Like(F, f), ~IsSection(g), Listed(g)
    PROVE  Unwound'
  BY SeenLevel, LikeTwice, NestLevels

LEMMA SeenParse ==
    ASSUME Stack, Unwound, Cleaner, NEW S, NEW T, Sees(S, T), memo'.level = memo.level,
           NEW f, NEW lines, NEW base, NEW node, NEW titles, NEW then,
           NestedParse(f, lines, base, node, titles, then), Like(F, f),
           then.k \notin {"section", "list", "substitution"},
           then.k = "first" => then.state \notin BodyStates
    PROVE  Unwound'
<1>1. frames # <<>> /\ Top.phase = "run" /\ Like(Top, f)
  BY SeenLevel, LikeTwice
<1> QED
  BY <1>1, BlockLevels

LEMMA SeenConstruct ==
    ASSUME Stack, Unwound, Cleaner, NEW S, NEW T, Sees(S, T), memo'.level = memo.level,
           NEW f, NEW finish, NEW nodes, Construct(f, finish, nodes), Like(F, f)
    PROVE  Unwound'
<1>1. frames # <<>> /\ Top.phase = "run" /\ Like(Top, f)
  BY SeenLevel, LikeTwice
<1> QED
  BY <1>1, ConstructLevels

LEMMA EndOfInputLevels ==
    ASSUME Stack, Unwound, Cleaner, EndOfInput
    PROVE  Unwound'
<1>1. frames # <<>> /\ Top.phase = "run" /\ Continue(Ended(F), <<>>)
  BY DEF EndOfInput
<1>2. DOMAIN Top = MachineFields
  BY <1>1, Tops, Zenon DEF FrameOK
<1>3. Like(Top, Ended(F))
  BY <1>2 DEF F, Moved, Ended, Like, Keeps, MachineFields
<1>4. frames' = Append(Below, Ended(F)) /\ memo'.level = memo.level
  BY <1>1 DEF Continue, Goes, Same
<1> QED
  BY <1>1, <1>3, <1>4, RunLevels

LEMMA BodyBlankLevels ==
    ASSUME Stack, Unwound, Cleaner, BodyBlank
    PROVE  Unwound'
<1>1. Sees({"Body", "SubstitutionDef"}, {"blank"})
  BY DEF BodyBlank
<1>2. frames' = Append(Below, F) /\ memo'.level = memo.level
  BY DEF BodyBlank, Continue, Goes, Same
<1>3. Like(F, F)
  BY <1>1, SeenLevel DEF Like, Keeps
<1> QED
  BY <1>1, <1>2, <1>3, SeenRun

LEMMA BlockQuoteLevels ==
    ASSUME Stack, Unwound, Cleaner, BlockQuote
    PROVE  Unwound'
<1> DEFINE b == IndentedBlock(F.lines, F.off, F.base, "unknown", FALSE)
           then == Then("nothing", TRUE)
<1>1. Sees({"Body", "SubstitutionDef"}, {"indent"})
  BY DEF BlockQuote
<1>2. /\ NestedParse([F EXCEPT !.off = b.last], b.lines, b.off, NextNode, FALSE, then)
      /\ memo'.level = memo.level
  BY DEF BlockQuote
<1> HIDE DEF b
<1>3. Like(F, [F EXCEPT !.off = b.last])
  BY <1>1, SeenLevel DEF Like, Keeps, MachineFields
<1>4. then.k = "nothing"
  BY DEF Then
<1> HIDE DEF then
<1>5. then.k \notin {"section", "list", "substitution", "first"}
  BY <1>4
<1> QED
  BY <1>1, <1>2, <1>3, <1>5, SeenParse

LEMMA InvalidInputLevels ==
    ASSUME Stack, Unwound, Cleaner, InvalidInput
    PROVE  Unwound'
<1>1. Sees(DOMAIN Members, Transitions \cup {"blank", "indent"})
  BY DEF InvalidInput
<1>2. frames' = Append(Below, Ended(Moved(F, -1))) /\ memo'.level = memo.level
  BY DEF InvalidInput, Continue, Goes, Same
<1>3. Like(F, Ended(Moved(F, -1)))
  BY <1>1, SeenLevel DEF Like, Keeps, MachineFields, Ended, Moved
<1> QED
  BY <1>1, <1>2, <1>3, SeenRun

\* The lists begin in states in which no titles are read.
LEMMA ListStates ==
    ASSUME NEW t \in DOMAIN Lists
    PROVE  Lists[t].state \notin BodyStates
  BY DEF Lists, BodyStates

LEMMA FirstItemLevels ==
    ASSUME Stack, Unwound, Cleaner, NEW t \in DOMAIN Lists, FirstItem(t)
    PROVE  Unwound'
<1> DEFINE b == ItemBlock(F, t)
           state == Lists[t].state
           list == ListOf(Line)
           then == [Then("first", b.finish) EXCEPT !.state = state, !.node = NextNode, !.list = list]
<1>1. Sees({"Body"}, {t})
  BY Zenon DEF FirstItem
<1>2. /\ NestedParse([F EXCEPT !.off = b.last], b.lines, b.off, NextNode + 1, FALSE, then)
      /\ memo'.level = memo.level
  BY Zenon DEF FirstItem
<1>3. state \notin BodyStates
  BY ListStates
<1> HIDE DEF b, state, list
<1>4. Like(F, [F EXCEPT !.off = b.last])
  BY <1>1, SeenLevel DEF Like, Keeps, MachineFields
<1>5. then.k = "first" /\ then.state = state
  BY DEF Then
<1> HIDE DEF then
<1>6. /\ then.k \notin {"section", "list", "substitution"}
      /\ then.state \notin BodyStates
  BY <1>3, <1>5
<1> QED
  BY <1>1, <1>2, <1>4, <1>6, SeenParse

LEMMA TextAfterAllLevels ==
    ASSUME Stack, Unwound, Cleaner, NEW t, TextAfterAll(t)
    PROVE  Unwound'
<1>1. Sees({"Body"}, {t})
  BY Zenon DEF TextAfterAll
<1>2. frames' = Append(Below, Correct(F)) /\ memo'.level = memo.level
  BY Zenon DEF TextAfterAll, Continue, Goes, Same
<1>3. Like(F, Correct(F))
  BY <1>1, SeenLevel DEF Like, Keeps, MachineFields, Correct, Moved
<1> QED
  BY <1>1, <1>2, <1>3, SeenRun

LEMMA NextItemLevels ==
    ASSUME Stack, Unwound, Cleaner, NEW t, NextItem(t)
    PROVE  Unwound'
<1> DEFINE b == ItemBlock(F, t)
           f == [F EXCEPT !.off = b.last, !.finish = b.finish, !.list = Advanced(F)]
           then == Then("nothing", TRUE)
<1>1. Sees({Lists[t].state}, {t})
  BY DEF NextItem
<1>2. \/ Continue(Ended(Moved(F, -1)), <<>>)
      \/ Continue(Correct(F), <<>>)
      \/ NestedParse(f, b.lines, b.off, NextNode, FALSE, then) /\ memo' = memo
  BY DEF NextItem
<1>3. CASE Continue(Ended(Moved(F, -1)), <<>>)
  <2>1. frames' = Append(Below, Ended(Moved(F, -1))) /\ memo'.level = memo.level
    BY <1>3 DEF Continue, Goes, Same
  <2>2. Like(F, Ended(Moved(F, -1)))
    BY <1>1, SeenLevel DEF Like, Keeps, MachineFields, Ended, Moved
  <2> QED
    BY <1>1, <2>1, <2>2, SeenRun
<1>4. CASE Continue(Correct(F), <<>>)
  <2>1. frames' = Append(Below, Correct(F)) /\ memo'.level = memo.level
    BY <1>4 DEF Continue, Goes, Same
  <2>2. Like(F, Correct(F))
    BY <1>1, SeenLevel DEF Like, Keeps, MachineFields, Correct, Moved
  <2> QED
    BY <1>1, <2>1, <2>2, SeenRun
<1>5. CASE NestedParse(f, b.lines, b.off, NextNode, FALSE, then) /\ memo' = memo
  <2> HIDE DEF b
  <2>1. Like(F, f)
    BY <1>1, SeenLevel DEF Like, Keeps, MachineFields
  <2>2. then.k = "nothing"
    BY DEF Then
  <2> HIDE DEF f, then
  <2>3. then.k \notin {"section", "list", "substitution", "first"}
    BY <2>2
  <2> QED
    BY <1>1, <1>5, <2>1, <2>3, SeenParse
<1> QED
  BY <1>2, <1>3, <1>4, <1>5

LEMMA LineBlockLineLevels ==
    ASSUME Stack, Unwound, Cleaner, LineBlockLine
    PROVE  Unwound'
<1> DEFINE b == IndentedBlock(F.lines, F.off, F.base, "first", TRUE)
           f == [F EXCEPT !.off = b.last]
           e == [f EXCEPT !.finish = b.finish]
           g == Machine("LineBlock", From(f.lines, f.off + 1), AbsOffset(f) + 1, NextNode, FALSE,
                        Then("list", FALSE))
<1>1. Sees({"Body", "LineBlock"}, {"line_block"})
  BY DEF LineBlockLine
<1>2. /\ \/ frames' = Append(Below, e)
         \/ frames' = Append(Below, f)
         \/ frames' = Below \o <<f, g>>
      /\ memo'.level = memo.level
  BY DEF LineBlockLine, Continue, Goes, Same, StartList
<1>3. g.then.k = "list" /\ g.state = "LineBlock"
  BY Zenon DEF Machine, Then
<1> HIDE DEF b, g
<1>4. Like(F, f) /\ Like(F, e)
  BY <1>1, SeenLevel DEF Like, Keeps, MachineFields
<1> HIDE DEF f, e
<1>5. ~IsSection(g) /\ Listed(g)
  BY <1>3 DEF IsSection, Listed, BodyStates
<1> QED
  BY <1>1, <1>2, <1>4, <1>5, SeenRun, SeenNest

LEMMA DoctestLevels ==
    ASSUME Stack, Unwound, Cleaner, Doctest
    PROVE  Unwound'
<1> DEFINE end == TextBlockEnd(F.lines, F.off, FALSE)
           f == [F EXCEPT !.off = end - 1]
<1>1. Sees({"Body"}, {"doctest"})
  BY DEF Doctest
<1>2. frames' = Append(Below, f) /\ memo'.level = memo.level
  BY DEF Doctest, Continue, Goes, Same
<1> HIDE DEF end
<1>3. Like(F, f)
  BY <1>1, SeenLevel DEF Like, Keeps, MachineFields
<1> QED
  BY <1>1, <1>2, <1>3, SeenRun

LEMMA CommentLevels ==
    ASSUME Stack, Unwound, Cleaner, Comment
    PROVE  Unwound'
<1> DEFINE c == CommentAt(F, FALSE)
           f == [F EXCEPT !.off = c.last]
<1>1. Sees({"Body", "Explicit"}, {"explicit_markup"})
  BY DEF Comment, SeesExplicit
<1>2. Construct(f, c.finish, <<Node("comment", F.node, c.of)>>) /\ memo'.level = memo.level
  BY DEF Comment, Same
<1> HIDE DEF c
<1>3. Like(F, f)
  BY <1>1, SeenLevel DEF Like, Keeps, MachineFields
<1> QED
  BY <1>1, <1>2, <1>3, SeenConstruct

LEMMA FootnoteOrCitationLevels ==
    ASSUME Stack, Unwound, Cleaner, FootnoteOrCitation
    PROVE  Unwound'
<1> DEFINE b == FirstKnown(F, FALSE)
           then == Then("construct", b.finish)
<1>1. Sees({"Body", "Explicit"}, {"explicit_markup"})
  BY DEF FootnoteOrCitation, SeesExplicit
<1>2. /\ NestedParse([F EXCEPT !.off = b.last], b.lines, b.off, NextNode, FALSE, then)
      /\ memo'.level = memo.level
  BY DEF FootnoteOrCitation
<1>3. then.k = "construct"
  BY DEF Then
<1> HIDE DEF b
<1>4. Like(F, [F EXCEPT !.off = b.last])
  BY <1>1, SeenLevel DEF Like, Keeps, MachineFields
<1> HIDE DEF then
<1>5. then.k \notin {"section", "list", "substitution", "first"}
  BY <1>3
<1> QED
  BY <1>1, <1>2, <1>4, <1>5, SeenParse

\* A line is seen in whichever state the machine is.
LEMMA SeesSome ==
    ASSUME NEW S, NEW T, Sees(S, T)
    PROVE  Sees({F.state}, {Transition})
  BY DEF Sees

LEMMA TargetLevels ==
    ASSUME Stack, Unwound, Cleaner, Target
    PROVE  Unwound'
<1> DEFINE b == FirstKnown(F, TRUE)
           f == [F EXCEPT !.off = b.last]
<1>1. Sees({F.state}, {Transition})
  BY SeesSome DEF Target, SeesExplicit
<1>2. /\ Construct(f, b.finish, <<Node("target", F.node, NumbersTo(F, b.last))>>)
      /\ memo'.level = memo.level
  BY DEF Target, Same
<1> HIDE DEF b
<1>3. Like(F, f)
  BY <1>1, SeenLevel DEF Like, Keeps, MachineFields
<1> QED
  BY <1>1, <1>2, <1>3, SeenConstruct

LEMMA MalformedLevels ==
    ASSUME Stack, Unwound, Cleaner, Malformed
    PROVE  Unwound'
<1> DEFINE b == FirstKnown(F, Head(Line.m).c = "malformed target")
           c == CommentAt([F EXCEPT !.off = b.last], TRUE)
           of == IF b.last = F.off THEN c.of ELSE c.of \ {At(F.lines, b.last).n}
           f == [F EXCEPT !.off = c.last]
<1>1. Sees({"Body", "Explicit"}, {"explicit_markup"})
  BY Zenon DEF Malformed, SeesExplicit
<1>2. /\ Construct(f, c.finish, <<Node("comment", F.node, of), Message("warning", F.node, {})>>)
      /\ memo'.level = memo.level
  BY Zenon DEF Malformed
<1> HIDE DEF c
<1>3. Like(F, f)
  BY <1>1, SeenLevel DEF Like, Keeps, MachineFields
<1> QED
  BY <1>1, <1>2, <1>3, SeenConstruct, Zenon

LEMMA UnknownDirectiveLevels ==
    ASSUME Stack, Unwound, Cleaner, UnknownDirective
    PROVE  Unwound'
<1> DEFINE b == GetIndented(F.lines, F.off, "first", FALSE)
           f == [F EXCEPT !.off = b.last]
<1>1. Sees({F.state}, {Transition})
  BY SeesSome, Zenon DEF UnknownDirective, SeesExplicit
<1>2. /\ Construct(f, b.finish, <<Message("error", F.node, NumbersTo(F, b.last))>>)
      /\ memo'.level = memo.level
  BY Zenon DEF UnknownDirective, Same
<1> HIDE DEF b
<1>3. Like(F, f)
  BY <1>1, SeenLevel DEF Like, Keeps, MachineFields
<1> QED
  BY <1>1, <1>2, <1>3, SeenConstruct

LEMMA SubstitutionDefinitionLevels ==
    ASSUME Stack, Unwound, Cleaner, SubstitutionDefinition
    PROVE  Unwound'
<1> DEFINE b == SubstitutionBlock(F)
           f == [F EXCEPT !.off = b.last]
           of == NumbersTo(F, b.last)
           g == Machine("SubstitutionDef", b.lines, b.off, NextNode, FALSE,
                        [Then("substitution", b.finish) EXCEPT !.node = NextNode, !.of = of])
<1>1. Sees({"Body", "Explicit"}, {"explicit_markup"})
  BY DEF SubstitutionDefinition, SeesExplicit
<1>2. /\ \/ Construct(f, b.finish, <<Message("warning", F.node, of)>>)
         \/ frames' = Below \o <<f, g>>
      /\ memo'.level = memo.level
  BY DEF SubstitutionDefinition, Same
<1>3. g.then.k = "substitution" /\ g.state = "SubstitutionDef"
  BY DEF Machine, Then
<1> HIDE DEF b, g
<1>4. Like(F, f)
  BY <1>1, SeenLevel DEF Like, Keeps, MachineFields
<1> HIDE DEF f
<1>5. ~IsSection(g) /\ Listed(g)
  BY <1>3 DEF IsSection, Listed, BodyStates
<1>6. CASE Construct(f, b.finish, <<Message("warning", F.node, of)>>)
  BY <1>1, <1>2, <1>4, <1>6, SeenConstruct
<1>7. CASE frames' = Below \o <<f, g>>
  BY <1>1, <1>2, <1>4, <1>5, <1>7, SeenNest
<1> QED
  BY <1>2, <1>6, <1>7

LEMMA SubstitutionTextLevels ==
    ASSUME Stack, Unwound, Cleaner, SubstitutionText
    PROVE  Unwound'
<1> DEFINE x == IF HasLine(F, F.off + 1) THEN NextLineBlank(F) ELSE F.finish
           f == Ended([F EXCEPT !.finish = x])
<1>1. Sees({"SubstitutionDef"}, {"text"})
  BY DEF SubstitutionText
<1>2. frames' = Append(Below, f) /\ memo'.level = memo.level
  <2>1. [F EXCEPT !.finish = IF HasLine(F, F.off + 1) THEN NextLineBlank(F) ELSE @]
        = [F EXCEPT !.finish = x]
    OBVIOUS
  <2> QED
    BY <2>1 DEF SubstitutionText, Continue, Goes, Same
<1> HIDE DEF x
<1>3. Like(F, f)
  BY <1>1, SeenLevel DEF Like, Keeps, MachineFields, Ended
<1> QED
  BY <1>1, <1>2, <1>3, SeenRun

\* Directives.
LEMMA SeenDirectiveLevel ==
    ASSUME Stack, SeesDirective
    PROVE  Sees({F.state}, {Transition}) /\ Like(F, AtEnd)
<1>1. Sees({F.state}, {Transition})
  BY SeesSome DEF SeesDirective, SeesExplicit
<1> DEFINE last == Here.last
<1>2. DOMAIN F = MachineFields
  BY <1>1, SeenLevel
<1> HIDE DEF last
<1>3. Like(F, [F EXCEPT !.off = last])
  BY <1>2 DEF Like, Keeps, MachineFields
<1> QED
  BY <1>1, <1>3 DEF AtEnd, last

LEMMA RefuseDirectiveLevels ==
    ASSUME Stack, Unwound, Cleaner, RefuseDirective
    PROVE  Unwound'
<1> DEFINE finish == IF Accepted THEN Finishes(AtEnd, Here.finish) ELSE Here.finish
           nodes == <<Message("error", F.node, NumbersTo(F, Here.last))>>
<1>1. SeesDirective /\ Construct(AtEnd, finish, nodes) /\ memo'.level = memo.level
  BY DEF RefuseDirective, Same
<1> HIDE DEF finish, nodes
<1> QED
  BY <1>1, SeenDirectiveLevel, SeenConstruct

LEMMA CodeDirectiveLevels ==
    ASSUME Stack, Unwound, Cleaner, CodeDirective
    PROVE  Unwound'
<1> DEFINE finish == Finishes(AtEnd, Here.finish)
           nodes == <<Node("code", F.node, NumbersOf(Parsed.args) \cup NumbersOf(Parsed.options)
                                           \cup NumbersOf(Parsed.content))>>
<1>1. SeesDirective /\ Construct(AtEnd, finish, nodes) /\ memo'.level = memo.level
  BY DEF CodeDirective, Same
<1> HIDE DEF finish, nodes
<1> QED
  BY <1>1, SeenDirectiveLevel, SeenConstruct

LEMMA BlockDirectiveLevels ==
    ASSUME Stack, Unwound, Cleaner, BlockDirective
    PROVE  Unwound'
<1> DEFINE then == Content(1)
<1>1. SeesDirective /\ NestedParse(AtEnd, Parsed.content, Parsed.off, NextNode, TRUE, then)
  BY DEF BlockDirective
<1>2. memo'.level = memo.level
  <2> DEFINE minimum == Append(memo.minimum, memo.level)
  <2>1. memo' = [memo EXCEPT !.minimum = minimum] /\ memo \in MemoType
    BY DEF BlockDirective, Stack
  <2> HIDE DEF minimum
  <2> QED
    BY <2>1 DEF MemoType
<1>3. then.k = "directive"
  BY DEF Content, Then
<1> HIDE DEF then
<1>4. then.k \notin {"section", "list", "substitution", "first"}
  BY <1>3
<1> QED
  BY <1>1, <1>2, <1>4, SeenDirectiveLevel, SeenParse

LEMMA BlockArgumentLevels ==
    ASSUME Stack, Unwound, Cleaner, BlockArgument
    PROVE  Unwound'
<1> DEFINE content == <<Parsed.content>>
           off == Parsed.off
           lines == [Parsed.args EXCEPT ![1].ind = 0]
           then == [Then("argument", Here.finish) EXCEPT
                       !.next = content, !.level = off, !.node = NextNode]
<1>1. /\ SeesDirective /\ NestedParse(AtEnd, lines, AbsOffset(F) + 1, NextNode, TRUE, then)
      /\ memo'.level = memo.level
  BY DEF BlockArgument
<1> HIDE DEF content, off, lines
<1>2. then.k = "argument"
  BY DEF Then
<1> HIDE DEF then
<1>3. then.k \notin {"section", "list", "substitution", "first"}
  BY <1>2
<1> QED
  BY <1>1, <1>3, SeenDirectiveLevel, SeenParse

LEMMA VersionDirectiveLevels ==
    ASSUME Stack, Unwound, Cleaner, VersionDirective
    PROVE  Unwound'
<1> DEFINE then == Content(0)
<1>1. /\ SeesDirective /\ NestedParse(AtEnd, Parsed.content, Parsed.off, NextNode, TRUE, then)
      /\ memo'.level = memo.level
  BY DEF VersionDirective
<1>2. then.k = "directive"
  BY DEF Content, Then
<1> HIDE DEF then
<1>3. then.k \notin {"section", "list", "substitution", "first"}
  BY <1>2
<1> QED
  BY <1>1, <1>3, SeenDirectiveLevel, SeenParse

LEMMA ReplaceDirectiveLevels ==
    ASSUME Stack, Unwound, Cleaner, ReplaceDirective
    PROVE  Unwound'
<1> DEFINE of == NumbersTo(F, Here.last)
           then == [Then("replace", Here.finish) EXCEPT !.node = NextNode, !.of = of]
<1>1. /\ SeesDirective /\ NestedParse(AtEnd, Parsed.content, Parsed.off, NextNode, FALSE, then)
      /\ memo'.level = memo.level
  BY DEF ReplaceDirective
<1> HIDE DEF of
<1>2. then.k = "replace"
  BY DEF Then
<1> HIDE DEF then
<1>3. then.k \notin {"section", "list", "substitution", "first"}
  BY <1>2
<1> QED
  BY <1>1, <1>3, SeenDirectiveLevel, SeenParse

\* Text.
LEMMA BodyTextLevels ==
    ASSUME Stack, Unwound, Cleaner, BodyText
    PROVE  Unwound'
<1> DEFINE ctx == <<Line>>
           state == IF F.state = "Body" THEN "Text" ELSE "Definition"
           f == [F EXCEPT !.ctx = ctx, !.state = state]
<1>1. Sees({"Body", "DefinitionList"}, {"text"})
  BY DEF BodyText
<1>2. frames' = Append(Below, f) /\ memo'.level = memo.level
  BY DEF BodyText, Continue, Goes, Same
<1>3. DOMAIN F = MachineFields /\ F.state \in {"Body", "DefinitionList"}
  BY <1>1, SeenLevel
<1>4. state \in BodyStates <=> F.state \in BodyStates
  BY <1>3 DEF BodyStates
<1> HIDE DEF ctx, state
<1>5. Like(F, f)
  BY <1>3, <1>4 DEF Like, Keeps, MachineFields
<1> QED
  BY <1>1, <1>2, <1>5, SeenRun

\* A machine that has done with a text reads its body again.
LEMMA BodyAgain ==
    ASSUME NEW f, DOMAIN f = MachineFields, f.state \in BodyStates, NEW off
    PROVE  Like(f, BackToBody([f EXCEPT !.off = off])) /\ Like(f, BackToBody(f))
<1>1. Like(f, BackToBody([f EXCEPT !.off = off]))
  BY DEF Like, Keeps, MachineFields, BackToBody, BodyStates
<1>2. Like(f, BackToBody(f))
  BY DEF Like, Keeps, MachineFields, BackToBody, BodyStates
<1> QED
  BY <1>1, <1>2

LEMMA TextBlankLevels ==
    ASSUME Stack, Unwound, Cleaner, TextBlank
    PROVE  Unwound'
<1> DEFINE b == IndentedBlock(F.lines, F.off, F.base, "unknown", FALSE)
           l == Literal(F, F.ctx)
<1>1. Sees({"Text"}, {"blank"})
  BY DEF TextBlank
<1>2. frames' = Append(Below, BackToBody(l.f)) /\ memo'.level = memo.level
  BY DEF TextBlank, Continue, Goes, Same
<1>3. l.f = [F EXCEPT !.off = b.last] \/ l.f = F
  BY DEF Literal
<1> HIDE DEF b, l
<1>4. DOMAIN F = MachineFields /\ F.state \in BodyStates
  BY <1>1, SeenLevel DEF BodyStates
<1>5. Like(F, BackToBody(l.f))
  BY <1>3, <1>4, BodyAgain
<1> QED
  BY <1>1, <1>2, <1>5, SeenRun

LEMMA TextTextLevels ==
    ASSUME Stack, Unwound, Cleaner, TextText
    PROVE  Unwound'
<1> DEFINE end == TextBlockEnd(F.lines, F.off, TRUE)
           lines == F.ctx \o Slice(F.lines, F.off, end)
           off == IF LiteralNext(lines) THEN end ELSE end - 1
           f == [F EXCEPT !.off = off]
           b == IndentedBlock(f.lines, f.off, f.base, "unknown", FALSE)
           last == b.last
           l == Literal(f, lines)
<1>1. Sees({"Text"}, {"text"})
  BY DEF TextText
<1>2. frames' = Append(Below, BackToBody(l.f)) /\ memo'.level = memo.level
  BY DEF TextText, Continue, Goes, Same
<1>3. l.f = [f EXCEPT !.off = last] \/ l.f = f
  BY DEF Literal
<1> HIDE DEF l, last, off
<1>4. DOMAIN F = MachineFields /\ F.state \in BodyStates
  BY <1>1, SeenLevel DEF BodyStates
<1>5. [f EXCEPT !.off = last] = [F EXCEPT !.off = last]
  BY <1>4
<1>6. l.f = [F EXCEPT !.off = last] \/ l.f = [F EXCEPT !.off = off]
  BY <1>3, <1>5
<1> HIDE DEF f
<1>7. Like(F, BackToBody(l.f))
  BY <1>4, <1>6, BodyAgain
<1> QED
  BY <1>1, <1>2, <1>7, SeenRun

LEMMA TextIndentLevels ==
    ASSUME Stack, Unwound, Cleaner, TextIndent
    PROVE  Unwound'
<1> DEFINE b == DefinitionBlock
           last == b.last
           f == [BackToBody(F) EXCEPT !.off = last]
           then == [Then("first", b.finish) EXCEPT !.state = "DefinitionList", !.node = NextNode]
<1>1. Sees({"Text"}, {"indent"})
  BY DEF TextIndent
<1>2. /\ NestedParse(f, b.lines, b.off, NextNode + 1, FALSE, then)
      /\ memo'.level = memo.level
  BY DEF TextIndent
<1> HIDE DEF b, last
<1>3. DOMAIN F = MachineFields /\ F.state \in BodyStates
  BY <1>1, SeenLevel DEF BodyStates
<1>4. Like(F, f)
  BY <1>3 DEF Like, Keeps, MachineFields, BackToBody, BodyStates
<1>5. then.k = "first" /\ then.state = "DefinitionList"
  BY DEF Then
<1> HIDE DEF then, f
<1>6. then.k \notin {"section", "list", "substitution"} /\ then.state \notin BodyStates
  BY <1>5 DEF BodyStates
<1> QED
  BY <1>1, <1>2, <1>4, <1>6, SeenParse

LEMMA DefinitionIndentLevels ==
    ASSUME Stack, Unwound, Cleaner, DefinitionIndent
    PROVE  Unwound'
<1> DEFINE b == DefinitionBlock
           f == [F EXCEPT !.off = b.last, !.state = "DefinitionList",
                          !.ctx = <<>>, !.finish = b.finish]
           then == Then("nothing", TRUE)
<1>1. Sees({"Definition"}, {"indent"})
  BY DEF DefinitionIndent
<1>2. /\ NestedParse(f, b.lines, b.off, NextNode, FALSE, then)
      /\ memo'.level = memo.level
  BY DEF DefinitionIndent
<1> HIDE DEF b
<1>3. DOMAIN F = MachineFields /\ F.state = "Definition"
  BY <1>1, SeenLevel
<1>4. Like(F, f)
  BY <1>3 DEF Like, Keeps, MachineFields, BodyStates
<1>5. then.k = "nothing"
  BY DEF Then
<1> HIDE DEF then, f
<1>6. then.k \notin {"section", "list", "substitution", "first"}
  BY <1>5
<1> QED
  BY <1>1, <1>2, <1>4, <1>6, SeenParse

LEMMA NoDefinitionLevels ==
    ASSUME Stack, Unwound, Cleaner, NoDefinition
    PROVE  Unwound'
<1>1. Sees({"Definition"}, {"blank", "underline", "text"})
  BY DEF NoDefinition
<1>2. frames' = Append(Below, Ended(F)) /\ memo'.level = memo.level
  BY DEF NoDefinition, Continue, Goes, Same
<1>3. Like(F, Ended(F))
  BY <1>1, SeenLevel DEF Like, Keeps, MachineFields, Ended
<1> QED
  BY <1>1, <1>2, <1>3, SeenRun

\* Rules: transitions and overlines.
LEMMA BodyLineLevels ==
    ASSUME Stack, Unwound, Cleaner, BodyLine
    PROVE  Unwound'
<1> DEFINE ctx == <<Line>>
           f == [F EXCEPT !.ctx = ctx, !.state = "Line"]
<1>1. Sees({"Body"}, {"line"})
  BY DEF BodyLine
<1>2. /\ \/ frames' = Append(Below, f)
         \/ frames' = Append(Below, Correct(F))
         \/ frames' = Append(Below, F)
      /\ memo'.level = memo.level
  BY DEF BodyLine, Continue, Goes, Same
<1>3. DOMAIN F = MachineFields /\ F.state = "Body"
  BY <1>1, SeenLevel
<1> HIDE DEF ctx
<1>4. Like(F, f)
  BY <1>3 DEF Like, Keeps, MachineFields, BodyStates
<1>5. Like(F, Correct(F)) /\ Like(F, F)
  BY <1>3 DEF Like, Keeps, MachineFields, Correct, Moved
<1> QED
  BY <1>1, <1>2, <1>4, <1>5, SeenRun

\* An overline that is text after all.
LEMMA AsTextLike ==
    ASSUME NEW f, DOMAIN f = MachineFields, f.state \in BodyStates, NEW lines
    PROVE  Like(f, AsText(f, lines)) /\ Like(f, AsText(Moved(f, 1), lines))
<1>1. Like(f, AsText(f, lines))
  BY DEF Like, Keeps, MachineFields, AsText, Moved, BodyStates
<1>2. Like(f, AsText(Moved(f, 1), lines))
  BY DEF Like, Keeps, MachineFields, AsText, Moved, BodyStates
<1> QED
  BY <1>1, <1>2

LEMMA LineBlankLevels ==
    ASSUME Stack, Unwound, Cleaner, LineBlank
    PROVE  Unwound'
<1>1. Sees({"Line"}, {"blank"})
  BY DEF LineBlank
<1>2. /\ frames' = Append(Below, AsText(F, 1)) \/ frames' = Append(Below, BackToBody(F))
      /\ memo'.level = memo.level
  BY DEF LineBlank, Continue, Goes, Same
<1>3. DOMAIN F = MachineFields /\ F.state \in BodyStates
  BY <1>1, SeenLevel DEF BodyStates
<1>4. Like(F, AsText(F, 1)) /\ Like(F, BackToBody(F))
  BY <1>3, AsTextLike, BodyAgain
<1> QED
  BY <1>1, <1>2, <1>4, SeenRun

LEMMA LineUnderlineLevels ==
    ASSUME Stack, Unwound, Cleaner, LineUnderline
    PROVE  Unwound'
<1>1. Sees({"Line"}, {"underline"})
  BY DEF LineUnderline
<1>2. /\ frames' = Append(Below, AsText(F, 1)) \/ frames' = Append(Below, BackToBody(F))
      /\ memo'.level = memo.level
  BY DEF LineUnderline, Continue, Goes, Same
<1>3. DOMAIN F = MachineFields /\ F.state \in BodyStates
  BY <1>1, SeenLevel DEF BodyStates
<1>4. Like(F, AsText(F, 1)) /\ Like(F, BackToBody(F))
  BY <1>3, AsTextLike, BodyAgain
<1> QED
  BY <1>1, <1>2, <1>4, SeenRun

\* A title, which machine f has read to the end of its underline.
LEMMA SectionLevels ==
    ASSUME Stack, Unwound, Cleaner, NEW S, NEW T, Sees(S, T),
           NEW f, Like(F, f), f.state \in {"Text", "Line"}, f.state = "Text" => f.ctx = <<>>,
           f.off \in Int, f.off + 1 \in 1 .. Len(f.lines), ~Blank(f.lines[f.off + 1]),
           NEW style, NEW of, NEW messages, Section(f, style, of, messages)
    PROVE  Unwound'
<1> DEFINE level == IndexOf(memo.styles, style)
           new == level = 0 /\ Len(memo.styles) = memo.level
           mlevel == memo.level
           bubble == memo.bubble \/ style.over
           styles == IF new THEN Append(memo.styles, style) ELSE memo.styles
           m1 == [memo EXCEPT !.level = @ + 1, !.styles = IF new THEN Append(@, style) ELSE @]
           then == [Then("section", TRUE) EXCEPT !.level = mlevel]
           lines == From(f.lines, f.off + 1)
           below == Ended(Moved(f, IF style.over THEN -3 ELSE -2))
           lowest == <<Message("error", f.node, {})>>
           none == <<>>
           again == [BackToBody(f) EXCEPT !.eofcheck = TRUE]
           severe == <<Message("severe", f.node, of)>>
<1>0. \/ NestedParse(f, lines, AbsOffset(f) + 1, NextNode, TRUE, then) /\ memo' = m1
      \/ /\ level # 0 /\ level <= mlevel
         /\ Goes(below, lowest) \/ Goes(below, none)
         /\ memo' = [memo EXCEPT !.level = level, !.bubble = bubble]
      \/ Continue(again, severe)
  BY DEF Section
<1> HIDE DEF lowest, none, severe
<1>1. frames # <<>> /\ Top.phase = "run" /\ Like(Top, f) /\ DOMAIN f = MachineFields
  BY SeenLevel, LikeTwice DEF Like
<1>2. /\ Len(frames) \in 1 .. Len(frames) /\ Top = frames[Len(frames)]
      /\ Clean => mlevel = Open
      /\ Open \in Nat
  BY <1>1, TopLevel
<1>3. memo \in MemoType /\ level \in Nat
  <2>1. memo \in MemoType
    BY DEF Stack
  <2>2. memo.styles \in Seq(Style)
    BY <2>1 DEF MemoType
  <2> HIDE DEF level
  <2>3. level \in 0 .. Len(memo.styles)
    BY <2>2, IndexPart DEF level
  <2> QED
    BY <2>1, <2>3
<1>4. CASE NestedParse(f, lines, AbsOffset(f) + 1, NextNode, TRUE, then) /\ memo' = m1
  <2> DEFINE g == Kept(Machine("Body", lines, AbsOffset(f) + 1, NextNode, TRUE, then))
  <2>1. NestedParse(f, lines, AbsOffset(f) + 1, NextNode, TRUE, then) /\ memo' = m1
    BY <1>4
  <2>2. memo'.level = mlevel + 1
    <3>1. m1 = [memo EXCEPT !.level = mlevel + 1, !.styles = styles]
      OBVIOUS
    <3> HIDE DEF styles, mlevel, m1
    <3>2. [memo EXCEPT !.level = mlevel + 1, !.styles = styles].level = mlevel + 1
      BY <1>3 DEF MemoType
    <3> QED
      BY <2>1, <3>1, <3>2
  <2>3. frames' = Below \o <<f, g>>
    BY <2>1 DEF NestedParse
  <2>4. frames' = Start(frames, Len(frames), f, g)
    <3>1. Below = SubSeq(frames, 1, Len(frames) - 1)
      BY <1>1, Tops
    <3> QED
      BY <2>3, <3>1 DEF Start
  <2>5. g.then = then /\ g.lines = lines
    BY DEF Kept, Machine
  <2>6. then.k = "section" /\ then.level = mlevel
    BY DEF Then
  <2> HIDE DEF g, then, mlevel
  <2>7. IsSection(g) /\ Listed(g) /\ Rest(f, g)
    BY <2>5, <2>6 DEF IsSection, Listed, Rest
  <2>8. Clean => g.then.level = Open /\ memo'.level = Open + 1
    BY <1>2, <2>2, <2>5, <2>6
  <2> HIDE DEF lines
  <2> QED
    BY <1>1, <1>2, <2>4, <2>7, <2>8, LevelsStart DEF Open
<1>5. CASE /\ level # 0 /\ level <= mlevel
           /\ Goes(below, lowest) \/ Goes(below, none)
           /\ memo' = [memo EXCEPT !.level = level, !.bubble = bubble]
  <2> DEFINE g == below
  <2>1. frames' = Append(Below, g) /\ memo' = [memo EXCEPT !.level = level, !.bubble = bubble]
    BY <1>5 DEF Goes
  <2>2. memo'.level = level
    <3> HIDE DEF level, bubble
    <3> QED
      BY <1>3, <2>1 DEF MemoType
  <2>3. Like(f, g) /\ g.phase = "eof" /\ g.ctx = f.ctx /\ g.state = f.state
        /\ g.lines = f.lines /\ (g.off = f.off - 3 \/ g.off = f.off - 2)
    <3>1. CASE style.over
      <4>1. g = Ended(Moved(f, -3))
        BY <3>1
      <4>2. LET h == Ended(Moved(f, -3))
            IN  /\ Like(f, h) /\ h.phase = "eof" /\ h.ctx = f.ctx /\ h.state = f.state
                /\ h.lines = f.lines /\ h.off = f.off - 3
        BY <1>1 DEF Like, Keeps, MachineFields, Ended, Moved, TextStates
      <4> QED
        BY <4>1, <4>2
    <3>2. CASE ~style.over
      <4>1. g = Ended(Moved(f, -2))
        BY <3>2
      <4>2. LET h == Ended(Moved(f, -2))
            IN  /\ Like(f, h) /\ h.phase = "eof" /\ h.ctx = f.ctx /\ h.state = f.state
                /\ h.lines = f.lines /\ h.off = f.off - 2
        BY <1>1 DEF Like, Keeps, MachineFields, Ended, Moved, TextStates
      <4> QED
        BY <4>1, <4>2
    <3> QED
      BY <3>1, <3>2
  <2> HIDE DEF g
  <2>4. BeforeTitle(g)
    <3> DEFINE i == f.off + 1
    <3>1. i \in g.off + 2 .. Len(g.lines) /\ ~Blank(g.lines[i])
      BY <2>3
    <3> HIDE DEF i
    <3> QED
      BY <2>3, <3>1 DEF BeforeTitle
  <2>5. Clean => LevelOK(level, Open, g)
    <3>1. level <= mlevel /\ level \in Nat
      BY <1>3, <1>5
    <3> HIDE DEF level, mlevel
    <3> QED
      BY <1>2, <2>4, <3>1 DEF LevelOK
  <2>6. Like(Top, g)
    BY <1>1, <2>3, LikeTwice
  <2> HIDE DEF level
  <2> QED
    BY <1>1, <2>1, <2>2, <2>5, <2>6, GoLevels
<1>6. CASE Continue(again, severe)
  <2> DEFINE g == again
  <2>1. frames' = Append(Below, g) /\ memo'.level = memo.level
    BY <1>6 DEF Continue, Goes, Same
  <2>2. Like(f, g)
    BY <1>1 DEF Like, Keeps, MachineFields, BackToBody, BodyStates
  <2> HIDE DEF g
  <2>3. Like(Top, g)
    BY <1>1, <2>2, LikeTwice
  <2> QED
    BY <1>1, <2>1, <2>3, RunLevels
<1> QED
  BY <1>0, <1>4, <1>5, <1>6

\* A line that is seen as an underline is not blank.
LEMMA UnderlineSeen ==
    ASSUME Stack, NEW S, Sees(S, {"underline"}), F.state \in TextStates
    PROVE  ~Blank(Line)
<1> DEFINE T == {"underline"}
           only == Top.only
<1>1. Sees(S, T)
  OBVIOUS
<1>2. Transition = "underline"
  <2>1. Transition \in T
    BY <1>1, Seen, Zenon
  <2> QED
    BY <2>1
<1> HIDE DEF T
<1>3. frames # <<>>
  BY <1>1, Seen, Zenon
<1>4. only \in {"", "text"}
  BY <1>3, Tops, Zenon DEF FrameOK
<1>5. Transition = IF only # "" THEN only
                   ELSE IF Blank(Line) THEN "blank"
                   ELSE IF Line.ind > 0 THEN "indent"
                   ELSE IF IsRule(Line) THEN "underline" ELSE "text"
  BY DEF Transition
<1> HIDE DEF only
<1> QED
  BY <1>2, <1>4, <1>5, Zenon

LEMMA UnderlineLevels ==
    ASSUME Stack, Unwound, Cleaner, Underline
    PROVE  Unwound'
<1> DEFINE T == {"underline"}
           rule == RuleOf(Line)
           short == Width(F.ctx[1]) > rule.u
           of == NumbersOf(<<F.ctx[1], Line>>)
           warned(up) == IF short THEN <<Message("warning", up, of)>> ELSE <<>>
           info == IF F.titles THEN <<Message("info", F.node, {})>> ELSE <<>>
           severe == Append(warned(F.node), Message("severe", F.node, of))
           style == [c |-> rule.c, over |-> FALSE]
           messages == warned(NextNode)
           none == <<>>
           f == [F EXCEPT !.ctx = none]
<1>1. Sees({"Text"}, {"underline"})
  BY DEF Underline
<1>2. \/ Continue(Correct(F), info)
      \/ Continue(BackToBody(F), severe)
      \/ Section(f, style, of, messages)
  BY DEF Underline
<1> HIDE DEF rule, short, of, info, severe, style, messages
<1>3. DOMAIN F = MachineFields /\ F.state = "Text" /\ F.off \in Nat /\ F.off < Len(F.lines)
  BY <1>1, SeenLevel, SeenAt
<1>4. CASE Continue(Correct(F), info)
  <2>1. frames' = Append(Below, Correct(F)) /\ memo'.level = memo.level
    BY <1>4 DEF Continue, Goes, Same
  <2>2. Like(F, Correct(F))
    BY <1>3 DEF Like, Keeps, MachineFields, Correct, Moved
  <2> QED
    BY <1>1, <2>1, <2>2, SeenRun
<1>5. CASE Continue(BackToBody(F), severe)
  <2>1. frames' = Append(Below, BackToBody(F)) /\ memo'.level = memo.level
    BY <1>5 DEF Continue, Goes, Same
  <2>2. Like(F, BackToBody(F))
    BY <1>3, BodyAgain DEF BodyStates
  <2> QED
    BY <1>1, <2>1, <2>2, SeenRun
<1>6. CASE Section(f, style, of, messages)
  <2>1. /\ Like(F, f) /\ f.state = "Text" /\ f.ctx = <<>> /\ f.off = F.off /\ f.lines = F.lines
    BY <1>3 DEF Like, Keeps, MachineFields
  <2>2. ~Blank(F.lines[F.off + 1])
    <3>1. ~Blank(Line)
      BY <1>1, <1>3, UnderlineSeen DEF TextStates
    <3> QED
      BY <3>1 DEF Line, At
  <2>3. F.off + 1 \in 1 .. Len(F.lines)
    <3> DEFINE n == Len(F.lines)
    <3>1. n \in Nat
      BY <1>1, Seen, LenProperties, Zenon DEF FrameOK, LinesOf
    <3> HIDE DEF n
    <3> QED
      BY <1>3, <3>1 DEF n
  <2> HIDE DEF f
  <2>4. /\ f.state \in {"Text", "Line"} /\ (f.state = "Text" => f.ctx = <<>>)
        /\ f.off \in Int /\ f.off + 1 \in 1 .. Len(f.lines) /\ ~Blank(f.lines[f.off + 1])
    BY <1>3, <2>1, <2>2, <2>3
  <2> QED
    BY <1>1, <1>6, <2>1, <2>4, SectionLevels
<1> QED
  BY <1>2, <1>4, <1>5, <1>6

LEMMA LineTextLevels ==
    ASSUME Stack, Unwound, Cleaner, LineText
    PROVE  Unwound'
<1> DEFINE f == Moved(F, 1)
           over == RuleOf(F.ctx[1])
           of == NumbersOf(F.ctx \o Slice(F.lines, F.off, F.off + 2))
           matches == /\ HasLine(f, f.off)
                      /\ IsRule(At(f.lines, f.off))
                      /\ RuleOf(At(f.lines, f.off)).c = over.c
                      /\ RuleOf(At(f.lines, f.off)).u = over.u
           wide == Width(Line) > over.u
           warned == IF wide THEN <<Message("warning", NextNode, of)>> ELSE <<>>
           info == <<Message("info", F.node, {})>>
           severe == <<Message("severe", F.node, of)>>
           style == [c |-> over.c, over |-> TRUE]
           g == [f EXCEPT !.eofcheck = FALSE]
<1>1. Sees({"Line"}, {"text", "indent"})
  BY DEF LineText
<1>2. \/ Continue(AsText(f, 2), info)
      \/ Continue(BackToBody(f), severe)
      \/ matches /\ Section(g, style, of, warned)
  BY DEF LineText
<1>3. DOMAIN F = MachineFields /\ F.state = "Line" /\ F.off \in Nat /\ F.off < Len(F.lines)
  BY <1>1, SeenLevel, SeenAt
<1> HIDE DEF info, severe, style, of, warned
<1>4. CASE Continue(AsText(f, 2), info)
  <2>1. frames' = Append(Below, AsText(f, 2)) /\ memo'.level = memo.level
    BY <1>4 DEF Continue, Goes, Same
  <2>2. Like(F, AsText(f, 2))
    BY <1>3, AsTextLike DEF BodyStates
  <2> QED
    BY <1>1, <2>1, <2>2, SeenRun
<1>5. CASE Continue(BackToBody(f), severe)
  <2>1. frames' = Append(Below, BackToBody(f)) /\ memo'.level = memo.level
    BY <1>5 DEF Continue, Goes, Same
  <2>2. Like(F, BackToBody(f))
    BY <1>3 DEF Like, Keeps, MachineFields, BackToBody, Moved, BodyStates
  <2> QED
    BY <1>1, <2>1, <2>2, SeenRun
<1>6. CASE matches /\ Section(g, style, of, warned)
  <2>1. HasLine(f, f.off) /\ ~Blank(At(f.lines, f.off))
    <3> DEFINE line == At(f.lines, f.off)
    <3>1. HasLine(f, f.off) /\ IsRule(line)
      BY <1>6
    <3> HIDE DEF line
    <3>2. ~Blank(line)
      BY <3>1 DEF IsRule, Lone, Blank
    <3> QED
      BY <3>1, <3>2 DEF line
  <2>2. /\ Like(F, g) /\ g.state = "Line" /\ g.off = f.off /\ g.lines = f.lines
        /\ f.off = F.off + 1 /\ f.lines = F.lines
    BY <1>3 DEF Like, Keeps, MachineFields, Moved
  <2>3. Len(F.lines) \in Nat
    BY <1>1, Seen, LenProperties, Zenon DEF FrameOK, LinesOf
  <2>4. Section(g, style, of, warned)
    BY <1>6
  <2> HIDE DEF f, g, matches
  <2>5. f.off + 1 \in 1 .. Len(f.lines) /\ ~Blank(f.lines[f.off + 1])
    <3> DEFINE n == Len(F.lines)
    <3>1. f.off < n /\ n \in Nat
      BY <2>1, <2>2, <2>3 DEF HasLine
    <3> HIDE DEF n
    <3>2. f.off + 1 \in 1 .. n
      BY <1>3, <2>2, <3>1
    <3> QED
      BY <2>1, <2>2, <3>2 DEF At, n
  <2>6. /\ g.state \in {"Text", "Line"} /\ (g.state = "Text" => g.ctx = <<>>)
        /\ g.off \in Int /\ g.off + 1 \in 1 .. Len(g.lines) /\ ~Blank(g.lines[g.off + 1])
    BY <1>3, <2>2, <2>5
  <2> QED
    BY <1>1, <2>2, <2>4, <2>6, SectionLevels
<1> QED
  BY <1>2, <1>4, <1>5, <1>6

-----------------------------------------------------------------------------
(* The end of a machine's input. *)

LEMMA TextEofLevels ==
    ASSUME Stack, Unwound, Cleaner, TextEof
    PROVE  Unwound'
<1> DEFINE b == IndentedBlock(Top.lines, Top.off, Top.base, "unknown", FALSE)
           last == b.last
           l == Literal(Top, Top.ctx)
<1>1. frames # <<>> /\ Top.state = "Text" /\ Top.phase = "eof"
  BY DEF TextEof, InEof
<1>2. DOMAIN Top = MachineFields
  BY <1>1, Tops, Zenon DEF FrameOK
<1>3. CASE Top.ctx = <<>>
  <2>1. frames' = Append(Below, Over(Top)) /\ memo'.level = memo.level
    BY <1>3 DEF TextEof, Continue, Goes, Same
  <2>2. /\ Like(Top, Over(Top)) /\ Over(Top).phase = "over" /\ Over(Top).state = Top.state
        /\ Over(Top).ctx = Top.ctx /\ Over(Top).off = Top.off /\ Over(Top).lines = Top.lines
    BY <1>2 DEF Like, Keeps, MachineFields, Over
  <2>3. BeforeTitle(Top) => BeforeTitle(Over(Top))
    BY <2>2 DEF BeforeTitle
  <2> QED
    BY <1>1, <2>1, <2>2, <2>3, GoLevels DEF LevelOK
<1>4. CASE Top.ctx # <<>>
  <2>1. frames' = Append(Below, Over(l.f)) /\ memo'.level = memo.level
    BY <1>4 DEF TextEof, Continue, Goes, Same
  <2>2. l.f = [Top EXCEPT !.off = last] \/ l.f = Top
    BY DEF Literal
  <2> HIDE DEF l, last
  <2>3. Like(Top, Over([Top EXCEPT !.off = last])) /\ Like(Top, Over(Top))
    BY <1>2 DEF Like, Keeps, MachineFields, Over
  <2>4. ~BeforeTitle(Top)
    BY <1>1, <1>4 DEF BeforeTitle
  <2> QED
    BY <1>1, <2>1, <2>2, <2>3, <2>4, GoLevels DEF LevelOK
<1> QED
  BY <1>3, <1>4

LEMMA DefinitionEofLevels ==
    ASSUME Stack, Unwound, Cleaner, DefinitionEof
    PROVE  Unwound'
<1> DEFINE f == Over(Moved(Top, -2))
<1>1. frames # <<>> /\ Top.state = "Definition" /\ Top.phase = "eof"
  BY DEF DefinitionEof, InEof
<1>2. DOMAIN Top = MachineFields
  BY <1>1, Tops, Zenon DEF FrameOK
<1>3. frames' = Append(Below, f) /\ memo'.level = memo.level
  BY DEF DefinitionEof, Continue, Goes, Same
<1>4. Like(Top, f)
  BY <1>2 DEF Like, Keeps, MachineFields, Over, Moved
<1>5. ~BeforeTitle(Top)
  BY <1>1 DEF BeforeTitle
<1> QED
  BY <1>1, <1>3, <1>4, <1>5, GoLevels DEF LevelOK

\* An overline that is looked at once more, before a title, is read again.
LEMMA LineEofLevels ==
    ASSUME Stack, Unwound, Cleaner, RereadsSection => reread', LineEof
    PROVE  Unwound'
<1> DEFINE f == [AsText(Top, 1) EXCEPT !.phase = "run"]
           g == [Over(Top) EXCEPT !.eofcheck = TRUE]
           none == <<>>
           made == IF Top.eofcheck THEN <<Node("transition", Top.node, NumbersOf(Top.ctx))>>
                   ELSE <<>>
<1>1. frames # <<>> /\ Top.state = "Line" /\ Top.phase = "eof"
  BY DEF LineEof, InEof
<1>2. FrameOK(Top, Len(tree), DOMAIN doc) /\ DOMAIN Top = MachineFields
  BY <1>1, Tops, Zenon DEF FrameOK
<1>3. /\ \/ ~memo.bubble /\ IsShort(Top) /\ Goes(f, none)
         \/ Goes(g, made)
      /\ memo' = [memo EXCEPT !.bubble = FALSE]
  BY DEF LineEof
<1>4. memo'.level = memo.level
  <2>1. memo \in MemoType
    BY DEF Stack
  <2> QED
    BY <1>3, <2>1 DEF MemoType
<1> HIDE DEF made
<1>5. CASE Goes(g, made)
  <2>1. frames' = Append(Below, g)
    BY <1>5 DEF Goes
  <2>2. /\ Like(Top, g) /\ g.phase = "over" /\ g.state = Top.state
        /\ g.ctx = Top.ctx /\ g.off = Top.off /\ g.lines = Top.lines
    BY <1>2 DEF Like, Keeps, MachineFields, Over
  <2> HIDE DEF g
  <2>3. BeforeTitle(Top) => BeforeTitle(g)
    BY <2>2 DEF BeforeTitle
  <2> QED
    BY <1>1, <1>4, <2>1, <2>2, <2>3, GoLevels DEF LevelOK
<1>6. CASE ~memo.bubble /\ IsShort(Top) /\ Goes(f, none)
  <2>1. frames' = Append(Below, f)
    BY <1>6 DEF Goes
  <2>2. Like(Top, f)
    BY <1>1, <1>2 DEF Like, Keeps, MachineFields, AsText, Moved, BodyStates
  <2>3. BeforeTitle(Top) => HasLine(Top, Top.off)
    <3> DEFINE n == Len(Top.lines)
               off == Top.off
    <3>1. n \in Nat /\ off \in Int
      BY <1>2, LenProperties, Zenon DEF FrameOK, LinesOf
    <3>2. BeforeTitle(Top) => \E i \in off + 2 .. n : TRUE
      BY DEF BeforeTitle
    <3> HIDE DEF n, off
    <3>3. BeforeTitle(Top) => off < n
      BY <3>1, <3>2
    <3> QED
      BY <3>3 DEF HasLine, n, off
  <2>4. Clean' => ~BeforeTitle(Top)
    BY <1>1, <1>6, <2>3 DEF Clean, RereadsSection, InEof
  <2> HIDE DEF f
  <2> QED
    BY <1>1, <1>4, <2>1, <2>2, <2>4, GoLevels DEF LevelOK
<1> QED
  BY <1>3, <1>5, <1>6

-----------------------------------------------------------------------------
(* The end of a machine. *)

\* A line further on is among those that have not been read.
LEMMA LineUnread ==
    ASSUME NEW T, NEW s \in Seq(T), NEW off \in Int, off >= -1, NEW i \in off + 2 .. Len(s)
    PROVE  LET rest == From(s, off + 1)
           IN  /\ i - off - 1 \in 1 .. Len(rest) /\ rest[i - off - 1] = s[i]
               /\ DOMAIN rest = 1 .. Len(rest)
<1> DEFINE from == off + 1
           n == Len(s)
           rest == Slice(s, from, n)
           k == i - off - 1
<1>1. n \in Nat /\ from \in Nat /\ n \in Int /\ from <= n
  <2>1. n \in Nat
    BY LenProperties
  <2> HIDE DEF n
  <2>2. i \in off + 2 .. n
    BY DEF n
  <2> QED
    BY <2>1, <2>2
<1>2. n = Len(s)
  OBVIOUS
<1> HIDE DEF from, n
<1>3. /\ rest \in Seq(T) /\ Len(rest) = n - from
      /\ \A j \in 1 .. Len(rest) : rest[j] = s[j + from]
  <2>1. /\ Slice(s, from, n) \in Seq(T)
        /\ Len(Slice(s, from, n)) = n - from
    BY <1>1, <1>2, SliceLength
  <2>2. \A j \in 1 .. Len(Slice(s, from, n)) : Slice(s, from, n)[j] = s[j + from]
    BY <1>1, SliceElements
  <2> HIDE DEF rest
  <2>3. /\ rest \in Seq(T) /\ Len(rest) = n - from
        /\ \A j \in 1 .. Len(rest) : rest[j] = s[j + from]
    BY <1>1, <2>1, <2>2, Zenon DEF rest
  <2> QED
    BY <2>3
<1> DEFINE len == Len(rest)
<1>4. len = n - from
  BY <1>3
<1>5. DOMAIN rest = 1 .. len
  BY <1>3, LenProperties
<1>6. rest = From(s, from)
  BY DEF From, n
<1> HIDE DEF rest
<1>7. k \in 1 .. len /\ k + from = i
  <2>1. i \in off + 2 .. n
    BY DEF n
  <2> HIDE DEF len
  <2> QED
    BY <1>1, <1>4, <2>1 DEF from
<1> HIDE DEF k
<1>8. rest[k] = s[i]
  BY <1>3, <1>7
<1> QED
  BY <1>5, <1>6, <1>7, <1>8 DEF k, from

\* A machine that stops before a title has not read it.
LEMMA TitleUnread ==
    ASSUME NEW n, NEW D, FrameOK(Top, n, D), BeforeTitle(Top)
    PROVE  Unread # {}
<1> DEFINE s == Top.lines
           off == Top.off
           rest == From(s, off + 1)
<1>1. s \in Seq(LineOf(D)) /\ off \in Int /\ off >= -1
  BY Zenon DEF FrameOK, LinesOf
<1>2. PICK i \in off + 2 .. Len(s) : ~Blank(s[i])
  BY DEF BeforeTitle
<1>3. Unread = NumbersOf(rest)
  BY DEF Unread
<1> HIDE DEF s, off
<1> DEFINE k == i - off - 1
<1>4. k \in 1 .. Len(rest) /\ rest[k] = s[i] /\ DOMAIN rest = 1 .. Len(rest)
  BY <1>1, LineUnread
<1> HIDE DEF rest, k
<1>5. rest[k].n \in NumbersOf(rest)
  BY <1>2, <1>4 DEF NumbersOf
<1> QED
  BY <1>3, <1>5

\* Any machine but that of a section loses the title, or never stops before one.
LEMMA ReturnedLevel ==
    ASSUME Stack, Unwound, NEW k, k \notin {"root", "section"}, Returns(k),
           dropped' = dropped \cup Unread \/ k \in {"list", "substitution"}
    PROVE  /\ Len(frames) - 1 \in 1 .. Len(frames) /\ Caller = frames[Len(frames) - 1]
           /\ Others = SubSeq(frames, 1, (Len(frames) - 1) - 1) /\ IsSeq(Others)
           /\ frames # <<>> /\ DOMAIN Caller = MachineFields /\ Listed(Top) /\ Top.then.k = k
           /\ Clean /\ Clean' => memo.level = Sections(frames, Len(frames) - 1)
<1>1. frames # <<>> /\ Top.then.k = k
  BY DEF Returns
<1>2. /\ FrameOK(Top, Len(tree), DOMAIN doc) /\ Listed(Top)
      /\ Top = frames[Len(frames)] /\ Len(frames) \in Nat
      /\ Clean => LevelOK(memo.level, Open, Top)
  BY <1>1, TopLevel
<1>3. k # "root" /\ k # "section"
  OBVIOUS
<1>4. /\ Len(frames) - 1 \in 1 .. Len(frames) /\ Caller = frames[Len(frames) - 1]
      /\ Others = SubSeq(frames, 1, (Len(frames) - 1) - 1) /\ IsSeq(Others)
      /\ DOMAIN Caller = MachineFields
  BY <1>1, <1>3, Callers, Zenon DEF FrameOK
<1>5. Open = Sections(frames, Len(frames) - 1)
  <2> DEFINE m == Len(frames) - 1
  <2>1. m \in Nat /\ m + 1 = Len(frames)
    BY <1>2, <1>4
  <2>2. ~IsSection(frames[m + 1])
    BY <1>1, <1>2, <1>3, <2>1 DEF IsSection
  <2> HIDE DEF m
  <2>3. Sections(frames, m + 1) = Sections(frames, m)
    BY <2>1, <2>2, OneSection
  <2> QED
    BY <2>1, <2>3 DEF Open, m
<1>6. Clean' => ~BeforeTitle(Top)
  <2>1. CASE dropped' = dropped \cup Unread
    BY <1>2, <2>1, TitleUnread DEF Clean
  <2>2. CASE k \in {"list", "substitution"}
    BY <1>1, <1>2, <2>2 DEF Listed, BeforeTitle, BodyStates
  <2> QED
    BY <2>1, <2>2
<1> QED
  BY <1>1, <1>2, <1>4, <1>5, <1>6 DEF LevelOK

\* The caller goes on, or starts another machine, or ends its construct.
LEMMA ReturnPut ==
    ASSUME Stack, Unwound, Cleaner, NEW k, k \notin {"root", "section"}, Returns(k),
           dropped' = dropped \cup Unread \/ k \in {"list", "substitution"},
           memo'.level = memo.level, NEW f, frames' = Append(Others, f), Like(Caller, f)
    PROVE  Unwound'
<1> DEFINE m == Len(frames) - 1
<1>1. /\ m \in 1 .. Len(frames) /\ Caller = frames[m]
      /\ Others = SubSeq(frames, 1, m - 1) /\ IsSeq(Others)
      /\ Clean /\ Clean' => memo.level = Sections(frames, m)
  BY ReturnedLevel
<1> HIDE DEF m
<1>2. frames' = Put(frames, m, f)
  BY <1>1, AppendIsPut DEF Put
<1> QED
  BY <1>1, <1>2, LevelsPut DEF LevelOK

LEMMA ReturnStart ==
    ASSUME Stack, Unwound, Cleaner, NEW k, k \notin {"root", "section"}, Returns(k),
           dropped' = dropped \cup Unread \/ k \in {"list", "substitution"},
           memo'.level = memo.level, NEW f, NEW g, frames' = Others \o <<f, g>>,
           Like(Caller, f), ~IsSection(g), Listed(g)
    PROVE  Unwound'
<1> DEFINE m == Len(frames) - 1
<1>1. /\ m \in 1 .. Len(frames) /\ Caller = frames[m]
      /\ Others = SubSeq(frames, 1, m - 1)
      /\ Clean /\ Clean' => memo.level = Sections(frames, m)
  BY ReturnedLevel
<1> HIDE DEF m
<1>2. frames' = Start(frames, m, f, g)
  BY <1>1 DEF Start
<1> QED
  BY <1>1, <1>2, LevelsStart DEF Rest

LEMMA ReturnEnd ==
    ASSUME Stack, Unwound, Cleaner, NEW k, k \notin {"root", "section"}, Returns(k),
           dropped' = dropped \cup Unread \/ k \in {"list", "substitution"},
           memo'.level = memo.level, NEW finish, frames' = EndConstruct(Caller, finish, Others)
    PROVE  Unwound'
<1>1. DOMAIN Caller = MachineFields
  BY ReturnedLevel
<1>2. CASE \E g : Like(Caller, g) /\ EndConstruct(Caller, finish, Others) = Append(Others, g)
  <2>1. PICK g : Like(Caller, g) /\ EndConstruct(Caller, finish, Others) = Append(Others, g)
    BY <1>2
  <2> QED
    BY <2>1, ReturnPut
<1>3. CASE \E h : /\ EndConstruct(Caller, finish, Others) = Others \o <<Caller, h>>
                  /\ Like(Caller, Caller) /\ ~IsSection(h) /\ Listed(h)
  <2>1. PICK h : /\ EndConstruct(Caller, finish, Others) = Others \o <<Caller, h>>
                 /\ Like(Caller, Caller) /\ ~IsSection(h) /\ Listed(h)
    BY <1>3
  <2> QED
    BY <2>1, ReturnStart
<1> QED
  BY <1>1, <1>2, <1>3, EndedConstruct

LEMMA ReturnNothingLevels ==
    ASSUME Stack, Unwound, Cleaner, ReturnNothing
    PROVE  Unwound'
<1> DEFINE k == "nothing"
<1>1. /\ Returns(k) /\ frames' = Below /\ memo' = memo /\ dropped' = dropped \cup Unread
  BY DEF ReturnNothing, Finished
<1>2. k \notin {"root", "section"}
  OBVIOUS
<1> HIDE DEF k
<1>3. /\ frames # <<>> /\ Top.then.k # "root" /\ DOMAIN Caller = MachineFields
  BY <1>1, <1>2, ReturnedLevel
<1>4. frames' = Append(Others, Caller)
  BY <1>1, <1>3, BelowIsCaller
<1>5. Like(Caller, Caller)
  BY <1>3 DEF Like, Keeps
<1> QED
  BY <1>1, <1>2, <1>4, <1>5, ReturnPut

LEMMA ReturnFirstLevels ==
    ASSUME Stack, Unwound, Cleaner, ReturnFirst
    PROVE  Unwound'
<1> DEFINE k == "first"
           t == Top.then
           g == Machine(t.state, From(Caller.lines, Caller.off + 1), AbsOffset(Caller) + 1,
                        t.node, FALSE, [Then("list", t.finish) EXCEPT !.list = t.list])
<1>1. /\ Returns(k) /\ frames' = Others \o <<Caller, g>> /\ memo' = memo
      /\ dropped' = dropped \cup Unread
  BY DEF ReturnFirst, Finished
<1>2. k \notin {"root", "section"} /\ k = "first"
  OBVIOUS
<1>3. g.then.k = "list" /\ g.state = t.state
  BY Zenon DEF Machine, Then
<1> HIDE DEF k, g
<1>4. DOMAIN Caller = MachineFields /\ Listed(Top) /\ t.k = k
  BY <1>1, <1>2, ReturnedLevel
<1>5. Like(Caller, Caller)
  BY <1>4 DEF Like, Keeps
<1>6. ~IsSection(g) /\ Listed(g)
  BY <1>2, <1>3, <1>4 DEF IsSection, Listed
<1> QED
  BY <1>1, <1>2, <1>5, <1>6, ReturnStart

LEMMA ReturnListLevels ==
    ASSUME Stack, Unwound, Cleaner, ReturnList
    PROVE  Unwound'
<1> DEFINE k == "list"
<1>1. Returns(k) /\ frames' = Append(Others, GoTo(Caller)) /\ memo' = memo
  BY DEF ReturnList
<1>2. k \notin {"root", "section"} /\ k \in {"list", "substitution"}
  OBVIOUS
<1> HIDE DEF k
<1>3. DOMAIN Caller = MachineFields
  BY <1>1, <1>2, ReturnedLevel
<1>4. Like(Caller, GoTo(Caller))
  BY <1>3 DEF Like, Keeps, GoTo, MachineFields
<1> QED
  BY <1>1, <1>2, <1>4, ReturnPut

LEMMA ReturnConstructLevels ==
    ASSUME Stack, Unwound, Cleaner, ReturnConstruct
    PROVE  Unwound'
<1> DEFINE k == "construct"
<1>1. /\ Returns(k) /\ frames' = EndConstruct(Caller, Top.then.finish, Others) /\ memo' = memo
      /\ dropped' = dropped \cup Unread
  BY DEF ReturnConstruct, Finished
<1>2. k \notin {"root", "section"}
  OBVIOUS
<1> HIDE DEF k
<1> QED
  BY <1>1, <1>2, ReturnEnd

\* What a directive leaves in the memo has the level it had.
LEMMA SameLevel ==
    ASSUME Stack, NEW minimum
    PROVE  [memo EXCEPT !.minimum = minimum].level = memo.level
<1>1. memo \in MemoType
  BY DEF Stack
<1> QED
  BY <1>1 DEF MemoType

LEMMA ReturnDirectiveLevels ==
    ASSUME Stack, Unwound, Cleaner, ReturnDirective
    PROVE  Unwound'
<1> DEFINE k == "directive"
           minimum == Front(memo.minimum)
<1>1. /\ Returns(k)
      /\ frames' = EndConstruct(Caller, Finishes(Caller, Top.then.finish), Others)
      /\ memo' = [memo EXCEPT !.minimum = minimum] \/ memo' = memo
      /\ dropped' = dropped \cup Unread
  BY DEF ReturnDirective, Finished
<1>2. k \notin {"root", "section"}
  OBVIOUS
<1> HIDE DEF k, minimum
<1>3. memo'.level = memo.level
  BY <1>1, SameLevel
<1> QED
  BY <1>1, <1>2, <1>3, ReturnEnd

LEMMA ReturnArgumentLevels ==
    ASSUME Stack, Unwound, Cleaner, ReturnArgument
    PROVE  Unwound'
<1> DEFINE k == "argument"
           t == Top.then
           g == [Machine("Body", t.next[1], t.level, t.node, TRUE,
                         [Then("directive", t.finish) EXCEPT !.level = 1])
                    EXCEPT !.eofcheck = Top.eofcheck]
           minimum == Append(memo.minimum, memo.level)
<1>1. /\ Returns(k) /\ frames' = Others \o <<Caller, g>>
      /\ memo' = [memo EXCEPT !.minimum = minimum] /\ dropped' = dropped \cup Unread
  BY DEF ReturnArgument
<1>2. k \notin {"root", "section"}
  OBVIOUS
<1>3. g.then.k = "directive"
  BY Zenon DEF Machine, Then
<1> HIDE DEF k, g, minimum
<1>4. DOMAIN Caller = MachineFields
  BY <1>1, <1>2, ReturnedLevel
<1>5. Like(Caller, Caller) /\ memo'.level = memo.level
  BY <1>1, <1>4, SameLevel DEF Like, Keeps
<1>6. ~IsSection(g) /\ Listed(g)
  BY <1>3 DEF IsSection, Listed
<1> QED
  BY <1>1, <1>2, <1>5, <1>6, ReturnStart

LEMMA ReturnReplaceLevels ==
    ASSUME Stack, Unwound, Cleaner, ReturnReplace
    PROVE  Unwound'
<1> DEFINE k == "replace"
<1>1. /\ Returns(k)
      /\ frames' = EndConstruct(Caller, Finishes(Caller, Top.then.finish), Others)
      /\ memo' = memo /\ dropped' = dropped \cup Unread
  BY Zenon DEF ReturnReplace, Finished
<1>2. k \notin {"root", "section"}
  OBVIOUS
<1> HIDE DEF k
<1> QED
  BY <1>1, <1>2, ReturnEnd

LEMMA ReturnSubstitutionLevels ==
    ASSUME Stack, Unwound, Cleaner, ReturnSubstitution
    PROVE  Unwound'
<1> DEFINE k == "substitution"
<1>1. /\ Returns(k) /\ frames' = EndConstruct(Caller, Top.finish, Others) /\ memo' = memo
  BY DEF ReturnSubstitution
<1>2. k \notin {"root", "section"} /\ k \in {"list", "substitution"}
  OBVIOUS
<1> HIDE DEF k
<1> QED
  BY <1>1, <1>2, ReturnEnd

\* A title that the machine of a section has not read is before its caller, too.
LEMMA TitleOfCaller ==
    ASSUME NEW n, NEW D, NEW f, FrameOK(f, n, D), FrameOK(Top, n, D), LinkOK(f, Top),
           IsSection(Top), Rest(f, Top), BeforeTitle(Top)
    PROVE  BeforeTitle(Ended(GoTo(f)))
<1> DEFINE e == Ended(GoTo(f))
           s == f.lines
           from == f.off
           base == f.base
           start == Top.base
           read == Top.off
           rest == Slice(s, from + 1, Len(s))
<1>1. /\ Top.then.k = "section" /\ f.state \in {"Text", "Line"}
      /\ f.state = "Text" => Len(f.ctx) = 0
      /\ start = base + from + 1
  BY DEF IsSection, LinkOK
<1>2. /\ DOMAIN f = MachineFields /\ s \in Seq(LineOf(D)) /\ f.ctx \in Seq(LineOf(D))
      /\ base \in Int /\ from \in Int /\ from >= -1 /\ start \in Int /\ read \in Int /\ read >= -1
  BY Zenon DEF FrameOK, LinesOf
<1>3. /\ e.phase = "eof" /\ e.state = f.state /\ e.ctx = f.ctx /\ e.lines = f.lines
      /\ e.off = start + read - base
  BY <1>1, <1>2 DEF GoTo, Ended, AbsOffset, TextStates, MachineFields
<1> HIDE DEF e
<1>4. e.off = from + 1 + read
  <2> HIDE DEF start, base, from, read
  <2>1. start + read - base = from + 1 + read
    BY ONLY <1>1, <1>2
  <2> QED
    BY <1>3, <2>1
<1>5. PICK i \in read + 2 .. Len(Top.lines) : ~Blank(Top.lines[i])
  BY DEF BeforeTitle
<1>6. Top.lines = rest
  BY DEF Rest, From
<1> HIDE DEF start, base, from, read, s, rest
<1> DEFINE j == i + (from + 1)
           n1 == Len(s)
<1>7. i \in read + 2 .. Len(rest)
  BY <1>5, <1>6
<1>8. i \in 1 .. Len(rest)
  <2> DEFINE m == Len(rest)
  <2> HIDE DEF m
  <2>1. i \in read + 2 .. m
    BY <1>7 DEF m
  <2>2. i \in 1 .. m
    BY ONLY <1>2, <2>1
  <2> QED
    BY <2>2 DEF m
<1>9. j \in 1 .. Len(s) /\ rest[i] = s[j]
  <2>1. from + 1 \in Nat /\ n1 \in Int
    BY <1>2, LenProperties
  <2> HIDE DEF n1
  <2>2. \A k \in 1 .. Len(Slice(s, from + 1, n1)) :
            /\ k + (from + 1) \in 1 .. Len(s)
            /\ Slice(s, from + 1, n1)[k] = s[k + (from + 1)]
    BY <1>2, <2>1, SliceElements, Zenon
  <2>3. rest = Slice(s, from + 1, n1)
    BY DEF rest, n1
  <2>4. i \in 1 .. Len(Slice(s, from + 1, n1))
    BY <1>8, <2>3
  <2> QED
    BY <2>2, <2>3, <2>4
<1>10. ~Blank(s[j])
  BY <1>5, <1>6, <1>9
<1>11. j \in (from + 1 + read) + 2 .. Len(s)
  <2> DEFINE m == Len(rest)
  <2>1. i \in read + 2 .. m
    BY <1>7
  <2>2. j \in 1 .. n1
    BY <1>9
  <2> HIDE DEF m, n1
  <2>3. j \in (from + 1 + read) + 2 .. n1
    BY ONLY <1>2, <2>1, <2>2 DEF j
  <2> QED
    BY <2>3 DEF n1
<1> HIDE DEF j
<1>12. \E l \in e.off + 2 .. Len(e.lines) : ~Blank(e.lines[l])
  BY <1>3, <1>4, <1>10, <1>11 DEF s
<1>13. e.state = "Text" => e.ctx = <<>>
  BY <1>1, <1>2, <1>3, EmptySeq
<1> QED
  BY <1>1, <1>3, <1>12, <1>13 DEF BeforeTitle, e

LEMMA ReturnSectionLevels ==
    ASSUME Stack, Unwound, Cleaner, ReturnSection
    PROVE  Unwound'
<1> DEFINE k == "section"
           m == Len(frames) - 1
           e == Ended(GoTo(Caller))
           h == [BackToBody(GoTo(Caller)) EXCEPT !.eofcheck = TRUE]
           low == Top.then.level
           level == memo.level
<1>1. /\ Returns(k)
      /\ \/ level <= low /\ frames' = Append(Others, e) /\ memo' = memo
         \/ /\ frames' = Append(Others, h)
            /\ memo' = [memo EXCEPT !.level = low]
  BY DEF ReturnSection
<1>2. k # "root" /\ k = "section"
  OBVIOUS
<1> HIDE DEF k
<1>3. /\ frames # <<>> /\ Top.then.k = k
      /\ FrameOK(Top, Len(tree), DOMAIN doc) /\ FrameOK(Caller, Len(tree), DOMAIN doc)
      /\ LinkOK(Caller, Top) /\ memo \in MemoType /\ ThenOK(Top.then, Len(tree), DOMAIN doc)
  BY <1>1, <1>2, Returned
<1>4. /\ m \in 1 .. Len(frames) /\ Caller = frames[m]
      /\ Others = SubSeq(frames, 1, m - 1) /\ IsSeq(Others)
  BY <1>2, <1>3, Callers
<1>5. /\ Top = frames[Len(frames)] /\ Len(frames) \in 1 .. Len(frames) /\ Len(frames) \in Nat
      /\ Clean => Nested(frames, level) /\ LevelOK(level, Open, Top)
  BY <1>3, TopLevel
<1>6. IsSection(Top)
  BY <1>2, <1>3 DEF IsSection
<1>7. Rest(Caller, Top)
  <2>1. Len(frames) \in 2 .. Len(frames)
    BY <1>4, <1>5
  <2> QED
    BY <1>4, <1>5, <2>1 DEF Unwound, Chained
<1>8. Clean => low = Sections(frames, m)
  BY <1>5, <1>6 DEF Nested
<1>9. Open = Sections(frames, m) + 1
  <2>1. m \in Nat /\ m + 1 = Len(frames)
    BY <1>4, <1>5
  <2>2. IsSection(frames[m + 1])
    BY <1>5, <1>6, <2>1
  <2> HIDE DEF m
  <2>3. Sections(frames, m + 1) = Sections(frames, m) + 1
    BY <2>1, <2>2, OneSection
  <2> QED
    BY <2>1, <2>3 DEF Open
<1>10. /\ DOMAIN Caller = MachineFields /\ Caller.state \in {"Text", "Line"}
  BY <1>2, <1>3, Zenon DEF FrameOK, LinkOK
<1>11. low \in Nat /\ level \in Nat
  BY <1>2, <1>3 DEF ThenOK, MemoType
<1> HIDE DEF m, low, level
<1>12. CASE level <= low /\ frames' = Append(Others, e) /\ memo' = memo
  <2>1. Like(Caller, e)
    BY <1>10 DEF Like, Keeps, GoTo, Ended, MachineFields
  <2>2. BeforeTitle(Top) => BeforeTitle(e)
    BY <1>3, <1>6, <1>7, TitleOfCaller
  <2> HIDE DEF e
  <2>3. frames' = Put(frames, m, e)
    BY <1>4, <1>12, AppendIsPut DEF Put
  <2>4. Clean => LevelOK(level, Sections(frames, m), e)
    <3> SUFFICES ASSUME Clean
                 PROVE  LevelOK(level, low, e)
      BY <1>8
    <3>1. LevelOK(level, low + 1, Top)
      BY <1>5, <1>8, <1>9
    <3>2. level # low + 1
      BY <1>11, <1>12
    <3>3. BeforeTitle(e)
      BY <2>2, <3>1, <3>2 DEF LevelOK
    <3> QED
      BY <1>11, <1>12, <3>3 DEF LevelOK
  <2>5. memo'.level = level
    BY <1>12 DEF level
  <2> QED
    BY <1>4, <2>1, <2>3, <2>4, <2>5, LevelsPut
<1>13. CASE frames' = Append(Others, h) /\ memo' = [memo EXCEPT !.level = low]
  <2>1. Like(Caller, h)
    BY <1>10 DEF Like, Keeps, GoTo, BackToBody, MachineFields, BodyStates
  <2> HIDE DEF h
  <2>2. frames' = Put(frames, m, h)
    BY <1>4, <1>13, AppendIsPut DEF Put
  <2>3. memo'.level = low
    BY <1>3, <1>13 DEF MemoType
  <2> QED
    BY <1>4, <1>8, <2>1, <2>2, <2>3, LevelsPut DEF LevelOK
<1> QED
  BY <1>1, <1>12, <1>13

-----------------------------------------------------------------------------
(* The theorem. *)

\* A machine reads on in the same document, and what is lost stays lost.
Reads == frames # <<>> /\ doc' = doc /\ dropped \subseteq dropped'

LEMMA SectionReads ==
    ASSUME NEW f, NEW style, NEW of, NEW messages, Section(f, style, of, messages)
    PROVE  doc' = doc /\ dropped' = dropped
<1> DEFINE level == IndexOf(memo.styles, style)
           new == level = 0 /\ Len(memo.styles) = memo.level
<1>1. CASE new \/ level = memo.level + 1
  BY <1>1 DEF Section
<1>2. CASE ~(new \/ level = memo.level + 1)
  BY <1>2 DEF Section, Continue, Same
<1> QED
  BY <1>1, <1>2

LEMMA BodyReads ==
    ASSUME BodyBlank \/ BlockQuote \/ InvalidInput \/ EnumeratorFails \/ LineBlockLine \/ Doctest
    PROVE  Reads
<1>1. CASE BodyBlank \/ InvalidInput \/ Doctest
  BY <1>1 DEF Reads, BodyBlank, InvalidInput, Doctest, Sees, Continue, Same
<1>2. CASE BlockQuote \/ EnumeratorFails
  BY <1>2, Zenon DEF Reads, BlockQuote, EnumeratorFails, Sees
<1>3. CASE LineBlockLine
  BY <1>3 DEF Reads, LineBlockLine, Sees, Continue, Same
<1> QED
  BY <1>1, <1>2, <1>3

LEMMA ListReads ==
    ASSUME NEW t, FirstItem(t) \/ TextAfterAll(t) \/ NextItem(t)
    PROVE  Reads
<1>1. CASE FirstItem(t)
  BY <1>1, Zenon DEF Reads, FirstItem, Sees
<1>2. CASE TextAfterAll(t)
  BY <1>2, Zenon DEF Reads, TextAfterAll, Sees, Continue, Same
<1>3. CASE NextItem(t)
  BY <1>3 DEF Reads, NextItem, Sees, Continue, Same
<1> QED
  BY <1>1, <1>2, <1>3

LEMMA ExplicitReads ==
    ASSUME \/ Comment \/ FootnoteOrCitation \/ Target \/ Malformed \/ UnknownDirective
           \/ SubstitutionDefinition \/ SubstitutionText
    PROVE  Reads
<1>1. CASE Comment \/ Target \/ UnknownDirective \/ SubstitutionDefinition
  BY <1>1, Zenon DEF Reads, Comment, Target, UnknownDirective, SubstitutionDefinition, SeesExplicit,
              Sees, Same
<1>2. CASE FootnoteOrCitation \/ Malformed
  BY <1>2, Zenon DEF Reads, FootnoteOrCitation, Malformed, SeesExplicit, Sees
<1>3. CASE SubstitutionText
  BY <1>3 DEF Reads, SubstitutionText, Sees, Continue, Same
<1> QED
  BY <1>1, <1>2, <1>3

LEMMA DirectiveReads ==
    ASSUME \/ RefuseDirective \/ CodeDirective \/ BlockDirective \/ BlockArgument
           \/ VersionDirective \/ ReplaceDirective
    PROVE  Reads
<1>1. SeesDirective => frames # <<>>
  BY DEF SeesDirective, SeesExplicit, Sees
<1>2. CASE RefuseDirective \/ CodeDirective
  BY <1>1, <1>2 DEF Reads, RefuseDirective, CodeDirective, Same
<1>3. CASE BlockDirective
  BY <1>1, <1>3 DEF Reads, BlockDirective
<1>4. CASE BlockArgument \/ VersionDirective \/ ReplaceDirective
  BY <1>1, <1>4 DEF Reads, BlockArgument, VersionDirective, ReplaceDirective
<1> QED
  BY <1>2, <1>3, <1>4

LEMMA TextReads ==
    ASSUME \/ BodyText \/ TextBlank \/ TextText \/ TextIndent \/ DefinitionIndent \/ NoDefinition
           \/ BodyLine \/ LineBlank \/ LineUnderline
    PROVE  Reads
<1>1. CASE BodyText \/ TextBlank \/ TextText \/ NoDefinition
  BY <1>1 DEF Reads, BodyText, TextBlank, TextText, NoDefinition, Sees, Continue, Same
<1>2. CASE TextIndent \/ DefinitionIndent
  BY <1>2 DEF Reads, TextIndent, DefinitionIndent, Sees
<1>3. CASE BodyLine \/ LineBlank \/ LineUnderline
  BY <1>3 DEF Reads, BodyLine, LineBlank, LineUnderline, Sees, Continue, Same
<1> QED
  BY <1>1, <1>2, <1>3

LEMMA TitleReads ==
    ASSUME Underline \/ LineText
    PROVE  Reads
<1>1. CASE Underline
  <2>1. frames # <<>>
    BY <1>1 DEF Underline, Sees
  <2>2. \/ \E f, nodes : Continue(f, nodes)
        \/ \E f, style, of, messages : Section(f, style, of, messages)
    BY <1>1, Zenon DEF Underline
  <2> QED
    BY <2>1, <2>2, SectionReads DEF Reads, Continue, Same
<1>2. CASE LineText
  <2>1. frames # <<>>
    BY <1>2 DEF LineText, Sees
  <2>2. \/ \E f, nodes : Continue(f, nodes)
        \/ \E f, style, of, messages : Section(f, style, of, messages)
    BY <1>2, Zenon DEF LineText
  <2> QED
    BY <2>1, <2>2, SectionReads DEF Reads, Continue, Same
<1> QED
  BY <1>1, <1>2

LEMMA EndReads ==
    ASSUME EndOfInput \/ TextEof \/ DefinitionEof \/ LineEof
    PROVE  Reads
<1>1. CASE EndOfInput \/ TextEof \/ DefinitionEof
  BY <1>1 DEF Reads, EndOfInput, TextEof, DefinitionEof, InEof, Continue, Same
<1>2. CASE LineEof
  BY <1>2 DEF Reads, LineEof, InEof
<1> QED
  BY <1>1, <1>2

LEMMA ReturnReads ==
    ASSUME \/ ReturnNothing \/ ReturnFirst \/ ReturnList \/ ListFails \/ ReturnSection
           \/ ReturnConstruct \/ ReturnDirective \/ ReturnArgument \/ ReturnReplace
           \/ ReturnSubstitution \/ ReturnRoot
    PROVE  Reads
<1>1. CASE \/ ReturnNothing \/ ReturnFirst \/ ReturnConstruct \/ ReturnDirective \/ ReturnArgument
           \/ ReturnReplace
  BY <1>1, Zenon DEF Reads, ReturnNothing, ReturnFirst, ReturnConstruct, ReturnDirective, ReturnArgument,
              ReturnReplace, Returns, Finished
<1>2. CASE ReturnList \/ ListFails \/ ReturnSection \/ ReturnSubstitution \/ ReturnRoot
  BY <1>2 DEF Reads, ReturnList, ListFails, ReturnSection, ReturnSubstitution, ReturnRoot, Returns
<1> QED
  BY <1>1, <1>2

\* Every step but the first is that of a machine.
LEMMA StepReads ==
    ASSUME Step
    PROVE  Parse \/ Reads
<1>1. CASE \E t \in DOMAIN Lists : FirstItem(t) \/ TextAfterAll(t) \/ NextItem(t)
  BY <1>1, ListReads
<1>2. CASE \/ BodyBlank \/ BlockQuote \/ InvalidInput \/ EnumeratorFails \/ LineBlockLine
           \/ Doctest
  BY <1>2, BodyReads
<1>3. CASE \/ Comment \/ FootnoteOrCitation \/ Target \/ Malformed \/ UnknownDirective
           \/ SubstitutionDefinition \/ SubstitutionText
  BY <1>3, ExplicitReads
<1>4. CASE \/ RefuseDirective \/ CodeDirective \/ BlockDirective \/ BlockArgument
           \/ VersionDirective \/ ReplaceDirective
  BY <1>4, DirectiveReads
<1>5. CASE \/ BodyText \/ TextBlank \/ TextText \/ TextIndent \/ DefinitionIndent \/ NoDefinition
           \/ BodyLine \/ LineBlank \/ LineUnderline
  BY <1>5, TextReads
<1>6. CASE Underline \/ LineText
  BY <1>6, TitleReads
<1>7. CASE EndOfInput \/ TextEof \/ DefinitionEof \/ LineEof
  BY <1>7, EndReads
<1>8. CASE \/ ReturnNothing \/ ReturnFirst \/ ReturnList \/ ListFails \/ ReturnSection
           \/ ReturnConstruct \/ ReturnDirective \/ ReturnArgument \/ ReturnReplace
           \/ ReturnSubstitution \/ ReturnRoot
  BY <1>8, ReturnReads
<1> QED
  BY <1>1, <1>2, <1>3, <1>4, <1>5, <1>6, <1>7, <1>8 DEF Step

\* Before a parse no section is open.
Fresh == doc = <<>> => memo.level = 0

\* A parse begins with the root.
LEMMA ParseLevels ==
    ASSUME Fresh, Parse
    PROVE  Unwound'
<1> DEFINE d == doc'
           g == Root(d)
           s == frames'
           level == memo'.level
<1>1. s = <<g>> /\ level = 0
  BY DEF Parse, Fresh
<1>2. g.then.k = "root" /\ g.phase = "run"
  BY Zenon DEF Root, Machine, Then
<1> HIDE DEF g
<1>3. s \in Seq({g}) /\ Len(s) = 1 /\ s[1] = g /\ s # <<>> /\ Last(s) = g
  BY <1>1 DEF Last
<1> HIDE DEF s, level
<1>4. ~IsSection(g) /\ Listed(g)
  BY <1>2 DEF IsSection, Listed
<1>5. Sections(s, 1) = 0
  <2> DEFINE m == 0
             c == Sections(s, 0)
  <2>1. m \in Nat /\ m + 1 = 1
    OBVIOUS
  <2>2. Sections(s, m) = c
    OBVIOUS
  <2> HIDE DEF m, c
  <2>3. c = 0
    BY <2>1, SectionsCount, Zenon DEF c
  <2>4. s[m + 1] = g
    BY <1>3, <2>1
  <2>5. Sections(s, m + 1) = Sections(s, m)
    BY <1>4, <2>1, <2>4, OneSection
  <2> QED
    BY <2>1, <2>2, <2>3, <2>5
<1>6. Chained(s)
  <2>1. \A i \in 1 .. 1 : i = 1
    OBVIOUS
  <2>2. 2 .. 1 = {}
    OBVIOUS
  <2> QED
    BY <1>3, <1>4, <2>1, <2>2 DEF Chained
<1>7. Nested(s, level)
  <2>1. \A i \in 1 .. 1 : i = 1
    OBVIOUS
  <2>2. LevelOK(level, Sections(s, Len(s)), Last(s))
    BY <1>1, <1>3, <1>5 DEF LevelOK
  <2> QED
    BY <1>3, <1>4, <2>1, <2>2 DEF Nested
<1> QED
  BY <1>6, <1>7 DEF Unwound, s, level

LEMMA StepLevels ==
    ASSUME Stack, Unwound, Fresh, Step, reread' = (reread \/ RereadsSection)
    PROVE  Unwound' /\ Fresh'
<1>1. CASE Parse
  <2>1. doc' # <<>>
    BY <1>1, DocumentsAssumption DEF Parse
  <2> QED
    BY <1>1, <2>1, ParseLevels DEF Fresh
<1>2. CASE Reads
  <2>1. Fresh'
    BY <1>2 DEF Reads, Fresh, Stack
  <2>2. Cleaner /\ (RereadsSection => reread')
    BY <1>2 DEF Reads, Cleaner
  <2>3. ASSUME ~Parse
        PROVE  Unwound'
    <3>1. CASE BodyBlank \/ BlockQuote \/ InvalidInput
      BY <2>2, <3>1, BodyBlankLevels, BlockQuoteLevels, InvalidInputLevels
    <3>2. CASE \E t \in DOMAIN Lists : FirstItem(t) \/ TextAfterAll(t) \/ NextItem(t)
      BY <2>2, <3>2, FirstItemLevels, TextAfterAllLevels, NextItemLevels
    <3>3. CASE EnumeratorFails \/ ListFails \/ ReturnRoot
      <4>1. frames' = <<>>
        BY <3>3, Zenon DEF EnumeratorFails, ListFails, ReturnRoot
      <4> QED
        BY <4>1, LevelsEnd
    <3>4. CASE LineBlockLine \/ Doctest \/ Comment \/ FootnoteOrCitation \/ Target
      BY <2>2, <3>4, LineBlockLineLevels, DoctestLevels, CommentLevels, FootnoteOrCitationLevels,
         TargetLevels
    <3>5. CASE Malformed \/ UnknownDirective \/ SubstitutionDefinition \/ SubstitutionText
      BY <2>2, <3>5, MalformedLevels, UnknownDirectiveLevels, SubstitutionDefinitionLevels,
         SubstitutionTextLevels
    <3>6. CASE RefuseDirective \/ CodeDirective \/ BlockDirective \/ BlockArgument
      BY <2>2, <3>6, RefuseDirectiveLevels, CodeDirectiveLevels, BlockDirectiveLevels,
         BlockArgumentLevels
    <3>7. CASE VersionDirective \/ ReplaceDirective \/ BodyText \/ TextBlank \/ TextText
      BY <2>2, <3>7, VersionDirectiveLevels, ReplaceDirectiveLevels, BodyTextLevels,
         TextBlankLevels, TextTextLevels
    <3>8. CASE TextIndent \/ DefinitionIndent \/ NoDefinition \/ Underline \/ BodyLine
      BY <2>2, <3>8, TextIndentLevels, DefinitionIndentLevels, NoDefinitionLevels,
         UnderlineLevels, BodyLineLevels
    <3>9. CASE LineBlank \/ LineText \/ LineUnderline
      BY <2>2, <3>9, LineBlankLevels, LineTextLevels, LineUnderlineLevels
    <3>10. CASE EndOfInput \/ TextEof \/ DefinitionEof \/ LineEof
      BY <2>2, <3>10, EndOfInputLevels, TextEofLevels, DefinitionEofLevels, LineEofLevels
    <3>11. CASE ReturnNothing \/ ReturnFirst \/ ReturnList \/ ReturnSection \/ ReturnConstruct
      BY <2>2, <3>11, ReturnNothingLevels, ReturnFirstLevels, ReturnListLevels,
         ReturnSectionLevels, ReturnConstructLevels
    <3>12. CASE ReturnDirective \/ ReturnArgument \/ ReturnReplace \/ ReturnSubstitution
      BY <2>2, <3>12, ReturnDirectiveLevels, ReturnArgumentLevels, ReturnReplaceLevels,
         ReturnSubstitutionLevels
    <3> QED
      BY <2>3, <3>1, <3>2, <3>3, <3>4, <3>5, <3>6, <3>7, <3>8, <3>9, <3>10, <3>11, <3>12
         DEF Step
  <2> QED
    BY <1>1, <2>1, <2>3
<1> QED
  BY <1>1, <1>2, StepReads

\* The level of an innermost machine that reads is the depth.
LEMMA UnwoundLevel ==
    ASSUME Stack, Unwound
    PROVE  LevelIsDepth
<1> SUFFICES ASSUME Parsing, Top.phase = "run", Clean
             PROVE  memo.level = Depth
  BY DEF LevelIsDepth, Clean
<1>1. IsSeq(frames) /\ memo.level = Open
  BY TopLevel DEF Parsing
<1>2. DOMAIN frames = 1 .. Len(frames)
  BY <1>1, LenProperties DEF IsSeq
<1>3. Depth = Open
  BY <1>2, Zenon DEF Depth, Open, Sections, IsSection
<1> QED
  BY <1>1, <1>3

(***************************************************************************)
(* While no text has been lost or read again, the section level of the     *)
(* memo is the number of sections open around the machine that reads,      *)
(* whatever the document: new_subsection restores it when a section has    *)
(* ended, and a title further out unwinds every machine up to its own.     *)
(***************************************************************************)
THEOREM LevelFollowsDepth == Spec => []LevelIsDepth
<1>1. Init => Unwound /\ Fresh
  <2> SUFFICES ASSUME Init
               PROVE  Unwound /\ Fresh
    OBVIOUS
  <2>1. frames = <<>> /\ memo.level = 0 /\ Len(frames) = 0
    BY DEF Init
  <2> QED
    BY <2>1 DEF Unwound, Chained, Nested, Fresh
<1>2. Stack /\ Unwound /\ Fresh /\ [Next]_vars => Unwound' /\ Fresh'
  <2> SUFFICES ASSUME Stack, Unwound, Fresh, [Next]_vars
               PROVE  Unwound' /\ Fresh'
    OBVIOUS
  <2>1. CASE Step /\ reread' = (reread \/ RereadsSection)
    BY <2>1, StepLevels
  <2>2. CASE UNCHANGED vars
    <3>1. UNCHANGED <<doc, frames, memo, dropped, reread>>
      BY <2>2 DEF vars
    <3> QED
      BY <3>1 DEF Unwound, Fresh, Clean
  <2> QED
    BY <2>1, <2>2 DEF Next, Done
<1>3. Stack /\ Unwound => LevelIsDepth
  BY UnwoundLevel
<1> QED
  BY <1>1, <1>2, <1>3, StackHolds, PTL DEF Spec

-----------------------------------------------------------------------------
(***************************************************************************)
(* Every line of text is read once, whatever the document (RstOnceProofs   *)
(* has the theorem, TextIsReadOnce).                                       *)
(*                                                                         *)
(* The inductive invariant, Ledger, accounts for each line of text: a node *)
(* holds it, or it has been dropped, or some machine of the stack has to   *)
(* read it.  What a machine has to read (Debt) is what is left of its      *)
(* lines from where it goes on, and nothing while the machine of a list or *)
(* of a section, which has taken them over, is above it.  As long as       *)
(* nothing has been read again by mistake, no line is in two nodes of      *)
(* content, or in one and still to be read, or to be read by two machines. *)
(*                                                                         *)
(* The rest of the invariant says what a step needs to know of a machine   *)
(* (MachineIn, TopIn, WaitIn), of the section level (Grounded), and of the *)
(* nodes of a definition whose end replaces the nodes within it            *)
(* (CoveredBelow, Plain).  A step makes one machine or two of those from   *)
(* some m on (LedgerPut, LedgerStart); most change just the innermost one, *)
(* which has seen a line (SeenGo, SeenOn, SeenNested).                     *)
(***************************************************************************)

(* What each machine still has to read, and what has become of the rest. *)

\* It looks at the next line as at any other.
AnyNext(f) == f.only = ""

\* A machine, whatever its place.
MachineIn(f, X) ==
    /\ Sound(f.lines, X)
    /\ f.then.k = "argument" => Sound(f.then.next[1], X)
    /\ f.then.k = "substitution" <=> f.state = "SubstitutionDef"
    /\ f.then.k = "substitution" =>
          /\ AnyNext(f) /\ Left(f.lines, 0, X) \subseteq f.then.of
          /\ \A k \in 2 .. Len(f.lines) : Blank(f.lines[k]) \/ f.lines[k].ind > 0
    /\ f.then.k = "root" => f.state \in BodyStates
    /\ f.then.k = "first" => f.then.state # "SubstitutionDef"
    /\ f.then.k \in {"replace", "substitution"} => f.then.node = f.node
    /\ f.state = "Line" => \A k \in 1 .. Len(f.ctx) : f.ctx[k].n \notin X

\* The innermost machine, when there are n nodes.
TopIn(f, n, X) ==
    /\ f.phase = "run" /\ f.state \in TextStates =>
          f.off < Len(f.lines) /\ f.ctx = <<f.lines[f.off + 1]>>
    /\ f.phase = "eof" /\ f.state = "Text" /\ f.ctx # <<>> =>
          f.off = Len(f.lines) /\ f.off >= 1 /\ f.ctx = <<f.lines[f.off]>>
    /\ f.then.k = "substitution" => Left(f.lines, f.off + 1, X) = {} \/ f.then.node = n
    /\ f.then.k = "root" /\ f.phase # "run" => Left(f.lines, f.off + 1, X) = {}

\* Machine f waits for g.
WaitIn(f, g, X) ==
    /\ f.then.k = "substitution" => Left(f.lines, f.off + 1, X) = {}
    /\ g.then.k \in {"section", "list"} => g.lines = From(f.lines, f.off + 1)
    /\ g.then.k = "replace" => f.then.k = "substitution"
    /\ g.then.k \in {"first", "argument"} => f.node <= g.then.node

\* The first offset that the innermost machine has not done with, and what it will read.
Resume(f) ==
    IF f.phase = "run" /\ f.state \in TextStates THEN f.off
    ELSE IF f.phase = "eof" /\ (f.state = "Definition" \/ (f.state = "Text" /\ f.ctx # <<>>))
    THEN f.off - 1
    ELSE f.off + 1
Owed(f, X) == Left(f.lines, Resume(f), X)

\* What f will read when g has ended, and what is read in the place of g.
Waits(f, g, X) == IF g.then.k \in {"section", "list"} THEN {} ELSE Left(f.lines, f.off + 1, X)
Later(f, X)    == IF f.then.k = "argument" THEN Left(f.then.next[1], 0, X) ELSE {}

\* What a message will quote.
Quoted(f, n, X) ==
    IF f.then.k = "substitution" /\ f.phase = "over" /\ f.then.node = n
    THEN Left(f.lines, 0, X) ELSE {}

\* All that the machines of a stack have to read.
Whens == {"own", "later"}
Own(s, i, X)     == IF i = Len(s) THEN Owed(s[i], X) ELSE Waits(s[i], s[i + 1], X)
Debt(s, i, w, X) == IF w = "own" THEN Own(s, i, X) ELSE Later(s[i], X)

\* What the machines from m on have to read, but for what is read in the place of m.
Above(m, i, w) == i > m \/ (i = m /\ w = "own")
Due(s, m, X) ==
    {x \in X : \E i \in 1 .. Len(s), w \in Whens : Above(m, i, w) /\ x \in Debt(s, i, w, X)}

\* The lines that the nodes hold, the first n of them, and those that are content.
Held(t)        == UNION {t[i].of : i \in 1 .. Len(t)}
HeldTo(t, n)   == UNION {t[i].of : i \in 1 .. n}
Shows(t, i, X) == IF IsMessage(t[i]) THEN {} ELSE t[i].of \cap X
Used(t, X)     == {x \in X : \E i \in 1 .. Len(t) : x \in Shows(t, i, X)}
Apart(t, X)    == \A i, j \in 1 .. Len(t) : \A x \in X :
                     x \in Shows(t, i, X) /\ x \in Shows(t, j, X) => i = j

\* The invariant, in parts.
Formed(s, n, X) ==
    /\ \A i \in 1 .. Len(s) : MachineIn(s[i], X)
    /\ \A i \in 2 .. Len(s) : WaitIn(s[i - 1], s[i], X)
    /\ \A i, j \in 1 .. Len(s) : i <= j => s[i].node <= s[j].node
    /\ s # <<>> => TopIn(Last(s), n, X)

Sectioned(s, m) == \E j \in 1 .. m : IsSection(s[j])
Grounded(s) ==
    \A i \in 1 .. Len(s) : IsSection(s[i]) => (s[i].then.level # 0 <=> Sectioned(s, i - 1))

Covered(s, t, d, X) ==
    \A x \in X : \/ x \in Held(t) \/ x \in d
                 \/ s # <<>> /\ x \in Quoted(Last(s), Len(t), X)
                 \/ \E i \in 1 .. Len(s), w \in Whens : x \in Debt(s, i, w, X)

CoveredBelow(s, t, d, X) ==
    \A k \in 2 .. Len(s) : s[k].then.k = "replace" =>
        \A x \in X : \/ x \in HeldTo(t, s[k].then.node) \/ x \in d \/ x \in s[k].then.of
                     \/ \E i \in 1 .. k - 1, w \in Whens : x \in Debt(s, i, w, X)

Once(s, t, X) ==
    /\ Apart(t, X)
    /\ \A i \in 1 .. Len(s), w \in Whens : Used(t, X) \cap Debt(s, i, w, X) = {}
    /\ \A i, j \in 1 .. Len(s), w, v \in Whens :
          i # j \/ w # v => Debt(s, i, w, X) \cap Debt(s, j, v, X) = {}

\* The node of a definition holds nothing as long as its content is read.
Plain(s, t) ==
    \A k \in 2 .. Len(s) :
        s[k].then.k \in {"replace", "substitution"} => t[s[k].then.node].of = {}

Ledger ==
    /\ Formed(frames, Len(tree), TextLines)
    /\ Grounded(frames)
    /\ frames # <<>> \/ doc = <<>> => (memo.level # 0 <=> Sectioned(frames, Len(frames)))
    /\ error = NoError => Covered(frames, tree, dropped, TextLines)
    /\ CoveredBelow(frames, tree, dropped, TextLines)
    /\ Plain(frames, tree)
    /\ ~reread => Once(frames, tree, TextLines)

-----------------------------------------------------------------------------
(* What is to be read, when the top of the stack changes. *)

\* What is to be read are lines of text.
LEMMA OwedInX ==
    ASSUME NEW f, NEW g, NEW X
    PROVE  Owed(f, X) \subseteq X /\ Waits(f, g, X) \subseteq X /\ Later(f, X) \subseteq X
  BY DEF Owed, Waits, Later, Left

\* Below m nothing changes.
SameDebts(s, t, m, X) ==
    /\ m \in 1 .. Len(s) /\ m \in 1 .. Len(t) /\ Len(s) \in Nat /\ Len(t) \in Nat
    /\ \A i \in 1 .. m, w \in Whens : ~Above(m, i, w) => Debt(t, i, w, X) = Debt(s, i, w, X)

\* A machine in the place of those from m on has to read what it does.
LEMMA PutDebts ==
    ASSUME NEW s, IsSeq(s), NEW m \in 1 .. Len(s), NEW f, Keeps(s[m], f), NEW X
    PROVE  /\ SameDebts(s, Put(s, m, f), m, X)
           /\ Due(Put(s, m, f), m, X) = Owed(f, X)
           /\ Len(Put(s, m, f)) = m
<1> DEFINE t == Put(s, m, f)
<1>1. /\ IsSeq(t) /\ Len(t) = m /\ t[m] = f
      /\ \A i \in 1 .. m - 1 : t[i] = s[i]
  BY PutSeq
<1>2. Len(s) \in Nat /\ m \in Nat /\ m >= 1
  BY LenProperties DEF IsSeq
<1> HIDE DEF t
<1>3. Later(f, X) = Later(s[m], X)
  BY DEF Later, Keeps
<1>4. ASSUME NEW i \in 1 .. m, NEW w \in Whens, ~Above(m, i, w)
      PROVE  Debt(t, i, w, X) = Debt(s, i, w, X)
  <2>1. CASE i = m
    <3>1. w = "later"
      BY <1>4, <2>1 DEF Above, Whens
    <3> QED
      BY <1>1, <1>3, <2>1, <3>1 DEF Debt
  <2>2. CASE i # m
    <3>1. i \in 1 .. m - 1 /\ i + 1 \in 1 .. m /\ i # Len(t) /\ i # Len(s)
      BY <1>1, <1>2, <2>2
    <3>2. t[i] = s[i] /\ t[i + 1].then = s[i + 1].then
      <4>1. CASE i + 1 = m
        BY <1>1, <3>1, <4>1 DEF Keeps
      <4>2. CASE i + 1 # m
        <5>1. i + 1 \in 1 .. m - 1
          BY <1>2, <3>1, <4>2
        <5> QED
          BY <1>1, <3>1, <5>1
      <4> QED
        BY <4>1, <4>2
    <3>3. Own(t, i, X) = Own(s, i, X) /\ Later(t[i], X) = Later(s[i], X)
      BY <3>1, <3>2 DEF Own, Waits
    <3> QED
      BY <3>3 DEF Debt
  <2> QED
    BY <2>1, <2>2
<1>5. Due(t, m, X) = Owed(f, X)
  <2>1. \A i \in 1 .. Len(t), w \in Whens : Above(m, i, w) <=> i = m /\ w = "own"
    BY <1>1, <1>2 DEF Above
  <2>2. m \in 1 .. Len(t) /\ "own" \in Whens /\ Debt(t, m, "own", X) = Owed(f, X)
    BY <1>1, <1>2 DEF Whens, Debt, Own
  <2>3. Owed(f, X) \subseteq X
    BY OwedInX
  <2>4. ASSUME NEW x \in Due(t, m, X) PROVE x \in Owed(f, X)
    <3>1. PICK i \in 1 .. Len(t), w \in Whens : Above(m, i, w) /\ x \in Debt(t, i, w, X)
      BY <2>4 DEF Due
    <3>2. i = m /\ w = "own"
      BY <2>1, <3>1
    <3> QED
      BY <2>2, <3>1, <3>2
  <2>5. ASSUME NEW x \in Owed(f, X) PROVE x \in Due(t, m, X)
    BY <2>1, <2>2, <2>3, <2>5, Zenon DEF Due
  <2> QED
    BY <2>4, <2>5
<1>6. SameDebts(s, t, m, X)
  BY <1>1, <1>2, <1>4 DEF SameDebts
<1> QED
  BY <1>1, <1>5, <1>6 DEF t

\* So has one that waits, together with the one it starts.
LEMMA StartDebts ==
    ASSUME NEW s, IsSeq(s), NEW m \in 1 .. Len(s), NEW f, NEW g, Keeps(s[m], f), NEW X
    PROVE  /\ SameDebts(s, Start(s, m, f, g), m, X)
           /\ Due(Start(s, m, f, g), m, X) = Waits(f, g, X) \cup Owed(g, X) \cup Later(g, X)
           /\ Len(Start(s, m, f, g)) = m + 1
           /\ Debt(Start(s, m, f, g), m, "own", X) = Waits(f, g, X)
           /\ Debt(Start(s, m, f, g), m + 1, "own", X) = Owed(g, X)
           /\ Debt(Start(s, m, f, g), m + 1, "later", X) = Later(g, X)
<1> DEFINE t == Start(s, m, f, g)
<1>1. /\ IsSeq(t) /\ Len(t) = m + 1 /\ t[m] = f /\ t[m + 1] = g
      /\ \A i \in 1 .. m - 1 : t[i] = s[i]
  BY StartSeq
<1>2. Len(s) \in Nat /\ m \in Nat /\ m >= 1
  BY LenProperties DEF IsSeq
<1> HIDE DEF t
<1>3. Later(f, X) = Later(s[m], X)
  BY DEF Later, Keeps
<1>4. ASSUME NEW i \in 1 .. m, NEW w \in Whens, ~Above(m, i, w)
      PROVE  Debt(t, i, w, X) = Debt(s, i, w, X)
  <2>1. CASE i = m
    <3>1. w = "later"
      BY <1>4, <2>1 DEF Above, Whens
    <3> QED
      BY <1>1, <1>3, <2>1, <3>1 DEF Debt
  <2>2. CASE i # m
    <3>1. i \in 1 .. m - 1 /\ i + 1 \in 1 .. m /\ i # Len(t) /\ i # Len(s)
      BY <1>1, <1>2, <2>2
    <3>2. t[i] = s[i] /\ t[i + 1].then = s[i + 1].then
      <4>1. CASE i + 1 = m
        BY <1>1, <3>1, <4>1 DEF Keeps
      <4>2. CASE i + 1 # m
        <5>1. i + 1 \in 1 .. m - 1
          BY <1>2, <3>1, <4>2
        <5> QED
          BY <1>1, <3>1, <5>1
      <4> QED
        BY <4>1, <4>2
    <3>3. Own(t, i, X) = Own(s, i, X) /\ Later(t[i], X) = Later(s[i], X)
      BY <3>1, <3>2 DEF Own, Waits
    <3> QED
      BY <3>3 DEF Debt
  <2> QED
    BY <2>1, <2>2
<1>5. /\ m \in 1 .. Len(t) /\ m + 1 \in 1 .. Len(t) /\ m # m + 1
      /\ Debt(t, m, "own", X) = Waits(f, g, X)
      /\ Debt(t, m + 1, "own", X) = Owed(g, X)
      /\ Debt(t, m + 1, "later", X) = Later(g, X)
  BY <1>1, <1>2 DEF Debt, Own
<1>6. Due(t, m, X) = Waits(f, g, X) \cup Owed(g, X) \cup Later(g, X)
  <2>1. \A i \in 1 .. Len(t), w \in Whens :
           Above(m, i, w) <=> \/ i = m /\ w = "own"
                              \/ i = m + 1 /\ w = "own"
                              \/ i = m + 1 /\ w = "later"
    BY <1>1, <1>2 DEF Above, Whens
  <2>2. "own" \in Whens /\ "later" \in Whens
    BY DEF Whens
  <2> QED
    BY <1>5, <2>1, <2>2, OwedInX DEF Due
<1>7. SameDebts(s, t, m, X)
  BY <1>1, <1>2, <1>4 DEF SameDebts
<1> QED
  BY <1>1, <1>5, <1>6, <1>7 DEF t

\* What the innermost machine has to read, and what it has with the one that waits for it.
LEMMA TopDue ==
    ASSUME NEW s, IsSeq(s), s # <<>>, NEW X
    PROVE  Due(s, Len(s), X) = Owed(Last(s), X)
<1>1. Len(s) \in 1 .. Len(s) /\ Len(s) \in Nat /\ Last(s) = s[Len(s)]
  BY EmptySeq, LenProperties DEF IsSeq, Last
<1>2. \A i \in 1 .. Len(s), w \in Whens : Above(Len(s), i, w) <=> i = Len(s) /\ w = "own"
  BY <1>1 DEF Above
<1>3. "own" \in Whens /\ Debt(s, Len(s), "own", X) = Owed(Last(s), X)
  BY <1>1 DEF Whens, Debt, Own
<1> DEFINE m == Len(s)
<1>4. m \in 1 .. Len(s) /\ Debt(s, m, "own", X) = Owed(Last(s), X)
      /\ \A i \in 1 .. Len(s), w \in Whens : Above(m, i, w) <=> i = m /\ w = "own"
  BY <1>1, <1>2, <1>3
<1> HIDE DEF m
<1>5. ASSUME NEW x \in Due(s, m, X) PROVE x \in Owed(Last(s), X)
  <2>1. PICK i \in 1 .. Len(s), w \in Whens : Above(m, i, w) /\ x \in Debt(s, i, w, X)
    BY <1>5 DEF Due
  <2>2. i = m /\ w = "own"
    BY <1>4, <2>1
  <2> QED
    BY <1>4, <2>1, <2>2
<1>6. ASSUME NEW x \in Owed(Last(s), X) PROVE x \in Due(s, m, X)
  <2>1. x \in X
    BY <1>6, OwedInX
  <2> QED
    BY <1>3, <1>4, <1>6, <2>1, Zenon DEF Due
<1> QED
  BY <1>5, <1>6 DEF m

\* What is to be read from the caller on.
LEMMA CallerDue ==
    ASSUME NEW s, IsSeq(s), Len(s) - 1 \in 1 .. Len(s), NEW X
    PROVE  /\ Due(s, Len(s) - 1, X) = Waits(s[Len(s) - 1], Last(s), X) \cup Owed(Last(s), X)
                                      \cup Later(Last(s), X)
           /\ Debt(s, Len(s) - 1, "own", X) = Waits(s[Len(s) - 1], Last(s), X)
           /\ Debt(s, Len(s), "own", X) = Owed(Last(s), X)
           /\ Debt(s, Len(s), "later", X) = Later(Last(s), X)
<1> DEFINE m == Len(s) - 1
<1>1. /\ Len(s) \in Nat /\ Last(s) = s[Len(s)] /\ m \in Nat /\ m >= 1 /\ Len(s) = m + 1
      /\ m # Len(s)
  BY LenProperties DEF IsSeq, Last
<1> HIDE DEF m
<1>2. s[m + 1] = Last(s)
  BY <1>1, Zenon
<1>3. /\ Debt(s, m, "own", X) = Waits(s[m], Last(s), X)
      /\ Debt(s, Len(s), "own", X) = Owed(Last(s), X)
      /\ Debt(s, Len(s), "later", X) = Later(Last(s), X)
  BY <1>1, <1>2 DEF Debt, Own
<1>4. \A i \in 1 .. Len(s), w \in Whens :
         Above(m, i, w) <=> \/ i = m /\ w = "own"
                            \/ i = Len(s) /\ w = "own"
                            \/ i = Len(s) /\ w = "later"
  BY <1>1 DEF Above, Whens
<1>5. "own" \in Whens /\ "later" \in Whens /\ m \in 1 .. Len(s) /\ Len(s) \in 1 .. Len(s)
  BY <1>1 DEF Whens
<1>6. Due(s, m, X) = Waits(s[m], Last(s), X) \cup Owed(Last(s), X) \cup Later(Last(s), X)
  BY <1>3, <1>4, <1>5, OwedInX DEF Due
<1> QED
  BY <1>3, <1>6 DEF m

-----------------------------------------------------------------------------
(* What nodes hold. *)

\* The nodes hold the lines H, of which those of text in U as content, each once.
Tells(nodes, H, U, X) ==
    /\ IsSeq(nodes)
    /\ Held(nodes) = H
    /\ Used(nodes, X) = U
    /\ Apart(nodes, X)

\* No nodes hold nothing.
LEMMA TellsNothing ==
    ASSUME NEW X
    PROVE  Tells(<<>>, {}, {}, X)
<1> DEFINE s == <<>>
<1>1. IsSeq(s) /\ Len(s) = 0
  BY DEF IsSeq
<1> HIDE DEF s
<1>2. \A i : i \notin 1 .. Len(s)
  BY <1>1
<1>3. Held(s) = {} /\ Used(s, X) = {} /\ Apart(s, X)
  BY <1>2 DEF Held, Used, Apart
<1> QED
  BY <1>1, <1>3 DEF Tells, s

\* One node.
LEMMA TellsOne ==
    ASSUME NEW X, NEW x
    PROVE  Tells(<<x>>, x.of, IF IsMessage(x) THEN {} ELSE x.of \cap X, X)
<1> DEFINE s == <<x>>
<1>1. IsSeq(s) /\ Len(s) = 1 /\ s[1] = x
  BY OneSeq
<1> HIDE DEF s
<1>2. 1 .. Len(s) = {1}
  BY <1>1
<1>3. Held(s) = x.of
  BY <1>1, <1>2 DEF Held
<1>4. Used(s, X) = (IF IsMessage(x) THEN {} ELSE x.of \cap X)
  BY <1>1, <1>2 DEF Used, Shows
<1>5. Apart(s, X)
  BY <1>2 DEF Apart
<1> QED
  BY <1>1, <1>3, <1>4, <1>5 DEF Tells, s

\* A node of content, and a message.
LEMMA TellsNode ==
    ASSUME NEW X, NEW kind, NEW up, NEW of
    PROVE  /\ kind \notin Levels => Tells(<<Node(kind, up, of)>>, of, of \cap X, X)
           /\ kind \in Levels => /\ Tells(<<Node(kind, up, of)>>, of, {}, X)
                                 /\ Tells(<<Message(kind, up, of)>>, of, {}, X)
<1> DEFINE x == Node(kind, up, of)
<1>1. Message(kind, up, of) = x
  BY DEF Message
<1>2. x.kind = kind /\ x.of = of
  BY DEF Node
<1> HIDE DEF x
<1>3. IsMessage(x) <=> kind \in Levels
  BY <1>2 DEF IsMessage
<1>4. Tells(<<x>>, x.of, IF IsMessage(x) THEN {} ELSE x.of \cap X, X)
  BY TellsOne
<1>5. ASSUME kind \notin Levels PROVE Tells(<<x>>, of, of \cap X, X)
  BY <1>2, <1>3, <1>4, <1>5
<1>6. ASSUME kind \in Levels PROVE Tells(<<x>>, of, {}, X)
  BY <1>2, <1>3, <1>4, <1>6
<1> QED
  BY <1>1, <1>5, <1>6 DEF x

\* Nodes and more nodes, which show other lines.
LEMMA TellsBoth ==
    ASSUME NEW X, NEW a, NEW b, NEW H, NEW U, NEW G, NEW V,
           Tells(a, H, U, X), Tells(b, G, V, X), U \cap V = {}
    PROVE  Tells(a \o b, H \cup G, U \cup V, X)
<1> DEFINE c == a \o b
<1>1. /\ IsSeq(c) /\ Len(c) = Len(a) + Len(b)
      /\ \A i \in 1 .. Len(a) + Len(b) : c[i] = IF i <= Len(a) THEN a[i] ELSE b[i - Len(a)]
  BY JoinSeq DEF Tells
<1>2. Len(a) \in Nat /\ Len(b) \in Nat
  BY LenProperties DEF Tells, IsSeq
<1> HIDE DEF c
<1>10. ASSUME NEW k \in 1 .. Len(b)
       PROVE  k + Len(a) \in 1 .. Len(c) /\ c[k + Len(a)] = b[k]
  <2>1. /\ k + Len(a) \in 1 .. Len(a) + Len(b) /\ ~(k + Len(a) <= Len(a))
        /\ (k + Len(a)) - Len(a) = k
    BY <1>2, <1>10
  <2> QED
    BY <1>1, <2>1
<1>3. /\ \A k \in 1 .. Len(a) : k \in 1 .. Len(c) /\ c[k] = a[k]
      /\ \A k \in 1 .. Len(b) : k + Len(a) \in 1 .. Len(c) /\ c[k + Len(a)] = b[k]
  BY <1>1, <1>2, <1>10
<1>4. \A k \in 1 .. Len(c) : \/ k \in 1 .. Len(a) /\ c[k] = a[k]
                             \/ k - Len(a) \in 1 .. Len(b) /\ c[k] = b[k - Len(a)]
  BY <1>1, <1>2
<1>5. Held(c) = H \cup G
  <2>1. Held(c) = Held(a) \cup Held(b)
    <3>1. ASSUME NEW x \in Held(c) PROVE x \in Held(a) \cup Held(b)
      <4>1. PICK k \in 1 .. Len(c) : x \in c[k].of
        BY <3>1 DEF Held
      <4> QED
        BY <1>4, <4>1 DEF Held
    <3>2. Held(a) \subseteq Held(c) /\ Held(b) \subseteq Held(c)
      BY <1>3 DEF Held
    <3> QED
      BY <3>1, <3>2
  <2> QED
    BY <2>1 DEF Tells
<1>6. /\ \A k \in 1 .. Len(a) : Shows(c, k, X) = Shows(a, k, X)
      /\ \A k \in 1 .. Len(b) : Shows(c, k + Len(a), X) = Shows(b, k, X)
  BY <1>3 DEF Shows
<1>7. ASSUME NEW k \in 1 .. Len(c)
      PROVE  \/ k \in 1 .. Len(a) /\ Shows(c, k, X) = Shows(a, k, X)
             \/ k - Len(a) \in 1 .. Len(b) /\ Shows(c, k, X) = Shows(b, k - Len(a), X)
  <2>1. CASE k \in 1 .. Len(a) /\ c[k] = a[k]
    BY <1>6, <2>1
  <2>2. CASE k - Len(a) \in 1 .. Len(b) /\ c[k] = b[k - Len(a)]
    BY <2>2 DEF Shows
  <2> QED
    BY <1>4, <2>1, <2>2
<1>8. Used(c, X) = U \cup V
  <2>1. Used(a, X) = U /\ Used(b, X) = V
    BY DEF Tells
  <2>2. ASSUME NEW x \in Used(c, X) PROVE x \in U \cup V
    <3>1. PICK k \in 1 .. Len(c) : x \in Shows(c, k, X)
      BY <2>2 DEF Used
    <3>2. x \in X
      BY <2>2 DEF Used
    <3> QED
      BY <1>7, <2>1, <3>1, <3>2 DEF Used
  <2>3. ASSUME NEW x \in U PROVE x \in Used(c, X)
    BY <1>3, <1>6, <2>1, <2>3 DEF Used
  <2>4. ASSUME NEW x \in V PROVE x \in Used(c, X)
    <3>1. PICK k \in 1 .. Len(b) : x \in Shows(b, k, X) /\ x \in X
      BY <2>1, <2>4 DEF Used
    <3>2. x \in Shows(c, k + Len(a), X) /\ k + Len(a) \in 1 .. Len(c)
      BY <1>3, <1>6, <3>1
    <3> QED
      BY <3>1, <3>2 DEF Used
  <2> QED
    BY <2>2, <2>3, <2>4
<1>9. Apart(c, X)
  <2> SUFFICES ASSUME NEW i \in 1 .. Len(c), NEW j \in 1 .. Len(c), NEW x \in X,
                      x \in Shows(c, i, X), x \in Shows(c, j, X)
               PROVE  i = j
    BY DEF Apart
  <2>1. \A k \in 1 .. Len(a) : x \in Shows(a, k, X) => x \in U
    BY DEF Tells, Used
  <2>2. \A k \in 1 .. Len(b) : x \in Shows(b, k, X) => x \in V
    BY DEF Tells, Used
  <2>3. CASE i \in 1 .. Len(a) /\ Shows(c, i, X) = Shows(a, i, X)
    <3>1. j \in 1 .. Len(a) /\ Shows(c, j, X) = Shows(a, j, X)
      BY <1>7, <2>1, <2>2, <2>3
    <3> QED
      BY <2>3, <3>1 DEF Tells, Apart
  <2>4. CASE i - Len(a) \in 1 .. Len(b) /\ Shows(c, i, X) = Shows(b, i - Len(a), X)
    <3>1. j - Len(a) \in 1 .. Len(b) /\ Shows(c, j, X) = Shows(b, j - Len(a), X)
      BY <1>7, <2>1, <2>2, <2>4
    <3>2. i - Len(a) = j - Len(a)
      BY <2>4, <3>1 DEF Tells, Apart
    <3> QED
      BY <1>1, <1>2, <3>2
  <2> QED
    BY <1>7, <2>3, <2>4
<1> QED
  BY <1>1, <1>5, <1>8, <1>9 DEF Tells, c

\* The nodes made first are those they were.
LEMMA HeldFirst ==
    ASSUME NEW a, IsSeq(a), NEW b, IsSeq(b), NEW n \in 0 .. Len(a)
    PROVE  HeldTo(a \o b, n) = HeldTo(a, n)
<1> DEFINE c == a \o b
<1>1. /\ IsSeq(c) /\ Len(c) = Len(a) + Len(b)
      /\ \A i \in 1 .. Len(a) + Len(b) : c[i] = IF i <= Len(a) THEN a[i] ELSE b[i - Len(a)]
  BY JoinSeq
<1>2. Len(a) \in Nat /\ Len(b) \in Nat
  BY LenProperties DEF IsSeq
<1> HIDE DEF c
<1>3. \A k \in 1 .. n : c[k] = a[k]
  BY <1>1, <1>2
<1> QED
  BY <1>3 DEF HeldTo, c

-----------------------------------------------------------------------------
(* The parts of the invariant, when the top of the stack changes. *)

\* What the machines from m on had to read has become content, or is to be read once.
LEMMA OnceStep ==
    ASSUME NEW X, NEW s, NEW t, NEW m, SameDebts(s, t, m, X), NEW a, NEW b, Once(s, a, X),
           Due(t, m, X) \subseteq Due(s, m, X),
           \A i, j \in 1 .. Len(t), w, v \in Whens :
               Above(m, i, w) /\ Above(m, j, v) /\ (i # j \/ w # v)
               => Debt(t, i, w, X) \cap Debt(t, j, v, X) = {},
           Apart(b, X), Used(b, X) \subseteq Used(a, X) \cup (Due(s, m, X) \ Due(t, m, X))
    PROVE  Once(t, b, X)
<1>1. /\ m \in 1 .. Len(s) /\ m \in 1 .. Len(t) /\ Len(s) \in Nat /\ Len(t) \in Nat
      /\ \A i \in 1 .. m, w \in Whens : ~Above(m, i, w) => Debt(t, i, w, X) = Debt(s, i, w, X)
  BY DEF SameDebts
<1>2. \A i \in 1 .. Len(t), w \in Whens : ~Above(m, i, w) => i \in 1 .. m /\ i \in 1 .. Len(s)
  BY <1>1 DEF Above
<1>3. \A i \in 1 .. Len(t), w \in Whens, x \in X :
         Above(m, i, w) /\ x \in Debt(t, i, w, X) => x \in Due(t, m, X)
  BY DEF Due
<1>4. \A x \in Due(s, m, X) :
         \E i \in 1 .. Len(s), w \in Whens : Above(m, i, w) /\ x \in Debt(s, i, w, X)
  BY DEF Due
<1>5. \A i \in 1 .. Len(s), w \in Whens : Debt(s, i, w, X) \subseteq X
                                          /\ Used(a, X) \cap Debt(s, i, w, X) = {}
  <2>1. \A i \in 1 .. Len(s), w \in Whens : Debt(s, i, w, X) \subseteq X
    BY OwedInX DEF Debt, Own
  <2> QED
    BY <2>1 DEF Once
<1>6. \A i \in 1 .. Len(t), w \in Whens : Debt(t, i, w, X) \subseteq X
  BY OwedInX DEF Debt, Own
<1>7. \A i \in 1 .. Len(t), w \in Whens :
         ~Above(m, i, w) => /\ Debt(t, i, w, X) = Debt(s, i, w, X)
                            /\ Debt(s, i, w, X) \cap Due(s, m, X) = {}
  <2> SUFFICES ASSUME NEW i \in 1 .. Len(t), NEW w \in Whens, ~Above(m, i, w)
               PROVE  /\ Debt(t, i, w, X) = Debt(s, i, w, X)
                      /\ Debt(s, i, w, X) \cap Due(s, m, X) = {}
    OBVIOUS
  <2>1. i \in 1 .. m /\ i \in 1 .. Len(s)
    BY <1>2
  <2>2. ASSUME NEW x \in Debt(s, i, w, X), x \in Due(s, m, X) PROVE FALSE
    <3>1. PICK j \in 1 .. Len(s), v \in Whens : Above(m, j, v) /\ x \in Debt(s, j, v, X)
      BY <1>4, <2>2
    <3>2. i # j \/ w # v
      BY <3>1
    <3> QED
      BY <2>1, <2>2, <3>1, <3>2 DEF Once
  <2> QED
    BY <1>1, <2>1, <2>2
<1>8. ASSUME NEW i \in 1 .. Len(t), NEW w \in Whens
      PROVE  Used(b, X) \cap Debt(t, i, w, X) = {}
  <2> SUFFICES ASSUME NEW x \in Used(b, X), x \in Debt(t, i, w, X) PROVE FALSE
    OBVIOUS
  <2>1. x \in X
    BY <1>6
  <2>2. CASE Above(m, i, w)
    <3>1. x \in Due(t, m, X) /\ x \in Due(s, m, X)
      BY <1>3, <2>1, <2>2
    <3>2. x \in Used(a, X)
      BY <3>1
    <3> QED
      BY <1>4, <1>5, <3>1, <3>2
  <2>3. CASE ~Above(m, i, w)
    BY <1>2, <1>5, <1>7, <2>3
  <2> QED
    BY <2>2, <2>3
<1>9. ASSUME NEW i \in 1 .. Len(t), NEW j \in 1 .. Len(t), NEW w \in Whens, NEW v \in Whens,
             i # j \/ w # v
      PROVE  Debt(t, i, w, X) \cap Debt(t, j, v, X) = {}
  <2>1. CASE Above(m, i, w) /\ Above(m, j, v)
    BY <1>9, <2>1
  <2>2. CASE ~Above(m, i, w) /\ Above(m, j, v)
    BY <1>3, <1>6, <1>7, <2>2
  <2>3. CASE Above(m, i, w) /\ ~Above(m, j, v)
    BY <1>3, <1>6, <1>7, <2>3
  <2>4. CASE ~Above(m, i, w) /\ ~Above(m, j, v)
    BY <1>2, <1>7, <1>9, <2>4 DEF Once
  <2> QED
    BY <2>1, <2>2, <2>3, <2>4
<1> QED
  BY <1>8, <1>9 DEF Once

\* The lines the machines below have to read.
Lower(s, m, X) ==
    {x \in X : \E i \in 1 .. m, w \in Whens : ~Above(m, i, w) /\ x \in Debt(s, i, w, X)}

\* What the top has read is held, or dropped, or to be read by others: all lines still are.
LEMMA CoveredStep ==
    ASSUME NEW X, NEW s, NEW t, NEW m, SameDebts(s, t, m, X), NEW a, NEW b, NEW d, NEW e,
           Covered(s, a, d, X),
           \A x \in X :
               \/ x \in Held(a) \/ x \in d \/ x \in Due(s, m, X)
               \/ s # <<>> /\ x \in Quoted(Last(s), Len(a), X)
               => \/ x \in Held(b) \/ x \in e \/ x \in Due(t, m, X) \/ x \in Lower(s, m, X)
                  \/ t # <<>> /\ x \in Quoted(Last(t), Len(b), X)
    PROVE  Covered(t, b, e, X)
<1>1. /\ m \in 1 .. Len(s) /\ m \in 1 .. Len(t) /\ Len(s) \in Nat /\ Len(t) \in Nat
      /\ \A i \in 1 .. m, w \in Whens : ~Above(m, i, w) => Debt(t, i, w, X) = Debt(s, i, w, X)
  BY DEF SameDebts
<1> SUFFICES ASSUME NEW x \in X
             PROVE  \/ x \in Held(b) \/ x \in e
                    \/ t # <<>> /\ x \in Quoted(Last(t), Len(b), X)
                    \/ \E i \in 1 .. Len(t), w \in Whens : x \in Debt(t, i, w, X)
  BY DEF Covered
<1>2. x \in Due(t, m, X) => \E i \in 1 .. Len(t), w \in Whens : x \in Debt(t, i, w, X)
  BY DEF Due
<1>5. ASSUME NEW i \in 1 .. m, NEW w \in Whens, ~Above(m, i, w), x \in Debt(s, i, w, X)
      PROVE  \E j \in 1 .. Len(t), v \in Whens : x \in Debt(t, j, v, X)
  <2>1. i \in 1 .. Len(t)
    BY <1>1
  <2> QED
    BY <1>1, <1>5, <2>1
<1>6. x \in Lower(s, m, X) => \E j \in 1 .. Len(t), v \in Whens : x \in Debt(t, j, v, X)
  BY <1>5 DEF Lower
<1>3. CASE \E i \in 1 .. Len(s), w \in Whens : x \in Debt(s, i, w, X)
  <2>1. PICK i \in 1 .. Len(s), w \in Whens : x \in Debt(s, i, w, X)
    BY <1>3
  <2>2. CASE Above(m, i, w)
    <3>1. x \in Due(s, m, X)
      BY <2>1, <2>2 DEF Due
    <3> QED
      BY <1>2, <1>6, <3>1
  <2>3. CASE ~Above(m, i, w)
    <3>1. i \in 1 .. m
      BY <1>1, <2>3 DEF Above
    <3> QED
      BY <1>5, <2>1, <2>3, <3>1
  <2> QED
    BY <2>2, <2>3
<1>4. CASE ~\E i \in 1 .. Len(s), w \in Whens : x \in Debt(s, i, w, X)
  BY <1>2, <1>4, <1>6 DEF Covered
<1> QED
  BY <1>3, <1>4

\* So is what is read below a replacement.
LEMMA CoveredBelowStep ==
    ASSUME NEW X, NEW s, NEW t, NEW m, SameDebts(s, t, m, X), NEW a, NEW b, NEW d, NEW e,
           CoveredBelow(s, a, d, X), d \subseteq e,
           \A k \in 2 .. m : t[k].then = s[k].then,
           \A k \in 2 .. m : s[k].then.k = "replace" =>
               HeldTo(a, s[k].then.node) \cap X \subseteq HeldTo(b, s[k].then.node) \cup e,
           \A k \in 2 .. Len(t) : k > m /\ t[k].then.k = "replace" =>
               \A x \in X : \/ x \in HeldTo(b, t[k].then.node) \/ x \in e \/ x \in t[k].then.of
                            \/ \E i \in 1 .. k - 1, w \in Whens : x \in Debt(t, i, w, X)
    PROVE  CoveredBelow(t, b, e, X)
<1>1. /\ m \in 1 .. Len(s) /\ m \in 1 .. Len(t) /\ Len(s) \in Nat /\ Len(t) \in Nat
      /\ \A i \in 1 .. m, w \in Whens : ~Above(m, i, w) => Debt(t, i, w, X) = Debt(s, i, w, X)
  BY DEF SameDebts
<1> SUFFICES ASSUME NEW k \in 2 .. Len(t), t[k].then.k = "replace", NEW x \in X
             PROVE  \/ x \in HeldTo(b, t[k].then.node) \/ x \in e \/ x \in t[k].then.of
                    \/ \E i \in 1 .. k - 1, w \in Whens : x \in Debt(t, i, w, X)
  BY DEF CoveredBelow
<1>2. CASE k > m
  BY <1>2
<1>3. CASE ~(k > m)
  <2>1. k \in 2 .. m /\ k \in 2 .. Len(s)
    BY <1>1, <1>3
  <2>2. t[k].then = s[k].then
    BY <2>1
  <2>3. \/ x \in HeldTo(a, s[k].then.node) \/ x \in d \/ x \in s[k].then.of
        \/ \E i \in 1 .. k - 1, w \in Whens : x \in Debt(s, i, w, X)
    BY <2>1, <2>2 DEF CoveredBelow
  <2>4. CASE \E i \in 1 .. k - 1, w \in Whens : x \in Debt(s, i, w, X)
    <3>1. PICK i \in 1 .. k - 1, w \in Whens : x \in Debt(s, i, w, X)
      BY <2>4
    <3>2. i \in 1 .. m /\ ~Above(m, i, w)
      BY <1>1, <2>1 DEF Above
    <3> QED
      BY <1>1, <3>1, <3>2
  <2> QED
    BY <2>1, <2>2, <2>3, <2>4
<1> QED
  BY <1>2, <1>3

\* Which sections are within another.
LEMMA GroundedPut ==
    ASSUME NEW s, NEW t, NEW m \in Nat, m <= Len(s), Len(s) \in Nat, Grounded(s), NEW n \in Nat,
           Len(t) = n, n \in {m, m + 1},
           \A k \in 1 .. m : t[k].then = s[k].then,
           n = m + 1 /\ IsSection(t[n]) => (t[n].then.level # 0 <=> Sectioned(s, m))
    PROVE  /\ Grounded(t)
           /\ Sectioned(t, Len(t)) <=> Sectioned(s, m) \/ (n = m + 1 /\ IsSection(t[n]))
<1>1. \A k \in 1 .. m : IsSection(t[k]) <=> IsSection(s[k])
  BY DEF IsSection
<1>2. \A k \in 1 .. m + 1 : Sectioned(t, k - 1) <=> Sectioned(s, k - 1)
  BY <1>1 DEF Sectioned
<1>3. Grounded(t)
  <2> SUFFICES ASSUME NEW i \in 1 .. Len(t), IsSection(t[i])
               PROVE  t[i].then.level # 0 <=> Sectioned(t, i - 1)
    BY DEF Grounded
  <2>1. CASE i \in 1 .. m
    BY <1>1, <1>2, <2>1 DEF Grounded
  <2>2. CASE i \notin 1 .. m
    <3>1. n = m + 1 /\ i = n /\ i - 1 = m /\ i \in 1 .. m + 1
      BY <2>2
    <3> QED
      BY <1>2, <3>1
  <2> QED
    BY <2>1, <2>2
<1>4. Sectioned(t, Len(t)) <=> Sectioned(s, m) \/ (n = m + 1 /\ IsSection(t[n]))
  <2>1. CASE n = m
    BY <1>1, <2>1 DEF Sectioned
  <2>2. CASE n = m + 1
    <3>1. 1 .. n = (1 .. m) \cup {n}
      BY <2>2
    <3> QED
      BY <1>1, <2>2, <3>1 DEF Sectioned
  <2> QED
    BY <2>1, <2>2
<1> QED
  BY <1>3, <1>4

-----------------------------------------------------------------------------
(* What each machine is, when the top of the stack changes. *)

\* What a machine is, whichever line it has come to.
Alike(f, g, X) ==
    /\ Like(f, g)
    /\ f.state = "SubstitutionDef" <=> g.state = "SubstitutionDef"
    /\ g.state = "SubstitutionDef" => AnyNext(g)
    /\ g.state = "Line" => \A k \in 1 .. Len(g.ctx) : g.ctx[k].n \notin X

\* What holds of a machine holds of one that is alike.
LEMMA AlikeIn ==
    ASSUME NEW X, NEW f, NEW g, MachineIn(f, X), Alike(f, g, X)
    PROVE  MachineIn(g, X) /\ Keeps(f, g)
<1>1. /\ g.lines = f.lines /\ g.node = f.node /\ g.then = f.then
      /\ f.state \in BodyStates <=> g.state \in BodyStates
      /\ Keeps(f, g)
  BY Zenon DEF Alike, Like, Keeps
<1>2. /\ f.state = "SubstitutionDef" <=> g.state = "SubstitutionDef"
      /\ g.state = "SubstitutionDef" => AnyNext(g)
      /\ g.state = "Line" => \A k \in 1 .. Len(g.ctx) : g.ctx[k].n \notin X
  BY Zenon DEF Alike
<1> QED
  BY <1>1, <1>2, Zenon DEF MachineIn

\* The machines are well formed when the top is one that is alike.
LEMMA FormedPut ==
    ASSUME NEW X, NEW s, IsSeq(s), NEW n, NEW p, Formed(s, n, X), NEW m \in 1 .. Len(s),
           NEW f, Keeps(s[m], f), MachineIn(f, X), TopIn(f, p, X)
    PROVE  Formed(Put(s, m, f), p, X)
<1> DEFINE t == Put(s, m, f)
<1>1. /\ IsSeq(t) /\ Len(t) = m /\ t[m] = f
      /\ \A i \in 1 .. m - 1 : t[i] = s[i]
  BY PutSeq
<1>2. Len(s) \in Nat /\ m \in Nat /\ m >= 1
  BY LenProperties DEF IsSeq
<1> HIDE DEF t
<1>3. \A i \in 1 .. m : i \in 1 .. Len(s) /\ (i = m \/ (i \in 1 .. m - 1 /\ i # m))
  BY <1>2
<1>4. /\ \A i \in 1 .. Len(s) : MachineIn(s[i], X)
      /\ \A i \in 2 .. Len(s) : WaitIn(s[i - 1], s[i], X)
      /\ \A i, j \in 1 .. Len(s) : i <= j => s[i].node <= s[j].node
  BY DEF Formed
<1>5. \A i \in 1 .. m : MachineIn(t[i], X) /\ t[i].node = s[i].node /\ t[i].then = s[i].then
                        /\ t[i].lines = s[i].lines
  BY <1>1, <1>3, <1>4 DEF Keeps
<1>6. ASSUME NEW i \in 2 .. m PROVE WaitIn(t[i - 1], t[i], X)
  <2>1. i \in 1 .. m /\ i \in 2 .. Len(s) /\ i - 1 \in 1 .. m - 1
    BY <1>2
  <2>2. t[i - 1] = s[i - 1] /\ WaitIn(s[i - 1], s[i], X)
    BY <1>1, <1>4, <2>1
  <2> QED
    BY <1>5, <2>1, <2>2 DEF WaitIn
<1>7. Last(t) = f /\ t # <<>>
  <2>1. t # <<>> /\ Len(t) = m
    BY <1>1, <1>2, EmptySeq DEF IsSeq
  <2> QED
    BY <1>1, <2>1 DEF Last
<1> QED
  BY <1>1, <1>3, <1>4, <1>5, <1>6, <1>7 DEF Formed, t

\* So they are when it waits for one that is well formed.
LEMMA FormedStart ==
    ASSUME NEW X, NEW s, IsSeq(s), NEW n, NEW p, Formed(s, n, X), NEW m \in 1 .. Len(s),
           NEW f, NEW g, Keeps(s[m], f), MachineIn(f, X), MachineIn(g, X), WaitIn(f, g, X),
           TopIn(g, p, X), \A i \in 1 .. Len(s) : s[i].node \in Nat,
           g.node \in Nat, f.node <= g.node
    PROVE  Formed(Start(s, m, f, g), p, X)
<1> DEFINE t == Start(s, m, f, g)
<1>1. /\ IsSeq(t) /\ Len(t) = m + 1 /\ t[m] = f /\ t[m + 1] = g
      /\ \A i \in 1 .. m - 1 : t[i] = s[i]
  BY StartSeq
<1>2. Len(s) \in Nat /\ m \in Nat /\ m >= 1
  BY LenProperties DEF IsSeq
<1> HIDE DEF t
<1>3. \A i \in 1 .. m : i \in 1 .. Len(s) /\ (i = m \/ (i \in 1 .. m - 1 /\ i # m))
  BY <1>2
<1>4. /\ \A i \in 1 .. Len(s) : MachineIn(s[i], X)
      /\ \A i \in 2 .. Len(s) : WaitIn(s[i - 1], s[i], X)
      /\ \A i, j \in 1 .. Len(s) : i <= j => s[i].node <= s[j].node
  BY DEF Formed
<1>5. \A i \in 1 .. m : MachineIn(t[i], X) /\ t[i].node = s[i].node /\ t[i].then = s[i].then
                        /\ t[i].lines = s[i].lines
  BY <1>1, <1>3, <1>4 DEF Keeps
<1>6. ASSUME NEW i \in 2 .. m PROVE WaitIn(t[i - 1], t[i], X)
  <2>1. i \in 1 .. m /\ i \in 2 .. Len(s) /\ i - 1 \in 1 .. m - 1
    BY <1>2
  <2>2. t[i - 1] = s[i - 1] /\ WaitIn(s[i - 1], s[i], X)
    BY <1>1, <1>4, <2>1
  <2> QED
    BY <1>5, <2>1, <2>2 DEF WaitIn
<1>7. Last(t) = g /\ t # <<>>
  <2>1. t # <<>> /\ Len(t) = m + 1
    BY <1>1, <1>2, EmptySeq DEF IsSeq
  <2> QED
    BY <1>1, <2>1 DEF Last
<1>8. \A i \in 1 .. Len(t) : i = m + 1 \/ i \in 1 .. m
  BY <1>1, <1>2
<1>9. \A i \in 1 .. Len(t) : MachineIn(t[i], X)
  BY <1>1, <1>5, <1>8
<1>10. ASSUME NEW i \in 2 .. Len(t) PROVE WaitIn(t[i - 1], t[i], X)
  <2>1. i = m + 1 \/ i \in 2 .. m
    BY <1>1, <1>2
  <2>2. (m + 1) - 1 = m
    BY <1>2
  <2> QED
    BY <1>1, <1>6, <2>1, <2>2
<1>11. ASSUME NEW i \in 1 .. Len(t), NEW j \in 1 .. Len(t), i <= j
       PROVE  t[i].node <= t[j].node
  <2>1. CASE j \in 1 .. m
    <3>1. i \in 1 .. m
      BY <1>2, <1>11, <2>1
    <3> QED
      BY <1>3, <1>4, <1>5, <1>11, <2>1, <3>1
  <2>2. CASE j = m + 1 /\ i = m + 1
    BY <1>1, <2>2
  <2>3. CASE j = m + 1 /\ i \in 1 .. m
    <3>1. s[i].node <= s[m].node /\ s[m].node = f.node /\ i \in 1 .. Len(s)
      BY <1>2, <1>3, <1>4, <2>3 DEF Keeps
    <3>2. s[i].node \in Nat /\ s[m].node \in Nat
      BY <3>1
    <3>3. t[i].node = s[i].node /\ t[j].node = g.node
      BY <1>1, <1>5, <2>3
    <3>4. f.node \in Nat
      BY <3>1, <3>2
    <3> HIDE DEF t
    <3>5. \A a, b, c \in Nat : a <= b /\ b <= c => a <= c
      OBVIOUS
    <3> QED
      BY <3>1, <3>2, <3>3, <3>4, <3>5
  <2> QED
    BY <1>8, <2>1, <2>2, <2>3
<1> QED
  BY <1>7, <1>9, <1>10, <1>11 DEF Formed, t

-----------------------------------------------------------------------------
(* The invariant, when the top of the stack changes. *)

\* The lines of text are those of the document.
LEMMA SameText ==
    ASSUME doc' = doc
    PROVE  TextLines' = TextLines
  BY DEF TextLines

\* What nothing is left of has become content, or is quoted, or is known to be lost.
Accounted(m, rest, quoted) ==
    \A x \in TextLines :
        \/ x \in Held(tree) \/ x \in dropped \/ x \in Due(frames, m, TextLines)
        \/ x \in Quoted(Top, Len(tree), TextLines)
        => \/ x \in Held(tree') \/ x \in dropped' \/ x \in rest \/ x \in quoted
           \/ x \in Lower(frames, m, TextLines)

\* What the nodes in a definition that is about to be replaced hold.
KeptBelow(m) ==
    /\ \A k \in 2 .. m : frames[k].then.k = "replace" =>
        HeldTo(tree, frames[k].then.node) \cap TextLines
        \subseteq HeldTo(tree', frames[k].then.node) \cup dropped'
    /\ \A k \in 2 .. m : frames[k].then.k \in {"replace", "substitution"} =>
           tree'[frames[k].then.node].of = tree[frames[k].then.node].of

\* What is new in the nodes has been read for the first time.
NewOnce(m, rest) ==
    /\ rest \subseteq Due(frames, m, TextLines)
    /\ Apart(tree', TextLines)
    /\ Used(tree', TextLines) \subseteq Used(tree, TextLines) \cup (Due(frames, m, TextLines) \ rest)

\* A step that does not take anything back.
Onward == /\ Stack /\ Ledger /\ doc' = doc /\ error' = error /\ frames # <<>>
          /\ dropped \subseteq dropped' /\ (reread => reread')

\* The invariant, when the machines from m on give way to one like the first of them.
LEMMA LedgerPut ==
    ASSUME Onward, NEW m \in 1 .. Len(frames), NEW f, frames' = Put(frames, m, f),
           Alike(frames[m], f, TextLines), TopIn(f, Len(tree'), TextLines),
           memo'.level # 0 <=> Sectioned(frames, m),
           Accounted(m, Owed(f, TextLines), Quoted(f, Len(tree'), TextLines)), KeptBelow(m),
           ~reread' => NewOnce(m, Owed(f, TextLines))
    PROVE  Ledger'
<1> DEFINE X == TextLines
           s == frames
           t == Put(s, m, f)
           a == tree
           b == tree'
           e == dropped'
<1>1. /\ IsSeq(s) /\ m \in 1 .. Len(s) /\ Len(s) \in Nat
      /\ error = NoError /\ error' = NoError /\ TextLines' = X /\ doc' = doc
  BY LenProperties, SameText DEF Stack, StackOK, IsSeq, Onward
<1>2. /\ Formed(s, Len(a), X) /\ Grounded(s) /\ Covered(s, a, dropped, X)
      /\ CoveredBelow(s, a, dropped, X) /\ (~reread => Once(s, a, X)) /\ Plain(s, a)
  BY <1>1 DEF Ledger, Onward
<1>3. MachineIn(f, X) /\ Keeps(s[m], f)
  BY <1>2, AlikeIn DEF Formed
<1>4. SameDebts(s, t, m, X) /\ Due(t, m, X) = Owed(f, X) /\ Len(t) = m
  BY <1>1, <1>3, PutDebts
<1>5. IsSeq(t) /\ t[m] = f /\ \A i \in 1 .. m - 1 : t[i] = s[i]
  BY <1>1, PutSeq
<1>6. /\ TopIn(f, Len(b), X)
      /\ Accounted(m, Owed(f, X), Quoted(f, Len(b), X))
      /\ ~reread' => NewOnce(m, Owed(f, X))
      /\ dropped \subseteq e /\ (reread => reread')
  BY DEF Onward
<1>7. KeptBelow(m) /\ Top = Last(s) /\ s # <<>>
  BY DEF Top, Onward
<1>8. /\ \A k \in 2 .. m : s[k].then.k = "replace" =>
             HeldTo(a, s[k].then.node) \cap X \subseteq HeldTo(b, s[k].then.node) \cup e
      /\ \A x \in X :
            \/ x \in Held(a) \/ x \in dropped \/ x \in Due(s, m, X)
            \/ x \in Quoted(Last(s), Len(a), X)
            => \/ x \in Held(b) \/ x \in e \/ x \in Owed(f, X) \/ x \in Quoted(f, Len(b), X)
               \/ x \in Lower(s, m, X)
      /\ \A k \in 2 .. m : s[k].then.k \in {"replace", "substitution"} =>
             b[s[k].then.node].of = a[s[k].then.node].of
  BY <1>6, <1>7 DEF KeptBelow, Accounted
<1>9. ~reread' => /\ Owed(f, X) \subseteq Due(s, m, X) /\ Apart(b, X)
                  /\ Used(b, X) \subseteq Used(a, X) \cup (Due(s, m, X) \ Owed(f, X))
  BY <1>6 DEF NewOnce
<1> DEFINE next == memo'.level
<1>10. next # 0 <=> Sectioned(s, m)
  OBVIOUS
<1> HIDE DEF X, s, a, b, e, t, next
<1>11. Formed(t, Len(b), X)
  BY <1>1, <1>2, <1>3, <1>6, FormedPut DEF t
<1>12. Grounded(t) /\ (Sectioned(t, Len(t)) <=> Sectioned(s, m))
  <2>1. \A k \in 1 .. m : t[k].then = s[k].then
    <3> TAKE k \in 1 .. m
    <3>1. k = m \/ k \in 1 .. m - 1
      BY <1>1
    <3> QED
      BY <1>3, <1>5, <3>1 DEF Keeps
  <2>2. m \in Nat /\ m <= Len(s) /\ Len(t) = m /\ m # m + 1
    BY <1>1, <1>4
  <2> QED
    BY <1>1, <1>2, <2>1, <2>2, GroundedPut
<1>13. Last(t) = f /\ t # <<>>
  <2>1. t # <<>>
    BY <1>1, <1>4, <1>5, EmptySeq DEF IsSeq
  <2> QED
    BY <1>4, <1>5, <2>1 DEF Last
<1>14. Covered(t, b, e, X)
  <2>1. \A x \in X :
            \/ x \in Held(a) \/ x \in dropped \/ x \in Due(s, m, X)
            \/ s # <<>> /\ x \in Quoted(Last(s), Len(a), X)
            => \/ x \in Held(b) \/ x \in e \/ x \in Due(t, m, X) \/ x \in Lower(s, m, X)
               \/ t # <<>> /\ x \in Quoted(Last(t), Len(b), X)
    BY <1>4, <1>8, <1>13
  <2> QED
    BY <1>2, <1>4, <2>1, CoveredStep
<1>15. CoveredBelow(t, b, e, X)
  <2>1. \A k \in 2 .. m : t[k].then = s[k].then
    <3> TAKE k \in 2 .. m
    <3>1. k = m \/ k \in 1 .. m - 1
      BY <1>1
    <3> QED
      BY <1>3, <1>5, <3>1 DEF Keeps
  <2>2. \A k \in 2 .. Len(t) : ~(k > m)
    BY <1>1, <1>4
  <2> QED
    BY <1>2, <1>4, <1>6, <1>8, <2>1, <2>2, CoveredBelowStep
<1>16. ASSUME ~reread' PROVE Once(t, b, X)
  <2>1. ~reread
    BY <1>6, <1>16
  <2>2. \A i, j \in 1 .. Len(t), w, v \in Whens :
           Above(m, i, w) /\ Above(m, j, v) => i = j /\ w = v
    BY <1>1, <1>4 DEF Above
  <2> QED
    BY <1>2, <1>4, <1>9, <1>16, <2>1, <2>2, OnceStep
<1>18. Plain(t, b)
  <2> SUFFICES ASSUME NEW k \in 2 .. Len(t), t[k].then.k \in {"replace", "substitution"}
               PROVE  b[t[k].then.node].of = {}
    BY DEF Plain
  <2>1. k \in 2 .. m /\ k \in 2 .. Len(s) /\ (k = m \/ k \in 1 .. m - 1)
    BY <1>1, <1>4
  <2>2. t[k].then = s[k].then
    BY <1>3, <1>5, <2>1 DEF Keeps
  <2> QED
    BY <1>2, <1>8, <2>1, <2>2 DEF Plain
<1>17. Ledger' <=> /\ Formed(t, Len(b), X) /\ Grounded(t)
                   /\ t # <<>> \/ doc' = <<>> => (next # 0 <=> Sectioned(t, Len(t)))
                   /\ error' = NoError => Covered(t, b, e, X)
                   /\ CoveredBelow(t, b, e, X) /\ Plain(t, b)
                   /\ ~reread' => Once(t, b, X)
  BY <1>1 DEF Ledger, t, s, b, e, next
<1> QED
  BY <1>10, <1>11, <1>12, <1>14, <1>15, <1>16, <1>17, <1>18

\* Three parts of what there was to read, and none of the lines in two of them.
Split3(Y, P, Q, R) ==
    /\ P \cup Q \cup R \subseteq Y
    /\ P \cap Q = {} /\ P \cap R = {} /\ Q \cap R = {}

\* The invariant, when that one waits for another.
LEMMA LedgerStart ==
    ASSUME Onward, NEW m \in 1 .. Len(frames), NEW f, NEW g, frames' = Start(frames, m, f, g),
           Alike(frames[m], f, TextLines), MachineIn(g, TextLines), WaitIn(f, g, TextLines),
           TopIn(g, Len(tree'), TextLines), g.node \in Nat, f.node <= g.node,
           memo'.level # 0 <=> Sectioned(frames, m) \/ IsSection(g),
           IsSection(g) => (g.then.level # 0 <=> Sectioned(frames, m)),
           NEW P, P = Waits(f, g, TextLines), NEW Q, Q = Owed(g, TextLines),
           NEW R, R = Later(g, TextLines),
           Accounted(m, P \cup Q \cup R, {}), KeptBelow(m),
           g.then.k = "replace" =>
               /\ m = Len(frames) /\ Held(tree) \subseteq HeldTo(tree', g.then.node)
               /\ Due(frames, m, TextLines) \cup Quoted(Top, Len(tree), TextLines)
                  \subseteq P \cup g.then.of,
           g.then.k \in {"replace", "substitution"} => tree'[g.then.node].of = {},
           ~reread' => /\ NewOnce(m, P \cup Q \cup R)
                       /\ Split3(Due(frames, m, TextLines), P, Q, R)
    PROVE  Ledger'
<1> DEFINE X == TextLines
           s == frames
           t == Start(s, m, f, g)
           a == tree
           b == tree'
           e == dropped'
           Y == P \cup Q \cup R
<1>1. /\ IsSeq(s) /\ m \in 1 .. Len(s) /\ Len(s) \in Nat
      /\ error = NoError /\ error' = NoError /\ TextLines' = X /\ doc' = doc
  BY LenProperties, SameText DEF Stack, StackOK, IsSeq, Onward
<1>2. /\ Formed(s, Len(a), X) /\ Grounded(s) /\ Covered(s, a, dropped, X)
      /\ CoveredBelow(s, a, dropped, X) /\ (~reread => Once(s, a, X)) /\ Plain(s, a)
  BY <1>1 DEF Ledger, Onward
<1>3. MachineIn(f, X) /\ Keeps(s[m], f)
  BY <1>2, AlikeIn DEF Formed
<1>4. /\ SameDebts(s, t, m, X) /\ Due(t, m, X) = Y /\ Len(t) = m + 1
      /\ Debt(t, m, "own", X) = P /\ Debt(t, m + 1, "own", X) = Q
      /\ Debt(t, m + 1, "later", X) = R
  BY <1>1, <1>3, StartDebts
<1>5. IsSeq(t) /\ t[m] = f /\ t[m + 1] = g /\ \A i \in 1 .. m - 1 : t[i] = s[i]
  BY <1>1, StartSeq
<1>6. /\ TopIn(g, Len(b), X)
      /\ Accounted(m, Y, {})
      /\ ~reread' => NewOnce(m, Y) /\ Split3(Due(s, m, X), P, Q, R)
      /\ dropped \subseteq e /\ (reread => reread')
      /\ MachineIn(g, X) /\ WaitIn(f, g, X) /\ g.node \in Nat /\ f.node <= g.node
  BY DEF Onward
<1>7. KeptBelow(m) /\ Top = Last(s) /\ s # <<>>
  BY DEF Top, Onward
<1>8. /\ \A k \in 2 .. m : s[k].then.k = "replace" =>
             HeldTo(a, s[k].then.node) \cap X \subseteq HeldTo(b, s[k].then.node) \cup e
      /\ \A x \in X :
            \/ x \in Held(a) \/ x \in dropped \/ x \in Due(s, m, X)
            \/ x \in Quoted(Last(s), Len(a), X)
            => x \in Held(b) \/ x \in e \/ x \in Y \/ x \in Lower(s, m, X)
      /\ \A k \in 2 .. m : s[k].then.k \in {"replace", "substitution"} =>
             b[s[k].then.node].of = a[s[k].then.node].of
      /\ g.then.k \in {"replace", "substitution"} => b[g.then.node].of = {}
  BY <1>6, <1>7 DEF KeptBelow, Accounted
<1>9. ~reread' => /\ Y \subseteq Due(s, m, X) /\ Apart(b, X)
                  /\ Used(b, X) \subseteq Used(a, X) \cup (Due(s, m, X) \ Y)
                  /\ P \cap Q = {} /\ P \cap R = {} /\ Q \cap R = {}
  BY <1>6 DEF NewOnce, Split3
<1> DEFINE next == memo'.level
<1>10. /\ next # 0 <=> Sectioned(s, m) \/ IsSection(g)
       /\ IsSection(g) => (g.then.level # 0 <=> Sectioned(s, m))
  OBVIOUS
<1>11. g.then.k = "replace" =>
          /\ m = Len(s) /\ Held(a) \subseteq HeldTo(b, g.then.node)
          /\ Due(s, m, X) \cup Quoted(Last(s), Len(a), X) \subseteq P \cup g.then.of
  BY <1>7
<1>12. \A i \in 1 .. Len(s) : s[i].node \in Nat
  <2>1. Len(tree) \in Nat
    BY TreeLength DEF Onward, Stack
  <2>2. \A i \in 1 .. Len(frames) : frames[i].node \in 0 .. Len(tree)
    BY Zenon DEF Onward, Stack, StackOK, FrameOK
  <2> QED
    BY <2>1, <2>2
<1> HIDE DEF X, s, a, b, e, t, next, Y
<1>13. Formed(t, Len(b), X)
  BY <1>1, <1>2, <1>3, <1>6, <1>12, FormedStart DEF t
<1>14. \A k \in 1 .. m : t[k].then = s[k].then
  <2> TAKE k \in 1 .. m
  <2>1. k = m \/ k \in 1 .. m - 1
    BY <1>1
  <2> QED
    BY <1>3, <1>5, <2>1 DEF Keeps
<1>15. Grounded(t) /\ (Sectioned(t, Len(t)) <=> Sectioned(s, m) \/ IsSection(g))
  <2>1. m \in Nat /\ m <= Len(s) /\ m + 1 \in Nat
    BY <1>1
  <2>2. m + 1 = m + 1 /\ IsSection(t[m + 1]) => (t[m + 1].then.level # 0 <=> Sectioned(s, m))
    BY <1>5, <1>10
  <2>3. Grounded(s) /\ Len(t) = m + 1 /\ m + 1 \in {m, m + 1} /\ t[m + 1] = g /\ Len(s) \in Nat
    BY <1>1, <1>2, <1>4, <1>5
  <2> QED
    BY ONLY <1>14, <2>1, <2>2, <2>3, GroundedPut
<1>16. Covered(t, b, e, X)
  <2>1. \A x \in X :
            \/ x \in Held(a) \/ x \in dropped \/ x \in Due(s, m, X)
            \/ s # <<>> /\ x \in Quoted(Last(s), Len(a), X)
            => \/ x \in Held(b) \/ x \in e \/ x \in Due(t, m, X) \/ x \in Lower(s, m, X)
               \/ t # <<>> /\ x \in Quoted(Last(t), Len(b), X)
    BY <1>4, <1>8
  <2> QED
    BY <1>2, <1>4, <2>1, CoveredStep
<1>17. CoveredBelow(t, b, e, X)
  <2>1. \A k \in 2 .. m : k \in 1 .. m
    BY <1>1
  <2>2. \A k \in 2 .. Len(t) : k > m => k = m + 1
    BY <1>1, <1>4
  <2>3. ASSUME g.then.k = "replace", NEW x \in X
        PROVE  \/ x \in HeldTo(b, g.then.node) \/ x \in e \/ x \in g.then.of
               \/ \E i \in 1 .. m, w \in Whens : x \in Debt(t, i, w, X)
    <3>1. x \in P => \E i \in 1 .. m, w \in Whens : x \in Debt(t, i, w, X)
      BY <1>1, <1>4 DEF Whens
    <3>2. x \in Held(a) => x \in HeldTo(b, g.then.node)
      BY <1>11, <2>3
    <3>3. x \in Quoted(Last(s), Len(a), X) => x \in P \/ x \in g.then.of
      BY <1>11, <2>3
    <3>4. ASSUME NEW i \in 1 .. Len(s), NEW w \in Whens, x \in Debt(s, i, w, X)
          PROVE  x \in g.then.of \/ \E j \in 1 .. m, v \in Whens : x \in Debt(t, j, v, X)
      <4>1. CASE Above(m, i, w)
        <5>1. x \in Due(s, m, X)
          BY <3>4, <4>1 DEF Due
        <5> QED
          BY <1>11, <2>3, <3>1, <5>1
      <4>2. CASE ~Above(m, i, w)
        <5>1. i \in 1 .. m
          BY <1>1, <4>2 DEF Above
        <5> QED
          BY <1>4, <3>4, <4>2, <5>1 DEF SameDebts
      <4> QED
        BY <4>1, <4>2
    <3>5. x \in dropped => x \in e
      BY <1>6
    <3>6. \/ x \in Held(a) \/ x \in dropped \/ x \in Quoted(Last(s), Len(a), X)
          \/ \E i \in 1 .. Len(s), w \in Whens : x \in Debt(s, i, w, X)
      BY <1>2, <2>3, Zenon DEF Covered
    <3>7. CASE \E i \in 1 .. Len(s), w \in Whens : x \in Debt(s, i, w, X)
      <4>1. PICK i \in 1 .. Len(s), w \in Whens : x \in Debt(s, i, w, X)
        BY <3>7
      <4> QED
        BY <3>4, <4>1
    <3>8. CASE x \in Quoted(Last(s), Len(a), X)
      BY <3>1, <3>3, <3>8
    <3> QED
      BY <3>2, <3>5, <3>6, <3>7, <3>8
  <2>4. ASSUME NEW k \in 2 .. Len(t), k > m, t[k].then.k = "replace", NEW x \in X
        PROVE  \/ x \in HeldTo(b, t[k].then.node) \/ x \in e \/ x \in t[k].then.of
               \/ \E i \in 1 .. k - 1, w \in Whens : x \in Debt(t, i, w, X)
    <3>1. k = m + 1 /\ t[k] = g /\ k - 1 = m
      BY <1>1, <1>5, <2>2, <2>4
    <3> QED
      BY <2>3, <2>4, <3>1
  <2>5. dropped \subseteq e
    BY <1>6
  <2>6. \A k \in 2 .. m : t[k].then = s[k].then
    BY <1>14, <2>1
  <2> QED
    BY <1>2, <1>4, <1>8, <2>4, <2>5, <2>6, CoveredBelowStep
<1>18. ASSUME ~reread' PROVE Once(t, b, X)
  <2>1. ~reread
    BY <1>6, <1>18
  <2>2. \A i \in 1 .. Len(t), w \in Whens :
           Above(m, i, w) => \/ i = m /\ w = "own"
                             \/ i = m + 1 /\ w = "own"
                             \/ i = m + 1 /\ w = "later"
    BY <1>1, <1>4 DEF Above, Whens
  <2>3. ASSUME NEW i \in 1 .. Len(t), NEW j \in 1 .. Len(t), NEW w \in Whens, NEW v \in Whens,
               Above(m, i, w), Above(m, j, v), i # j \/ w # v
        PROVE  Debt(t, i, w, X) \cap Debt(t, j, v, X) = {}
    <3>1. /\ (i = m /\ w = "own") \/ (i = m + 1 /\ w = "own") \/ (i = m + 1 /\ w = "later")
          /\ (j = m /\ v = "own") \/ (j = m + 1 /\ v = "own") \/ (j = m + 1 /\ v = "later")
      BY <2>2, <2>3
    <3>2. P \cap Q = {} /\ P \cap R = {} /\ Q \cap R = {}
      BY <1>9, <1>18
    <3> QED
      BY <1>4, <2>3, <3>1, <3>2
  <2>4. Y \subseteq Due(s, m, X) /\ Apart(b, X)
        /\ Used(b, X) \subseteq Used(a, X) \cup (Due(s, m, X) \ Y)
    BY <1>9, <1>18
  <2> QED
    BY <1>2, <1>4, <2>1, <2>3, <2>4, OnceStep
<1>20. Plain(t, b)
  <2> SUFFICES ASSUME NEW k \in 2 .. Len(t), t[k].then.k \in {"replace", "substitution"}
               PROVE  b[t[k].then.node].of = {}
    BY DEF Plain
  <2>1. CASE k = m + 1
    BY <1>5, <1>8, <2>1
  <2>2. CASE k # m + 1
    <3>1. k \in 2 .. m /\ k \in 2 .. Len(s) /\ k \in 1 .. m
      BY <1>1, <1>4, <2>2
    <3>2. t[k].then = s[k].then
      BY <1>14, <3>1
    <3> QED
      BY <1>2, <1>8, <3>1, <3>2 DEF Plain
  <2> QED
    BY <2>1, <2>2
<1>19. Ledger' <=> /\ Formed(t, Len(b), X) /\ Grounded(t)
                   /\ t # <<>> \/ doc' = <<>> => (next # 0 <=> Sectioned(t, Len(t)))
                   /\ error' = NoError => Covered(t, b, e, X)
                   /\ CoveredBelow(t, b, e, X) /\ Plain(t, b)
                   /\ ~reread' => Once(t, b, X)
  BY <1>1 DEF Ledger, t, s, b, e, next
<1> QED
  BY <1>10, <1>13, <1>15, <1>16, <1>17, <1>18, <1>19, <1>20

-----------------------------------------------------------------------------
(* What the innermost machine has read, and what it holds. *)

\* What nodes and more nodes hold.
LEMMA HeldBoth ==
    ASSUME NEW a, IsSeq(a), NEW b, IsSeq(b)
    PROVE  Held(a \o b) = Held(a) \cup Held(b)
<1> DEFINE c == a \o b
<1>1. /\ IsSeq(c) /\ Len(c) = Len(a) + Len(b)
      /\ \A i \in 1 .. Len(a) + Len(b) : c[i] = IF i <= Len(a) THEN a[i] ELSE b[i - Len(a)]
  BY JoinSeq
<1>2. Len(a) \in Nat /\ Len(b) \in Nat
  BY LenProperties DEF IsSeq
<1> HIDE DEF c
<1>3. ASSUME NEW k \in 1 .. Len(b)
      PROVE  k + Len(a) \in 1 .. Len(c) /\ c[k + Len(a)] = b[k]
  <2>1. /\ k + Len(a) \in 1 .. Len(a) + Len(b) /\ ~(k + Len(a) <= Len(a))
        /\ (k + Len(a)) - Len(a) = k
    BY <1>2, <1>3
  <2> QED
    BY <1>1, <2>1
<1>4. \A k \in 1 .. Len(a) : k \in 1 .. Len(c) /\ c[k] = a[k]
  BY <1>1, <1>2
<1>5. \A k \in 1 .. Len(c) : \/ k \in 1 .. Len(a) /\ c[k] = a[k]
                             \/ k - Len(a) \in 1 .. Len(b) /\ c[k] = b[k - Len(a)]
  BY <1>1, <1>2
<1>6. ASSUME NEW x \in Held(c) PROVE x \in Held(a) \cup Held(b)
  <2>1. PICK k \in 1 .. Len(c) : x \in c[k].of
    BY <1>6 DEF Held
  <2> QED
    BY <1>5, <2>1 DEF Held
<1>7. Held(a) \subseteq Held(c) /\ Held(b) \subseteq Held(c)
  BY <1>3, <1>4 DEF Held
<1> QED
  BY <1>6, <1>7 DEF c

\* The tree with new nodes.
LEMMA NodesAdded ==
    ASSUME Onward, NEW nodes, tree' = tree \o nodes, NEW H, NEW U, Tells(nodes, H, U, TextLines)
    PROVE  /\ Held(tree') = Held(tree) \cup H
           /\ ~reread /\ U \cap Used(tree, TextLines) = {} =>
                 /\ Apart(tree', TextLines)
                 /\ Used(tree', TextLines) = Used(tree, TextLines) \cup U
           /\ \A m : m \in 1 .. Len(frames) => KeptBelow(m)
           /\ Len(tree) \in Nat /\ Len(nodes) \in Nat /\ Len(tree') = Len(tree) + Len(nodes)
<1>1. IsSeq(tree) /\ IsSeq(nodes) /\ Len(tree) \in Nat /\ Len(nodes) \in Nat
  BY TreeLength, LenProperties DEF Onward, Stack, TreeOK, NodesOK, Tells, IsSeq
<1> DEFINE a == tree
           b == tree'
           X == TextLines
<1>2. Held(b) = Held(a) \cup H
  BY <1>1, HeldBoth DEF Tells
<1>3. ASSUME ~reread, U \cap Used(a, X) = {}
      PROVE  Apart(b, X) /\ Used(b, X) = Used(a, X) \cup U
  <2>1. Tells(a, Held(a), Used(a, X), X)
    BY <1>1, <1>3 DEF Tells, Ledger, Once, Onward
  <2> HIDE DEF a, X
  <2>2. Tells(a \o nodes, Held(a) \cup H, Used(a, X) \cup U, X)
    BY <1>3, <2>1, TellsBoth DEF X
  <2> QED
    BY <2>2 DEF Tells, a
<1>4. ASSUME NEW m \in 1 .. Len(frames) PROVE KeptBelow(m)
  <2>0. ASSUME NEW k \in 2 .. m
        PROVE  /\ HeldTo(b, frames[k].then.node) = HeldTo(a, frames[k].then.node)
               /\ frames[k].then.k \in {"replace", "substitution"} =>
                      b[frames[k].then.node] = a[frames[k].then.node]
    <3>1. k \in 1 .. Len(frames) /\ k - 1 \in 1 .. Len(frames) /\ k \in 2 .. Len(frames)
      BY LenProperties DEF Onward, Stack, StackOK, IsSeq
    <3>2. frames[k].then.node \in 0 .. Len(tree) /\ frames[k - 1].node \in 0 .. Len(tree)
      BY <3>1, Zenon DEF Onward, Stack, StackOK, FrameOK, ThenOK
    <3>7. Len(tree) \in Nat
      BY <1>1
    <3>3. frames[k].then.k \in {"replace", "substitution"} => frames[k - 1].node < frames[k].then.node
      BY <3>1, Zenon DEF Onward, Stack, StackOK, LinkOK
    <3>4. ASSUME NEW i \in 1 .. Len(tree) PROVE b[i] = a[i]
      BY <1>1, <3>4, JoinSeq
    <3>5. frames[k - 1].node < frames[k].then.node => frames[k].then.node \in 1 .. Len(tree)
      BY ONLY <3>2, <3>7
    <3> HIDE DEF a, b
    <3>6. HeldTo(tree \o nodes, frames[k].then.node) = HeldTo(tree, frames[k].then.node)
      BY <1>1, <3>2, HeldFirst
    <3> QED
      BY <3>3, <3>4, <3>5, <3>6 DEF a, b
  <2> QED
    BY <2>0 DEF KeptBelow
<1>5. Len(b) = Len(a) + Len(nodes)
  BY <1>1, JoinSeq
<1> QED
  BY <1>1, <1>2, <1>3, <1>4, <1>5

\* What there was to read is still there, or held, or dropped, and is held once.
Spends(Y, rest, H, U) ==
    /\ Y \subseteq rest \cup H \cup dropped'
    /\ ~reread' => rest \subseteq Y /\ U \subseteq Y \ rest

\* What the innermost machine has to read is in no node.
LEMMA TopOwes ==
    ASSUME Onward
    PROVE  /\ Len(frames) \in 1 .. Len(frames) /\ Len(frames) \in Nat /\ IsSeq(frames)
           /\ Top = frames[Len(frames)] /\ FrameOK(Top, Len(tree), DOMAIN doc)
           /\ Due(frames, Len(frames), TextLines) = Owed(Top, TextLines)
           /\ MachineIn(Top, TextLines) /\ TopIn(Top, Len(tree), TextLines)
           /\ memo.level # 0 <=> Sectioned(frames, Len(frames))
           /\ ~reread => Owed(Top, TextLines) \cap Used(tree, TextLines) = {}
<1>1. /\ Len(frames) \in 1 .. Len(frames) /\ Len(frames) \in Nat /\ IsSeq(frames)
      /\ Top = frames[Len(frames)] /\ FrameOK(Top, Len(tree), DOMAIN doc)
  BY Tops DEF Onward, Stack, StackOK
<1>2. Due(frames, Len(frames), TextLines) = Owed(Top, TextLines)
  BY <1>1, TopDue DEF Onward, Top
<1>3. MachineIn(Top, TextLines) /\ TopIn(Top, Len(tree), TextLines)
  BY <1>1, Zenon DEF Onward, Ledger, Formed, Top
<1>4. memo.level # 0 <=> Sectioned(frames, Len(frames))
  BY DEF Onward, Ledger
<1>5. ASSUME ~reread PROVE Owed(Top, TextLines) \cap Used(tree, TextLines) = {}
  <2>1. Debt(frames, Len(frames), "own", TextLines) = Owed(Top, TextLines) /\ "own" \in Whens
    BY <1>1 DEF Debt, Own, Whens
  <2>2. Used(tree, TextLines) \cap Debt(frames, Len(frames), "own", TextLines) = {}
    BY <1>1, <1>5, <2>1 DEF Onward, Ledger, Once
  <2> QED
    BY <2>1, <2>2
<1> QED
  BY <1>1, <1>2, <1>3, <1>4, <1>5

\* It goes on, or ends.
LEMMA LedgerGo ==
    ASSUME Onward, Top.phase # "over", NEW f, frames' = Append(Below, f),
           Alike(Top, f, TextLines), TopIn(f, Len(tree'), TextLines),
           memo'.level # 0 <=> memo.level # 0,
           NEW nodes, tree' = tree \o nodes, NEW H, NEW U, Tells(nodes, H, U, TextLines),
           Spends(Owed(Top, TextLines), Owed(f, TextLines),
                  H \cup Quoted(f, Len(tree'), TextLines), U)
    PROVE  Ledger'
<1> DEFINE Y == Owed(Top, TextLines)
           rest == Owed(f, TextLines)
           m == Len(frames)
           quoted == Quoted(f, Len(tree'), TextLines)
<1>1. /\ m \in 1 .. Len(frames) /\ Top = frames[m] /\ Due(frames, m, TextLines) = Y
      /\ memo.level # 0 <=> Sectioned(frames, m)
      /\ ~reread => Y \cap Used(tree, TextLines) = {}
  BY TopOwes
<1>2. Below = SubSeq(frames, 1, m - 1) /\ IsSeq(Below)
  BY Tops DEF Onward
<1>3. frames' = Put(frames, m, f)
  BY <1>2, AppendIsPut DEF Put
<1>4. /\ Held(tree') = Held(tree) \cup H /\ KeptBelow(m)
      /\ ~reread /\ U \cap Used(tree, TextLines) = {} =>
            Apart(tree', TextLines) /\ Used(tree', TextLines) = Used(tree, TextLines) \cup U
  BY <1>1, NodesAdded
<1>5. Quoted(Top, Len(tree), TextLines) = {}
  BY DEF Quoted
<1>6. /\ Y \subseteq rest \cup (H \cup quoted) \cup dropped'
      /\ ~reread' => rest \subseteq Y /\ U \subseteq Y \ rest
      /\ dropped \subseteq dropped' /\ (reread => reread')
  BY DEF Spends, Onward
<1>7. Accounted(m, rest, quoted)
  BY <1>1, <1>4, <1>5, <1>6 DEF Accounted
<1>8. ~reread' => NewOnce(m, rest)
  BY <1>1, <1>4, <1>6 DEF NewOnce
<1> HIDE DEF m
<1>9. (memo'.level # 0) <=> Sectioned(frames, m)
  BY <1>1
<1> QED
  BY <1>1, <1>3, <1>4, <1>7, <1>8, <1>9, LedgerPut

\* It starts another one.
LEMMA LedgerNest ==
    ASSUME Onward, Top.phase # "over", NEW f, NEW g, frames' = Below \o <<f, g>>,
           Alike(Top, f, TextLines), MachineIn(g, TextLines), WaitIn(f, g, TextLines),
           TopIn(g, Len(tree'), TextLines), g.node \in Nat, f.node <= g.node,
           memo'.level # 0 <=> memo.level # 0 \/ IsSection(g),
           IsSection(g) => (g.then.level # 0 <=> memo.level # 0),
           NEW nodes, tree' = tree \o nodes, NEW H, NEW U, Tells(nodes, H, U, TextLines),
           NEW P, P = Waits(f, g, TextLines), NEW Q, Q = Owed(g, TextLines),
           NEW R, R = Later(g, TextLines),
           Spends(Owed(Top, TextLines), P \cup Q \cup R, H, U),
           ~reread' => Split3(Owed(Top, TextLines), P, Q, R),
           g.then.k = "replace" =>
               /\ g.then.node \in 1 .. Len(tree') /\ g.then.node > Len(tree)
               /\ Owed(Top, TextLines) \subseteq P \cup g.then.of,
           g.then.k \in {"replace", "substitution"} => tree'[g.then.node].of = {}
    PROVE  Ledger'
<1> DEFINE Y == Owed(Top, TextLines)
           rest == P \cup Q \cup R
           m == Len(frames)
<1>1. /\ m \in 1 .. Len(frames) /\ Top = frames[m] /\ Due(frames, m, TextLines) = Y
      /\ memo.level # 0 <=> Sectioned(frames, m)
      /\ ~reread => Y \cap Used(tree, TextLines) = {}
  BY TopOwes
<1>2. Below = SubSeq(frames, 1, m - 1)
  BY Tops DEF Onward
<1>3. frames' = Start(frames, m, f, g)
  BY <1>2 DEF Start
<1>4. /\ Held(tree') = Held(tree) \cup H /\ KeptBelow(m)
      /\ ~reread /\ U \cap Used(tree, TextLines) = {} =>
            Apart(tree', TextLines) /\ Used(tree', TextLines) = Used(tree, TextLines) \cup U
      /\ Len(tree) \in Nat /\ Len(nodes) \in Nat /\ Len(tree') = Len(tree) + Len(nodes)
  BY <1>1, NodesAdded
<1>5. Quoted(Top, Len(tree), TextLines) = {}
  BY DEF Quoted
<1>6. /\ Y \subseteq rest \cup H \cup dropped'
      /\ ~reread' => rest \subseteq Y /\ U \subseteq Y \ rest
      /\ dropped \subseteq dropped' /\ (reread => reread')
  BY DEF Spends, Onward
<1>7. Accounted(m, rest, {})
  BY <1>1, <1>4, <1>5, <1>6 DEF Accounted
<1>8. ~reread' => NewOnce(m, rest)
  BY <1>1, <1>4, <1>6 DEF NewOnce
<1>9. ASSUME g.then.k = "replace"
      PROVE  /\ m = Len(frames) /\ Held(tree) \subseteq HeldTo(tree', g.then.node)
             /\ Due(frames, m, TextLines) \cup Quoted(Top, Len(tree), TextLines)
                \subseteq P \cup g.then.of
  <2>1. IsSeq(tree) /\ IsSeq(nodes)
    BY DEF Onward, Stack, TreeOK, NodesOK, Tells
  <2> DEFINE b == tree \o nodes
  <2>2. \A i \in 1 .. Len(tree) : b[i] = tree[i] /\ i \in 1 .. g.then.node
    <3>1. \A i \in 1 .. Len(tree) + Len(nodes) : b[i] = IF i <= Len(tree) THEN tree[i] ELSE nodes[i - Len(tree)]
      BY <2>1, JoinSeq
    <3>2. g.then.node \in Int /\ g.then.node > Len(tree)
      BY <1>4, <1>9
    <3> HIDE DEF b
    <3> QED
      BY <1>4, <3>1, <3>2
  <2>3. b = tree'
    OBVIOUS
  <2> HIDE DEF b
  <2>4. Held(tree) \subseteq HeldTo(b, g.then.node)
    BY <2>2 DEF Held, HeldTo
  <2> QED
    BY <1>1, <1>5, <1>9, <2>3, <2>4
<1>10. ~reread' => Split3(Due(frames, m, TextLines), P, Q, R)
  BY <1>1
<1> HIDE DEF m
<1>11. /\ (memo'.level # 0) <=> (Sectioned(frames, m) \/ IsSection(g))
       /\ IsSection(g) => (g.then.level # 0 <=> Sectioned(frames, m))
  BY <1>1
<1> QED
  BY <1>1, <1>3, <1>4, <1>7, <1>8, <1>9, <1>10, <1>11, LedgerStart

\* The tree has new nodes, which hold H, and U as content.
Grown(H, U) == \E nodes : tree' = tree \o nodes /\ Tells(nodes, H, U, TextLines)

\* Three sequences in a row.
LEMMA JoinThree ==
    ASSUME NEW a, NEW b, NEW c, IsSeq(a), IsSeq(b), IsSeq(c)
    PROVE  a \o b \o c = a \o (b \o c)
<1> DEFINE S == Range(a) \cup Range(b) \cup Range(c)
<1>1. a \in Seq(S) /\ b \in Seq(S) /\ c \in Seq(S)
  BY SeqMonotonic DEF IsSeq
<1> HIDE DEF S
<1> QED
  BY <1>1, ConcatAssociative

\* Nodes added at once, in two parts, or in three.
LEMMA GrownBy ==
    ASSUME Stack, NEW a, NEW H, NEW U, Tells(a, H, U, TextLines)
    PROVE  /\ tree' = tree => Grown({}, {})
           /\ tree' = tree \o a => Grown(H, U)
           /\ tree' = Append(tree, a[1]) /\ Len(a) = 1 => Grown(H, U)
<1>1. IsSeq(tree) /\ IsSeq(a)
  BY DEF Stack, TreeOK, NodesOK, Tells
<1>2. ASSUME tree' = tree PROVE Grown({}, {})
  <2> DEFINE none == <<>>
  <2>1. tree = tree \o none
    BY <1>1, ConcatEmptySeq DEF IsSeq
  <2>2. Tells(none, {}, {}, TextLines)
    BY TellsNothing
  <2> HIDE DEF none
  <2> QED
    BY <1>2, <2>1, <2>2 DEF Grown
<1>3. ASSUME tree' = tree \o a PROVE Grown(H, U)
  BY <1>3 DEF Grown
<1>4. ASSUME tree' = Append(tree, a[1]), Len(a) = 1 PROVE Grown(H, U)
  <2>1. a = <<a[1]>>
    BY <1>1, <1>4 DEF IsSeq
  <2>2. Append(tree, a[1]) = tree \o <<a[1]>>
    BY <1>1, AppendIsPut
  <2> QED
    BY <1>3, <1>4, <2>1, <2>2, Zenon
<1> QED
  BY <1>2, <1>3, <1>4

\* Nodes added in two parts.
LEMMA GrownTwice ==
    ASSUME Stack, NEW a, NEW H, NEW U, Tells(a, H, U, TextLines),
           NEW b, NEW G, NEW V, Tells(b, G, V, TextLines), U \cap V = {},
           tree' = tree \o a \o b
    PROVE  Grown(H \cup G, U \cup V)
<1>1. IsSeq(tree) /\ IsSeq(a) /\ IsSeq(b)
  BY DEF Stack, TreeOK, NodesOK, Tells
<1>2. tree' = tree \o (a \o b)
  BY <1>1, JoinThree
<1>3. Tells(a \o b, H \cup G, U \cup V, TextLines)
  BY TellsBoth
<1> QED
  BY <1>2, <1>3, Zenon DEF Grown

\* Nodes added in three parts.
LEMMA GrownThrice ==
    ASSUME Stack, NEW a, NEW H, NEW U, Tells(a, H, U, TextLines),
           NEW b, NEW G, NEW V, Tells(b, G, V, TextLines),
           NEW c, NEW K, NEW W, Tells(c, K, W, TextLines),
           U \cap V = {}, U \cap W = {}, V \cap W = {},
           tree' = tree \o a \o b \o c
    PROVE  Grown(H \cup G \cup K, U \cup V \cup W)
<1>1. IsSeq(tree) /\ IsSeq(a) /\ IsSeq(b)
  BY DEF Stack, TreeOK, NodesOK, Tells
<1>2. tree' = tree \o (a \o b) \o c
  BY <1>1, JoinThree
<1>3. Tells(a \o b, H \cup G, U \cup V, TextLines)
  BY TellsBoth
<1>4. (U \cup V) \cap W = {}
  OBVIOUS
<1> QED
  BY <1>2, <1>3, <1>4, GrownTwice

\* Nodes that hold nothing.
Silent(nodes) == Tells(nodes, {}, {}, TextLines)

\* Nodes that hold nothing, made or not made.
LEMMA SilentNodes ==
    ASSUME NEW kind, NEW up, NEW b
    PROVE  /\ Silent(<<>>)
           /\ Silent(<<Node(kind, up, {})>>)
           /\ Silent(IF b THEN <<>> ELSE <<Node(kind, up, {})>>)
           /\ Silent(IF b THEN <<Node(kind, up, {})>> ELSE <<>>)
           /\ Silent(IF b THEN <<>> ELSE <<Message(kind, up, {})>>)
           /\ Silent(IF b THEN <<Message(kind, up, {})>> ELSE <<>>)
           /\ Silent(<<Message(kind, up, {})>>)
<1>1. Silent(<<>>)
  BY TellsNothing DEF Silent
<1>2. Silent(<<Node(kind, up, {})>>)
  <2> DEFINE one == <<Node(kind, up, {})>>
  <2>1. /\ kind \notin Levels => Tells(one, {}, {} \cap TextLines, TextLines)
        /\ kind \in Levels => Tells(one, {}, {}, TextLines)
    BY TellsNode, Zenon
  <2>2. {} \cap TextLines = {}
    OBVIOUS
  <2> HIDE DEF one
  <2> QED
    BY <2>1, <2>2 DEF Silent, one
<1>3. Message(kind, up, {}) = Node(kind, up, {})
  BY DEF Message
<1> QED
  BY <1>1, <1>2, <1>3, Zenon

\* Nodes that hold nothing, and more of them.
LEMMA SilentBoth ==
    ASSUME NEW a, NEW b, Silent(a), Silent(b)
    PROVE  Silent(a \o b)
<1>1. {} \cap {} = {} /\ {} \cup {} = {}
  OBVIOUS
<1>2. Tells(a \o b, {} \cup {}, {} \cup {}, TextLines)
  BY <1>1, TellsBoth DEF Silent
<1> QED
  BY <1>1, <1>2, Zenon DEF Silent

\* The innermost machine sees a line.
Begins(f) == IF f.state \in TextStates THEN f.off - 1 ELSE f.off

\* What is alike twice is alike.
LEMMA AlikeTwice ==
    ASSUME NEW X, NEW f, NEW g, NEW h, Alike(f, g, X), Alike(g, h, X)
    PROVE  Alike(f, h, X)
  BY LikeTwice, Zenon DEF Alike

\* What is known of the innermost machine that sees a line.
LEMMA SeenText ==
    ASSUME Onward, NEW S, NEW T, Sees(S, T)
    PROVE  /\ Top.phase = "run" /\ F.phase = "run" /\ AnyNext(F) /\ F.off = Top.off + 1
           /\ F.state \in S /\ F.state = Top.state /\ Transition \in T
           /\ DOMAIN F = MachineFields /\ Alike(Top, F, TextLines) /\ MachineIn(F, TextLines)
           /\ F.lines \in LinesOf(DOMAIN doc) /\ Sound(F.lines, TextLines)
           /\ F.off \in Nat /\ F.off < Len(F.lines) /\ Len(F.lines) \in Nat
           /\ Line = F.lines[F.off + 1] /\ Proper(Line, TextLines)
           /\ Begins(F) \in Nat /\ Owed(Top, TextLines) = Left(F.lines, Begins(F), TextLines)
           /\ F.state \in TextStates => F.off >= 1 /\ F.ctx = <<F.lines[F.off]>>
           /\ F.node \in 0 .. Len(tree) /\ Len(tree) \in Nat
<1> DEFINE X == TextLines
<1>1. /\ frames # <<>> /\ Top.phase = "run" /\ F.state \in S /\ Transition \in T
      /\ DOMAIN F = MachineFields /\ Like(Top, F) /\ F.state = Top.state
  BY SeenLevel DEF Onward
<1>2. /\ MachineIn(Top, X) /\ TopIn(Top, Len(tree), X) /\ FrameOK(Top, Len(tree), DOMAIN doc)
      /\ DOMAIN Top = MachineFields /\ Top.off \in Int
  BY TopOwes, Zenon DEF FrameOK
<1>3. AnyNext(F) /\ F.off = Top.off + 1 /\ F.ctx = Top.ctx /\ F.phase = Top.phase
      /\ F.lines = Top.lines
  <2>1. AnyNext(F)
    BY <1>2, Zenon DEF F, Moved, MachineFields, AnyNext
  <2>2. F.off = Top.off + 1 /\ F.ctx = Top.ctx /\ F.phase = Top.phase /\ F.lines = Top.lines
    BY <1>2, Zenon DEF F, Moved, MachineFields
  <2> QED
    BY <2>1, <2>2
<1>4. Alike(Top, F, X)
  BY <1>1, <1>2, <1>3, Zenon DEF Alike, MachineIn
<1>5. MachineIn(F, X)
  BY <1>2, <1>4, AlikeIn
<1>6. F.lines \in LinesOf(DOMAIN doc) /\ F.off \in Nat /\ F.off < Len(F.lines)
  BY SeenLines DEF Onward
<1>7. Len(F.lines) \in Nat /\ F.off + 1 \in 1 .. Len(F.lines) /\ Line = F.lines[F.off + 1]
  BY <1>6, LenProperties DEF LinesOf, Line, At
<1>8. Sound(F.lines, X) /\ Proper(Line, X)
  <2>1. Sound(F.lines, X)
    BY <1>5, Zenon DEF MachineIn
  <2> QED
    BY <1>7, <2>1, Zenon DEF Sound
<1>9. F.state \in TextStates => F.off >= 1 /\ F.ctx = <<F.lines[F.off]>>
  <2>1. F.state \in TextStates => F.off >= 1
    BY SeenAt DEF Onward
  <2>2. Top.state \in TextStates => Top.ctx = <<Top.lines[Top.off + 1]>>
    BY <1>1, <1>2, Zenon DEF TopIn
  <2>3. F.state \in TextStates => F.ctx = <<F.lines[F.off]>>
    BY <1>1, <1>3, <2>2, Zenon
  <2> QED
    BY <2>1, <2>3
<1>10. Begins(F) \in Nat
  BY <1>6, <1>9 DEF Begins
<1>11. Begins(F) = Resume(Top)
  <2>4. \A i, j : i \in Int /\ j = i + 1 => i = j - 1
    OBVIOUS
  <2>1. Top.off = F.off - 1
    BY <1>2, <1>3, <2>4, Zenon
  <2>2. CASE F.state \in TextStates
    <3>1. Begins(F) = F.off - 1 /\ Resume(Top) = Top.off
      BY <1>1, <2>2, Zenon DEF Begins, Resume
    <3> QED
      BY <2>1, <3>1
  <2>3. CASE F.state \notin TextStates
    <3>1. "run" # "eof" /\ Top.phase # "eof"
      BY <1>1
    <3>2. Begins(F) = F.off /\ Resume(Top) = Top.off + 1
      BY <1>1, <2>3, <3>1, Zenon DEF Begins, Resume
    <3> QED
      BY <1>3, <3>2, Zenon
  <2> QED
    BY <2>2, <2>3, Zenon
<1>13. Owed(Top, X) = Left(F.lines, Begins(F), X)
  BY <1>3, <1>11, Zenon DEF Owed
<1>12. F.node \in 0 .. Len(tree) /\ Len(tree) \in Nat
  BY SeenNode DEF Onward
<1> QED
  BY <1>1, <1>3, <1>4, <1>5, <1>6, <1>7, <1>8, <1>9, <1>10, <1>12, <1>13, Zenon

\* It goes on, or ends.
LEMMA SeenGo ==
    ASSUME Onward, NEW S, NEW T, Sees(S, T), NEW f, frames' = Append(Below, f),
           Alike(F, f, TextLines), TopIn(f, Len(tree'), TextLines),
           memo'.level # 0 <=> memo.level # 0, NEW H, NEW U, Grown(H, U),
           Spends(Left(F.lines, Begins(F), TextLines), Owed(f, TextLines), H, U)
    PROVE  Ledger'
<1>1. /\ Top.phase # "over" /\ Alike(Top, f, TextLines)
      /\ Owed(Top, TextLines) = Left(F.lines, Begins(F), TextLines)
  <2>1. /\ Top.phase = "run" /\ Alike(Top, F, TextLines)
        /\ Owed(Top, TextLines) = Left(F.lines, Begins(F), TextLines)
    BY SeenText, Zenon
  <2> QED
    BY <2>1, AlikeTwice
<1> DEFINE quoted == Quoted(f, Len(tree'), TextLines)
<1> HIDE DEF quoted
<1>2. Spends(Owed(Top, TextLines), Owed(f, TextLines), H \cup quoted, U)
  BY <1>1 DEF Spends
<1>3. PICK nodes : tree' = tree \o nodes /\ Tells(nodes, H, U, TextLines)
  BY Zenon DEF Grown
<1> QED
  BY <1>1, <1>2, <1>3, LedgerGo DEF quoted

\* It has read the lines up to its offset, and each is held once.
LEMMA SeenOn ==
    ASSUME Onward, NEW S, NEW T, Sees(S, T), NEW f, frames' = Append(Below, f),
           Alike(F, f, TextLines), f.phase = "run",
           f.state \notin TextStates \cup {"SubstitutionDef"},
           memo'.level # 0 <=> memo.level # 0, NEW H, NEW U, Grown(H, U),
           f.off \in Int, Begins(F) <= f.off + 1,
           NEW Y, Y = Span(F.lines, Begins(F), f.off + 1, TextLines),
           Y \subseteq H \cup dropped', ~reread' => U \subseteq Y
    PROVE  Ledger'
<1>1. /\ F.lines \in LinesOf(DOMAIN doc) /\ Sound(F.lines, TextLines) /\ Begins(F) \in Nat
      /\ MachineIn(F, TextLines)
  BY SeenText, Zenon
<1>2. f.lines = F.lines /\ MachineIn(f, TextLines)
  <2>1. MachineIn(f, TextLines) /\ Keeps(F, f)
    BY <1>1, AlikeIn, Zenon
  <2> QED
    BY <2>1 DEF Keeps
<1>3. Owed(f, TextLines) = Left(F.lines, f.off + 1, TextLines)
  BY <1>2 DEF Owed, Resume
<1>4. TopIn(f, Len(tree'), TextLines)
  <2>1. f.then.k # "substitution"
    BY <1>2, Zenon DEF MachineIn
  <2> HIDE DEF TextLines
  <2> QED
    BY <2>1 DEF TopIn
<1> DEFINE from == Begins(F)
           end == f.off + 1
<1>5. /\ Left(F.lines, from, TextLines) = Y \cup Left(F.lines, end, TextLines)
      /\ Y \cap Left(F.lines, end, TextLines) = {}
  <2>1. from \in Int /\ end \in Int /\ from <= end /\ Single(F.lines)
    BY <1>1 DEF Sound
  <2>2. Y = Span(F.lines, from, end, TextLines)
    OBVIOUS
  <2> HIDE DEF from, end
  <2> QED
    BY <1>1, <2>1, <2>2, SpanSplit
<1> HIDE DEF from, end
<1>6. Spends(Left(F.lines, from, TextLines), Left(F.lines, end, TextLines), H, U)
  BY <1>5 DEF Spends
<1> QED
  BY <1>3, <1>4, <1>6, SeenGo DEF from, end

\* The lines of text of a slice, as a node holds them.
LEMMA NumbersAreSpan ==
    ASSUME NEW D, NEW s \in LinesOf(D), NEW X, Sound(s, X), NEW i \in Nat, NEW j \in Int
    PROVE  NumbersOf(Slice(s, i, j)) \cap X = Span(s, i, j, X)
<1> DEFINE r == Slice(s, i, j)
<1>1. r \in LinesOf(D) /\ Sound(r, X) /\ Left(r, 0, X) = Span(s, i, j, X)
  BY SliceLeft
<1> HIDE DEF r
<1>2. NumbersOf(r) \cap X = Left(r, 0, X)
  BY <1>1, NumbersAreLeft
<1> QED
  BY <1>1, <1>2 DEF r

\* A machine that has read nothing yet.
Unstarted(g) == g.phase = "run" /\ g.off = -1 /\ AnyNext(g) /\ g.state \notin TextStates

\* A machine that has read nothing is well formed, and all its lines are left.
LEMMA FreshIn ==
    ASSUME NEW X, NEW g, NEW n, Unstarted(g), Sound(g.lines, X),
           g.then.k = "argument" => Sound(g.then.next[1], X),
           g.then.k \notin {"substitution", "root"}, g.state # "SubstitutionDef",
           g.then.k = "first" => g.then.state # "SubstitutionDef",
           g.then.k = "replace" => g.then.node = g.node
    PROVE  MachineIn(g, X) /\ TopIn(g, n, X) /\ Owed(g, X) = Left(g.lines, 0, X)
<1>1. /\ g.phase = "run" /\ g.off = -1 /\ AnyNext(g) /\ g.state \notin TextStates
      /\ g.state # "Line"
  BY Zenon DEF Unstarted, TextStates
<1>2. MachineIn(g, X)
  BY <1>1, Zenon DEF MachineIn
<1>3. TopIn(g, n, X)
  BY <1>1, Zenon DEF TopIn
<1>4. Owed(g, X) = Left(g.lines, 0, X)
  <2>1. Resume(g) = g.off + 1
    BY <1>1, Zenon DEF Resume
  <2>2. -1 + 1 = 0
    OBVIOUS
  <2>3. Resume(g) = 0
    BY <1>1, <2>1, <2>2, Zenon
  <2> QED
    BY <2>3, Zenon DEF Owed
<1> QED
  BY <1>2, <1>3, <1>4

\* It starts a machine over a block, which has all the lines that are not in a node.
Takes(Y, Q, R, H, U) ==
    /\ Y \subseteq Q \cup R \cup H \cup dropped'
    /\ ~reread' => /\ Q \cup R \cup U \subseteq Y
                   /\ Q \cap R = {} /\ U \cap Q = {} /\ U \cap R = {}

\* The invariant, when a machine is started over a block.
LEMMA SeenNested ==
    ASSUME Onward, NEW S, NEW T, Sees(S, T), NEW f, NEW g, frames' = Below \o <<f, g>>,
           Alike(F, f, TextLines), f.off \in Int, Begins(F) <= f.off + 1,
           F.state = "SubstitutionDef" => Left(F.lines, f.off + 1, TextLines) = {},
           MachineIn(g, TextLines), TopIn(g, Len(tree'), TextLines), g.node \in Nat, F.node <= g.node,
           g.then.k = "replace" => /\ F.state = "SubstitutionDef"
                                   /\ g.then.node \in 1 .. Len(tree') /\ g.then.node > Len(tree)
                                   /\ Left(F.lines, Begins(F), TextLines) \subseteq g.then.of,
           g.then.k \in {"replace", "substitution"} => tree'[g.then.node].of = {},
           g.then.k \in {"first", "argument"} => F.node <= g.then.node,
           g.then.k \notin {"section", "list"}, memo'.level = memo.level,
           NEW H, NEW U, Grown(H, U),
           NEW Q, Q = Owed(g, TextLines), NEW R, R = Later(g, TextLines),
           NEW Y, Y = Span(F.lines, Begins(F), f.off + 1, TextLines),
           Takes(Y, Q, R, H, U)
    PROVE  Ledger'
<1>1. /\ F.lines \in LinesOf(DOMAIN doc) /\ Sound(F.lines, TextLines) /\ Begins(F) \in Nat
      /\ MachineIn(F, TextLines) /\ Alike(Top, F, TextLines) /\ Top.phase = "run"
      /\ Owed(Top, TextLines) = Left(F.lines, Begins(F), TextLines)
  BY SeenText, Zenon
<1>2. MachineIn(f, TextLines) /\ Keeps(F, f) /\ Alike(Top, f, TextLines)
  BY <1>1, AlikeIn, AlikeTwice, Zenon
<1>3. f.lines = F.lines /\ f.then = F.then /\ f.node = F.node
  BY <1>2 DEF Keeps
<1> DEFINE from == Begins(F)
           end == f.off + 1
           P == Left(F.lines, end, TextLines)
<1>4. Left(F.lines, from, TextLines) = Y \cup P /\ Y \cap P = {}
  <2>1. from \in Int /\ end \in Int /\ from <= end /\ Single(F.lines)
    BY <1>1 DEF Sound
  <2>2. Y = Span(F.lines, from, end, TextLines)
    OBVIOUS
  <2> HIDE DEF from, end
  <2> QED
    BY <1>1, <2>1, <2>2, SpanSplit
<1>5. P = Waits(f, g, TextLines)
  BY <1>3, Zenon DEF Waits
<1>6. f.then.k = "substitution" => P = {}
  BY <1>1, <1>3, Zenon DEF MachineIn
<1>7. WaitIn(f, g, TextLines)
  <2>1. g.then.k = "replace" => f.then.k = "substitution"
    BY <1>1, <1>3, Zenon DEF MachineIn
  <2> QED
    BY <1>3, <1>6, <2>1 DEF WaitIn
<1> HIDE DEF P, from, end
<1>8. Spends(Owed(Top, TextLines), P \cup Q \cup R, H, U)
  BY <1>1, <1>4 DEF Spends, Takes, from
<1>9. ~reread' => Split3(Owed(Top, TextLines), P, Q, R)
  BY <1>1, <1>4 DEF Split3, Takes, from
<1>10. ~IsSection(g) /\ "run" # "over"
  BY DEF IsSection
<1>11. g.then.k = "replace" =>
          /\ g.then.node \in 1 .. Len(tree') /\ g.then.node > Len(tree)
          /\ Owed(Top, TextLines) \subseteq P \cup g.then.of
  BY <1>1
<1>12. f.node <= g.node
  BY <1>3
<1>13. PICK nodes : tree' = tree \o nodes /\ Tells(nodes, H, U, TextLines)
  BY Zenon DEF Grown
<1> QED
  BY <1>1, <1>2, <1>5, <1>7, <1>8, <1>9, <1>10, <1>11, <1>12, <1>13, LedgerNest

\* A node that is added, with what it holds.
LEMMA GrownNode ==
    ASSUME Stack, NEW kind, NEW up, NEW of
    PROVE  /\ tree' = Append(tree, Node(kind, up, of)) =>
                 /\ kind \notin Levels => Grown(of, of \cap TextLines)
                 /\ kind \in Levels => Grown(of, {})
           /\ tree' = tree \o <<Node(kind, up, of)>> =>
                 /\ kind \notin Levels => Grown(of, of \cap TextLines)
                 /\ kind \in Levels => Grown(of, {})
<1> DEFINE a == <<Node(kind, up, of)>>
<1>1. /\ kind \notin Levels => Tells(a, of, of \cap TextLines, TextLines)
      /\ kind \in Levels => Tells(a, of, {}, TextLines)
  BY TellsNode, Zenon
<1>2. Append(tree, Node(kind, up, of)) = tree \o a
  BY AppendIsPut DEF Stack, TreeOK, NodesOK
<1> HIDE DEF a
<1>3. ASSUME tree' = tree \o a
      PROVE  /\ kind \notin Levels => Grown(of, of \cap TextLines)
             /\ kind \in Levels => Grown(of, {})
  BY <1>1, <1>3, GrownBy, Zenon
<1> QED
  BY <1>2, <1>3 DEF a

\* What the transition says of the line.
LEMMA SeenAs ==
    ASSUME Onward, NEW S, NEW T, Sees(S, T)
    PROVE  /\ Transition = "blank" => Blank(Line)
           /\ Transition = "indent" => ~Blank(Line) /\ Line.ind > 0
           /\ Transition \notin {"blank", "indent", "text"} => ~Blank(Line)
           /\ F.state \notin TextStates \cup {"SubstitutionDef"}
              /\ Transition \notin {"blank", "indent", "text"}
              => Head(Line.m).t = Transition /\ (Line.n \in TextLines => Head(Line.m).t # "text")
<1>1. Line \in LineOf(DOMAIN doc) /\ F.state = Top.state /\ Top.only \in {"", "text"}
  <2>1. Line \in LineOf(DOMAIN doc)
    BY Seen, Zenon DEF Onward
  <2>2. Top.only \in {"", "text"}
    BY TopOwes, Zenon DEF FrameOK
  <2> QED
    BY <2>1, <2>2, SeenText, Zenon
<1>2. Line.m \in Seq(MarkType) /\ Line.ind \in Nat
  BY <1>1, LineFields, Zenon
<1>3. ~Blank(Line) => Head(Line.m).t \in Transitions
  <2>1. ASSUME ~Blank(Line) PROVE Head(Line.m) \in MarkType
    BY <1>2, <2>1, HeadTailProperties, Zenon DEF Blank
  <2>2. \A x : x \in MarkType => x.t \in Transitions
    BY DEF MarkType
  <2> QED
    BY <2>1, <2>2, Zenon
<1>4. "blank" \notin Transitions /\ "indent" \notin Transitions /\ "underline" \notin Transitions
      /\ "embedded_directive" \notin Transitions
  BY DEF Transitions
<1> DEFINE G == F
<1>e. F = G
  OBVIOUS
<1> HIDE DEF G
<1> DEFINE tr == Transition
           ln == Line
           tp == Top.only
           st == G.state
<1>5. tr = IF tp # "" THEN tp
           ELSE IF Blank(ln) THEN "blank"
           ELSE IF ln.ind > 0 THEN "indent"
           ELSE IF st \in TextStates THEN IF IsRule(ln) THEN "underline" ELSE "text"
           ELSE IF st = "SubstitutionDef"
                THEN IF Head(ln.m).c \in DOMAIN Directives \cup NoDirective THEN "embedded_directive"
                     ELSE "text"
           ELSE Head(ln.m).t
  BY ONLY <1>e, Zenon DEF Transition
<1>6. tp \in {"", "text"} /\ F.state = st
  BY ONLY <1>1, <1>e, Zenon
<1>x. /\ ~Blank(ln) => Head(ln.m).t \in Transitions
  BY ONLY <1>3, Zenon
<1>7. Line = ln /\ Top.only = tp /\ Transition = tr
  OBVIOUS
<1> HIDE DEF tr, ln, tp, st
<1>8. /\ tr = "blank" => Blank(ln)
      /\ tr = "indent" => ~Blank(ln) /\ ln.ind > 0 /\ tp = ""
      /\ tr \notin {"blank", "indent", "text"} => ~Blank(ln) /\ tp = ""
      /\ st \notin TextStates \cup {"SubstitutionDef"} /\ tr \notin {"blank", "indent", "text"}
         => Head(ln.m).t = tr /\ (ln.n \in TextLines => Head(ln.m).t # "text")
  <2>1. tr = "blank" => Blank(ln)
    BY ONLY <1>4, <1>5, <1>6, <1>x, Zenon
  <2>2. tr = "indent" => ~Blank(ln) /\ ln.ind > 0 /\ tp = ""
    BY ONLY <1>4, <1>5, <1>6, <1>x, Zenon
  <2>3. tr \notin {"blank", "indent", "text"} => ~Blank(ln) /\ tp = ""
    BY ONLY <1>5, <1>6, Zenon
  <2>4. st \notin TextStates \cup {"SubstitutionDef"} /\ tr \notin {"blank", "indent", "text"}
        => Head(ln.m).t = tr
    BY ONLY <1>5, <1>6, Zenon
  <2> QED
    BY ONLY <2>1, <2>2, <2>3, <2>4, Zenon
<1> QED
  BY ONLY <1>6, <1>7, <1>8, Zenon

\* What a step of the program leaves alone, and what it never takes back.
Ready == Stack /\ Ledger /\ (reread => reread')

\* A step that drops, takes back and fails nothing.
LEMMA SameOnward ==
    ASSUME Ready, doc' = doc, error' = error, dropped \subseteq dropped', frames # <<>>
    PROVE  Onward
  BY Zenon DEF Ready, Onward

\* So is one at a line that is seen.
LEMMA SeenOnward ==
    ASSUME Ready, NEW S, NEW T, Sees(S, T),
           doc' = doc, error' = error, dropped \subseteq dropped'
    PROVE  Onward
<1>1. frames # <<>>
  BY Zenon DEF Sees
<1> QED
  BY <1>1, SameOnward

\* The line that is seen is the first of those left.
LEMMA SeenLeft ==
    ASSUME Onward, NEW S, NEW T, Sees(S, T)
    PROVE  /\ Left(F.lines, F.off, TextLines)
              = ({Line.n} \cap TextLines) \cup Left(F.lines, F.off + 1, TextLines)
           /\ Span(F.lines, F.off, F.off + 1, TextLines) = {Line.n} \cap TextLines
           /\ {Line.n} \cap Left(F.lines, F.off + 1, TextLines) = {}
           /\ Blank(Line) => {Line.n} \cap TextLines = {}
<1> DEFINE s == F.lines
           i == F.off
           X == TextLines
           D == DOMAIN doc
<1>1. /\ s \in LinesOf(D) /\ i \in Nat /\ i < Len(s) /\ At(s, i) = Line /\ Single(s)
      /\ Proper(Line, X)
  BY SeenText, Zenon DEF Line, Sound
<1> HIDE DEF s, i, X, D
<1>2. /\ Left(s, i, X) = ({At(s, i).n} \cap X) \cup Left(s, i + 1, X)
      /\ Span(s, i, i + 1, X) = {At(s, i).n} \cap X
  BY <1>1, SpanOne
<1>3. Span(s, i, i + 1, X) \cap Left(s, i + 1, X) = {}
  <2>1. i \in Int /\ i + 1 \in Int /\ i <= i + 1
    BY <1>1
  <2> QED
    BY <1>1, <2>1, SpanSplit
<1>4. Left(s, i + 1, X) \subseteq X
  BY DEF Left
<1>5. Blank(Line) => {Line.n} \cap X = {}
  BY <1>1, BlankIsNoText
<1> QED
  BY <1>1, <1>2, <1>3, <1>4, <1>5 DEF s, i, X

\* A machine in the same state, or in the body.
LEMMA AlikeStill ==
    ASSUME NEW X, NEW f, DOMAIN f = MachineFields, MachineIn(f, X),
           NEW g, DOMAIN g = MachineFields, Keeps(f, g),
           g.state = f.state, g.ctx = f.ctx, g.only = f.only
    PROVE  Alike(f, g, X)
<1>1. Like(f, g)
  BY Zenon DEF Like
<1>2. g.state = "Line" => \A k \in 1 .. Len(g.ctx) : g.ctx[k].n \notin X
  BY Zenon DEF MachineIn
<1>3. g.state = "SubstitutionDef" => AnyNext(g)
  BY Zenon DEF AnyNext, MachineIn
<1> QED
  BY <1>1, <1>2, <1>3, Zenon DEF Alike

\* A machine of sections that goes on in the body.
LEMMA AlikeBody ==
    ASSUME NEW X, NEW f, DOMAIN f = MachineFields, f.state \in BodyStates,
           NEW g, DOMAIN g = MachineFields, Keeps(f, g), g.state \in {"Body", "Text"}
    PROVE  Alike(f, g, X)
<1>1. g.state \in BodyStates /\ g.state # "SubstitutionDef" /\ g.state # "Line"
      /\ f.state # "SubstitutionDef"
  BY DEF BodyStates
<1>2. Like(f, g)
  BY <1>1, Zenon DEF Like
<1> QED
  BY <1>1, <1>2, Zenon DEF Alike
=============================================================================
