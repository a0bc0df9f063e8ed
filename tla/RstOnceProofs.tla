--------------------------- MODULE RstOnceProofs ----------------------------
(***************************************************************************)
(* Every line of text is read once, whatever the document: each action     *)
(* keeps the invariant, Ledger, of RstStatesProofs, and when no machine is *)
(* left, what none of them has to read is held, or dropped, and shown once.*)
(***************************************************************************)
EXTENDS RstStatesProofs

-----------------------------------------------------------------------------
(* The steps of the innermost machine. *)

\* BodyBlank: a blank line is no text.
LEMMA BodyBlankOnce ==
    ASSUME Ready, BodyBlank
    PROVE  Ledger'
<1> DEFINE X == TextLines
           S == {"Body", "SubstitutionDef"}
           T == {"blank"}
<1>1. Sees(S, T) /\ Continue(F, <<>>)
  BY DEF BodyBlank
<1>2. /\ doc' = doc /\ error' = error /\ dropped' = dropped /\ memo' = memo
      /\ frames' = Append(Below, F) /\ tree' = tree \o <<>>
  BY <1>1, Zenon DEF Continue, Goes, Same
<1>3. Onward
  BY <1>1, <1>2, SeenOnward
<1>4. /\ Transition \in T /\ F.state \in S /\ F.phase = "run" /\ F.state \notin TextStates
      /\ Alike(F, F, X) /\ MachineIn(F, X) /\ F.off = Top.off + 1
      /\ F.off \in Nat /\ Left(F.lines, F.off, X) = Left(F.lines, Begins(F), X)
      /\ Begins(F) = F.off
  <2>1. F.state \in S => F.state \notin TextStates
    BY DEF TextStates
  <2>2. DOMAIN F = MachineFields /\ MachineIn(F, X) /\ AnyNext(F)
    BY <1>1, <1>3, SeenText, Zenon
  <2>3. Alike(F, F, X)
    BY <2>2, AlikeStill, Zenon DEF Keeps
  <2> QED
    BY <1>1, <1>3, <2>1, <2>2, <2>3, SeenText, Zenon DEF Begins
<1>5. Blank(Line)
  BY <1>1, <1>3, <1>4, SeenAs
<1>6. /\ Left(F.lines, F.off, X) = Left(F.lines, F.off + 1, X)
      /\ Owed(F, X) = Left(F.lines, F.off + 1, X)
  <2>1. "run" # "eof"
    OBVIOUS
  <2>2. Resume(F) = F.off + 1
    BY <1>4, <2>1, Zenon DEF Resume
  <2>3. Owed(F, X) = Left(F.lines, F.off + 1, X)
    BY <2>2, Zenon DEF Owed
  <2>4. Left(F.lines, F.off, X) = ({Line.n} \cap X) \cup Left(F.lines, F.off + 1, X)
    BY <1>1, <1>3, SeenLeft, Zenon
  <2>5. {Line.n} \cap X = {}
    BY <1>1, <1>3, <1>5, SeenLeft, Zenon
  <2> QED
    BY <2>3, <2>4, <2>5
<1>7. Grown({}, {})
  <2>1. tree' = tree
    BY <1>2, <1>3, JoinSeq DEF Onward, Stack, TreeOK, NodesOK
  <2> QED
    BY <1>3, <2>1, GrownBy, TellsNothing DEF Onward
<1>8. TopIn(F, Len(tree'), X)
  <2>1. TopIn(Top, Len(tree), X) /\ Len(tree') = Len(tree) /\ Top.then = F.then
        /\ Top.lines = F.lines
    <3>1. TopIn(Top, Len(tree), X) /\ Keeps(Top, F)
      BY <1>3, <1>1, TopOwes, SeenText, Zenon DEF Alike, Like
    <3>2. tree' = tree
      BY <1>2, <1>3, JoinSeq DEF Onward, Stack, TreeOK, NodesOK
    <3> QED
      BY <3>1, <3>2, Zenon DEF Keeps
  <2>2. Left(F.lines, F.off, X) = Left(F.lines, Top.off + 1, X)
    BY <1>4
  <2>3. F.phase # "eof"
    BY <1>4
  <2> QED
    BY <1>4, <1>6, <2>1, <2>2, <2>3, Zenon DEF TopIn
<1>9. Spends(Left(F.lines, Begins(F), X), Owed(F, X), {}, {})
  BY <1>4, <1>6 DEF Spends
<1> QED
  BY <1>1, <1>2, <1>3, <1>4, <1>7, <1>8, <1>9, SeenGo

\* It starts a machine over the block at its line, when the nodes hold what is before it.
LEMMA SeenBlockNested ==
    ASSUME Onward, NEW S, NEW T, Sees(S, T), NEW mode \in Modes, NEW untilBlank \in BOOLEAN,
           mode # "unknown" => (Line.n \in TextLines => Head(Line.m).t # "text"),
           mode = "known" => ~Blank(Line),
           mode = "unknown" => ~untilBlank /\ (Blank(Line) \/ Line.ind > 0),
           F.state = "SubstitutionDef" => mode = "unknown",
           NEW b, b = IndentedBlock(F.lines, F.off, F.base, mode, untilBlank),
           NEW f, NEW g, frames' = Below \o <<f, g>>, Alike(F, f, TextLines), f.off = b.last,
           Unstarted(g), g.lines = b.lines, g.state # "SubstitutionDef",
           g.then.k \in {"nothing", "first", "construct"},
           g.then.k = "first" => g.then.state # "SubstitutionDef" /\ F.node <= g.then.node,
           g.node \in Nat, F.node <= g.node, memo'.level = memo.level,
           NEW H, H \cap TextLines = Span(F.lines, Begins(F), F.off, TextLines),
           Grown(H, H \cap TextLines)
    PROVE  Ledger'
<1> DEFINE X == TextLines
           s == F.lines
           i == Begins(F)
           U == H \cap X
           Q == Owed(g, X)
           R == Later(g, X)
           Y == Span(s, i, f.off + 1, X)
           D == DOMAIN doc
<1>1. /\ s \in LinesOf(D) /\ Sound(s, X) /\ F.off \in Nat /\ F.off < Len(s)
      /\ At(s, F.off) = Line /\ i \in Nat /\ Len(s) \in Nat
      /\ MachineIn(F, X) /\ FrameOK(Top, Len(tree), D) /\ F.then.k = Top.then.k
  <2>1. FrameOK(Top, Len(tree), D)
    BY TopOwes, Zenon
  <2>2. Keeps(Top, F)
    BY SeenText, Zenon DEF Alike, Like
  <2> QED
    BY <2>1, <2>2, SeenText, Zenon DEF Line, Keeps
<1>2. /\ b.lines \in LinesOf(D) /\ Sound(b.lines, X)
      /\ Left(b.lines, 0, X) = Span(s, F.off, b.last + 1, X)
      /\ b.last \in Int /\ b.last >= F.off /\ b.last < Len(s)
  <2> DEFINE n == F.off
             ba == F.base
  <2>1. n < Len(s) /\ n \in Nat /\ At(s, n) = Line
    BY <1>1
  <2> HIDE DEF n, s, ba, D, X
  <2>2. b = IndentedBlock(s, n, ba, mode, untilBlank)
    BY Zenon DEF n, s, ba
  <2> HIDE DEF i, U, Q, R, Y
  <2>3. /\ s \in LinesOf(D) /\ Sound(s, X)
    BY <1>1, Zenon DEF s, D, X
  <2>4. /\ mode # "unknown" =>
              n < Len(s) /\ (At(s, n).n \in X => Head(At(s, n).m).t # "text")
        /\ mode = "known" => ~Blank(At(s, n))
        /\ mode = "unknown" => /\ ~untilBlank
                               /\ Len(s) <= n \/ Blank(At(s, n)) \/ At(s, n).ind > 0
    BY <2>1, Zenon DEF X
  <2>5. /\ b.lines \in LinesOf(D) /\ Sound(b.lines, X)
        /\ Left(b.lines, 0, X) = Span(s, n, b.last + 1, X)
        /\ b.last \in Int /\ b.last >= n /\ b.last < Len(s)
    BY <2>1, <2>2, <2>3, <2>4, IndentedLeft
  <2> QED
    BY <2>5 DEF n
<1>3. i <= F.off /\ i <= f.off + 1 /\ f.off \in Int
  <2>1. i <= F.off
    BY <1>1 DEF Begins
  <2> QED
    BY <1>1, <1>2, <2>1
<1>4. Y = U \cup Q /\ U \cap Q = {} /\ R = {}
  <2>1. Sound(g.lines, X) /\ g.then.k # "argument"
    BY <1>2
  <2>2. R = {}
    BY <2>1, Zenon DEF Later
  <2>3. Q = Left(g.lines, 0, X)
    BY <2>1, FreshIn, Zenon
  <2>4. Q = Span(s, F.off, f.off + 1, X)
    BY <1>2, <2>3
  <2>5. Y = Span(s, i, F.off, X) \cup Span(s, F.off, f.off + 1, X)
        /\ Span(s, i, F.off, X) \cap Span(s, F.off, f.off + 1, X) = {}
    <3> DEFINE n == F.off
               p == f.off + 1
    <3>0. n <= p /\ p \in Int
      BY <1>1, <1>2
    <3>1. i \in Nat /\ n \in Nat /\ p \in Int /\ i <= n /\ n <= p /\ Single(s) /\ s \in LinesOf(D)
      BY <1>1, <1>3, <3>0, Zenon DEF Sound
    <3> HIDE DEF n, p, i, s, X, D
    <3>2. Y = Span(s, i, p, X)
      BY DEF p
    <3> HIDE DEF Y
    <3>3. Span(s, i, p, X) = Span(s, i, n, X) \cup Span(s, n, p, X)
      <4>1. ASSUME NEW x, x \in Span(s, i, p, X)
            PROVE  x \in Span(s, i, n, X) \cup Span(s, n, p, X)
        <5>1. PICK k \in 1 .. Len(s) : i < k /\ k <= p /\ s[k].n = x
          BY <4>1 DEF Span
        <5> QED
          BY <3>1, <4>1, <5>1 DEF Span
      <4>2. ASSUME NEW x, x \in Span(s, i, n, X) \cup Span(s, n, p, X)
            PROVE  x \in Span(s, i, p, X)
        <5>1. PICK k \in 1 .. Len(s) : i < k /\ k <= p /\ s[k].n = x
          BY <3>1, <4>2 DEF Span
        <5> QED
          BY <3>1, <4>2, <5>1 DEF Span
      <4> QED
        BY <4>1, <4>2
    <3>4. Span(s, i, n, X) \cap Span(s, n, p, X) = {}
      <4>1. ASSUME NEW x, x \in Span(s, i, n, X), x \in Span(s, n, p, X) PROVE FALSE
        <5>1. PICK k \in 1 .. Len(s) : k <= n /\ s[k].n = x
          BY <4>1 DEF Span
        <5>2. PICK j \in 1 .. Len(s) : n < j /\ s[j].n = x
          BY <4>1 DEF Span
        <5> QED
          BY <3>1, <5>1, <5>2 DEF Single
      <4> QED
        BY <4>1
    <3> QED
      BY <3>2, <3>3, <3>4 DEF n, p
  <2> QED
    BY <2>2, <2>4, <2>5
<1>5. F.state = "SubstitutionDef" => Left(s, f.off + 1, X) = {}
  <2> SUFFICES ASSUME F.state = "SubstitutionDef" PROVE Left(s, f.off + 1, X) = {}
    OBVIOUS
  <2>1. \A k \in 2 .. Len(s) : Blank(s[k]) \/ s[k].ind > 0
    BY <1>1, Zenon DEF MachineIn
  <2>2. mode = "unknown" /\ untilBlank = FALSE
    OBVIOUS
  <2>3. b.last = GetIndented(s, F.off, "unknown", FALSE).last
    <3>2. b.last = GetIndented(s, F.off, mode, untilBlank).last
      BY DEF IndentedBlock, Trimmed
    <3>3. GetIndented(s, F.off, mode, untilBlank) = GetIndented(s, F.off, "unknown", FALSE)
      BY <2>2, Zenon
    <3> QED
      BY <3>2, <3>3
  <2>4. b.last = Len(s) - 1
    <3> DEFINE n == F.off
    <3>1. n \in Nat /\ n < Len(s) /\ (Blank(At(s, n)) \/ At(s, n).ind > 0)
      BY <1>1, <2>2
    <3> HIDE DEF n, s, D
    <3>2. GetIndented(s, n, "unknown", FALSE).last = Len(s) - 1
      BY <1>1, <2>1, <3>1, BlockToEnd
    <3> QED
      BY <2>3, <3>2 DEF n
  <2>5. Len(s) <= f.off + 1 /\ f.off + 1 \in Int
    BY <1>1, <2>4, <1>3
  <2> QED
    BY <1>1, <2>5, LeftPast
<1>6. MachineIn(g, X) /\ TopIn(g, Len(tree'), X)
  <2>1. /\ g.then.k \notin {"substitution", "root", "argument", "replace"}
    OBVIOUS
  <2> QED
    BY <1>2, <2>1, FreshIn, Zenon
<1>7. Y \subseteq Q \cup R \cup H \cup dropped'
  BY <1>4
<1>8. /\ Q \cup R \cup U \subseteq Y /\ Q \cap R = {} /\ U \cap Q = {} /\ U \cap R = {}
  BY <1>4
<1>9. /\ g.then.k \notin {"replace", "substitution"} /\ g.then.k \notin {"section", "list"}
      /\ g.then.k \in {"first", "argument"} => F.node <= g.then.node
  OBVIOUS
<1>10. Grown(H, U) /\ F.node <= g.node
  OBVIOUS
<1>11. /\ Y = Span(F.lines, Begins(F), f.off + 1, TextLines)
       /\ Q = Owed(g, TextLines) /\ R = Later(g, TextLines)
       /\ (F.state = "SubstitutionDef" => Left(F.lines, f.off + 1, TextLines) = {})
       /\ f.off \in Int /\ Begins(F) <= f.off + 1
  BY <1>3, <1>5
<1> HIDE DEF U, Q, R, Y, X, i, s, D
<1> QED
  <2>1. Takes(Y, Q, R, H, U)
    BY <1>7, <1>8 DEF Takes
  <2>2. /\ MachineIn(g, TextLines) /\ TopIn(g, Len(tree'), TextLines)
        /\ g.node \in Nat /\ F.node <= g.node
    BY <1>6, <1>10 DEF X
  <2>3. g.then.k \notin {"section", "list"} /\ memo'.level = memo.level
    BY <1>9
  <2>4. Alike(F, f, TextLines) /\ frames' = Below \o <<f, g>> /\ Sees(S, T) /\ Onward
    OBVIOUS
  <2>5. g.then.k = "replace" => /\ F.state = "SubstitutionDef"
                                     /\ g.then.node \in 1 .. Len(tree') /\ g.then.node > Len(tree)
                                     /\ Left(F.lines, Begins(F), TextLines) \subseteq g.then.of
    BY <1>9
  <2> QED
    BY <2>1, <2>2, <2>3, <2>4, <2>5, <1>9, <1>10, <1>11, SeenNested

\* A new machine has read nothing.
LEMMA MadeMachine ==
    ASSUME NEW state, state \notin TextStates, NEW lines, NEW base, NEW node, NEW titles, NEW then,
           NEW g, g = Machine(state, lines, base, node, titles, then)
    PROVE  /\ Unstarted(g) /\ g.state = state /\ g.lines = lines /\ g.then = then /\ g.node = node
           /\ g.phase = "run" /\ g.off = -1 /\ AnyNext(g) /\ g.finish = then.finish
<1>1. /\ g.state = state /\ g.lines = lines /\ g.then = then /\ g.node = node
      /\ g.phase = "run" /\ g.off = -1 /\ AnyNext(g) /\ g.finish = then.finish
  BY Zenon DEF Machine, AnyNext
<1>2. g.state \notin TextStates
  BY <1>1
<1> QED
  BY <1>1, <1>2, Zenon DEF Unstarted

\* Neither has one that has been kept for another use.
LEMMA KeptFresh ==
    ASSUME NEW state, state \notin TextStates, NEW lines, NEW base, NEW node, NEW titles, NEW then,
           NEW g, g = Kept(Machine(state, lines, base, node, titles, then))
    PROVE  /\ Unstarted(g) /\ g.state = state /\ g.lines = lines /\ g.then = then /\ g.node = node
           /\ g.phase = "run" /\ g.off = -1 /\ AnyNext(g) /\ g.finish = then.finish
<1>1. /\ g.state = state /\ g.lines = lines /\ g.then = then /\ g.node = node
      /\ g.phase = "run" /\ g.off = -1 /\ AnyNext(g) /\ g.finish = then.finish
  BY Zenon DEF Machine, Kept, AnyNext
<1>2. g.state \notin TextStates
  BY <1>1
<1> QED
  BY <1>1, <1>2, Zenon DEF Unstarted

\* The same by a nested parse.
LEMMA SeenBlockParse ==
    ASSUME Onward, NEW S, NEW T, Sees(S, T), NEW mode \in Modes, NEW untilBlank \in BOOLEAN,
           mode # "unknown" => (Line.n \in TextLines => Head(Line.m).t # "text"),
           mode = "known" => ~Blank(Line),
           mode = "unknown" => ~untilBlank /\ (Blank(Line) \/ Line.ind > 0),
           F.state = "SubstitutionDef" => mode = "unknown",
           NEW b, b = IndentedBlock(F.lines, F.off, F.base, mode, untilBlank),
           NEW f, Alike(F, f, TextLines), f.off = b.last,
           NEW node, NEW then, NestedParse(f, b.lines, b.off, node, FALSE, then),
           then.k \in {"nothing", "first", "construct"},
           then.k = "first" => then.state # "SubstitutionDef" /\ F.node <= then.node,
           node \in Nat, F.node <= node, memo'.level = memo.level,
           NEW H, H \cap TextLines = Span(F.lines, Begins(F), F.off, TextLines),
           Grown(H, H \cap TextLines)
    PROVE  Ledger'
<1> DEFINE g == Kept(Machine("Body", b.lines, b.off, node, FALSE, then))
<1>1. "Body" \notin TextStates /\ "Body" # "SubstitutionDef"
  BY DEF TextStates
<1>2. frames' = Below \o <<f, g>>
  BY Zenon DEF NestedParse
<1>3. Unstarted(g) /\ g.lines = b.lines /\ g.then = then /\ g.node = node /\ g.state = "Body"
  <2> DEFINE lines == b.lines
             base == b.off
             titles == FALSE
  <2>1. g = Kept(Machine("Body", lines, base, node, titles, then))
    BY Zenon
  <2> HIDE DEF g, lines, base, titles
  <2>2. Unstarted(g) /\ g.lines = lines /\ g.then = then /\ g.node = node /\ g.state = "Body"
    BY <1>1, <2>1, KeptFresh
  <2> QED
    BY <2>2 DEF lines
<1> HIDE DEF g
<1>4. /\ g.then.k \in {"nothing", "first", "construct"} /\ g.state # "SubstitutionDef"
      /\ g.then.k = "first" => g.then.state # "SubstitutionDef" /\ F.node <= g.then.node
      /\ g.node \in Nat /\ F.node <= g.node
  BY <1>1, <1>3
<1> QED
  BY <1>2, <1>3, <1>4, SeenBlockNested

\* When it is in no text, no line before the one that is seen is left.
LEMMA NothingBefore ==
    ASSUME Onward, F.state \notin TextStates
    PROVE  /\ Begins(F) = F.off
           /\ {} \cap TextLines = Span(F.lines, Begins(F), F.off, TextLines)
           /\ \A nodes : tree' = tree \o nodes /\ Silent(nodes) => Grown({}, {} \cap TextLines)
<1>1. Begins(F) = F.off
  BY Zenon DEF Begins
<1>2. {} \cap TextLines = Span(F.lines, F.off, F.off, TextLines)
  <2> DEFINE s == F.lines
  <2>1. F.off \in Int
    <3>1. FrameOK(Top, Len(tree), DOMAIN doc)
      BY TopOwes, Zenon
    <3>2. Top.off \in Int /\ DOMAIN Top = MachineFields
      BY <3>1, Zenon DEF FrameOK
    <3> QED
      BY <3>2 DEF F, Moved, MachineFields
  <2> HIDE DEF s
  <2> DEFINE n == F.off
  <2> HIDE DEF n
  <2>3. n \in Int
    BY <2>1 DEF n
  <2>4. \A k \in 1 .. Len(s) : ~(n < k /\ k <= n)
    BY <2>3
  <2>2. Span(s, n, n, TextLines) = {}
    BY <2>4 DEF Span
  <2> QED
    BY <2>2 DEF s, n
<1>3. \A nodes : tree' = tree \o nodes /\ Silent(nodes) => Grown({}, {} \cap TextLines)
  <2>1. {} \cap TextLines = {}
    OBVIOUS
  <2> QED
    BY <2>1, Zenon DEF Silent, Grown
<1> QED
  BY <1>1, <1>2, <1>3

\* It has come to another line, or nodes are made.
LEMMA SeenOff ==
    ASSUME Onward, NEW S, NEW T, Sees(S, T), NEW off
    PROVE  LET f == [F EXCEPT !.off = off]
           IN  /\ Alike(F, f, TextLines) /\ f.off = off /\ f.phase = "run" /\ f.state = F.state
               /\ f.then = F.then /\ f.lines = F.lines /\ f.node = F.node /\ AnyNext(f)
               /\ DOMAIN f = MachineFields
<1> DEFINE f == [F EXCEPT !.off = off]
<1>1. DOMAIN F = MachineFields /\ MachineIn(F, TextLines) /\ AnyNext(F) /\ F.phase = "run"
  BY SeenText, Zenon
<1>2. DOMAIN f = MachineFields /\ Keeps(F, f) /\ f.state = F.state /\ f.ctx = F.ctx
      /\ f.only = F.only /\ f.off = off /\ f.phase = F.phase
  <2>1. DOMAIN F = MachineFields
    BY <1>1, Zenon
  <2> QED
    BY ONLY <2>1 DEF Keeps, MachineFields
<1> HIDE DEF f
<1>3. Alike(F, f, TextLines)
  BY <1>1, <1>2, AlikeStill, Zenon
<1> QED
  BY <1>1, <1>2, <1>3, Zenon DEF f, Keeps, AnyNext

\* The nodes to be made next come after the machine's own.
LEMMA SeenNext ==
    ASSUME Onward, NEW S, NEW T, Sees(S, T)
    PROVE  /\ NextNode \in Nat /\ F.node <= NextNode /\ F.node \in Nat
           /\ NextNode + 1 \in Nat /\ F.node <= NextNode + 1
<1>1. F.node \in 0 .. Len(tree) /\ Len(tree) \in Nat
  BY SeenText, Zenon
<1>2. \A n, i : n \in Nat /\ i \in 0 .. n =>
          /\ n + 1 \in Nat /\ i <= n + 1 /\ i \in Nat /\ n + 1 + 1 \in Nat /\ i <= n + 1 + 1
  OBVIOUS
<1> QED
  BY <1>1, <1>2, Zenon DEF NextNode

\* The tree is a sequence.
LEMMA TreeSeq ==
    ASSUME Onward
    PROVE  IsSeq(tree)
  BY DEF Onward, Stack, TreeOK, NodesOK

\* BlockQuote: the machine of the quote reads the block.
LEMMA BlockQuoteOnce ==
    ASSUME Ready, BlockQuote
    PROVE  Ledger'
<1> DEFINE X == TextLines
           b == IndentedBlock(F.lines, F.off, F.base, "unknown", FALSE)
           f == [F EXCEPT !.off = b.last]
           then == Then("nothing", TRUE)
           a == <<Node("block_quote", F.node, {})>>
           c == IF b.finish THEN <<>> ELSE <<Message("warning", F.node, {})>>
           S == {"Body", "SubstitutionDef"}
           T == {"indent"}
<1>1. /\ Sees(S, T) /\ NestedParse(f, b.lines, b.off, NextNode, FALSE, then)
      /\ tree' = tree \o a \o c
      /\ doc' = doc /\ memo' = memo /\ error' = error /\ dropped' = dropped
  BY Zenon DEF BlockQuote
<1>2. Onward
  BY <1>1, SeenOnward
<1>3. F.state \notin TextStates /\ DOMAIN F = MachineFields /\ MachineIn(F, X) /\ AnyNext(F)
      /\ F.node \in 0 .. Len(tree) /\ Len(tree) \in Nat /\ Transition = "indent"
  <2>1. F.state \in S => F.state \notin TextStates
    BY DEF TextStates
  <2> QED
    BY <1>1, <1>2, <2>1, SeenText, Zenon
<1>4. Line.ind > 0
  BY <1>1, <1>2, <1>3, SeenAs, Zenon
<1>5. then.k = "nothing"
  BY DEF Then
<1>6. Silent(a) /\ Silent(c)
  <2>1. Silent(<<Node("block_quote", F.node, {})>>)
    BY SilentNodes, Zenon
  <2>2. Silent(IF b.finish THEN <<>> ELSE <<Message("warning", F.node, {})>>)
    BY SilentNodes, Zenon
  <2> QED
    BY <2>1, <2>2
<1> HIDE DEF b, a, c, then
<1>8. Alike(F, f, X) /\ f.off = b.last
  BY <1>1, <1>2, SeenOff, Zenon
<1>9. Grown({}, {} \cap X)
  <2>1. Silent(a \o c)
    BY <1>6, SilentBoth
  <2>2. tree' = tree \o (a \o c)
    <3>1. IsSeq(tree) /\ IsSeq(a) /\ IsSeq(c) /\ tree' = tree \o a \o c
      BY <1>1, <1>2, <1>6, TreeSeq, Zenon DEF Silent, Tells
    <3> QED
      BY <3>1, JoinThree
  <2> QED
    BY <1>2, <1>3, <2>1, <2>2, NothingBefore, Zenon
<1>10. NextNode \in Nat /\ F.node <= NextNode
  BY <1>1, <1>2, SeenNext, Zenon
<1>11. "unknown" \in Modes
  BY DEF Modes
<1> HIDE DEF f
<1>13. b = IndentedBlock(F.lines, F.off, F.base, "unknown", FALSE)
  BY DEF b
<1>14. then.k \in {"nothing", "first", "construct"} /\ then.k # "first" /\ "unknown" # "known"
  BY <1>5
<1> DEFINE H == {}
<1>15. H \cap X = Span(F.lines, Begins(F), F.off, X) /\ Grown(H, H \cap X)
  BY <1>2, <1>3, <1>9, NothingBefore, Zenon
<1> HIDE DEF H
<1> QED
  BY <1>1, <1>2, <1>4, <1>8, <1>10, <1>11, <1>13, <1>14, <1>15, SeenBlockParse

\* What a list, or a construct, begins with.
LEMMA SeenMark ==
    ASSUME Onward, NEW S, NEW T, Sees(S, T), S \cap (TextStates \cup {"SubstitutionDef"}) = {},
           T \cap {"blank", "indent", "text"} = {}
    PROVE  /\ F.state \notin TextStates /\ F.state # "SubstitutionDef" /\ ~Blank(Line)
           /\ Head(Line.m).t = Transition
           /\ Line.n \in TextLines => Head(Line.m).t # "text"
<1>1. F.state \in S /\ Transition \in T
  BY SeenText, Zenon
<1>2. F.state \notin TextStates \cup {"SubstitutionDef"} /\ Transition \notin {"blank", "indent", "text"}
  BY <1>1
<1> QED
  BY <1>2, SeenAs, Zenon

\* Two lots of nodes that hold nothing.
LEMMA GrownSilent ==
    ASSUME Onward, F.state \notin TextStates, NEW a, NEW c, Silent(a), Silent(c),
           tree' = tree \o a \o c
    PROVE  Grown({}, {} \cap TextLines)
<1>1. Silent(a \o c)
  BY SilentBoth
<1>2. tree' = tree \o (a \o c)
  <2>1. IsSeq(tree) /\ IsSeq(a) /\ IsSeq(c)
    BY TreeSeq, Zenon DEF Silent, Tells
  <2> QED
    BY <2>1, JoinThree
<1> QED
  BY <1>1, <1>2, NothingBefore, Zenon

\* A sequence of two.
LEMMA PairSeq ==
    ASSUME NEW x, NEW y
    PROVE  <<x>> \o <<y>> = <<x, y>>
<1>1. <<x>> \in Seq({x, y}) /\ <<y>> \in Seq({x, y}) /\ <<x, y>> \in Seq({x, y})
  OBVIOUS
<1>2. Len(<<x>>) = 1 /\ Len(<<y>>) = 1 /\ Len(<<x, y>>) = 2
  OBVIOUS
<1>3. <<x>> \o <<y>> \in Seq({x, y}) /\ Len(<<x>> \o <<y>>) = 2
  BY <1>1, <1>2, ConcatProperties
<1>4. \A i \in 1 .. 2 : (<<x>> \o <<y>>)[i] = <<x, y>>[i]
  BY <1>1, <1>2, ConcatProperties
<1> QED
  BY <1>1, <1>2, <1>3, <1>4, SeqEqual

\* Two nodes that hold nothing.
LEMMA SilentTwo ==
    ASSUME NEW kind, NEW up, NEW other, NEW under
    PROVE  Silent(<<Node(kind, up, {}), Node(other, under, {})>>)
<1> DEFINE x == Node(kind, up, {})
           y == Node(other, under, {})
           a == <<x>>
           b == <<y>>
<1>1. Silent(a) /\ Silent(b)
  BY SilentNodes, Zenon
<1>2. a \o b = <<Node(kind, up, {}), Node(other, under, {})>>
  <2> HIDE DEF x, y
  <2>1. <<x>> \o <<y>> = <<x, y>>
    BY PairSeq
  <2> QED
    BY <2>1 DEF x, y
<1> HIDE DEF a, b
<1> QED
  BY <1>1, <1>2, SilentBoth

\* FirstItem: the machine of the item reads its block.
LEMMA FirstItemOnce ==
    ASSUME Ready, NEW t \in DOMAIN Lists, FirstItem(t)
    PROVE  Ledger'
<1> DEFINE X == TextLines
           mode == IF t \in {"bullet", "enumerator"} /\ ~Lone(At(F.lines, F.off))
                   THEN "known" ELSE "first"
           until == FALSE
           b == ItemBlock(F, t)
           f == [F EXCEPT !.off = b.last]
           state == Lists[t].state
           list == ListOf(Line)
           then == [Then("first", b.finish) EXCEPT !.state = state, !.node = NextNode, !.list = list]
           a == <<Node(Lists[t].node, F.node, {}), Node(Lists[t].item, NextNode, {})>>
           c == IF t = "enumerator" /\ ListOf(Line).last # 1
                THEN <<Message("info", F.node, {})>> ELSE <<>>
           S == {"Body"}
           T == {t}
<1>1. /\ Sees(S, T) /\ NestedParse(f, b.lines, b.off, NextNode + 1, FALSE, then)
      /\ tree' = tree \o a \o c
      /\ doc' = doc /\ memo' = memo /\ error' = error /\ dropped' = dropped
  BY Zenon DEF FirstItem
<1>2. Onward
  BY <1>1, SeenOnward
<1>3. S \cap (TextStates \cup {"SubstitutionDef"}) = {} /\ T \cap {"blank", "indent", "text"} = {}
  BY DEF TextStates, Lists
<1>4. /\ F.state \notin TextStates /\ F.state # "SubstitutionDef" /\ ~Blank(Line)
      /\ Line.n \in TextLines => Head(Line.m).t # "text"
  BY <1>1, <1>2, <1>3, SeenMark
<1>5. state # "SubstitutionDef"
  BY DEF Lists
<1>6. mode \in Modes /\ mode # "unknown"
  BY DEF Modes
<1>7. b = IndentedBlock(F.lines, F.off, F.base, mode, until)
  BY Zenon DEF ItemBlock
<1> HIDE DEF mode, state, list, b
<1>8. then.k = "first" /\ then.state = state /\ then.node = NextNode
  BY Zenon DEF Then
<1>9. Silent(a) /\ Silent(c)
  <2>1. Silent(a)
    BY SilentTwo, Zenon
  <2>2. Silent(c)
    BY SilentNodes, Zenon
  <2> QED
    BY <2>1, <2>2
<1> HIDE DEF a, c
<1>10. until \in BOOLEAN
  OBVIOUS
<1> HIDE DEF then, until
<1>11. Alike(F, f, X) /\ f.off = b.last
  BY <1>1, <1>2, SeenOff, Zenon
<1> DEFINE H == {}
<1>12. H \cap X = Span(F.lines, Begins(F), F.off, X) /\ Grown(H, H \cap X)
  BY <1>1, <1>2, <1>4, <1>9, GrownSilent, NothingBefore, Zenon
<1>13. NextNode + 1 \in Nat /\ F.node <= NextNode + 1
  BY <1>1, <1>2, SeenNext, Zenon
<1>14. then.k \in {"nothing", "first", "construct"} /\ then.state # "SubstitutionDef"
       /\ F.node <= then.node
  BY <1>1, <1>2, <1>5, <1>8, SeenNext
<1> DEFINE node == NextNode + 1
<1> HIDE DEF H, f, node
<1>15. NestedParse(f, b.lines, b.off, node, FALSE, then) /\ node \in Nat /\ F.node <= node
  BY <1>1, <1>13 DEF node
<1> QED
  BY <1>1, <1>2, <1>4, <1>6, <1>7, <1>10, <1>11, <1>12, <1>14, <1>15, SeenBlockParse

\* What it looks at again, it has not read; a machine that ends has read nothing more.
LEMMA SeenAgain ==
    ASSUME Onward, NEW S, NEW T, Sees(S, T), F.state \notin TextStates,
           F.state # "SubstitutionDef", NEW f, frames' = Append(Below, f),
           Alike(F, f, TextLines), f.off = F.off - 1,
           f.phase = "over" \/ (f.phase = "run" /\ f.state = F.state),
           memo'.level # 0 <=> memo.level # 0,
           F.then.k = "root" => f.phase = "run", Grown({}, {})
    PROVE  Ledger'
<1> DEFINE X == TextLines
<1>1. /\ F.lines \in LinesOf(DOMAIN doc) /\ F.off \in Nat /\ MachineIn(F, X)
      /\ Begins(F) = F.off
  BY SeenText, Zenon DEF Begins
<1>2. f.then = F.then /\ f.lines = F.lines /\ f.state # "SubstitutionDef"
  BY Zenon DEF Alike, Like, Keeps
<1>3. Resume(f) = F.off
  <2>1. Resume(f) = f.off + 1
    BY Zenon DEF Resume
  <2> QED
    BY <1>1, <2>1
<1>4. Owed(f, X) = Left(F.lines, F.off, X)
  BY <1>2, <1>3, Zenon DEF Owed
<1>5. Spends(Left(F.lines, Begins(F), X), Owed(f, X), {}, {})
  BY <1>1, <1>4 DEF Spends
<1>6. F.then.k # "substitution"
  BY <1>1, Zenon DEF MachineIn
<1>7. TopIn(f, Len(tree'), X)
  BY <1>2, <1>6, Zenon DEF TopIn
<1> QED
  BY <1>5, <1>7, SeenGo

\* One line back, with or without an end.
LEMMA SeenBack ==
    ASSUME Onward, NEW S, NEW T, Sees(S, T)
    PROVE  /\ LET f == Ended(Moved(F, -1))
              IN  /\ Alike(F, f, TextLines) /\ f.off = F.off - 1
                  /\ F.state \notin TextStates => f.phase = "over"
           /\ LET f == Correct(F)
              IN  /\ F.state # "SubstitutionDef" => Alike(F, f, TextLines)
                  /\ f.off = F.off - 1 /\ f.phase = "run" /\ f.state = F.state
<1>1. /\ DOMAIN F = MachineFields /\ MachineIn(F, TextLines) /\ AnyNext(F) /\ F.phase = "run"
      /\ F.off \in Nat
  BY SeenText, Zenon
<1>a. \A n : n \in Nat => n + (-1) = n - 1
  OBVIOUS
<1>2. LET f == Ended(Moved(F, -1))
      IN  /\ Alike(F, f, TextLines) /\ f.off = F.off - 1
          /\ F.state \notin TextStates => f.phase = "over"
  <2> DEFINE f == Ended(Moved(F, -1))
  <2>1. DOMAIN f = MachineFields /\ Keeps(F, f) /\ f.state = F.state /\ f.ctx = F.ctx
        /\ f.only = F.only /\ f.off = F.off + (-1)
        /\ (F.state \notin TextStates => f.phase = "over")
    <3>1. DOMAIN F = MachineFields
      BY <1>1, Zenon
    <3> QED
      BY ONLY <3>1 DEF Keeps, MachineFields, Ended, Moved
  <2> HIDE DEF f
  <2>2. f.off = F.off - 1
    BY <1>1, <1>a, <2>1, Zenon
  <2>3. Alike(F, f, TextLines)
    BY <1>1, <2>1, AlikeStill, Zenon
  <2> QED
    BY <2>1, <2>2, <2>3, Zenon DEF f
<1>3. LET f == Correct(F)
      IN  /\ F.state # "SubstitutionDef" => Alike(F, f, TextLines)
          /\ f.off = F.off - 1 /\ f.phase = "run" /\ f.state = F.state
  <2> DEFINE f == Correct(F)
  <2>1. DOMAIN f = MachineFields /\ Keeps(F, f) /\ f.state = F.state /\ f.ctx = F.ctx
        /\ f.off = F.off + (-1) /\ f.phase = F.phase
    <3>1. DOMAIN F = MachineFields
      BY <1>1, Zenon
    <3> QED
      BY ONLY <3>1 DEF Keeps, MachineFields, Correct, Moved
  <2> HIDE DEF f
  <2>2. f.off = F.off - 1
    BY <1>1, <1>a, <2>1, Zenon
  <2>3. F.state # "SubstitutionDef" => Alike(F, f, TextLines)
    <3>1. Like(F, f)
      BY <1>1, <2>1, Zenon DEF Like
    <3>2. f.state = "Line" => \A k \in 1 .. Len(f.ctx) : f.ctx[k].n \notin TextLines
      BY <1>1, <2>1, Zenon DEF MachineIn
    <3> QED
      BY <2>1, <3>1, <3>2, Zenon DEF Alike
  <2> QED
    BY <1>1, <2>1, <2>2, <2>3, Zenon DEF f
<1> QED
  BY <1>2, <1>3

\* Nodes that hold nothing, or none.
LEMMA GrownNone ==
    ASSUME Onward
    PROVE  /\ tree' = tree => Grown({}, {})
           /\ \A nodes : tree' = tree \o nodes /\ Silent(nodes) => Grown({}, {})
           /\ tree' = tree \o <<>> => tree' = tree
<1>1. tree' = tree \o <<>> => tree' = tree
  <2>1. IsSeq(tree)
    BY TreeSeq
  <2> QED
    BY <2>1 DEF IsSeq
<1>2. tree' = tree => Grown({}, {})
  BY GrownBy, TellsNothing DEF Onward
<1> QED
  BY <1>1, <1>2, Zenon DEF Silent, Grown

\* NextItem: so it does for every further item; the line of another list stays.
LEMMA NextItemOnce ==
    ASSUME Ready, NEW t \in DOMAIN Lists, NextItem(t)
    PROVE  Ledger'
<1> DEFINE X == TextLines
           mode == IF t \in {"bullet", "enumerator"} /\ ~Lone(At(F.lines, F.off))
                   THEN "known" ELSE "first"
           until == FALSE
           yes == TRUE
           b == ItemBlock(F, t)
           f == [F EXCEPT !.off = b.last, !.finish = b.finish, !.list = Advanced(F)]
           then == Then("nothing", yes)
           item == <<Node(Lists[t].item, F.node, {})>>
           S == {Lists[t].state}
           T == {t}
<1>1. Sees(S, T)
  BY Zenon DEF NextItem
<1>2. /\ doc' = doc /\ memo' = memo /\ error' = error /\ dropped' = dropped
      /\ \/ frames' = Append(Below, Ended(Moved(F, -1))) /\ tree' = tree \o <<>>
         \/ frames' = Append(Below, Correct(F)) /\ tree' = tree \o <<>>
         \/ /\ NestedParse(f, b.lines, b.off, NextNode, FALSE, then)
            /\ tree' = Append(tree, Node(Lists[t].item, F.node, {}))
  BY DEF NextItem, Continue, Goes, Same
<1>3. Onward
  BY <1>1, <1>2, SeenOnward
<1>4. S \cap (TextStates \cup {"SubstitutionDef"}) = {} /\ T \cap {"blank", "indent", "text"} = {}
      /\ S \cap BodyStates = {}
  BY DEF TextStates, Lists, BodyStates
<1>5. /\ F.state \notin TextStates /\ F.state # "SubstitutionDef" /\ ~Blank(Line)
      /\ Line.n \in TextLines => Head(Line.m).t # "text"
  BY <1>1, <1>3, <1>4, SeenMark
<1>6. F.then.k # "root"
  <2>1. F.state \in S /\ MachineIn(F, X)
    BY <1>1, <1>3, SeenText, Zenon
  <2>2. F.then.k = "root" => F.state \in BodyStates
    BY <2>1, Zenon DEF MachineIn
  <2> QED
    BY <1>4, <2>1, <2>2
<1>7. ASSUME frames' = Append(Below, Ended(Moved(F, -1))) \/ frames' = Append(Below, Correct(F)),
             tree' = tree \o <<>>
      PROVE  Ledger'
  <2>1. Grown({}, {})
    BY <1>3, <1>7, GrownNone, Zenon
  <2> DEFINE e == Ended(Moved(F, -1))
             r == Correct(F)
  <2>2. Alike(F, e, X) /\ e.off = F.off - 1 /\ e.phase = "over"
    BY <1>1, <1>3, <1>5, SeenBack, Zenon
  <2>3. Alike(F, r, X) /\ r.off = F.off - 1 /\ r.phase = "run" /\ r.state = F.state
    BY <1>1, <1>3, <1>5, SeenBack, Zenon
  <2>4. frames' = Append(Below, e) \/ frames' = Append(Below, r)
    BY <1>7
  <2> HIDE DEF e, r
  <2> QED
    BY <1>1, <1>2, <1>3, <1>5, <1>6, <2>1, <2>2, <2>3, <2>4, SeenAgain
<1>8. ASSUME NestedParse(f, b.lines, b.off, NextNode, FALSE, then),
             tree' = Append(tree, Node(Lists[t].item, F.node, {}))
      PROVE  Ledger'
  <2>1. mode \in Modes /\ mode # "unknown"
    BY DEF Modes
  <2>2. b = IndentedBlock(F.lines, F.off, F.base, mode, until)
    BY Zenon DEF ItemBlock
  <2>3. until \in BOOLEAN
    OBVIOUS
  <2> HIDE DEF mode, until, b
  <2>4. Alike(F, f, X) /\ f.off = b.last
    <3>1. DOMAIN F = MachineFields /\ MachineIn(F, X) /\ AnyNext(F)
      BY <1>1, <1>3, SeenText, Zenon
    <3>2. DOMAIN f = MachineFields /\ Keeps(F, f) /\ f.state = F.state /\ f.ctx = F.ctx
          /\ f.only = F.only /\ f.off = b.last
      BY ONLY <3>1, Zenon DEF Keeps, MachineFields
    <3> HIDE DEF f
    <3> QED
      BY <3>1, <3>2, AlikeStill, Zenon
  <2>5. then.k = "nothing"
    BY DEF Then
  <2> DEFINE H == {}
             node == NextNode
  <2>6. H \cap X = Span(F.lines, Begins(F), F.off, X) /\ Grown(H, H \cap X)
    <3>1. Silent(<<Node(Lists[t].item, F.node, {})>>)
      BY SilentNodes, Zenon
    <3>2. tree' = tree \o <<Node(Lists[t].item, F.node, {})>>
      <4> DEFINE x == Node(Lists[t].item, F.node, {})
      <4>1. tree' = Append(tree, x) /\ IsSeq(tree)
        BY <1>3, <1>8, TreeSeq
      <4> HIDE DEF x
      <4>2. tree' = tree \o <<x>>
        BY <4>1, AppendIsPut
      <4> QED
        BY <4>2 DEF x
    <3> QED
      BY <1>3, <1>5, <3>1, <3>2, NothingBefore, Zenon
  <2>7. node \in Nat /\ F.node <= node
    BY <1>1, <1>3, SeenNext, Zenon
  <2> HIDE DEF then, f, H, node
  <2>8. NestedParse(f, b.lines, b.off, node, FALSE, then)
    BY <1>8 DEF node
  <2>9. then.k \in {"nothing", "first", "construct"} /\ then.k # "first"
    BY <2>5
  <2> QED
    BY <1>1, <1>2, <1>3, <1>5, <2>1, <2>2, <2>3, <2>4, <2>6, <2>7, <2>8, <2>9, SeenBlockParse
<1> QED
  BY <1>2, <1>7, <1>8

\* TextAfterAll: the line stays, to be read as text.
LEMMA TextAfterAllOnce ==
    ASSUME Ready, NEW t \in DOMAIN Lists, TextAfterAll(t)
    PROVE  Ledger'
<1> DEFINE S == {"Body"}
           T == {t}
           f == Correct(F)
<1>1. /\ Sees(S, T) /\ frames' = Append(Below, f) /\ tree' = tree \o <<>>
      /\ doc' = doc /\ memo' = memo /\ error' = error /\ dropped' = dropped
  BY Zenon DEF TextAfterAll, Continue, Goes, Same
<1>2. Onward
  BY <1>1, SeenOnward
<1>3. F.state \notin TextStates /\ F.state # "SubstitutionDef"
  <2>1. F.state \in S
    BY <1>1, <1>2, SeenText, Zenon
  <2> QED
    BY <2>1 DEF TextStates
<1>4. Alike(F, f, TextLines) /\ f.off = F.off - 1 /\ f.phase = "run" /\ f.state = F.state
  BY <1>1, <1>2, <1>3, SeenBack, Zenon
<1>5. Grown({}, {})
  BY <1>1, <1>2, GrownNone, Zenon
<1> HIDE DEF f
<1> QED
  BY <1>1, <1>2, <1>3, <1>4, <1>5, SeenAgain

\* InvalidInput: the line stays, for the caller.
LEMMA InvalidInputOnce ==
    ASSUME Ready, InvalidInput
    PROVE  Ledger'
<1> DEFINE S == DOMAIN Members
           T == Transitions \cup {"blank", "indent"}
           f == Ended(Moved(F, -1))
<1>1. /\ Sees(S, T) /\ frames' = Append(Below, f) /\ tree' = tree \o <<>>
      /\ doc' = doc /\ memo' = memo /\ error' = error /\ dropped' = dropped
  BY Zenon DEF InvalidInput, Continue, Goes, Same
<1>2. Onward
  BY <1>1, SeenOnward
<1>3. F.state \notin TextStates /\ F.state # "SubstitutionDef" /\ F.then.k # "root"
  <2>1. F.state \in S /\ MachineIn(F, TextLines)
    BY <1>1, <1>2, SeenText, Zenon
  <2>2. F.then.k = "root" => F.state \in BodyStates
    BY <2>1, Zenon DEF MachineIn
  <2>3. \A x \in S : x \notin TextStates /\ x # "SubstitutionDef" /\ x \notin BodyStates
    BY DEF TextStates, Members, BodyStates
  <2> QED
    BY <2>1, <2>2, <2>3
<1>4. Alike(F, f, TextLines) /\ f.off = F.off - 1 /\ f.phase = "over"
  BY <1>1, <1>2, <1>3, SeenBack, Zenon
<1>5. Grown({}, {})
  BY <1>1, <1>2, GrownNone, Zenon
<1> HIDE DEF f, S, T
<1> QED
  BY <1>1, <1>2, <1>3, <1>4, <1>5, SeenAgain

\* A node without text, in front of a nested parse, adds nothing to what is held.
LEMMA GrownEmpty ==
    ASSUME Onward, F.state \notin TextStates, NEW kind, NEW up,
           tree' = Append(tree, Node(kind, up, {}))
    PROVE  Grown({}, {} \cap TextLines)
<1> DEFINE x == Node(kind, up, {})
<1>1. Silent(<<x>>)
  BY SilentNodes, Zenon
<1>2. tree' = Append(tree, x) /\ IsSeq(tree)
  BY TreeSeq
<1> HIDE DEF x
<1>3. tree' = tree \o <<x>>
  BY <1>2, AppendIsPut
<1> QED
  BY <1>1, <1>3, NothingBefore, Zenon

\* FootnoteOrCitation: the machine of the note owes its block.
LEMMA FootnoteOrCitationOnce ==
    ASSUME Ready, FootnoteOrCitation
    PROVE  Ledger'
<1> DEFINE X == TextLines
           mode == "first"
           until == FALSE
           S == {"Body", "Explicit"}
           T == {"explicit_markup"}
           b == IndentedBlock(F.lines, F.off, F.base, mode, until)
           f == [F EXCEPT !.off = b.last]
           then == Then("construct", b.finish)
           node == NextNode
           H == {}
<1>1. Sees(S, T)
  BY Zenon DEF FootnoteOrCitation, SeesExplicit
<1>2. /\ doc' = doc /\ memo' = memo /\ error' = error /\ dropped' = dropped
      /\ NestedParse(f, b.lines, b.off, node, until, then)
      /\ tree' = Append(tree, Node(Head(Line.m).c, F.node, {}))
  BY Zenon DEF FootnoteOrCitation, FirstKnown
<1>3. Onward
  BY <1>1, <1>2, SeenOnward
<1>4. S \cap (TextStates \cup {"SubstitutionDef"}) = {} /\ T \cap {"blank", "indent", "text"} = {}
  BY DEF TextStates
<1>5. /\ F.state \notin TextStates /\ F.state # "SubstitutionDef" /\ ~Blank(Line)
      /\ Line.n \in TextLines => Head(Line.m).t # "text"
  BY <1>1, <1>3, <1>4, SeenMark
<1>6. mode \in Modes /\ mode # "unknown" /\ until \in BOOLEAN
  BY DEF Modes
<1>7. then.k = "construct"
  BY DEF Then
<1>8. H \cap X = Span(F.lines, Begins(F), F.off, X) /\ Grown(H, H \cap X)
  BY <1>2, <1>3, <1>5, GrownEmpty, NothingBefore, Zenon
<1>9. node \in Nat /\ F.node <= node
  BY <1>1, <1>3, SeenNext, Zenon
<1>10. Alike(F, f, X) /\ f.off = b.last
  BY <1>1, <1>3, SeenOff, Zenon
<1>11. NestedParse(f, b.lines, b.off, node, FALSE, then)
  BY <1>2, Zenon
<1>12. b = IndentedBlock(F.lines, F.off, F.base, mode, until)
  OBVIOUS
<1> HIDE DEF mode, until, S, T, b, f, then, node, H
<1>13. then.k \in {"nothing", "first", "construct"} /\ then.k # "first"
  BY <1>7
<1> QED
  BY <1>1, <1>2, <1>3, <1>5, <1>6, <1>8, <1>9, <1>10, <1>11, <1>12, <1>13, SeenBlockParse

\* Two sequences of nodes one behind the other, the first of which holds nothing.
LEMMA SilentFirst ==
    ASSUME NEW a, NEW b, Silent(a), NEW H, NEW U, Tells(b, H, U, TextLines)
    PROVE  Tells(a \o b, H, U, TextLines)
<1> DEFINE G == {}
           V == {}
<1>1. Tells(a, G, V, TextLines) /\ V \cap U = {} /\ G \cup H = H /\ V \cup U = U
  BY DEF Silent
<1> HIDE DEF G, V
<1> QED
  BY <1>1, TellsBoth

\* Two sequences of nodes one behind the other, the last of which holds nothing.
LEMMA SilentLast ==
    ASSUME NEW a, NEW b, Silent(b), NEW H, NEW U, Tells(a, H, U, TextLines)
    PROVE  Tells(a \o b, H, U, TextLines)
<1> DEFINE G == {}
           V == {}
<1>1. Tells(b, G, V, TextLines) /\ U \cap V = {} /\ H \cup G = H /\ U \cup V = U
  BY DEF Silent
<1> HIDE DEF G, V
<1> QED
  BY <1>1, TellsBoth

\* A definition's item holds the term.
LEMMA ItemTells ==
    ASSUME NEW up, NEW n
    PROVE  Tells(DefinitionItem(up, n), NumbersOf(F.ctx), NumbersOf(F.ctx) \cap TextLines, TextLines)
<1> DEFINE item == Node("definition_list_item", up, {})
           term == Node("term", n, NumbersOf(F.ctx))
           info == IF LiteralNext(F.ctx) THEN <<Message("info", n, {})>> ELSE <<>>
           H == NumbersOf(F.ctx)
           U == H \cap TextLines
<1>1. Silent(<<item>>) /\ Silent(info)
  BY SilentNodes, Zenon
<1>2. Tells(<<term>>, H, U, TextLines)
  <2>1. "term" \notin Levels
    BY DEF Levels
  <2> QED
    BY <2>1, TellsNode, Zenon
<1>3. DefinitionItem(up, n) = <<item, term>> \o info
  BY Zenon DEF DefinitionItem
<1> HIDE DEF item, term, info, H, U
<1>4. <<item>> \o <<term>> = <<item, term>>
  BY PairSeq
<1>5. Tells(<<item>> \o <<term>>, H, U, TextLines)
  BY <1>1, <1>2, SilentFirst
<1>6. Tells(<<item, term>> \o info, H, U, TextLines)
  BY <1>1, <1>4, <1>5, SilentLast
<1> QED
  BY <1>3, <1>6 DEF H, U

\* What a machine holds in its context is the line before the one it looks at.
LEMMA SeenTerm ==
    ASSUME Onward, NEW S, NEW T, Sees(S, T), F.state \in TextStates
    PROVE  /\ NumbersOf(F.ctx) \cap TextLines = Span(F.lines, Begins(F), F.off, TextLines)
           /\ Begins(F) = F.off - 1 /\ F.off >= 1
           /\ F.ctx = <<F.lines[F.off]>> /\ F.ctx \in LinesOf(DOMAIN doc) /\ Sound(F.ctx, TextLines)
           /\ Len(F.ctx) = 1 /\ F.ctx[1] = F.lines[F.off]
           /\ Span(F.lines, Begins(F), F.off, TextLines) = {F.ctx[1].n} \cap TextLines
<1> DEFINE X == TextLines
           D == DOMAIN doc
           s == F.lines
           i == F.off - 1
           line == s[F.off]
<1>1. /\ s \in LinesOf(D) /\ Sound(s, X) /\ F.off \in Nat /\ F.off < Len(s) /\ Len(s) \in Nat
      /\ F.off >= 1 /\ F.ctx = <<line>>
  BY SeenText, Zenon
<1>2. Begins(F) = i
  BY DEF Begins
<1> HIDE DEF s, X, D
<1>3. line \in LineOf(D) /\ Proper(line, X)
  BY <1>1 DEF LinesOf, Sound
<1>4. At(s, i) = line /\ i \in Nat /\ i < Len(s) /\ i + 1 = F.off
  BY <1>1 DEF At
<1> HIDE DEF line, i
<1>5. Span(s, i, F.off, X) = {line.n} \cap X
  <2>1. Span(s, i, i + 1, X) = {At(s, i).n} \cap X
    BY <1>1, <1>4, SpanOne
  <2> QED
    BY <1>4, <2>1
<1>6. /\ F.ctx \in LinesOf(D) /\ Len(F.ctx) = 1 /\ F.ctx[1] = line
      /\ Sound(F.ctx, X) /\ Left(F.ctx, 0, X) = {line.n} \cap X
  BY <1>1, <1>3, OneLine
<1>7. NumbersOf(F.ctx) \cap X = Left(F.ctx, 0, X)
  BY <1>6, NumbersAreLeft
<1> QED
  BY <1>1, <1>2, <1>5, <1>6, <1>7 DEF X, D, s, line, i

\* TextIndent: the term is held, and the machine of the definition owes the block.
LEMMA TextIndentOnce ==
    ASSUME Ready, TextIndent
    PROVE  Ledger'
<1> DEFINE X == TextLines
           mode == "unknown"
           until == FALSE
           S == {"Text"}
           T == {"indent"}
           b == DefinitionBlock
           f == [BackToBody(F) EXCEPT !.off = b.last]
           then == [Then("first", b.finish) EXCEPT !.state = "DefinitionList", !.node = NextNode]
           node == NextNode + 1
           H == NumbersOf(F.ctx)
           list == <<Node("definition_list", F.node, {})>>
           item == DefinitionItem(NextNode, NextNode + 1)
<1>1. Sees(S, T)
  BY Zenon DEF TextIndent
<1>2. /\ doc' = doc /\ memo' = memo /\ error' = error /\ dropped' = dropped
      /\ NestedParse(f, b.lines, b.off, node, until, then)
      /\ tree' = tree \o list \o item
  BY Zenon DEF TextIndent
<1>3. Onward
  BY <1>1, <1>2, SeenOnward
<1>4. F.state = "Text" /\ Transition = "indent" /\ DOMAIN F = MachineFields
  <2>1. F.state \in S /\ Transition \in T /\ DOMAIN F = MachineFields
    BY <1>1, <1>3, SeenText, Zenon
  <2> QED
    BY <2>1
<1>5. F.state \in TextStates /\ F.state # "SubstitutionDef" /\ F.state \in BodyStates
  BY <1>4 DEF TextStates, BodyStates
<1>6. Line.ind > 0
  BY <1>1, <1>3, <1>4, SeenAs, Zenon
<1>7. mode \in Modes /\ mode = "unknown" /\ until \in BOOLEAN /\ ~until
  BY DEF Modes
<1>8. then.k = "first" /\ then.state # "SubstitutionDef" /\ F.node <= then.node
  <2>1. then.k = "first" /\ then.state # "SubstitutionDef" /\ then.node = NextNode
    BY DEF Then
  <2> QED
    BY <1>1, <1>3, <2>1, SeenNext
<1>9. H \cap X = Span(F.lines, Begins(F), F.off, X)
  BY <1>1, <1>3, <1>5, SeenTerm, Zenon
<1>10. Grown(H, H \cap X)
  <2>1. Silent(list)
    BY SilentNodes, Zenon
  <2>2. Tells(item, H, H \cap X, X)
    BY ItemTells, Zenon
  <2>3. IsSeq(tree) /\ IsSeq(list) /\ IsSeq(item)
    BY <1>3, <2>1, <2>2, TreeSeq, Zenon DEF Silent, Tells
  <2> HIDE DEF list, item, H
  <2>4. Tells(list \o item, H, H \cap X, X)
    BY <2>1, <2>2, SilentFirst
  <2>5. tree' = tree \o (list \o item)
    BY <1>2, <2>3, ConcatAssociative DEF IsSeq
  <2> HIDE DEF X
  <2> QED
    BY <2>4, <2>5, Zenon DEF Grown, X
<1>11. node \in Nat /\ F.node <= node
  BY <1>1, <1>3, SeenNext, Zenon
<1>12. Alike(F, f, X) /\ f.off = b.last
  <2>1. DOMAIN f = MachineFields /\ Keeps(F, f) /\ f.state = "Body" /\ f.off = b.last
    BY ONLY <1>4, Zenon DEF BackToBody, Keeps, MachineFields
  <2> HIDE DEF f
  <2> QED
    BY <1>4, <1>5, <2>1, AlikeBody
<1>13. b = IndentedBlock(F.lines, F.off, F.base, mode, until)
  BY Zenon DEF DefinitionBlock
<1>14. NestedParse(f, b.lines, b.off, node, FALSE, then)
  BY <1>2, Zenon
<1> HIDE DEF mode, until, S, T, b, f, then, node, H
<1>15. then.k \in {"nothing", "first", "construct"}
  BY <1>8
<1> QED
  BY <1>1, <1>2, <1>3, <1>5, <1>6, <1>7, <1>8, <1>9, <1>10, <1>11, <1>12, <1>13, <1>14, <1>15,
     SeenBlockParse

\* A machine in a state that is none of the body's, which goes to another such state.
LEMMA AlikeOther ==
    ASSUME NEW X, NEW f, DOMAIN f = MachineFields,
           f.state \notin BodyStates \cup {"SubstitutionDef"},
           NEW g, DOMAIN g = MachineFields, Keeps(f, g),
           g.state \notin BodyStates \cup {"SubstitutionDef"}
    PROVE  Alike(f, g, X)
<1>1. g.state \notin BodyStates /\ g.state # "SubstitutionDef" /\ g.state # "Line"
      /\ f.state # "SubstitutionDef" /\ f.state \notin BodyStates
  BY DEF BodyStates
<1>2. Like(f, g)
  BY <1>1, Zenon DEF Like
<1> QED
  BY <1>1, <1>2, Zenon DEF Alike

\* DefinitionIndent: the same for another item.
LEMMA DefinitionIndentOnce ==
    ASSUME Ready, DefinitionIndent
    PROVE  Ledger'
<1> DEFINE X == TextLines
           mode == "unknown"
           until == FALSE
           yes == TRUE
           S == {"Definition"}
           T == {"indent"}
           b == DefinitionBlock
           f == [F EXCEPT !.off = b.last, !.state = "DefinitionList", !.ctx = <<>>,
                          !.finish = b.finish]
           then == Then("nothing", yes)
           node == NextNode
           H == NumbersOf(F.ctx)
           item == DefinitionItem(F.node, NextNode)
<1>1. Sees(S, T)
  BY Zenon DEF DefinitionIndent
<1>2. /\ doc' = doc /\ memo' = memo /\ error' = error /\ dropped' = dropped
      /\ NestedParse(f, b.lines, b.off, node, until, then)
      /\ tree' = tree \o item
  BY Zenon DEF DefinitionIndent
<1>3. Onward
  BY <1>1, <1>2, SeenOnward
<1>4. F.state = "Definition" /\ Transition = "indent" /\ DOMAIN F = MachineFields
  <2>1. F.state \in S /\ Transition \in T /\ DOMAIN F = MachineFields
    BY <1>1, <1>3, SeenText, Zenon
  <2> QED
    BY <2>1
<1>5. F.state \in TextStates /\ F.state \notin BodyStates \cup {"SubstitutionDef"}
  BY <1>4 DEF TextStates, BodyStates
<1>6. Line.ind > 0
  BY <1>1, <1>3, <1>4, SeenAs, Zenon
<1>7. mode \in Modes /\ mode = "unknown" /\ until \in BOOLEAN /\ ~until
  BY DEF Modes
<1>8. then.k = "nothing"
  BY DEF Then
<1>9. H \cap X = Span(F.lines, Begins(F), F.off, X)
  BY <1>1, <1>3, <1>5, SeenTerm, Zenon
<1>10. Grown(H, H \cap X)
  <2>1. Tells(item, H, H \cap X, X)
    BY ItemTells, Zenon
  <2> QED
    BY <1>2, <2>1, Zenon DEF Grown
<1>11. node \in Nat /\ F.node <= node
  BY <1>1, <1>3, SeenNext, Zenon
<1>12. Alike(F, f, X) /\ f.off = b.last
  <2>1. DOMAIN f = MachineFields /\ Keeps(F, f) /\ f.state = "DefinitionList" /\ f.off = b.last
    BY ONLY <1>4, Zenon DEF Keeps, MachineFields
  <2> HIDE DEF f
  <2>2. f.state \notin BodyStates \cup {"SubstitutionDef"}
    BY <2>1 DEF BodyStates
  <2> QED
    BY <1>4, <1>5, <2>1, <2>2, AlikeOther
<1>13. b = IndentedBlock(F.lines, F.off, F.base, mode, until)
  BY Zenon DEF DefinitionBlock
<1>14. NestedParse(f, b.lines, b.off, node, FALSE, then)
  BY <1>2, Zenon
<1> HIDE DEF mode, until, S, T, b, f, then, node, H
<1>15. then.k \in {"nothing", "first", "construct"} /\ then.k # "first"
       /\ F.state # "SubstitutionDef"
  BY <1>5, <1>8
<1> QED
  BY <1>1, <1>2, <1>3, <1>6, <1>7, <1>9, <1>10, <1>11, <1>12, <1>13, <1>14, <1>15,
     SeenBlockParse

\* Doctest: the block is held.
LEMMA DoctestOnce ==
    ASSUME Ready, Doctest
    PROVE  Ledger'
<1> DEFINE X == TextLines
           S == {"Body"}
           T == {"doctest"}
           flush == FALSE
           end == TextBlockEnd(F.lines, F.off, flush)
           off == end - 1
           f == [F EXCEPT !.off = off]
           kind == "doctest_block"
           H == NumbersOf(Slice(F.lines, F.off, end))
<1>1. /\ Sees(S, T) /\ frames' = Append(Below, f)
      /\ tree' = tree \o <<Node(kind, F.node, H)>>
      /\ doc' = doc /\ memo' = memo /\ error' = error /\ dropped' = dropped
  BY Zenon DEF Doctest, Continue, Goes, Same
<1>2. Onward
  BY <1>1, SeenOnward
<1>3. S \cap (TextStates \cup {"SubstitutionDef"}) = {} /\ T \cap {"blank", "indent", "text"} = {}
  BY DEF TextStates
<1>4. F.state \notin TextStates \cup {"SubstitutionDef"}
  BY <1>1, <1>2, <1>3, SeenMark
<1>5. Alike(F, f, X) /\ f.off = off /\ f.phase = "run" /\ f.state = F.state
  BY <1>1, <1>2, SeenOff, Zenon
<1>6. F.lines \in LinesOf(DOMAIN doc) /\ Sound(F.lines, X) /\ F.off \in Nat /\ F.off < Len(F.lines)
  BY <1>1, <1>2, SeenText, Zenon
<1>7. Begins(F) = F.off
  BY <1>2, <1>4, NothingBefore
<1> HIDE DEF flush
<1>8. end \in Int /\ F.off <= end /\ off \in Int /\ off + 1 = end
  BY <1>6, TextBlockRange
<1>9. kind \notin Levels
  BY DEF Levels
<1>10. Grown(H, H \cap X)
  BY <1>1, <1>2, <1>9, GrownNode, Zenon DEF Onward
<1> HIDE DEF end
<1>11. H \cap X = Span(F.lines, F.off, end, X)
  BY <1>6, <1>8, NumbersAreSpan
<1> HIDE DEF f, H, off, S, T
<1>12. Begins(F) <= f.off + 1 /\ f.off \in Int
  BY <1>5, <1>7, <1>8
<1>13. H \cap X = Span(F.lines, Begins(F), f.off + 1, X)
  BY <1>5, <1>7, <1>8, <1>11
<1> DEFINE U == H \cap X
<1>14. U \subseteq H \cup dropped'
  OBVIOUS
<1> HIDE DEF U
<1> QED
  BY <1>1, <1>2, <1>4, <1>5, <1>10, <1>12, <1>13, <1>14, SeenOn DEF U

\* A list machine takes over the lines its caller has not read.
TakesOver(f, g) ==
    /\ Unstarted(g) /\ g.lines = From(f.lines, f.off + 1)
    /\ g.then.k \in {"list", "section"} /\ g.state # "SubstitutionDef"

\* A machine that takes over what is left of another's lines owes just that.
LEMMA ListOwes ==
    ASSUME NEW D, NEW f, f.lines \in LinesOf(D), f.off \in Int, f.off >= -1, MachineIn(f, TextLines),
           f.state = "SubstitutionDef" => Left(f.lines, f.off + 1, TextLines) = {},
           NEW g, TakesOver(f, g), NEW n
    PROVE  /\ MachineIn(g, TextLines) /\ TopIn(g, n, TextLines) /\ WaitIn(f, g, TextLines)
           /\ Waits(f, g, TextLines) = {} /\ Later(g, TextLines) = {}
           /\ Owed(g, TextLines) = Left(f.lines, f.off + 1, TextLines)
<1> DEFINE X == TextLines
           i == f.off + 1
<1>1. Sound(f.lines, X) /\ (f.then.k = "substitution" => Left(f.lines, i, X) = {}) /\ i \in Nat
  <2>1. Sound(f.lines, X) /\ (f.then.k = "substitution" => Left(f.lines, i, X) = {})
    BY Zenon DEF MachineIn
  <2> QED
    BY <2>1
<1>2. /\ g.lines = From(f.lines, i) /\ Unstarted(g) /\ g.then.k \in {"list", "section"}
      /\ g.state # "SubstitutionDef"
  BY Zenon DEF TakesOver
<1> HIDE DEF X, i
<1>3. Sound(g.lines, X) /\ Left(g.lines, 0, X) = Left(f.lines, i, X)
  BY <1>1, <1>2, FromLeft
<1>4. g.then.k \notin {"substitution", "root"} /\ g.then.k # "argument" /\ g.then.k # "first"
      /\ g.then.k # "replace" /\ g.then.k \in {"section", "list"}
  BY <1>2
<1>5. MachineIn(g, X) /\ TopIn(g, n, X) /\ Owed(g, X) = Left(g.lines, 0, X)
  BY <1>2, <1>3, <1>4, FreshIn, Zenon
<1>6. WaitIn(f, g, X)
  BY <1>1, <1>2, <1>4 DEF WaitIn, i
<1>7. Waits(f, g, X) = {} /\ Later(g, X) = {}
  BY <1>4, Zenon DEF Waits, Later
<1> QED
  BY <1>3, <1>5, <1>6, <1>7 DEF X, i

\* The lines a step has read are spent.
LEMMA SeenSpends ==
    ASSUME Onward, NEW S, NEW T, Sees(S, T), NEW off \in Int, Begins(F) <= off + 1, NEW H, NEW U,
           NEW Y, Y = Span(F.lines, Begins(F), off + 1, TextLines),
           Y \subseteq H \cup dropped', ~reread' => U \subseteq Y
    PROVE  Spends(Left(F.lines, Begins(F), TextLines), Left(F.lines, off + 1, TextLines), H, U)
<1> DEFINE from == Begins(F)
           end == off + 1
<1>1. F.lines \in LinesOf(DOMAIN doc) /\ Sound(F.lines, TextLines) /\ Begins(F) \in Nat
  BY SeenText, Zenon
<1>2. from \in Int /\ end \in Int /\ from <= end /\ Single(F.lines)
  BY <1>1 DEF Sound
<1>3. Y = Span(F.lines, from, end, TextLines)
  OBVIOUS
<1> HIDE DEF from, end
<1>4. /\ Left(F.lines, from, TextLines) = Y \cup Left(F.lines, end, TextLines)
      /\ Y \cap Left(F.lines, end, TextLines) = {}
  BY <1>1, <1>2, <1>3, SpanSplit
<1>5. Spends(Left(F.lines, from, TextLines), Left(F.lines, end, TextLines), H, U)
  BY <1>4 DEF Spends
<1> QED
  BY <1>5 DEF from, end

\* A step that starts a list machine over the lines behind those it has read.
LEMMA SeenTakesOver ==
    ASSUME Onward, NEW S, NEW T, Sees(S, T), NEW f, NEW g, frames' = Below \o <<f, g>>,
           F.state # "SubstitutionDef",
           Alike(F, f, TextLines), f.off \in Int, Begins(F) <= f.off + 1, TakesOver(f, g),
           g.node \in Nat, F.node <= g.node,
           memo'.level # 0 <=> memo.level # 0 \/ IsSection(g),
           IsSection(g) => (g.then.level # 0 <=> memo.level # 0), NEW H, NEW U, Grown(H, U),
           NEW Y, Y = Span(F.lines, Begins(F), f.off + 1, TextLines),
           Y \subseteq H \cup dropped', ~reread' => U \subseteq Y
    PROVE  Ledger'
<1> DEFINE X == TextLines
           P == {}
           Q == Left(F.lines, f.off + 1, X)
           R == {}
<1>1. /\ F.lines \in LinesOf(DOMAIN doc) /\ Begins(F) \in Nat
      /\ MachineIn(F, X) /\ Alike(Top, F, X) /\ Top.phase # "over"
      /\ Owed(Top, X) = Left(F.lines, Begins(F), X)
  <2>1. /\ F.lines \in LinesOf(DOMAIN doc) /\ Begins(F) \in Nat
        /\ MachineIn(F, X) /\ Alike(Top, F, X) /\ Top.phase = "run"
        /\ Owed(Top, X) = Left(F.lines, Begins(F), X)
    BY SeenText, Zenon
  <2> QED
    BY <2>1
<1>2. MachineIn(f, X) /\ Keeps(F, f) /\ Alike(Top, f, X) /\ f.state # "SubstitutionDef"
  BY <1>1, AlikeIn, AlikeTwice, Zenon DEF Alike
<1>3. f.lines = F.lines /\ f.node = F.node
  BY <1>2 DEF Keeps
<1>4. f.off >= -1 /\ f.lines \in LinesOf(DOMAIN doc)
  BY <1>1, <1>3
<1>5. /\ MachineIn(g, X) /\ TopIn(g, Len(tree'), X) /\ WaitIn(f, g, X)
      /\ P = Waits(f, g, X) /\ R = Later(g, X) /\ Q = Owed(g, X)
  BY <1>2, <1>3, <1>4, ListOwes, Zenon
<1>6. Spends(Left(F.lines, Begins(F), X), Q, H, U)
  BY SeenSpends
<1>7. Q \subseteq Owed(Top, X)
  <2> DEFINE from == Begins(F)
             end == f.off + 1
  <2>1. from \in Int /\ end \in Int /\ from <= end
    BY <1>1
  <2> HIDE DEF from, end
  <2>2. Left(F.lines, end, X) \subseteq Left(F.lines, from, X)
    BY <1>1, <2>1, SpanSplit
  <2> QED
    BY <1>1, <2>2 DEF from, end
<1>8. g.then.k # "replace" /\ g.then.k \notin {"replace", "substitution"}
  BY DEF TakesOver
<1> HIDE DEF Q, X
<1>9. Spends(Owed(Top, X), P \cup Q \cup R, H, U) /\ Split3(Owed(Top, X), P, Q, R)
  BY <1>1, <1>6, <1>7 DEF Split3
<1>10. PICK nodes : tree' = tree \o nodes /\ Tells(nodes, H, U, X)
  BY Zenon DEF Grown, X
<1>11. f.node <= g.node
  BY <1>3
<1> HIDE DEF P, R
<1> QED
  BY <1>1, <1>2, <1>5, <1>8, <1>9, <1>10, <1>11, LedgerNest DEF X

\* A list machine over the lines behind a construct.
LEMMA SeenList ==
    ASSUME Onward, NEW S, NEW T, Sees(S, T), NEW f, NEW g, frames' = Below \o <<f, g>>,
           F.state # "SubstitutionDef",
           Alike(F, f, TextLines), f.off \in Int, Begins(F) <= f.off + 1, TakesOver(f, g),
           g.then.k = "list", g.node \in Nat, F.node <= g.node,
           memo'.level # 0 <=> memo.level # 0, NEW H, NEW U, Grown(H, U),
           NEW Y, Y = Span(F.lines, Begins(F), f.off + 1, TextLines),
           Y \subseteq H \cup dropped', ~reread' => U \subseteq Y
    PROVE  Ledger'
<1>1. ~IsSection(g)
  BY DEF IsSection
<1> QED
  BY <1>1, SeenTakesOver

\* The end of a construct: what comes behind it is owed by the machine, or by the list machine.
LEMMA SeenBuilt ==
    ASSUME Onward, NEW S, NEW T, Sees(S, T), F.state \notin TextStates,
           NEW f, Alike(F, f, TextLines), f.state = F.state, f.phase = "run", AnyNext(f),
           NEW finish, frames' = EndConstruct(f, finish, Below),
           f.off \in Int, Begins(F) <= f.off + 1,
           F.state = "SubstitutionDef" => Left(F.lines, f.off + 1, TextLines) = {},
           memo'.level # 0 <=> memo.level # 0, NEW H, NEW U, Grown(H, U),
           NEW Y, Y = Span(F.lines, Begins(F), f.off + 1, TextLines),
           Y \subseteq H \cup dropped', ~reread' => U \subseteq Y
    PROVE  Ledger'
<1> DEFINE X == TextLines
<1>1. MachineIn(F, X) /\ MachineIn(f, X) /\ Keeps(F, f) /\ DOMAIN f = MachineFields
      /\ F.node \in Nat
  <2>1. MachineIn(F, X) /\ F.node \in 0 .. Len(tree)
    BY SeenText, Zenon
  <2>2. MachineIn(f, X) /\ Keeps(F, f) /\ DOMAIN f = MachineFields
    BY <2>1, AlikeIn, Zenon DEF Alike, Like
  <2> QED
    BY <2>1, <2>2
<1>2. f.lines = F.lines /\ f.then = F.then /\ f.node = F.node
  BY <1>1 DEF Keeps
<1>3. CASE f.state = "Explicit"
  <2> DEFINE g == [f EXCEPT !.finish = finish]
  <2>1. frames' = Append(Below, g)
    BY <1>3 DEF EndConstruct
  <2>2. DOMAIN g = MachineFields /\ Keeps(f, g) /\ g.state = f.state /\ g.ctx = f.ctx
        /\ g.only = f.only /\ g.off = f.off /\ g.phase = f.phase
    BY ONLY <1>1, Zenon DEF Keeps, MachineFields
  <2> HIDE DEF g
  <2>3. Alike(f, g, X)
    BY <1>1, <2>2, AlikeStill, Zenon
  <2>4. Alike(F, g, X)
    BY <2>3, AlikeTwice, Zenon
  <2>5. g.state \notin TextStates \cup {"SubstitutionDef"}
    BY <1>3, <2>2
  <2> QED
    BY <2>1, <2>2, <2>4, <2>5, SeenOn
<1>4. CASE f.state = "SubstitutionDef"
  <2> DEFINE h == [f EXCEPT !.finish = IF HasLine(f, f.off + 1) THEN finish ELSE @]
             g == Ended(h)
  <2>1. frames' = Append(Below, g)
    BY <1>4 DEF EndConstruct
  <2>2. DOMAIN h = MachineFields /\ Keeps(f, h) /\ h.state = f.state /\ h.ctx = f.ctx
        /\ h.only = f.only /\ h.off = f.off
    BY ONLY <1>1, Zenon DEF Keeps, MachineFields
  <2> HIDE DEF h
  <2>3. DOMAIN g = MachineFields /\ Keeps(f, g) /\ g.state = f.state /\ g.ctx = f.ctx
        /\ g.only = f.only /\ g.off = f.off /\ g.phase = "over"
    BY <2>2, Zenon DEF Keeps, MachineFields, Ended
  <2> HIDE DEF g
  <2>4. Alike(f, g, X)
    BY <1>1, <2>3, AlikeStill, Zenon
  <2>5. Alike(F, g, X)
    BY <2>4, AlikeTwice, Zenon
  <2>6. g.lines = F.lines /\ g.then = F.then /\ g.off + 1 = f.off + 1
    BY <1>2, <2>3 DEF Keeps
  <2> DEFINE end == f.off + 1
             rest == Left(F.lines, end, X)
  <2>7. rest = {}
    BY <1>4
  <2>8. Owed(g, X) = rest
    <3>1. Resume(g) = g.off + 1
      BY <1>4, <2>3 DEF Resume, TextStates
    <3> QED
      BY <2>6, <3>1, Zenon DEF Owed
  <2>9. TopIn(g, Len(tree'), X)
    <3>1. F.then.k = "substitution"
      BY <1>1, <1>4, Zenon DEF MachineIn
    <3>2. g.then.k # "root" /\ g.phase = "over"
      BY <2>3, <2>6, <3>1
    <3>3. Left(g.lines, g.off + 1, X) = {}
      BY <2>6, <2>7, Zenon
    <3> HIDE DEF X
    <3>4. g.phase # "run" /\ g.phase # "eof"
      BY <3>2
    <3> QED
      BY <3>2, <3>3, <3>4, Zenon DEF TopIn
  <2>10. Spends(Left(F.lines, Begins(F), X), rest, H, U)
    BY SeenSpends
  <2> HIDE DEF rest, X
  <2> QED
    BY <2>1, <2>5, <2>8, <2>9, <2>10, SeenGo DEF X
<1>5. CASE f.state \notin {"Explicit", "SubstitutionDef"}
  <2> DEFINE state == "Explicit"
             then == Then("list", finish)
             g == Machine(state, From(f.lines, f.off + 1), AbsOffset(f) + 1, f.node, f.titles, then)
  <2>1. frames' = Below \o <<f, g>>
    BY <1>5 DEF EndConstruct
  <2>2. state \notin TextStates /\ state # "SubstitutionDef" /\ then.k = "list"
    BY DEF TextStates, Then
  <2> HIDE DEF state, then
  <2>3. Unstarted(g) /\ g.state = state /\ g.lines = From(f.lines, f.off + 1) /\ g.then = then
        /\ g.node = f.node
    <3> DEFINE lines == From(f.lines, f.off + 1)
               base == AbsOffset(f) + 1
               node == f.node
               titles == f.titles
    <3>1. g = Machine(state, lines, base, node, titles, then)
      OBVIOUS
    <3> HIDE DEF lines, base, node, titles, g
    <3>2. Unstarted(g) /\ g.state = state /\ g.lines = lines /\ g.then = then /\ g.node = node
      BY ONLY <2>2, <3>1, MadeMachine
    <3> QED
      BY <3>2, Zenon DEF lines, node
  <2> HIDE DEF g
  <2>4. TakesOver(f, g) /\ g.then.k = "list"
    BY <2>2, <2>3 DEF TakesOver
  <2>5. g.node \in Nat /\ F.node <= g.node /\ F.state # "SubstitutionDef"
    BY <1>1, <1>2, <1>5, <2>3
  <2> QED
    BY <2>1, <2>4, <2>5, SeenList
<1> QED
  BY <1>3, <1>4, <1>5

\* LineBlockLine: the lines of a line block are held, the list goes on behind them.
LEMMA LineBlockLineOnce ==
    ASSUME Ready, LineBlockLine
    PROVE  Ledger'
<1> DEFINE X == TextLines
           S == {"Body", "LineBlock"}
           T == {"line_block"}
           mode == "first"
           until == TRUE
           b == IndentedBlock(F.lines, F.off, F.base, mode, until)
           f == [F EXCEPT !.off = b.last]
           e == [f EXCEPT !.finish = b.finish]
           H == NumbersOf(Slice(F.lines, F.off, b.last + 1))
           list == NextNode
           one == <<Node("line", F.node, H)>>
           block == Node("line_block", F.node, {})
           line == Node("line", list, H)
<1>1. Sees(S, T)
  BY Zenon DEF LineBlockLine
<1>2. /\ doc' = doc /\ memo' = memo /\ error' = error /\ dropped' = dropped
      /\ IF F.state = "LineBlock" THEN frames' = Append(Below, e) /\ tree' = tree \o one
         ELSE /\ tree' = tree \o <<block, line>>
              /\ IF b.finish THEN frames' = Append(Below, f)
                 ELSE StartList(f, "LineBlock", list, FALSE, Then("list", FALSE))
  BY Zenon DEF LineBlockLine, Continue, Goes, Same
<1>3. Onward
  BY <1>1, <1>2, SeenOnward
<1>4. S \cap (TextStates \cup {"SubstitutionDef"}) = {} /\ T \cap {"blank", "indent", "text"} = {}
  BY DEF TextStates
<1>5. /\ F.state \notin TextStates /\ F.state # "SubstitutionDef" /\ ~Blank(Line)
      /\ Line.n \in TextLines => Head(Line.m).t # "text"
  BY <1>1, <1>3, <1>4, SeenMark
<1>6. Alike(F, f, X) /\ f.off = b.last /\ f.phase = "run" /\ f.state = F.state /\ AnyNext(f)
      /\ DOMAIN f = MachineFields
  BY <1>1, <1>3, SeenOff, Zenon
<1>7. /\ F.lines \in LinesOf(DOMAIN doc) /\ Sound(F.lines, X) /\ F.off \in Nat /\ F.off < Len(F.lines)
      /\ DOMAIN F = MachineFields /\ MachineIn(F, X) /\ AnyNext(F) /\ Line = F.lines[F.off + 1]
  BY <1>1, <1>3, SeenText, Zenon
<1>8. Begins(F) = F.off
  BY <1>3, <1>5, NothingBefore
<1>9. b.last \in Int /\ F.off <= b.last
  <2>1. mode \in Modes /\ mode # "unknown" /\ mode # "known"
    BY DEF Modes
  <2> DEFINE s == F.lines
             start == F.off
  <2>2. At(s, start) = Line
    BY <1>7 DEF At
  <2>3. s \in LinesOf(DOMAIN doc) /\ Sound(s, X) /\ start \in Nat /\ start < Len(s)
        /\ b = IndentedBlock(s, start, F.base, mode, until)
    BY <1>7
  <2> HIDE DEF mode, until, s, start, X, b
  <2>4. b.last \in Int /\ b.last >= start
    BY <1>5, <2>1, <2>2, <2>3, IndentedLeft DEF X
  <2> QED
    BY <1>7, <2>4 DEF start
<1> HIDE DEF mode, until, b
<1>10. H \cap X = Span(F.lines, F.off, b.last + 1, X)
  <2> DEFINE end == b.last + 1
  <2>1. end \in Int
    BY <1>9
  <2> HIDE DEF end
  <2>2. NumbersOf(Slice(F.lines, F.off, end)) \cap X = Span(F.lines, F.off, end, X)
    BY <1>7, <2>1, NumbersAreSpan
  <2> QED
    BY <2>2 DEF end
<1> DEFINE U == H \cap X
<1>11. "line" \notin Levels
  BY DEF Levels
<1>12. ASSUME tree' = tree \o one \/ tree' = tree \o <<block, line>>
       PROVE  Grown(H, U)
  <2>1. Tells(one, H, U, X) /\ Tells(<<line>>, H, U, X)
    BY <1>11, TellsNode, Zenon
  <2>2. Silent(<<block>>)
    BY SilentNodes, Zenon
  <2> HIDE DEF one, block, line, H, U, X
  <2>3. Tells(<<block>> \o <<line>>, H, U, X)
    BY <2>1, <2>2, SilentFirst DEF X
  <2>4. Tells(<<block, line>>, H, U, X)
    BY <2>3, PairSeq
  <2>5. \A nodes : tree' = tree \o nodes /\ Tells(nodes, H, U, X) => Grown(H, U)
    BY Zenon DEF Grown, X
  <2> QED
    BY <1>12, <2>1, <2>4, <2>5, Zenon
<1>13. U \subseteq H \cup dropped'
  OBVIOUS
<1>14. Begins(F) <= f.off + 1 /\ f.off \in Int
  BY <1>6, <1>7, <1>8, <1>9
<1>15. U = Span(F.lines, Begins(F), f.off + 1, X)
  BY <1>6, <1>8, <1>10
<1>16. F.state \notin TextStates \cup {"SubstitutionDef"}
  BY <1>5
<1> HIDE DEF f, H, U, one, block, line
<1>17. CASE F.state = "LineBlock"
  <2>1. frames' = Append(Below, e) /\ tree' = tree \o one
    BY <1>2, <1>17
  <2>2. DOMAIN e = MachineFields /\ Keeps(f, e) /\ e.state = f.state /\ e.ctx = f.ctx
        /\ e.only = f.only /\ e.off = f.off /\ e.phase = f.phase
    BY ONLY <1>6, Zenon DEF Keeps, MachineFields
  <2> HIDE DEF e
  <2>3. Alike(F, e, X)
    <3>1. MachineIn(f, X)
      BY <1>6, <1>7, AlikeIn, Zenon
    <3>2. Alike(f, e, X)
      BY <1>6, <2>2, <3>1, AlikeStill, Zenon
    <3> QED
      BY <1>6, <3>2, AlikeTwice, Zenon
  <2>4. /\ e.phase = "run" /\ e.state \notin TextStates \cup {"SubstitutionDef"}
        /\ Begins(F) <= e.off + 1 /\ e.off \in Int
        /\ U = Span(F.lines, Begins(F), e.off + 1, X)
        /\ U \subseteq U /\ memo'.level = memo.level
    BY <1>2, <1>6, <1>14, <1>15, <1>16, <2>2
  <2>5. Grown(H, U)
    BY <1>12, <2>1
  <2> QED
    BY <1>1, <1>3, <1>13, <2>1, <2>3, <2>4, <2>5, SeenOn
<1>18. CASE F.state # "LineBlock" /\ b.finish
  <2>1. frames' = Append(Below, f) /\ tree' = tree \o <<block, line>>
    BY <1>2, <1>18
  <2> QED
    BY <1>1, <1>2, <1>3, <1>6, <1>12, <1>13, <1>14, <1>15, <1>16, <2>1, SeenOn
<1>19. CASE F.state # "LineBlock" /\ ~b.finish
  <2> DEFINE state == "LineBlock"
             no == FALSE
             then == Then("list", no)
             lines == From(f.lines, f.off + 1)
             base == AbsOffset(f) + 1
             node == list
             g == Machine(state, lines, base, node, no, then)
  <2>1. frames' = Below \o <<f, g>> /\ tree' = tree \o <<block, line>>
    BY <1>2, <1>19, Zenon DEF StartList
  <2>2. state \notin TextStates /\ state # "SubstitutionDef" /\ then.k = "list"
    BY DEF TextStates, Then
  <2>3. node \in Nat /\ F.node <= node
    BY <1>1, <1>3, SeenNext, Zenon
  <2>4. g = Machine(state, lines, base, node, no, then)
    OBVIOUS
  <2> HIDE DEF state, then, lines, base, node, no, g
  <2>5. Unstarted(g) /\ g.state = state /\ g.lines = lines /\ g.then = then /\ g.node = node
    BY ONLY <2>2, <2>4, MadeMachine
  <2>6. TakesOver(f, g) /\ g.then.k = "list"
    BY <2>2, <2>5 DEF TakesOver, lines
  <2>7. g.node \in Nat /\ F.node <= g.node
    BY <2>3, <2>5
  <2> QED
    BY <1>1, <1>2, <1>3, <1>5, <1>6, <1>12, <1>13, <1>14, <1>15, <2>1, <2>6, <2>7, SeenList
<1> QED
  BY <1>17, <1>18, <1>19

\* The lines of text from the one a machine looks at to another one.
LEMMA NumbersToSpan ==
    ASSUME Onward, NEW S, NEW T, Sees(S, T), NEW last \in Int
    PROVE  NumbersTo(F, last) \cap TextLines = Span(F.lines, F.off, last + 1, TextLines)
<1> DEFINE end == last + 1
           X == TextLines
<1>0. F.lines \in LinesOf(DOMAIN doc) /\ Sound(F.lines, X) /\ F.off \in Nat
  BY SeenText, Zenon
<1>1. F.lines \in LinesOf(DOMAIN doc) /\ Sound(F.lines, X) /\ F.off \in Nat /\ end \in Int
  BY <1>0
<1> HIDE DEF end, X
<1>2. NumbersOf(Slice(F.lines, F.off, end)) \cap X = Span(F.lines, F.off, end, X)
  BY <1>1, NumbersAreSpan
<1> QED
  BY <1>2 DEF NumbersTo, end, X

\* A construct whose lines go to one node.
LEMMA SeenOneNode ==
    ASSUME Onward, NEW S, NEW T, Sees(S, T), F.state \notin TextStates,
           NEW last \in Int, F.off <= last, NEW f, f = [F EXCEPT !.off = last],
           NEW finish, NEW kind, NEW H,
           Construct(f, finish, <<Node(kind, F.node, H)>>),
           H \cap TextLines = Span(F.lines, F.off, last + 1, TextLines),
           F.state = "SubstitutionDef" => Left(F.lines, last + 1, TextLines) = {},
           memo'.level = memo.level
    PROVE  Ledger'
<1> DEFINE X == TextLines
           Y == H \cap X
           U == IF kind \in Levels THEN {} ELSE Y
<1>1. frames' = EndConstruct(f, finish, Below) /\ tree' = tree \o <<Node(kind, F.node, H)>>
  BY Zenon DEF Construct
<1>2. Alike(F, f, X) /\ f.off = last /\ f.phase = "run" /\ f.state = F.state /\ AnyNext(f)
  BY SeenOff, Zenon
<1>3. Begins(F) = F.off
  BY NothingBefore
<1>4. Grown(H, U)
  <2>1. /\ kind \notin Levels => Grown(H, Y)
        /\ kind \in Levels => Grown(H, {})
    BY <1>1, GrownNode, Zenon DEF Onward
  <2> QED
    BY <2>1, Zenon
<1>5. Y \subseteq H \cup dropped' /\ U \subseteq Y
  OBVIOUS
<1>6. Begins(F) <= f.off + 1 /\ f.off \in Int /\ Y = Span(F.lines, Begins(F), f.off + 1, X)
      /\ (F.state = "SubstitutionDef" => Left(F.lines, f.off + 1, X) = {})
  <2>1. F.off \in Nat
    BY SeenText, Zenon
  <2> QED
    BY <1>2, <1>3, <2>1
<1> HIDE DEF Y, U
<1>7. /\ Onward /\ Sees(S, T) /\ F.state \notin TextStates
      /\ memo'.level # 0 <=> memo.level # 0
  OBVIOUS
<1> QED
  BY ONLY <1>1, <1>2, <1>4, <1>5, <1>6, <1>7, SeenBuilt

\* What SeesExplicit says of the line.
LEMMA SeenExplicitMark ==
    ASSUME Onward, NEW cs, SeesExplicit(cs) \/ Sees({"Body", "Explicit"}, {"anonymous"})
    PROVE  /\ \E S, T : Sees(S, T)
           /\ F.state \notin TextStates /\ F.state # "SubstitutionDef" /\ ~Blank(Line)
           /\ Line.n \in TextLines => Head(Line.m).t # "text"
<1> DEFINE S == {"Body", "Explicit"}
<1>1. PICK t \in {"explicit_markup", "anonymous"} : Sees(S, {t})
  BY Zenon DEF SeesExplicit
<1> DEFINE T == {t}
<1>2. S \cap (TextStates \cup {"SubstitutionDef"}) = {} /\ T \cap {"blank", "indent", "text"} = {}
      /\ Sees(S, T)
  BY <1>1 DEF TextStates
<1> HIDE DEF S, T
<1>3. /\ F.state \notin TextStates /\ F.state # "SubstitutionDef" /\ ~Blank(Line)
      /\ Line.n \in TextLines => Head(Line.m).t # "text"
  BY <1>2, SeenMark
<1> QED
  BY <1>2, <1>3, Zenon

\* Comment: the lines of a comment are held.
LEMMA CommentOnce ==
    ASSUME Ready, Comment
    PROVE  Ledger'
<1> DEFINE X == TextLines
           cs == {"comment"}
           whole == FALSE
           c == CommentAt(F, whole)
           f == [F EXCEPT !.off = c.last]
           last == c.last
           kind == "comment"
           H == c.of
           finish == c.finish
<1>1. /\ SeesExplicit(cs)
      /\ Construct(f, finish, <<Node(kind, F.node, H)>>)
      /\ doc' = doc /\ memo' = memo /\ error' = error /\ dropped' = dropped
  BY Zenon DEF Comment, Same
<1>2. PICK S, T : Sees(S, T)
  BY <1>1, Zenon DEF SeesExplicit
<1>3. Onward
  BY <1>1, <1>2, SeenOnward
<1>4. F.state \notin TextStates /\ F.state # "SubstitutionDef" /\ ~Blank(Line)
  BY <1>1, <1>3, SeenExplicitMark
<1>5. /\ last \in Int /\ F.off <= last
      /\ H \cap X = Span(F.lines, F.off, last + 1, X)
  <2> DEFINE mode == "first"
             until == FALSE
             b == IndentedBlock(F.lines, F.off, F.base, mode, until)
  <2>1. F.off \in Nat /\ Line = F.lines[F.off + 1]
    BY <1>2, <1>3, SeenText, Zenon
  <2>2. c = [last |-> F.off, finish |-> TRUE, of |-> {Line.n}]
        \/ c = [last |-> b.last, finish |-> b.finish, of |-> NumbersTo(F, b.last)]
    BY Zenon DEF CommentAt, FirstKnown, Line
  <2>3. b.last \in Int /\ F.off <= b.last
    <3>1. mode \in Modes /\ mode # "known" /\ Stack
      BY <1>3 DEF Modes, Onward
    <3> HIDE DEF mode, until
    <3> QED
      BY <1>2, <3>1, SeenBlock
  <2> DEFINE end == b.last
  <2> HIDE DEF b, c, X
  <2>4. CASE c = [last |-> F.off, finish |-> TRUE, of |-> {Line.n}]
    <3>1. c.last = F.off /\ c.of = {Line.n}
      BY <2>4, Zenon
    <3>2. Span(F.lines, F.off, F.off + 1, X) = {Line.n} \cap X
      BY <1>2, <1>3, SeenLeft, Zenon DEF X
    <3> QED
      BY <2>1, <3>1, <3>2
  <2>5. CASE c = [last |-> b.last, finish |-> b.finish, of |-> NumbersTo(F, b.last)]
    <3>1. c.last = end /\ c.of = NumbersTo(F, end)
      BY <2>5, Zenon
    <3> HIDE DEF end
    <3>2. NumbersTo(F, end) \cap X = Span(F.lines, F.off, end + 1, X)
      BY <1>2, <1>3, <2>3, NumbersToSpan DEF X, end
    <3> QED
      BY <2>3, <3>1, <3>2 DEF end
  <2> QED
    BY <2>2, <2>4, <2>5
<1>6. f = [F EXCEPT !.off = last]
  OBVIOUS
<1> HIDE DEF H, last, finish, kind, f, c
<1> QED
  BY <1>1, <1>2, <1>3, <1>4, <1>5, <1>6, SeenOneNode

\* The block of a directive, which in a substitution definition is all that is left.
LEMMA SeenHere ==
    ASSUME Onward, NEW S, NEW T, Sees(S, T), NEW b, b = GetIndented(F.lines, F.off, "first", FALSE)
    PROVE  /\ b.last \in Int /\ F.off <= b.last /\ b.last < Len(F.lines)
           /\ NumbersTo(F, b.last) \cap TextLines = Span(F.lines, F.off, b.last + 1, TextLines)
           /\ F.state = "SubstitutionDef" => Left(F.lines, b.last + 1, TextLines) = {}
<1> DEFINE until == FALSE
           X == TextLines
           s == F.lines
           start == F.off
           last == b.last
<1>1. /\ s \in LinesOf(DOMAIN doc) /\ start \in Nat /\ start < Len(s) /\ Len(s) \in Nat
      /\ MachineIn(F, X)
  BY SeenText, Zenon
<1>2. Stack /\ b = GetIndented(F.lines, F.off, "first", until)
  BY DEF Onward
<1> HIDE DEF until, X
<1>3. last \in Int /\ start <= last /\ last < Len(s)
  BY <1>2, SeenIndented
<1>4. NumbersTo(F, last) \cap X = Span(s, start, last + 1, X)
  <2> HIDE DEF last
  <2> QED
    BY <1>3, NumbersToSpan DEF X
<1>5. ASSUME F.state = "SubstitutionDef"
      PROVE  Left(s, last + 1, X) = {}
  <2>1. \A k \in 2 .. Len(s) : Blank(s[k]) \/ s[k].ind > 0
    BY <1>1, <1>5, Zenon DEF MachineIn
  <2> DEFINE mode == "first"
             no == FALSE
  <2>2. mode \in {"first", "unknown"} /\ mode # "unknown" /\ b = GetIndented(s, start, mode, no)
    BY <1>2 DEF until
  <2>3. GetIndented(s, start, mode, FALSE).last = Len(s) - 1
    <3> HIDE DEF s, start, mode
    <3> QED
      BY <1>1, <2>1, <2>2, BlockToEnd
  <2> DEFINE end == last + 1
  <2>6. last = Len(s) - 1
    BY <2>3, Zenon
  <2>4. end \in Int /\ Len(s) <= end
    <3> HIDE DEF last
    <3> QED
      BY <1>1, <1>3, <2>6
  <2> HIDE DEF s, end
  <2>5. Left(s, end, X) = {}
    BY <1>1, <2>4, LeftPast
  <2> QED
    BY <2>5 DEF end
<1> QED
  BY <1>3, <1>4, <1>5 DEF X

\* Target: the lines of a target are held.
LEMMA TargetOnce ==
    ASSUME Ready, Target
    PROVE  Ledger'
<1> DEFINE X == TextLines
           cs == {"target"}
           mode == "first"
           until == TRUE
           b == IndentedBlock(F.lines, F.off, F.base, mode, until)
           f == [F EXCEPT !.off = b.last]
           last == b.last
           kind == "target"
           H == NumbersTo(F, last)
           finish == b.finish
<1>1. /\ SeesExplicit(cs) \/ Sees({"Body", "Explicit"}, {"anonymous"})
      /\ Construct(f, finish, <<Node(kind, F.node, H)>>)
      /\ doc' = doc /\ memo' = memo /\ error' = error /\ dropped' = dropped
  BY Zenon DEF Target, Same, FirstKnown
<1>2. PICK S, T : Sees(S, T)
  BY <1>1, Zenon DEF SeesExplicit
<1>3. Onward
  BY <1>1, <1>2, SeenOnward
<1>4. F.state \notin TextStates /\ F.state # "SubstitutionDef" /\ ~Blank(Line)
  BY <1>1, <1>3, SeenExplicitMark
<1>5. last \in Int /\ F.off <= last
  <2>1. mode \in Modes /\ mode # "known" /\ Stack
    BY <1>3 DEF Modes, Onward
  <2> HIDE DEF mode, until
  <2> QED
    BY <1>2, <2>1, SeenBlock
<1>6. f = [F EXCEPT !.off = last]
  OBVIOUS
<1> HIDE DEF last, finish, kind, f, b
<1>7. H \cap X = Span(F.lines, F.off, last + 1, X)
  BY <1>2, <1>3, <1>5, NumbersToSpan
<1> HIDE DEF H
<1> QED
  BY <1>1, <1>2, <1>3, <1>4, <1>5, <1>6, <1>7, SeenOneNode

\* UnknownDirective: the lines of an unknown directive are quoted by a message.
LEMMA UnknownDirectiveOnce ==
    ASSUME Ready, UnknownDirective
    PROVE  Ledger'
<1> DEFINE X == TextLines
           cs == {"unknown directive"}
           b == GetIndented(F.lines, F.off, "first", FALSE)
           f == [F EXCEPT !.off = b.last]
           last == b.last
           kind == "error"
           H == NumbersTo(F, last)
           finish == b.finish
           not == Head(Line.m).c \in NoDirective
<1>1. /\ SeesExplicit(cs) \/ (Sees({"SubstitutionDef"}, {"embedded_directive"}) /\ not)
      /\ Construct(f, finish, <<Node(kind, F.node, H)>>)
      /\ doc' = doc /\ memo' = memo /\ error' = error /\ dropped' = dropped
  BY Zenon DEF UnknownDirective, Same, Message
<1> HIDE DEF cs, not, last, finish, kind, f, b, H
<1>2. PICK S, T : Sees(S, T) /\ S \cap TextStates = {}
  BY <1>1, SeenDirectiveOrNot, Zenon
<1>3. Onward
  BY <1>1, <1>2, SeenOnward
<1>4. F.state \notin TextStates
  <2>1. F.state \in S
    BY <1>2, <1>3, SeenText, Zenon
  <2> QED
    BY <1>2, <2>1
<1>5. /\ last \in Int /\ F.off <= last /\ H \cap X = Span(F.lines, F.off, last + 1, X)
      /\ F.state = "SubstitutionDef" => Left(F.lines, last + 1, X) = {}
  <2>1. b = GetIndented(F.lines, F.off, "first", FALSE)
    BY DEF b
  <2> QED
    BY <1>2, <1>3, <2>1, SeenHere, Zenon DEF last, H
<1>6. f = [F EXCEPT !.off = last]
  BY DEF f, last
<1> QED
  BY <1>1, <1>2, <1>3, <1>4, <1>5, <1>6, SeenOneNode

\* What reads as a directive is no text.
LEMMA SeenEmbedded ==
    ASSUME Onward, Sees({"SubstitutionDef"}, {"embedded_directive"}), Head(Line.m).c \notin NoDirective
    PROVE  F.state = "SubstitutionDef" /\ ~Blank(Line) /\ Head(Line.m).t # "text"
<1> DEFINE S == {"SubstitutionDef"}
           T == {"embedded_directive"}
           t == "embedded_directive"
<1>1. /\ F.state \in S /\ F.state = Top.state /\ Transition \in T
      /\ MachineIn(Top, TextLines) /\ Proper(Line, TextLines) /\ Line = F.lines[F.off + 1]
      /\ F.lines \in LinesOf(DOMAIN doc) /\ F.off \in Nat /\ F.off < Len(F.lines)
  <2>1. Sees(S, T)
    OBVIOUS
  <2> HIDE DEF S, T
  <2> QED
    BY <2>1, SeenText, TopOwes, Zenon
<1>2. F.state = "SubstitutionDef" /\ Top.state = "SubstitutionDef" /\ Transition = t
  BY <1>1
<1>3. AnyNext(Top)
  BY <1>1, <1>2, Zenon DEF MachineIn
<1>4. Line.m \in Seq(MarkType)
  <2> DEFINE s == F.lines
             k == F.off + 1
  <2>1. s \in LinesOf(DOMAIN doc) /\ k \in 1 .. Len(s) /\ Line = s[k]
    BY <1>1
  <2> HIDE DEF s, k
  <2>2. Line \in LineOf(DOMAIN doc)
    BY <2>1 DEF LinesOf
  <2> HIDE DEF Line
  <2> QED
    BY <2>2 DEF LineOf
<1>5. t # "blank" /\ t # "indent" /\ t # "text" /\ F.state \notin TextStates
  BY <1>2 DEF TextStates
<1>6. ~Blank(Line) /\ Head(Line.m).c \in DOMAIN Directives \cup NoDirective
  BY <1>2, <1>3, <1>5, Zenon DEF Transition, AnyNext
<1>7. 1 \in 1 .. Len(Line.m) /\ Line.m[1] = Head(Line.m)
  BY <1>4, <1>6 DEF Blank
<1>8. Head(Line.m).c \in DOMAIN Directives
  BY <1>6
<1> QED
  BY <1>1, <1>2, <1>6, <1>7, <1>8, Zenon DEF Proper

\* The block of a directive, and what it is divided into.
LEMMA SeenDirective ==
    ASSUME Onward, SeesDirective
    PROVE  /\ \E S, T : Sees(S, T)
           /\ F.state \notin TextStates /\ AtEnd = [F EXCEPT !.off = Here.last]
           /\ Here.last \in Int /\ F.off <= Here.last
           /\ NumbersTo(F, Here.last) \cap TextLines
              = Span(F.lines, F.off, Here.last + 1, TextLines)
           /\ F.state = "SubstitutionDef" => Left(F.lines, Here.last + 1, TextLines) = {}
           /\ Parted(Parsed, Span(F.lines, F.off, Here.last + 1, TextLines), TextLines)
<1> DEFINE X == TextLines
<1>1. PICK S, T : Sees(S, T) /\ F.state \notin TextStates
  BY DirectiveSeen, Zenon DEF Onward
<1>2. Line.n \in X => Head(Line.m).t # "text"
  <2> DEFINE cs == DOMAIN Directives
             not == Head(Line.m).c \notin NoDirective
  <2>1. CASE SeesExplicit(cs)
    <3> HIDE DEF cs
    <3> QED
      BY <2>1, SeenExplicitMark
  <2>2. CASE Sees({"SubstitutionDef"}, {"embedded_directive"}) /\ not
    BY <2>2, SeenEmbedded, Zenon
  <2> QED
    BY <2>1, <2>2, Zenon DEF SeesDirective
<1> DEFINE b == Here
           mode == "first"
           until == FALSE
           s == F.lines
           start == F.off
<1>3. b = GetIndented(s, start, mode, until)
  BY Zenon DEF Here
<1>4. /\ b.last \in Int /\ F.off <= b.last
      /\ NumbersTo(F, b.last) \cap X = Span(F.lines, F.off, b.last + 1, X)
      /\ F.state = "SubstitutionDef" => Left(F.lines, b.last + 1, X) = {}
  <2>1. b = GetIndented(F.lines, F.off, "first", FALSE)
    BY <1>3
  <2> HIDE DEF b
  <2> QED
    BY <1>1, <2>1, SeenHere, Zenon
<1>5. /\ s \in LinesOf(DOMAIN doc) /\ Sound(s, X) /\ start \in Nat /\ start < Len(s)
      /\ Line = s[start + 1]
  BY <1>1, SeenText, Zenon
<1>6. /\ b.lines \in LinesOf(DOMAIN doc) /\ Sound(b.lines, X)
      /\ Left(b.lines, 0, X) = Span(s, start, b.last + 1, X)
  <2>1. mode \in Modes /\ mode # "unknown" /\ mode # "known"
    BY DEF Modes
  <2>2. At(s, start) = Line
    BY <1>5 DEF At
  <2> HIDE DEF mode, until, s, start, X, b
  <2> QED
    BY <1>2, <1>3, <1>5, <2>1, <2>2, GetIndentedLeft DEF X
<1>7. AbsOffset(F) \in Int
  <2>1. Stack
    BY DEF Onward
  <2>2. F.base \in Int /\ F.off \in Nat
    BY <1>1, <2>1, SeenLines, Zenon
  <2> QED
    BY <2>2 DEF AbsOffset
<1>8. Parted(Parsed, Left(b.lines, 0, X), X)
  <2> DEFINE d == Directives[Head(Line.m).c]
             block == b.lines
             offset == AbsOffset(F)
  <2>1. Parsed = DirectiveBlock(d, block, offset)
    BY Zenon DEF Parsed
  <2>2. block \in LinesOf(DOMAIN doc) /\ Sound(block, X) /\ offset \in Int
    BY <1>6, <1>7
  <2> HIDE DEF d, block, offset, X
  <2>3. Parted(DirectiveBlock(d, block, offset), Left(block, 0, X), X)
    BY <2>2, DirectiveLeft
  <2> QED
    BY <2>1, <2>3, Zenon DEF block
<1> QED
  BY <1>1, <1>4, <1>6, <1>8, Zenon DEF AtEnd

\* What the parts of a directive hold.
LEMMA SeenParts ==
    ASSUME Onward, SeesDirective
    PROVE  LET a == Left(Parsed.args, 0, TextLines)
               o == Left(Parsed.options, 0, TextLines)
               c == Left(Parsed.content, 0, TextLines)
           IN  /\ NumbersOf(Parsed.args) \cap TextLines = a
               /\ NumbersOf(Parsed.options) \cap TextLines = o
               /\ NumbersOf(Parsed.content) \cap TextLines = c
               /\ Span(F.lines, F.off, Here.last + 1, TextLines) = a \cup o \cup c
               /\ a \cap o = {} /\ a \cap c = {} /\ o \cap c = {}
               /\ Sound(Parsed.args, TextLines) /\ Sound(Parsed.options, TextLines)
               /\ Sound(Parsed.content, TextLines)
<1> DEFINE X == TextLines
           a == Parsed.args
           o == Parsed.options
           c == Parsed.content
           Y == Span(F.lines, F.off, Here.last + 1, X)
<1>1. a \in LinesOf(DOMAIN doc) /\ o \in LinesOf(DOMAIN doc) /\ c \in LinesOf(DOMAIN doc)
  BY DirectiveLines, Zenon DEF Onward
<1>2. PartsAre(a, o, c, Y, X)
  <2>1. Parted(Parsed, Y, X)
    BY SeenDirective, Zenon
  <2> QED
    BY <2>1, Zenon DEF Parted
<1> HIDE DEF a, o, c, Y, X
<1>3. /\ Sound(a, X) /\ Sound(o, X) /\ Sound(c, X)
      /\ Y = Left(a, 0, X) \cup Left(o, 0, X) \cup Left(c, 0, X)
      /\ Left(a, 0, X) \cap Left(o, 0, X) = {}
      /\ Left(a, 0, X) \cap Left(c, 0, X) = {}
      /\ Left(o, 0, X) \cap Left(c, 0, X) = {}
  BY <1>2, Zenon DEF PartsAre
<1>4. NumbersOf(a) \cap X = Left(a, 0, X)
  BY <1>1, <1>3, NumbersAreLeft
<1>5. NumbersOf(o) \cap X = Left(o, 0, X)
  BY <1>1, <1>3, NumbersAreLeft
<1>6. NumbersOf(c) \cap X = Left(c, 0, X)
  BY <1>1, <1>3, NumbersAreLeft
<1> QED
  BY <1>3, <1>4, <1>5, <1>6, Zenon DEF a, o, c, Y, X

\* RefuseDirective: the lines of a refused directive are quoted by the message.
LEMMA RefuseDirectiveOnce ==
    ASSUME Ready, RefuseDirective
    PROVE  Ledger'
<1> DEFINE X == TextLines
           f == AtEnd
           last == Here.last
           kind == "error"
           H == NumbersTo(F, last)
           finish == IF Accepted THEN Finishes(AtEnd, Here.finish) ELSE Here.finish
<1>1. /\ SeesDirective
      /\ Construct(f, finish, <<Node(kind, F.node, H)>>)
      /\ doc' = doc /\ memo' = memo /\ error' = error /\ dropped' = dropped
  BY Zenon DEF RefuseDirective, Same, Message
<1>2. Onward
  <2>1. PICK S, T : Sees(S, T)
    BY <1>1, DirectiveSeen, Zenon DEF Ready
  <2> QED
    BY <1>1, <2>1, SeenOnward
<1>3. /\ \E S, T : Sees(S, T)
      /\ F.state \notin TextStates /\ f = [F EXCEPT !.off = last]
      /\ last \in Int /\ F.off <= last /\ H \cap X = Span(F.lines, F.off, last + 1, X)
      /\ F.state = "SubstitutionDef" => Left(F.lines, last + 1, X) = {}
  BY <1>1, <1>2, SeenDirective, Zenon
<1>4. PICK S, T : Sees(S, T)
  BY <1>3
<1> HIDE DEF f, last, kind, H, finish
<1> QED
  BY <1>1, <1>2, <1>3, <1>4, SeenOneNode

\* CodeDirective: all lines of the directive are the value of the node.
LEMMA CodeDirectiveOnce ==
    ASSUME Ready, CodeDirective
    PROVE  Ledger'
<1> DEFINE X == TextLines
           f == AtEnd
           last == Here.last
           kind == "code"
           H == NumbersOf(Parsed.args) \cup NumbersOf(Parsed.options) \cup NumbersOf(Parsed.content)
           finish == Finishes(AtEnd, Here.finish)
<1>1. /\ SeesDirective
      /\ Construct(f, finish, <<Node(kind, F.node, H)>>)
      /\ doc' = doc /\ memo' = memo /\ error' = error /\ dropped' = dropped
  BY Zenon DEF CodeDirective, Same
<1>2. Onward
  <2>1. PICK S, T : Sees(S, T)
    BY <1>1, DirectiveSeen, Zenon DEF Ready
  <2> QED
    BY <1>1, <2>1, SeenOnward
<1>3. /\ \E S, T : Sees(S, T)
      /\ F.state \notin TextStates /\ f = [F EXCEPT !.off = last]
      /\ last \in Int /\ F.off <= last
      /\ F.state = "SubstitutionDef" => Left(F.lines, last + 1, X) = {}
  BY <1>1, <1>2, SeenDirective, Zenon
<1>4. PICK S, T : Sees(S, T)
  BY <1>3
<1>5. H \cap X = Span(F.lines, F.off, last + 1, X)
  <2> DEFINE a == NumbersOf(Parsed.args)
             o == NumbersOf(Parsed.options)
             c == NumbersOf(Parsed.content)
             Y == Span(F.lines, F.off, last + 1, X)
  <2>1. Y = (a \cap X) \cup (o \cap X) \cup (c \cap X)
    BY <1>1, <1>2, SeenParts, Zenon
  <2>2. H = a \cup o \cup c
    OBVIOUS
  <2> HIDE DEF a, o, c, Y, H, X
  <2>3. H \cap X = Y
    BY <2>1, <2>2
  <2> QED
    BY <2>3 DEF Y, X
<1> HIDE DEF f, last, kind, H, finish
<1> QED
  BY <1>1, <1>2, <1>3, <1>4, <1>5, SeenOneNode

\* The rest of a construct that gave up at the last line of its block.
GaveUp(s, i, j, k, H, all, of, X) ==
    /\ H \cap X = Span(s, j, k + 1, X)
    /\ all \cap X = Span(s, i, j + 1, X)
    /\ of = IF j = i THEN H ELSE H \ {At(s, j).n}

\* What malformed markup has read is held by its message or dropped.
LEMMA MalformedSpan ==
    ASSUME NEW D, NEW s \in LinesOf(D), NEW X, Sound(s, X), NEW i \in Nat, NEW j \in Nat, NEW k \in Int,
           i <= j, j <= k, j < Len(s), NEW H, NEW all, NEW of, GaveUp(s, i, j, k, H, all, of, X)
    PROVE  /\ Span(s, i, k + 1, X) \subseteq of \cup (all \ of)
           /\ of \cap X \subseteq Span(s, i, k + 1, X)
<1>0. /\ H \cap X = Span(s, j, k + 1, X)
      /\ all \cap X = Span(s, i, j + 1, X)
      /\ of = IF j = i THEN H ELSE H \ {At(s, j).n}
  BY Zenon DEF GaveUp
<1>1. ASSUME NEW x \in Span(s, i, k + 1, X)
      PROVE  x \in of \cup all
  <2>1. PICK q \in 1 .. Len(s) : i < q /\ q <= k + 1 /\ s[q].n = x /\ x \in X
    BY DEF Span
  <2>2. CASE q <= j + 1
    <3>1. x \in Span(s, i, j + 1, X)
      BY <2>1, <2>2 DEF Span
    <3> QED
      BY <1>0, <3>1
  <2>3. CASE q > j + 1
    <3>1. x \in Span(s, j, k + 1, X)
      BY <2>1, <2>3 DEF Span
    <3>2. x # At(s, j).n
      <4>1. j + 1 \in 1 .. Len(s) /\ q # j + 1 /\ Len(s) \in Nat
        BY <2>1, <2>3
      <4>2. Single(s)
        BY DEF Sound
      <4> QED
        BY <2>1, <4>1, <4>2 DEF Single, At
    <3> QED
      BY <1>0, <3>1, <3>2
  <2> QED
    BY <2>1, <2>2, <2>3
<1>2. ASSUME NEW x \in of \cap X
      PROVE  x \in Span(s, i, k + 1, X)
  <2>1. x \in Span(s, j, k + 1, X)
    BY <1>0, <1>2
  <2>2. PICK q \in 1 .. Len(s) : j < q /\ q <= k + 1 /\ s[q].n = x /\ x \in X
    BY <2>1 DEF Span
  <2>3. i < q
    BY <2>2
  <2> QED
    BY <2>2, <2>3 DEF Span
<1> QED
  BY <1>1, <1>2

\* Malformed: the rest is held by a comment, what is before it is dropped.
LEMMA MalformedOnce ==
    ASSUME Ready, Malformed
    PROVE  Ledger'
<1> DEFINE X == TextLines
           cs == {"malformed target", "malformed substitution"}
           until == Head(Line.m).c = "malformed target"
           whole == TRUE
           b == FirstKnown(F, until)
           e == [F EXCEPT !.off = b.last]
           c == CommentAt(e, whole)
           f == [F EXCEPT !.off = c.last]
           H == IF b.last = F.off THEN c.of ELSE c.of \ {At(F.lines, b.last).n}
           note == Node("comment", F.node, H)
           warning == Message("warning", F.node, {})
           all == NumbersTo(F, b.last)
           finish == c.finish
<1>1. /\ SeesExplicit(cs)
      /\ Construct(f, finish, <<note, warning>>)
      /\ dropped' = dropped \cup (all \ H)
      /\ doc' = doc /\ memo' = memo /\ error' = error
  BY Zenon DEF Malformed
<1>20. dropped' = dropped \cup (all \ H) /\ memo'.level = memo.level
  BY <1>1, Zenon
<1>2. PICK S, T : Sees(S, T)
  BY <1>1, Zenon DEF SeesExplicit
<1>3. Onward
  <2> HIDE DEF until, whole, b, e, c, f, H, note, warning, all, finish, cs
  <2>1. dropped \subseteq dropped' /\ doc' = doc /\ error' = error
    BY ONLY <1>1
  <2> QED
    BY <1>2, <2>1, SeenOnward
<1>4. F.state \notin TextStates /\ F.state # "SubstitutionDef" /\ ~Blank(Line)
  <2> HIDE DEF until, whole, b, e, c, f, H, note, warning, all, finish, cs
  <2> QED
    BY <1>1, <1>3, SeenExplicitMark, Zenon
<1>5. /\ F.lines \in LinesOf(DOMAIN doc) /\ Sound(F.lines, X) /\ F.off \in Nat /\ F.off < Len(F.lines)
      /\ F.base \in Int
  <2>1. Stack
    BY <1>3 DEF Onward
  <2> QED
    BY <1>2, <1>3, <2>1, SeenText, SeenLines, Zenon
<1>6. b.last \in Int /\ F.off <= b.last /\ b.last < Len(F.lines)
  <2> HIDE DEF until
  <2> QED
    BY <1>5, FirstKnownPart
<1>7. Alike(F, e, X) /\ e.off = b.last /\ e.lines = F.lines
  BY <1>2, <1>3, SeenOff, Zenon
<1>8. e.base = F.base
  <2>1. Keeps(F, e)
    BY <1>7, Zenon DEF Alike, Like
  <2> QED
    BY <2>1 DEF Keeps
<1> DEFINE b2 == FirstKnown(e, FALSE)
<1>9. c.last = b2.last /\ c.of = NumbersTo(e, b2.last)
  BY Zenon DEF CommentAt
<1> HIDE DEF whole, until, b, c, e
<1>10. b2.last \in Int /\ e.off <= b2.last /\ b2.last < Len(e.lines)
  <2> DEFINE no == FALSE
             got == FirstKnown(e, no)
  <2>1. e.lines \in LinesOf(DOMAIN doc) /\ e.base \in Int /\ e.off \in Nat /\ e.off < Len(e.lines)
    BY <1>5, <1>6, <1>7, <1>8
  <2>2. b2 = got
    OBVIOUS
  <2> HIDE DEF no, b2
  <2>3. got.last \in Int /\ e.off <= got.last /\ got.last < Len(e.lines)
    BY <2>1, FirstKnownPart
  <2> HIDE DEF got
  <2> QED
    BY <2>2, <2>3
<1> HIDE DEF b2
<1> DEFINE i == F.off
           j == b.last
           k == c.last
           s == F.lines
<1>11. i \in Nat /\ j \in Nat /\ k \in Int /\ i <= j /\ j <= k /\ j < Len(s)
  BY <1>5, <1>6, <1>7, <1>9, <1>10
<1>12. c.of \cap X = Span(s, j, k + 1, X)
  <2> DEFINE end == k + 1
  <2>1. c.of = NumbersOf(Slice(s, j, end))
    BY <1>7, <1>9, Zenon DEF NumbersTo
  <2>2. end \in Int
    BY <1>11
  <2> HIDE DEF end, s, j
  <2> QED
    BY <1>5, <1>11, <2>1, <2>2, NumbersAreSpan DEF end, s
<1>13. all \cap X = Span(s, i, j + 1, X)
  BY <1>2, <1>3, <1>6, NumbersToSpan
<1> DEFINE Y == Span(s, i, k + 1, X)
           U == H \cap X
<1>14. Y \subseteq H \cup (all \ H) /\ U \subseteq Y
  <2> DEFINE o == c.of
  <2>1. H = IF j = i THEN o ELSE o \ {At(s, j).n}
    OBVIOUS
  <2>2. s \in LinesOf(DOMAIN doc) /\ Sound(s, X) /\ o \cap X = Span(s, j, k + 1, X)
    BY <1>5, <1>12
  <2> HIDE DEF s, i, j, k, X, all, H, o
  <2>4. GaveUp(s, i, j, k, o, all, H, X)
    BY <1>13, <2>1, <2>2, Zenon DEF GaveUp
  <2>3. /\ Span(s, i, k + 1, X) \subseteq H \cup (all \ H)
        /\ H \cap X \subseteq Span(s, i, k + 1, X)
    BY ONLY <1>11, <2>2, <2>4, MalformedSpan
  <2> QED
    BY <2>3
<1>15. frames' = EndConstruct(f, finish, Below) /\ tree' = tree \o <<note, warning>>
  BY <1>1, Zenon DEF Construct
<1>16. Grown(H, U)
  <2>1. Tells(<<note>>, H, U, X)
    <3>1. "comment" \notin Levels
      BY DEF Levels
    <3> QED
      BY <3>1, TellsNode, Zenon
  <2>2. Silent(<<warning>>)
    BY SilentNodes, Zenon
  <2> HIDE DEF note, warning, H, U, X
  <2>3. Tells(<<note>> \o <<warning>>, H, U, X)
    BY <2>1, <2>2, SilentLast DEF X
  <2>4. Tells(<<note, warning>>, H, U, X)
    BY <2>3, PairSeq
  <2> QED
    BY <1>15, <2>4, Zenon DEF Grown, X
<1>17. Begins(F) = F.off
  BY <1>3, <1>4, NothingBefore
<1>18. Alike(F, f, X) /\ f.off = k /\ f.phase = "run" /\ f.state = F.state /\ AnyNext(f)
  BY <1>2, <1>3, SeenOff, Zenon
<1>19. /\ f.off \in Int /\ Begins(F) <= f.off + 1 /\ Y = Span(F.lines, Begins(F), f.off + 1, X)
       /\ Y \subseteq H \cup dropped' /\ memo'.level = memo.level
  <2>1. Y = Span(F.lines, Begins(F), f.off + 1, X)
    <3> HIDE DEF k, f
    <3> QED
      BY <1>17, <1>18
  <2> HIDE DEF k, f, H, all, Y
  <2>2. Y \subseteq H \cup dropped' /\ memo'.level = memo.level
    BY <1>14, <1>20
  <2>3. f.off \in Int /\ Begins(F) <= f.off + 1
    BY <1>5, <1>11, <1>17, <1>18
  <2> QED
    BY <2>1, <2>2, <2>3
<1> HIDE DEF f, H, U, Y, k, finish, all, note, warning, X
<1> QED
  BY <1>2, <1>3, <1>4, <1>14, <1>15, <1>16, <1>18, <1>19, SeenBuilt DEF X

\* The machine of a substitution definition.
LEMMA SubstitutionIn ==
    ASSUME NEW D, NEW lines \in LinesOf(D), NEW X, Sound(lines, X), NEW n,
           \A k \in 2 .. Len(lines) : Blank(lines[k]) \/ lines[k].ind > 0,
           NEW g, Unstarted(g), g.lines = lines, g.state = "SubstitutionDef",
           g.then.k = "substitution", g.then.node = n, g.node = n,
           Left(lines, 0, X) \subseteq g.then.of
    PROVE  MachineIn(g, X) /\ TopIn(g, n, X) /\ Owed(g, X) = Left(lines, 0, X) /\ Later(g, X) = {}
<1>1. g.phase = "run" /\ g.off = -1 /\ AnyNext(g) /\ g.state \notin TextStates
  BY Zenon DEF Unstarted
<1>2. /\ g.then.k # "argument" /\ g.then.k # "root" /\ g.then.k # "first" /\ g.state # "Line"
      /\ g.phase # "eof"
  BY <1>1
<1>3. MachineIn(g, X)
  BY <1>1, <1>2, Zenon DEF MachineIn
<1>4. TopIn(g, n, X) /\ Later(g, X) = {}
  BY <1>1, <1>2, Zenon DEF TopIn, Later
<1>5. Resume(g) = 0
  <2>1. Resume(g) = g.off + 1
    BY <1>1, <1>2, Zenon DEF Resume
  <2> QED
    BY <1>1, <2>1
<1>6. Owed(g, X) = Left(lines, 0, X)
  BY <1>5, Zenon DEF Owed
<1> QED
  BY <1>3, <1>4, <1>6

\* A node is appended as NextNode.
LEMMA NodeAppended ==
    ASSUME Onward, NEW kind, NEW up, NEW of, tree' = Append(tree, Node(kind, up, of))
    PROVE  tree'[NextNode] = Node(kind, up, of)
<1> DEFINE x == Node(kind, up, of)
<1>1. IsSeq(tree)
  BY TreeSeq
<1> HIDE DEF x
<1>2. tree' = Append(tree, x)
  BY DEF x
<1>3. Append(tree, x)[Len(tree) + 1] = x
  BY <1>1 DEF IsSeq
<1> QED
  BY <1>2, <1>3 DEF NextNode, x

\* SubstitutionDefinition: its machine owes the block behind the name.
LEMMA SubstitutionDefinitionOnce ==
    ASSUME Ready, SubstitutionDefinition
    PROVE  Ledger'
<1> DEFINE X == TextLines
           D == DOMAIN doc
           cs == {"substitution"}
           b == SubstitutionBlock(F)
           last == b.last
           f == [F EXCEPT !.off = b.last]
           H == NumbersTo(F, last)
           kind == "warning"
           finish == b.finish
           state == "SubstitutionDef"
           node == NextNode
           no == FALSE
           lines == b.lines
           base == b.off
           then == [Then("substitution", b.finish) EXCEPT !.node = NextNode, !.of = H]
           g == Machine(state, lines, base, node, no, then)
           def == "substitution_definition"
<1>1. /\ SeesExplicit(cs)
      /\ IF lines = <<>>
         THEN Construct(f, finish, <<Node(kind, F.node, H)>>)
         ELSE tree' = Append(tree, Node(def, F.node, {})) /\ frames' = Below \o <<f, g>>
      /\ doc' = doc /\ memo' = memo /\ error' = error /\ dropped' = dropped
  BY Zenon DEF SubstitutionDefinition, Same, Message
<1> HIDE DEF finish, g, f, H, lines, last, kind, cs, def
<1>2. PICK S, T : Sees(S, T)
  BY <1>1, Zenon DEF SeesExplicit
<1>3. Onward
  BY <1>1, <1>2, SeenOnward
<1>4. F.state \notin TextStates /\ F.state # "SubstitutionDef" /\ ~Blank(Line)
      /\ (Line.n \in X => Head(Line.m).t # "text")
  BY <1>1, <1>3, SeenExplicitMark
<1>5. /\ F.lines \in LinesOf(D) /\ Sound(F.lines, X) /\ F.off \in Nat /\ F.off < Len(F.lines)
      /\ Line = F.lines[F.off + 1]
  BY <1>2, <1>3, SeenText, Zenon
<1>6. /\ last \in Int /\ F.off <= last
      /\ H \cap X = Span(F.lines, F.off, last + 1, X)
  <2> DEFINE got == GetIndented(F.lines, F.off, "first", FALSE)
  <2>1. last = got.last
    BY Zenon DEF SubstitutionBlock, last
  <2>2. got = GetIndented(F.lines, F.off, "first", FALSE)
    OBVIOUS
  <2> HIDE DEF got, b
  <2> QED
    BY <1>2, <1>3, <2>1, <2>2, SeenHere, Zenon DEF H
<1>7. /\ lines \in LinesOf(D) /\ Sound(lines, X)
      /\ Left(lines, 0, X) = Span(F.lines, F.off, last + 1, X)
      /\ \A k \in 2 .. Len(lines) : Blank(lines[k]) \/ lines[k].ind > 0
  <2>1. At(F.lines, F.off) = Line
    BY <1>5 DEF At
  <2>2. At(F.lines, F.off).n \in X => Head(At(F.lines, F.off).m).t # "text"
    BY <1>4, <2>1
  <2> HIDE DEF b, X, D
  <2> QED
    BY <1>5, <2>2, SubstitutionLeft DEF lines, last, b
<1>8. f = [F EXCEPT !.off = last]
  BY DEF f, last
<1>9. CASE lines = <<>>
  <2>1. Construct(f, finish, <<Node(kind, F.node, H)>>)
    BY <1>1, <1>9
  <2> QED
    BY <1>1, <1>2, <1>3, <1>4, <1>6, <1>8, <2>1, SeenOneNode
<1>10. CASE lines # <<>>
  <2>1. tree' = Append(tree, Node(def, F.node, {})) /\ frames' = Below \o <<f, g>>
    BY <1>1, <1>10
  <2>2. Alike(F, f, X) /\ f.off = last
    BY <1>2, <1>3, <1>8, SeenOff, Zenon
  <2>3. node \in Nat /\ F.node <= node
    BY <1>2, <1>3, SeenNext, Zenon
  <2>4. then.k = "substitution" /\ then.node = node /\ then.of = H
    BY Zenon DEF Then
  <2>5. g = Machine(state, lines, base, node, no, then) /\ state \notin TextStates
    BY DEF g, TextStates
  <2> HIDE DEF state, base, node, no, then
  <2>6. Unstarted(g) /\ g.state = state /\ g.lines = lines /\ g.then = then /\ g.node = node
    BY ONLY <2>5, MadeMachine
  <2> DEFINE n == Len(tree')
             Q == Owed(g, X)
             R == Later(g, X)
             Y == Left(lines, 0, X)
             G == {}
  <2>7. n = node /\ Len(tree) \in Nat
    <3>1. Len(tree) \in Nat
      BY <1>2, <1>3, SeenText, Zenon
    <3>2. Len(Append(tree, Node(def, F.node, {}))) = Len(tree) + 1
      <4> DEFINE x == Node(def, F.node, {})
      <4>1. IsSeq(tree)
        BY <1>3, TreeSeq
      <4> HIDE DEF x
      <4>2. Len(Append(tree, x)) = Len(tree) + 1
        BY <4>1 DEF IsSeq
      <4> QED
        BY <4>2 DEF x
    <3> QED
      BY <2>1, <3>1, <3>2 DEF node, NextNode
  <2>8. MachineIn(g, X) /\ TopIn(g, n, X) /\ Q = Y /\ R = {}
    <3>1. g.state = "SubstitutionDef" /\ g.then.k = "substitution" /\ g.then.node = n /\ g.node = n
          /\ Y \subseteq g.then.of
      BY <1>6, <1>7, <2>4, <2>6, <2>7 DEF state
    <3> HIDE DEF n, X, D
    <3> QED
      BY <1>7, <2>6, <3>1, SubstitutionIn DEF X
  <2>9. Grown(G, G)
    <3>1. Grown(G, G \cap X)
      BY <1>3, <1>4, <2>1, GrownEmpty, Zenon
    <3> QED
      BY <3>1
  <2>10. Begins(F) = F.off
    BY <1>3, <1>4, NothingBefore
  <2>11. Y = Span(F.lines, Begins(F), f.off + 1, X) /\ f.off \in Int /\ Begins(F) <= f.off + 1
    BY <1>5, <1>6, <1>7, <2>2, <2>10
  <2>12. Takes(Y, Q, R, G, G)
    <3> HIDE DEF Y, Q, R
    <3> QED
      BY <2>8 DEF Takes
  <2>13. g.then.k \notin {"section", "list"} /\ g.then.k # "replace" /\ g.node \in Nat
         /\ F.node <= g.node /\ g.then.k \notin {"first", "argument"}
    BY <2>3, <2>4, <2>6
  <2> HIDE DEF Y, Q, R, G, n
  <2>14. Q = Owed(g, X) /\ R = Later(g, X) /\ memo'.level = memo.level /\ TopIn(g, Len(tree'), X)
    BY <1>1, <2>8 DEF Q, R, n
  <2>15. tree'[g.then.node].of = {}
    <3>1. tree'[NextNode] = Node(def, F.node, {})
      BY <1>3, <2>1, NodeAppended
    <3> QED
      BY <2>4, <2>6, <3>1 DEF Node, node
  <2> QED
    BY <1>2, <1>3, <1>4, <2>1, <2>2, <2>8, <2>9, <2>11, <2>12, <2>13, <2>14, <2>15, SeenNested
<1> QED
  BY <1>9, <1>10

\* SubstitutionText: what the definition does not take is quoted, or there was nothing left.
LEMMA SubstitutionTextOnce ==
    ASSUME Ready, SubstitutionText
    PROVE  Ledger'
<1> DEFINE X == TextLines
           S == {"SubstitutionDef"}
           T == {"text"}
           h == [F EXCEPT !.finish = IF HasLine(F, F.off + 1) THEN NextLineBlank(F) ELSE @]
           f == Ended(h)
           nodes == <<>>
           H == {}
           n == Len(tree')
           quoted == Quoted(f, n, X)
<1>1. /\ Sees(S, T) /\ frames' = Append(Below, f) /\ tree' = tree \o nodes
      /\ doc' = doc /\ memo' = memo /\ error' = error /\ dropped' = dropped
  BY Zenon DEF SubstitutionText, Continue, Goes, Same
<1> HIDE DEF f, nodes
<1>2. Onward
  BY <1>1, SeenOnward
<1>3. /\ F.state = "SubstitutionDef" /\ F.state = Top.state /\ DOMAIN F = MachineFields
      /\ MachineIn(F, X) /\ Alike(Top, F, X) /\ Top.phase = "run" /\ F.off = Top.off + 1
      /\ Owed(Top, X) = Left(F.lines, Begins(F), X) /\ AnyNext(F)
      /\ F.lines \in LinesOf(DOMAIN doc) /\ F.off \in Nat
  <2>1. /\ F.state \in S /\ F.state = Top.state /\ DOMAIN F = MachineFields
        /\ MachineIn(F, X) /\ Alike(Top, F, X) /\ Top.phase = "run" /\ F.off = Top.off + 1
        /\ Owed(Top, X) = Left(F.lines, Begins(F), X) /\ AnyNext(F)
        /\ F.lines \in LinesOf(DOMAIN doc) /\ F.off \in Nat
    BY <1>1, <1>2, SeenText, Zenon
  <2> QED
    BY <2>1
<1>4. F.state \notin TextStates
  BY <1>3 DEF TextStates
<1>5. Begins(F) = F.off
  BY <1>2, <1>4, NothingBefore
<1>6. /\ DOMAIN f = MachineFields /\ Keeps(F, f) /\ f.state = F.state /\ f.ctx = F.ctx
      /\ f.only = F.only /\ f.off = F.off /\ f.phase = "over"
  <2>1. DOMAIN h = MachineFields /\ Keeps(F, h) /\ h.state = F.state /\ h.ctx = F.ctx
        /\ h.only = F.only /\ h.off = F.off
    BY ONLY <1>3, Zenon DEF Keeps, MachineFields
  <2> HIDE DEF h
  <2> QED
    BY <1>4, <2>1, Zenon DEF Keeps, MachineFields, Ended, f
<1>7. Alike(Top, f, X)
  <2>1. Alike(F, f, X)
    BY <1>3, <1>6, AlikeStill, Zenon
  <2> QED
    BY <1>3, <2>1, AlikeTwice, Zenon
<1>8. f.lines = F.lines /\ f.then = F.then /\ Top.lines = F.lines /\ Top.then = F.then
  <2>1. Keeps(Top, F)
    BY <1>3, Zenon DEF Alike, Like
  <2> QED
    BY <1>6, <2>1 DEF Keeps
<1>9. F.then.k = "substitution"
  BY <1>3, Zenon DEF MachineIn
<1>10. n = Len(tree) /\ tree' = tree
  <2>1. IsSeq(tree) /\ tree' = tree \o <<>>
    BY <1>1, <1>2, TreeSeq DEF nodes
  <2>2. tree' = tree
    BY <2>1 DEF IsSeq
  <2> QED
    BY <2>2
<1> DEFINE all == Left(F.lines, F.off, X)
           i == F.off
           rest == Left(F.lines, F.off + 1, X)
<1>11. all = {} \/ F.then.node = n
  <2>1. TopIn(Top, Len(tree), X)
    BY <1>2, TopOwes, Zenon
  <2>2. Left(Top.lines, Top.off + 1, X) = {} \/ Top.then.node = Len(tree)
    BY <1>8, <1>9, <2>1, Zenon DEF TopIn
  <2> QED
    BY <1>3, <1>8, <1>10, <2>2
<1>12. rest \subseteq all /\ all \subseteq Left(F.lines, 0, X)
  <2>1. i \in Int /\ i + 1 \in Int /\ i <= i + 1 /\ 0 \in Int /\ 0 <= i
    BY <1>3
  <2>2. i \in Nat
    BY <1>3
  <2> HIDE DEF i
  <2>3. Left(F.lines, i + 1, X) \subseteq Left(F.lines, i, X)
    BY <1>3, <2>1, SpanSplit
  <2>4. Left(F.lines, i, X) \subseteq Left(F.lines, 0, X)
    BY <1>3, <2>1, SpanSplit
  <2> QED
    BY <2>3, <2>4 DEF i
<1>13. Owed(f, X) = rest
  <2>1. Resume(f) = f.off + 1
    BY <1>4, <1>6, Zenon DEF Resume
  <2> QED
    BY <1>6, <1>8, <2>1, Zenon DEF Owed
<1>14. quoted = IF F.then.node = n THEN Left(F.lines, 0, X) ELSE {}
  BY <1>6, <1>8, <1>9, Zenon DEF Quoted
<1>15. TopIn(f, n, X)
  <2>1. Left(f.lines, f.off + 1, X) = {} \/ f.then.node = n
    <3>1. rest = {} \/ F.then.node = n
      BY <1>11, <1>12
    <3> HIDE DEF X
    <3> QED
      BY <1>6, <1>8, <3>1
  <2>2. f.phase # "run" /\ f.phase # "eof" /\ f.then.k # "root"
    BY <1>6, <1>8, <1>9
  <2> HIDE DEF X, n
  <2> QED
    BY <2>1, <2>2, Zenon DEF TopIn
<1> HIDE DEF quoted, all, rest, n
<1>16. Spends(Owed(Top, X), Owed(f, X), H \cup quoted, H)
  <2>1. Owed(Top, X) = all
    BY <1>3, <1>5 DEF all
  <2>2. all \subseteq rest \cup quoted
    BY <1>11, <1>12, <1>14
  <2> QED
    BY <1>12, <1>13, <2>1, <2>2 DEF Spends
<1>17. Tells(nodes, H, H, X)
  BY TellsNothing, Zenon DEF nodes
<1>18. Top.phase # "over" /\ memo'.level = memo.level
  BY <1>1, <1>3
<1> HIDE DEF H, X
<1> QED
  BY <1>1, <1>2, <1>7, <1>15, <1>16, <1>17, <1>18, LedgerGo DEF quoted, n, X

\* A directive that starts a machine over a part of its block.
ContentOf(g) ==
    /\ Unstarted(g) /\ g.state = "Body" /\ g.node = NextNode /\ Sound(g.lines, TextLines)
    /\ g.then.k \in {"directive", "argument", "replace"}
    /\ g.then.k = "argument" => Sound(g.then.next[1], TextLines) /\ g.then.node = NextNode
    /\ g.then.k = "replace" => /\ F.state = "SubstitutionDef" /\ g.then.node = NextNode
                               /\ g.then.of = NumbersTo(F, Here.last)

\* The invariant, when the content of a directive is read.
LEMMA SeenContent ==
    ASSUME Onward, SeesDirective, NEW g, frames' = Below \o <<AtEnd, g>>, ContentOf(g),
           memo'.level = memo.level, NEW kind, NEW of, kind \notin Levels,
           tree' = Append(tree, Node(kind, F.node, of)),
           NEW Y, Y = Span(F.lines, F.off, Here.last + 1, TextLines),
           Takes(Y, Left(g.lines, 0, TextLines), Later(g, TextLines), of, of \cap TextLines),
           g.then.k = "replace" => of = {}
    PROVE  Ledger'
<1> DEFINE X == TextLines
           last == Here.last
           f == AtEnd
           n == Len(tree')
           Q == Left(g.lines, 0, X)
           R == Later(g, X)
           U == of \cap X
<1>1. PICK S, T : Sees(S, T)
  BY SeenDirective
<1>2. /\ F.state \notin TextStates /\ f = [F EXCEPT !.off = last]
      /\ last \in Int /\ F.off <= last /\ NumbersTo(F, last) \cap X = Y
      /\ F.state = "SubstitutionDef" => Left(F.lines, last + 1, X) = {}
  BY SeenDirective, Zenon
<1>3. Begins(F) = F.off
  BY <1>2, NothingBefore
<1>4. Alike(F, f, X) /\ f.off = last
  BY <1>1, <1>2, SeenOff, Zenon
<1>5. /\ Unstarted(g) /\ g.state = "Body" /\ g.node = NextNode /\ Sound(g.lines, X)
      /\ g.then.k \in {"directive", "argument", "replace"}
      /\ g.then.k = "argument" => Sound(g.then.next[1], X) /\ g.then.node = NextNode
      /\ g.then.k = "replace" => /\ F.state = "SubstitutionDef" /\ g.then.node = NextNode
                                 /\ g.then.of = NumbersTo(F, last)
  BY Zenon DEF ContentOf
<1>6. NextNode \in Nat /\ F.node <= NextNode
  BY <1>1, SeenNext, Zenon
<1>7. MachineIn(g, X) /\ TopIn(g, n, X) /\ Owed(g, X) = Q
  <2>1. /\ g.then.k \notin {"substitution", "root"} /\ g.state # "SubstitutionDef"
        /\ g.then.k # "first" /\ (g.then.k = "replace" => g.then.node = g.node)
    BY <1>5
  <2> QED
    BY <1>5, <2>1, FreshIn, Zenon
<1>8. n = NextNode /\ Len(tree) \in Nat /\ n = Len(tree) + 1
  <2>1. Len(tree) \in Nat
    BY <1>1, SeenText, Zenon
  <2> DEFINE x == Node(kind, F.node, of)
  <2>2. IsSeq(tree) /\ tree' = Append(tree, x)
    BY TreeSeq
  <2> HIDE DEF x
  <2>3. Len(Append(tree, x)) = Len(tree) + 1
    BY <2>2 DEF IsSeq
  <2> QED
    BY <2>1, <2>2, <2>3 DEF NextNode
<1>9. Grown(of, U)
  BY GrownNode, Zenon DEF Onward
<1>10. ASSUME F.state = "SubstitutionDef"
       PROVE  Left(F.lines, Begins(F), X) \subseteq NumbersTo(F, last)
  <2> DEFINE s == F.lines
             i == F.off
             j == last + 1
  <2>1. s \in LinesOf(DOMAIN doc) /\ F.off \in Nat
    BY <1>1, SeenText, Zenon
  <2>2. i \in Int /\ j \in Int /\ i <= j /\ Left(s, j, X) = {} /\ Y = Span(s, i, j, X)
    BY <1>2, <1>10, <2>1
  <2> DEFINE D == DOMAIN doc
  <2>3. s \in LinesOf(D)
    BY <2>1
  <2> HIDE DEF s, i, j, X, D
  <2>4. Left(s, i, X) = Span(s, i, j, X) \cup Left(s, j, X)
    BY ONLY <2>2, <2>3, SpanSplit
  <2>5. Left(s, i, X) = Y
    BY <2>2, <2>4
  <2> QED
    BY <1>2, <1>3, <2>5 DEF s, i
<1>11. /\ f.off \in Int /\ Begins(F) <= f.off + 1
       /\ Y = Span(F.lines, Begins(F), f.off + 1, X)
       /\ F.state = "SubstitutionDef" => Left(F.lines, f.off + 1, X) = {}
  <2>1. F.off \in Nat
    BY <1>1, SeenText, Zenon
  <2> QED
    BY <1>2, <1>3, <1>4, <2>1
<1>12. g.then.k \notin {"section", "list"} /\ g.node \in Nat /\ F.node <= g.node
  BY <1>5, <1>6
<1>13. g.then.k = "replace" => /\ F.state = "SubstitutionDef"
                               /\ g.then.node \in 1 .. Len(tree') /\ g.then.node > Len(tree)
                               /\ Left(F.lines, Begins(F), X) \subseteq g.then.of
  BY <1>5, <1>8, <1>10
<1>14. Takes(Y, Q, R, of, U) /\ Q = Owed(g, X) /\ R = Later(g, X) /\ TopIn(g, Len(tree'), X)
  BY <1>7
<1>15. frames' = Below \o <<f, g>> /\ memo'.level = memo.level
  OBVIOUS
<1>17. g.then.k \in {"first", "argument"} => F.node <= g.then.node
  BY <1>5, <1>6
<1>16. g.then.k \in {"replace", "substitution"} => tree'[g.then.node].of = {}
  <2>1. tree'[NextNode] = Node(kind, F.node, of)
    BY NodeAppended
  <2>2. tree'[NextNode].of = of
    <3>1. Node(kind, F.node, of).of = of
      BY ONLY DEF Node
    <3> QED
      BY <2>1, <3>1, Zenon
  <2>3. g.then.k \in {"replace", "substitution"} => g.then.k = "replace"
    BY <1>5
  <2>4. g.then.k = "replace" => g.then.node = NextNode /\ of = {}
    BY <1>5, Zenon
  <2> QED
    BY <2>2, <2>3, <2>4, Zenon
<1> HIDE DEF Q, R, U, f, last, n
<1> QED
  BY <1>1, <1>4, <1>7, <1>9, <1>11, <1>12, <1>13, <1>14, <1>15, <1>16, <1>17, SeenNested

\* VersionDirective: what is not its content is held by its node.
LEMMA VersionDirectiveOnce ==
    ASSUME Ready, VersionDirective
    PROVE  Ledger'
<1> DEFINE X == TextLines
           state == "Body"
           kind == "directive"
           lines == Parsed.content
           base == Parsed.off
           node == NextNode
           titles == TRUE
           zero == 0
           then == Content(zero)
           g == Kept(Machine(state, lines, base, node, titles, then))
           of == NumbersOf(Parsed.args) \cup NumbersOf(Parsed.options)
<1>1. /\ SeesDirective /\ frames' = Below \o <<AtEnd, g>>
      /\ tree' = Append(tree, Node(kind, F.node, of))
      /\ doc' = doc /\ memo' = memo /\ error' = error /\ dropped' = dropped
  BY Zenon DEF VersionDirective, NestedParse, DirectiveNode
<1>2. Onward
  <2>1. PICK S, T : Sees(S, T)
    BY <1>1, DirectiveSeen, Zenon DEF Ready
  <2> HIDE DEF g, of
  <2> QED
    BY <1>1, <2>1, SeenOnward
<1>3. then.k = "directive"
  BY Zenon DEF Content, Then
<1>4. g = Kept(Machine(state, lines, base, node, titles, then)) /\ state \notin TextStates
  BY DEF TextStates
<1> DEFINE a == Left(Parsed.args, 0, X)
           o == Left(Parsed.options, 0, X)
           c == Left(lines, 0, X)
           Y == Span(F.lines, F.off, Here.last + 1, X)
<1>5. /\ NumbersOf(Parsed.args) \cap X = a /\ NumbersOf(Parsed.options) \cap X = o
      /\ Y = a \cup o \cup c /\ a \cap o = {} /\ a \cap c = {} /\ o \cap c = {}
      /\ Sound(lines, X)
  BY <1>1, <1>2, SeenParts, Zenon
<1> HIDE DEF state, lines, base, node, titles, then, g
<1>6. Unstarted(g) /\ g.state = state /\ g.lines = lines /\ g.then = then /\ g.node = node
  BY ONLY <1>4, KeptFresh
<1>7. ContentOf(g)
  BY <1>3, <1>5, <1>6 DEF ContentOf, state, node
<1>8. Later(g, X) = {}
  BY <1>3, <1>6 DEF Later
<1>9. kind \notin Levels
  BY DEF Levels
<1> HIDE DEF kind
<1>20. g.then.k # "replace"
  BY <1>3, <1>6
<1>10. Takes(Y, Left(g.lines, 0, X), Later(g, X), of, of \cap X)
  <2>1. of \cap X = a \cup o
    BY <1>5
  <2> HIDE DEF of, a, o, c, Y, X
  <2>2. Left(g.lines, 0, X) = c
    BY <1>6 DEF c
  <2> QED
    BY <1>5, <1>8, <2>1, <2>2 DEF Takes
<1> HIDE DEF of, a, o, c, X
<1> QED
  BY <1>1, <1>2, <1>7, <1>9, <1>10, <1>20, SeenContent DEF X, Y

\* BlockDirective: the node holds the first line of the argument and the
\* options, and no machine will read the rest of the argument.
LEMMA BlockDirectiveOnce ==
    ASSUME Ready, BlockDirective
    PROVE  Ledger'
<1> DEFINE X == TextLines
           state == "Body"
           kind == "directive"
           lines == Parsed.content
           base == Parsed.off
           node == NextNode
           titles == TRUE
           one == 1
           then == Content(one)
           g == Kept(Machine(state, lines, base, node, titles, then))
           kept == IF BeginsWithColon THEN <<>> ELSE Slice(Parsed.args, 0, 1)
           K == NumbersOf(kept)
           A == NumbersOf(Parsed.args)
           O == NumbersOf(Parsed.options)
           of == K \cup O
<1>1. /\ SeesDirective /\ frames' = Below \o <<AtEnd, g>>
      /\ tree' = Append(tree, Node(kind, F.node, of)) /\ dropped' = dropped \cup (A \ K)
      /\ doc' = doc /\ memo'.level = memo.level /\ error' = error
  <2>1. /\ SeesDirective /\ frames' = Below \o <<AtEnd, g>>
        /\ tree' = Append(tree, Node(kind, F.node, of)) /\ dropped' = dropped \cup (A \ K)
        /\ doc' = doc /\ memo' = [memo EXCEPT !.minimum = Append(@, memo.level)] /\ error' = error
    BY Zenon DEF BlockDirective, NestedParse, DirectiveNode
  <2>2. memo \in MemoType
    BY DEF Ready, Stack
  <2>3. memo'.level = memo.level
    BY <2>1, <2>2 DEF MemoType
  <2> QED
    BY <2>1, <2>3
<1>2. Onward
  <2>1. PICK S, T : Sees(S, T)
    BY <1>1, DirectiveSeen, Zenon DEF Ready
  <2>2. dropped \subseteq dropped'
    BY <1>1
  <2> HIDE DEF g, of
  <2> QED
    BY <1>1, <2>1, <2>2, SeenOnward
<1>3. then.k = "directive"
  BY Zenon DEF Content, Then
<1>4. g = Kept(Machine(state, lines, base, node, titles, then)) /\ state \notin TextStates
  BY DEF TextStates
<1> DEFINE a == Left(Parsed.args, 0, X)
           o == Left(Parsed.options, 0, X)
           c == Left(lines, 0, X)
           Y == Span(F.lines, F.off, Here.last + 1, X)
<1>5. /\ A \cap X = a /\ O \cap X = o
      /\ Y = a \cup o \cup c /\ a \cap o = {} /\ a \cap c = {} /\ o \cap c = {}
      /\ Sound(lines, X)
  BY <1>1, <1>2, SeenParts, Zenon
<1>6. K \cap X \subseteq a
  <2> DEFINE i == 0
             j == 1
             s == Parsed.args
             D == DOMAIN doc
  <2>1. s \in LinesOf(D) /\ Sound(s, X)
    BY <1>1, <1>2, DirectiveLines, SeenParts, Zenon DEF Onward
  <2>2. i \in Nat /\ j \in Int /\ i \in Int /\ i <= j
    OBVIOUS
  <2>3. kept = <<>> \/ kept = Slice(s, i, j)
    BY Zenon
  <2>4. a = Left(s, i, X) /\ K = NumbersOf(kept)
    OBVIOUS
  <2> HIDE DEF s, i, j, D, X, a, kept, K
  <2>5. NumbersOf(Slice(s, i, j)) \cap X = Span(s, i, j, X)
    BY ONLY <2>1, <2>2, SliceLeft
  <2>6. Left(s, i, X) = Span(s, i, j, X) \cup Left(s, j, X)
    BY ONLY <2>1, <2>2, SpanSplit
  <2>7. NumbersOf(<<>>) = {}
    BY DEF NumbersOf
  <2> QED
    BY <2>3, <2>4, <2>5, <2>6, <2>7
<1> HIDE DEF state, lines, base, node, titles, then, g
<1>7. Unstarted(g) /\ g.state = state /\ g.lines = lines /\ g.then = then /\ g.node = node
  BY ONLY <1>4, KeptFresh
<1>8. ContentOf(g)
  BY <1>3, <1>5, <1>7 DEF ContentOf, state, node
<1>9. Later(g, X) = {}
  BY <1>3, <1>7 DEF Later
<1>10. kind \notin Levels
  BY DEF Levels
<1>20. g.then.k # "replace"
  BY <1>3, <1>7
<1> HIDE DEF kind, K, A, O, kept
<1>11. Takes(Y, Left(g.lines, 0, X), Later(g, X), of, of \cap X)
  <2>2. Left(g.lines, 0, X) = c
    BY <1>7 DEF c
  <2> HIDE DEF a, o, c, Y, X
  <2> QED
    BY <1>1, <1>5, <1>6, <1>9, <2>2 DEF Takes
<1> HIDE DEF of, a, o, c, X
<1> QED
  BY <1>1, <1>2, <1>8, <1>10, <1>11, <1>20, SeenContent DEF X, Y
\* A block whose first line is put at the margin has the same lines.
LEMMA FirstFlush ==
    ASSUME NEW D, NEW lines \in LinesOf(D), lines # <<>>
    PROVE  LET r == [lines EXCEPT ![1].ind = 0]
           IN  /\ r \in LinesOf(D) /\ Len(r) = Len(lines)
               /\ \A k \in 1 .. Len(lines) : r[k].n = lines[k].n /\ r[k].m = lines[k].m
<1> DEFINE r == [lines EXCEPT ![1].ind = 0]
           x == [lines[1] EXCEPT !.ind = 0]
<1>1. lines \in Seq(LineOf(D)) /\ 1 \in DOMAIN lines /\ lines[1] \in LineOf(D)
  BY DEF LinesOf
<1>2. x.n = lines[1].n /\ x.m = lines[1].m /\ r = [lines EXCEPT ![1] = x]
  BY <1>1 DEF LineOf
<1>3. r \in LinesOf(D)
  BY FlushLines
<1> HIDE DEF r, x
<1> QED
  BY <1>1, <1>2, <1>3 DEF r

\* The directive that is seen is one that is known.
LEMMA KnownDirective ==
    ASSUME Onward, SeesDirective
    PROVE  Head(Line.m).c \in DOMAIN Directives
<1> DEFINE c == Head(Line.m).c
<1>1. CASE SeesExplicit(DOMAIN Directives)
  BY <1>1 DEF SeesExplicit
<1>2. CASE Sees({"SubstitutionDef"}, {"embedded_directive"}) /\ c \notin NoDirective
  <2>1. Top.only \in {"", "text"} /\ F.state = "SubstitutionDef"
        /\ Transition = "embedded_directive"
    BY <1>2, Tops, Zenon DEF FrameOK, Sees, Onward
  <2>2. c \in DOMAIN Directives \cup NoDirective
    BY <2>1, Zenon DEF Transition, TextStates
  <2> QED
    BY <1>2, <2>2
<1> QED
  BY <1>1, <1>2 DEF SeesDirective

\* BlockArgument: the argument is read now, the content afterwards.
LEMMA BlockArgumentOnce ==
    ASSUME Ready, BlockArgument
    PROVE  Ledger'
<1> DEFINE X == TextLines
           D == DOMAIN doc
           state == "Body"
           kind == "directive"
           args == Parsed.args
           content == Parsed.content
           lines == [args EXCEPT ![1].ind = 0]
           base == AbsOffset(F) + 1
           node == NextNode
           titles == TRUE
           then == [Then("argument", Here.finish) EXCEPT
                       !.next = <<content>>, !.level = Parsed.off, !.node = NextNode]
           g == Kept(Machine(state, lines, base, node, titles, then))
           of == {}
<1>1. /\ SeesDirective /\ frames' = Below \o <<AtEnd, g>> /\ ArgumentIsContent
      /\ tree' = Append(tree, Node(kind, F.node, of))
      /\ doc' = doc /\ memo' = memo /\ error' = error /\ dropped' = dropped
  BY Zenon DEF BlockArgument, NestedParse, DirectiveNode
<1>2. Onward
  <2>1. PICK S, T : Sees(S, T)
    BY <1>1, DirectiveSeen, Zenon DEF Ready
  <2> HIDE DEF g, of
  <2> QED
    BY <1>1, <2>1, SeenOnward
<1>3. then.k = "argument" /\ then.next[1] = content /\ then.node = NextNode
  BY DEF Then
<1>4. g = Kept(Machine(state, lines, base, node, titles, then)) /\ state \notin TextStates
  BY DEF TextStates
<1> DEFINE a == Left(args, 0, X)
           o == Left(Parsed.options, 0, X)
           c == Left(content, 0, X)
           Y == Span(F.lines, F.off, Here.last + 1, X)
<1>5. /\ Y = a \cup o \cup c /\ a \cap o = {} /\ a \cap c = {} /\ o \cap c = {}
      /\ Sound(args, X) /\ Sound(content, X)
  BY <1>1, <1>2, SeenParts, Zenon
<1>6. o = {}
  <2>1. Parsed.options = <<>>
    BY <1>1, Zenon DEF ArgumentIsContent
  <2> QED
    BY <2>1 DEF Left
<1>7. Sound(lines, X) /\ Left(lines, 0, X) = a
  <2>1. args \in LinesOf(D)
    BY <1>1, <1>2, DirectiveLines, Zenon DEF Onward
  <2>3. Len(args) > 1
    BY <1>1 DEF ArgumentIsContent
  <2>4. args # <<>>
    BY <2>3
  <2> HIDE DEF args, D, X
  <2>2. /\ lines \in LinesOf(D) /\ Len(lines) = Len(args)
        /\ \A k \in 1 .. Len(args) : lines[k].n = args[k].n /\ lines[k].m = args[k].m
    BY <2>1, <2>4, FirstFlush
  <2> HIDE DEF lines
  <2> QED
    BY <1>5, <2>1, <2>2, SameLeft DEF args, X
<1> HIDE DEF state, args, content, lines, base, node, titles, then, g
<1>8. Unstarted(g) /\ g.state = state /\ g.lines = lines /\ g.then = then /\ g.node = node
  BY ONLY <1>4, KeptFresh
<1>9. ContentOf(g)
  BY <1>3, <1>5, <1>7, <1>8 DEF ContentOf, state, node
<1>10. Later(g, X) = c /\ Left(g.lines, 0, X) = a
  BY <1>3, <1>7, <1>8 DEF Later
<1>11. kind \notin Levels
  BY DEF Levels
<1>20. g.then.k # "replace"
  BY <1>3, <1>7, <1>8
<1> HIDE DEF kind
<1>12. Takes(Y, Left(g.lines, 0, X), Later(g, X), of, of \cap X)
  <2> HIDE DEF a, o, c, Y, X
  <2> QED
    BY <1>5, <1>6, <1>10 DEF Takes
<1> HIDE DEF of, a, o, c, X
<1> QED
  BY <1>1, <1>2, <1>9, <1>11, <1>12, <1>20, SeenContent DEF X, Y

\* ReplaceDirective: it has nothing but content.
LEMMA ReplaceDirectiveOnce ==
    ASSUME Ready, ReplaceDirective
    PROVE  Ledger'
<1> DEFINE X == TextLines
           state == "Body"
           kind == "element"
           lines == Parsed.content
           base == Parsed.off
           node == NextNode
           titles == FALSE
           then == [Then("replace", Here.finish) EXCEPT
                       !.node = NextNode, !.of = NumbersTo(F, Here.last)]
           g == Kept(Machine(state, lines, base, node, titles, then))
           of == {}
           d == Directives[Head(Line.m).c]
<1>1. /\ SeesDirective /\ frames' = Below \o <<AtEnd, g>> /\ d.run = "replace"
      /\ F.state = "SubstitutionDef" /\ tree' = Append(tree, Node(kind, F.node, of))
      /\ doc' = doc /\ memo' = memo /\ error' = error /\ dropped' = dropped
  BY Zenon DEF ReplaceDirective, NestedParse, Handler
<1>2. Onward
  <2>1. PICK S, T : Sees(S, T)
    BY <1>1, DirectiveSeen, Zenon DEF Ready
  <2> HIDE DEF g, of
  <2> QED
    BY <1>1, <2>1, SeenOnward
<1>3. then.k = "replace" /\ then.node = NextNode /\ then.of = NumbersTo(F, Here.last)
  BY DEF Then
<1>4. g = Kept(Machine(state, lines, base, node, titles, then)) /\ state \notin TextStates
  BY DEF TextStates
<1> DEFINE a == Left(Parsed.args, 0, X)
           o == Left(Parsed.options, 0, X)
           c == Left(lines, 0, X)
           Y == Span(F.lines, F.off, Here.last + 1, X)
<1>5. /\ Y = a \cup o \cup c /\ Sound(lines, X)
  BY <1>1, <1>2, SeenParts, Zenon
<1>6. a = {} /\ o = {}
  <2>1. Head(Line.m).c \in DOMAIN Directives
    BY <1>1, <1>2, KnownDirective
  <2>2. d.args = "none" /\ d.options = {}
    BY <1>1, <2>1, DirectivesAssumption
  <2>3. Parsed.args = <<>> /\ Parsed.options = <<>>
    BY <2>2, Zenon DEF Parsed, DirectiveBlock, DividedFrom, Divided
  <2> QED
    BY <2>3 DEF Left
<1> HIDE DEF state, lines, base, node, titles, then, g
<1>7. Unstarted(g) /\ g.state = state /\ g.lines = lines /\ g.then = then /\ g.node = node
  BY ONLY <1>4, KeptFresh
<1>8. ContentOf(g)
  BY <1>1, <1>3, <1>5, <1>7 DEF ContentOf, state, node
<1>9. Later(g, X) = {}
  BY <1>3, <1>7 DEF Later
<1>10. kind \notin Levels
  BY DEF Levels
<1>20. g.then.k = "replace" => of = {}
  OBVIOUS
<1> HIDE DEF kind
<1>11. Takes(Y, Left(g.lines, 0, X), Later(g, X), of, of \cap X)
  <2>1. Left(g.lines, 0, X) = c
    BY <1>7 DEF c
  <2> HIDE DEF a, o, c, Y, X
  <2> QED
    BY <1>5, <1>6, <1>9, <2>1 DEF Takes
<1> HIDE DEF of, a, o, c, X
<1> QED
  BY <1>1, <1>2, <1>8, <1>10, <1>11, <1>20, SeenContent DEF X, Y

\* A machine that will come to the very lines that it owed before.
LEMMA SeenSame ==
    ASSUME Onward, NEW S, NEW T, Sees(S, T), NEW f, frames' = Append(Below, f),
           Alike(F, f, TextLines), TopIn(f, Len(tree'), TextLines),
           Owed(f, TextLines) = Left(F.lines, Begins(F), TextLines),
           memo'.level # 0 <=> memo.level # 0, Grown({}, {})
    PROVE  Ledger'
<1>1. Spends(Left(F.lines, Begins(F), TextLines), Owed(f, TextLines), {}, {})
  BY DEF Spends
<1> QED
  BY <1>1, SeenGo

\* A machine of sections that goes on in another state of theirs.
LEMMA AlikeSections ==
    ASSUME NEW X, NEW f, DOMAIN f = MachineFields, f.state \in BodyStates,
           NEW g, DOMAIN g = MachineFields, Keeps(f, g), g.state \in BodyStates,
           g.state = "Line" => \A k \in 1 .. Len(g.ctx) : g.ctx[k].n \notin X
    PROVE  Alike(f, g, X)
<1>1. g.state # "SubstitutionDef" /\ f.state # "SubstitutionDef"
  BY DEF BodyStates
<1>2. Like(f, g)
  BY Zenon DEF Like
<1> QED
  BY <1>1, <1>2, Zenon DEF Alike

\* A line that begins with a rule is no text.
LEMMA RuleIsNoText ==
    ASSUME NEW X, NEW line, Proper(line, X), Len(line.m) \in Nat, Len(line.m) >= 1,
           line.m[1].t = "line"
    PROVE  line.n \notin X
<1>1. 1 \in 1 .. Len(line.m)
  OBVIOUS
<1>2. 1 = Len(line.m)
  BY <1>1 DEF Proper
<1>3. Last(line.m).t = "line"
  BY <1>2 DEF Last
<1> QED
  BY <1>3 DEF Proper

\* BodyText: the line is looked at again with the one below it.
LEMMA BodyTextOnce ==
    ASSUME Ready, BodyText
    PROVE  Ledger'
<1> DEFINE X == TextLines
           S == {"Body", "DefinitionList"}
           T == {"text"}
           state == IF F.state = "Body" THEN "Text" ELSE "Definition"
           f == [F EXCEPT !.ctx = <<Line>>, !.state = state]
<1>1. /\ Sees(S, T) /\ frames' = Append(Below, f) /\ tree' = tree \o <<>>
      /\ doc' = doc /\ error' = error /\ dropped' = dropped /\ memo' = memo
  BY Zenon DEF BodyText, Continue, Goes, Same
<1>2. Onward
  BY <1>1, SeenOnward
<1>3. /\ DOMAIN F = MachineFields /\ MachineIn(F, X) /\ F.phase = "run" /\ F.state \in S
      /\ F.off \in Nat /\ F.off < Len(F.lines) /\ Line = F.lines[F.off + 1]
  BY <1>1, <1>2, SeenText, Zenon
<1>4. F.state \notin TextStates /\ F.state # "SubstitutionDef" /\ state \in {"Text", "Definition"}
      /\ F.then.k # "substitution"
  BY <1>3, Zenon DEF TextStates, MachineIn
<1>5. Begins(F) = F.off
  BY <1>2, <1>4, NothingBefore
<1>6. /\ DOMAIN f = MachineFields /\ Keeps(F, f) /\ f.state = state /\ f.ctx = <<Line>>
      /\ f.off = F.off /\ f.phase = F.phase /\ f.lines = F.lines /\ f.then = F.then
  <2> HIDE DEF state
  <2> QED
    BY ONLY <1>3 DEF Keeps, MachineFields
<1> HIDE DEF f
<1>7. Alike(F, f, X)
  <2>1. CASE F.state = "Body"
    <3>1. F.state \in BodyStates /\ f.state \in BodyStates /\ f.state # "Line"
      BY <1>6, <2>1 DEF BodyStates
    <3> QED
      BY <1>3, <1>6, <3>1, AlikeSections, Zenon
  <2>2. CASE F.state # "Body"
    <3>1. /\ F.state \notin BodyStates \cup {"SubstitutionDef"}
          /\ f.state \notin BodyStates \cup {"SubstitutionDef"}
      BY <1>3, <1>6, <2>2 DEF BodyStates
    <3> QED
      BY <1>3, <1>6, <3>1, AlikeOther, Zenon
  <2> QED
    BY <2>1, <2>2
<1>8. f.phase = "run" /\ f.state \in TextStates /\ f.then.k # "substitution"
  BY <1>3, <1>4, <1>6 DEF TextStates
<1>9. TopIn(f, Len(tree'), X)
  <2>1. f.off < Len(f.lines) /\ f.ctx = <<f.lines[f.off + 1]>>
    BY <1>3, <1>6, Zenon
  <2> QED
    BY <1>8, <2>1, Zenon DEF TopIn
<1>10. Owed(f, X) = Left(F.lines, Begins(F), X)
  <2>1. Resume(f) = f.off
    BY <1>8, Zenon DEF Resume
  <2> QED
    BY <1>5, <1>6, <2>1, Zenon DEF Owed
<1>11. Grown({}, {})
  BY <1>1, <1>2, GrownNone
<1> QED
  BY <1>1, <1>2, <1>7, <1>9, <1>10, <1>11, SeenSame

\* NoDefinition: the machine ends before the line that was no term.
LEMMA NoDefinitionOnce ==
    ASSUME Ready, NoDefinition
    PROVE  Ledger'
<1> DEFINE X == TextLines
           S == {"Definition"}
           T == {"blank", "underline", "text"}
           f == Ended(F)
<1>1. /\ Sees(S, T) /\ frames' = Append(Below, f) /\ tree' = tree \o <<>>
      /\ doc' = doc /\ error' = error /\ dropped' = dropped /\ memo' = memo
  BY Zenon DEF NoDefinition, Continue, Goes, Same
<1>2. Onward
  BY <1>1, SeenOnward
<1>3. /\ DOMAIN F = MachineFields /\ MachineIn(F, X) /\ F.state \in S
      /\ F.off \in Nat /\ AnyNext(F)
  BY <1>1, <1>2, SeenText, Zenon
<1>4. F.state = "Definition" /\ F.state \in TextStates
      /\ F.then.k # "substitution" /\ F.then.k # "root"
  BY <1>3 DEF TextStates, MachineIn, BodyStates
<1>5. Begins(F) = F.off - 1
  BY <1>4, Zenon DEF Begins
<1>6. /\ DOMAIN f = MachineFields /\ Keeps(F, f) /\ f.state = F.state /\ f.ctx = F.ctx
      /\ f.only = F.only
      /\ f.off = F.off /\ f.phase = "eof" /\ f.lines = F.lines /\ f.then = F.then
  BY ONLY <1>3, <1>4 DEF Keeps, MachineFields, Ended
<1> HIDE DEF f
<1>7. Alike(F, f, X)
  BY <1>3, <1>6, AlikeStill
<1>8. TopIn(f, Len(tree'), X)
  BY <1>4, <1>6, Zenon DEF TopIn
<1>9. Owed(f, X) = Left(F.lines, Begins(F), X)
  <2>1. Resume(f) = f.off - 1
    BY <1>4, <1>6, Zenon DEF Resume
  <2> QED
    BY <1>5, <1>6, <2>1, Zenon DEF Owed
<1>10. Grown({}, {})
  BY <1>1, <1>2, GrownNone
<1> QED
  BY <1>1, <1>2, <1>7, <1>8, <1>9, <1>10, SeenSame

\* A rule that is seen is no text.
LEMMA SeenRuleIsNoText ==
    ASSUME Onward, NEW S, NEW T, Sees(S, T), ~Blank(Line), Head(Line.m).t = "line"
    PROVE  Line.n \notin TextLines
<1> DEFINE X == TextLines
           line == Line
<1>1. line \in LineOf(DOMAIN doc)
  BY Seen, Zenon DEF Onward
<1>2. Proper(line, X) /\ line.m # <<>>
  BY SeenText, Zenon DEF Blank
<1> HIDE DEF line, X
<1>3. line.m \in Seq(MarkType)
  BY <1>1, LineFields
<1>4. Len(line.m) \in Nat /\ Len(line.m) >= 1
  BY <1>2, <1>3, LenProperties, EmptySeq
<1>5. line.m[1].t = "line"
  BY DEF Head, line
<1>6. line.n \notin X
  BY <1>2, <1>4, <1>5, RuleIsNoText
<1> QED
  BY <1>6 DEF line, X

\* BodyLine: a rule is no text, and nothing else is read.
LEMMA BodyLineOnce ==
    ASSUME Ready, BodyLine
    PROVE  Ledger'
<1> DEFINE X == TextLines
           S == {"Body"}
           T == {"line"}
<1>1. Sees(S, T)
  BY Zenon DEF BodyLine
<1>2. /\ doc' = doc /\ error' = error /\ dropped' = dropped /\ memo' = memo
      /\ \/ Goes([F EXCEPT !.ctx = <<Line>>, !.state = "Line"], <<>>)
         \/ Goes(Correct(F), <<>>)
         \/ Goes(Correct(F), <<Message("info", F.node, {})>>)
         \/ Goes(F, <<Message("severe", F.node, {Line.n})>>)
  BY DEF BodyLine, Continue, Same
<1>3. Onward
  BY <1>1, <1>2, SeenOnward
<1>4. S \cap (TextStates \cup {"SubstitutionDef"}) = {} /\ T \cap {"blank", "indent", "text"} = {}
  BY DEF TextStates
<1>5. F.state \notin TextStates /\ F.state # "SubstitutionDef" /\ ~Blank(Line)
      /\ Head(Line.m).t = "line"
  <2>1. Transition = "line"
    BY <1>1 DEF Sees
  <2> QED
    BY <1>1, <1>3, <1>4, <2>1, SeenMark, Zenon
<1>6. Line.n \notin X
  BY <1>1, <1>3, <1>5, SeenRuleIsNoText
<1>7. /\ DOMAIN F = MachineFields /\ MachineIn(F, X) /\ F.phase = "run" /\ F.state = "Body"
      /\ F.off \in Nat /\ F.off < Len(F.lines) /\ Line = F.lines[F.off + 1] /\ AnyNext(F)
  <2>1. Sees(S, T) /\ Onward
    BY <1>1, <1>3
  <2>2. F.state \in S
    BY <1>1, <1>3, SeenText
  <2> QED
    BY ONLY <2>1, <2>2, SeenText
<1>8. Begins(F) = F.off
  BY <1>3, <1>5, NothingBefore
<1>9. CASE Goes([F EXCEPT !.ctx = <<Line>>, !.state = "Line"], <<>>)
  <2> DEFINE line == Line
             f == [F EXCEPT !.ctx = <<line>>, !.state = "Line"]
  <2>1. frames' = Append(Below, f) /\ tree' = tree \o <<>>
    BY <1>9, Zenon DEF Goes
  <2> HIDE DEF line
  <2>2. /\ DOMAIN f = MachineFields /\ Keeps(F, f) /\ f.state = "Line" /\ f.ctx = <<line>>
        /\ f.off = F.off /\ f.phase = F.phase /\ f.lines = F.lines /\ f.then = F.then
    BY ONLY <1>7 DEF Keeps, MachineFields
  <2> HIDE DEF f
  <2>3. f.state \in BodyStates /\ F.state \in BodyStates /\ f.state \in TextStates
    BY <1>7, <2>2 DEF BodyStates, TextStates
  <2>4. \A k \in 1 .. Len(f.ctx) : f.ctx[k].n \notin X
    <3>1. Len(<<line>>) = 1 /\ <<line>>[1] = line
      OBVIOUS
    <3>2. \A k \in 1 .. 1 : k = 1
      OBVIOUS
    <3> QED
      BY <1>6, <2>2, <3>1, <3>2, Zenon DEF line
  <2>5. Alike(F, f, X)
    BY <1>7, <2>2, <2>3, <2>4, AlikeSections, Zenon
  <2>6. F.then.k # "substitution"
    BY <1>5, <1>7, Zenon DEF MachineIn
  <2>7. TopIn(f, Len(tree'), X)
    <3>1. f.off < Len(f.lines) /\ f.ctx = <<f.lines[f.off + 1]>>
      BY <1>7, <2>2, Zenon DEF line
    <3> QED
      BY <1>7, <2>2, <2>6, <3>1, Zenon DEF TopIn
  <2>8. Owed(f, X) = Left(F.lines, Begins(F), X)
    <3>1. Resume(f) = f.off
      BY <1>7, <2>2, <2>3, Zenon DEF Resume
    <3> QED
      BY <1>8, <2>2, <3>1, Zenon DEF Owed
  <2>9. Grown({}, {})
    BY <1>3, <2>1, GrownNone
  <2> QED
    BY <1>1, <1>2, <1>3, <2>1, <2>5, <2>7, <2>8, <2>9, SeenSame
<1>10. CASE Goes(Correct(F), <<>>) \/ Goes(Correct(F), <<Message("info", F.node, {})>>)
  <2> DEFINE f == Correct(F)
  <2>1. frames' = Append(Below, f)
    BY <1>10, Zenon DEF Goes
  <2>2. Grown({}, {})
    <3>1. CASE Goes(Correct(F), <<>>)
      BY <1>3, <3>1, GrownNone DEF Goes
    <3>2. CASE Goes(Correct(F), <<Message("info", F.node, {})>>)
      <4>1. Silent(<<Message("info", F.node, {})>>)
        BY SilentNodes
      <4> QED
        BY <1>3, <3>2, <4>1, GrownNone DEF Goes
    <3> QED
      BY <1>10, <3>1, <3>2
  <2>3. Alike(F, f, X) /\ f.off = F.off - 1 /\ f.phase = "run" /\ f.state = F.state
    BY <1>1, <1>3, <1>5, SeenBack, Zenon
  <2> HIDE DEF f
  <2> QED
    BY <1>1, <1>2, <1>3, <1>5, <2>1, <2>2, <2>3, SeenAgain
<1>11. CASE Goes(F, <<Message("severe", F.node, {Line.n})>>)
  <2> DEFINE H == {Line.n}
             kind == "severe"
             Y == Span(F.lines, Begins(F), F.off + 1, X)
  <2>1. frames' = Append(Below, F) /\ tree' = tree \o <<Message(kind, F.node, H)>>
    BY <1>11, Zenon DEF Goes
  <2>2. Grown(H, {})
    <3>1. kind \in Levels
      BY DEF Levels
    <3> HIDE DEF kind, H
    <3>2. tree' = tree \o <<Node(kind, F.node, H)>>
      BY <2>1, Zenon DEF Message
    <3> QED
      BY <1>3, <3>1, <3>2, GrownNode, Zenon DEF Onward
  <2>3. Y = {}
    <3>1. Y = {Line.n} \cap X
      BY <1>1, <1>3, <1>8, SeenLeft
    <3> QED
      BY <1>6, <3>1
  <2>4. Alike(F, F, X)
    BY <1>7, AlikeStill, Zenon DEF Keeps
  <2>5. F.off \in Int /\ Begins(F) <= F.off + 1
    BY <1>7, <1>8
  <2> HIDE DEF H, Y
  <2> QED
    BY <1>1, <1>2, <1>3, <1>5, <1>7, <2>1, <2>2, <2>3, <2>4, <2>5, SeenOn DEF Y
<1> QED
  BY <1>2, <1>9, <1>10, <1>11

\* The lines that two lists of lines have together.
LEMMA NumbersJoin ==
    ASSUME NEW D, NEW a \in LinesOf(D), NEW b \in LinesOf(D)
    PROVE  /\ a \o b \in LinesOf(D)
           /\ NumbersOf(a \o b) = NumbersOf(a) \cup NumbersOf(b)
<1> DEFINE s == a \o b
           m == Len(a)
           n == Len(b)
<1>1. m \in Nat /\ n \in Nat /\ DOMAIN a = 1 .. m /\ DOMAIN b = 1 .. n
  BY LenProperties DEF LinesOf
<1>2. /\ s \in LinesOf(D) /\ Len(s) = m + n /\ DOMAIN s = 1 .. m + n
      /\ \A i \in 1 .. m + n : s[i] = IF i <= m THEN a[i] ELSE b[i - m]
  BY ConcatProperties, LenProperties DEF LinesOf
<1> HIDE DEF s, m, n
<1>3. ASSUME NEW x \in NumbersOf(s)
      PROVE  x \in NumbersOf(a) \cup NumbersOf(b)
  <2>1. PICK i \in 1 .. m + n : ~Blank(s[i]) /\ x = s[i].n
    BY <1>2, <1>3 DEF NumbersOf
  <2>2. CASE i <= m
    <3>1. i \in 1 .. m /\ s[i] = a[i]
      BY <1>1, <1>2, <2>2
    <3> QED
      BY <1>1, <2>1, <3>1 DEF NumbersOf
  <2>3. CASE ~(i <= m)
    <3>1. i - m \in 1 .. n /\ s[i] = b[i - m]
      BY <1>1, <1>2, <2>3
    <3> QED
      BY <1>1, <2>1, <3>1 DEF NumbersOf
  <2> QED
    BY <2>2, <2>3
<1>4. ASSUME NEW x \in NumbersOf(a)
      PROVE  x \in NumbersOf(s)
  <2>1. PICK i \in 1 .. m : ~Blank(a[i]) /\ x = a[i].n
    BY <1>1, <1>4 DEF NumbersOf
  <2>2. i \in 1 .. m + n /\ s[i] = a[i]
    BY <1>1, <1>2
  <2> QED
    BY <1>2, <2>1, <2>2 DEF NumbersOf
<1>5. ASSUME NEW x \in NumbersOf(b)
      PROVE  x \in NumbersOf(s)
  <2>1. PICK i \in 1 .. n : ~Blank(b[i]) /\ x = b[i].n
    BY <1>1, <1>5 DEF NumbersOf
  <2>2. m + i \in 1 .. m + n /\ s[m + i] = b[i]
    <3>1. m + i \in 1 .. m + n /\ ~(m + i <= m) /\ (m + i) - m = i
      BY <1>1
    <3> QED
      BY <1>2, <3>1
  <2> QED
    BY <1>2, <2>1, <2>2 DEF NumbersOf
<1> QED
  BY <1>2, <1>3, <1>4, <1>5 DEF s

\* The rule that Line keeps is no text.
LEMMA SeenOverline ==
    ASSUME Onward, NEW S, NEW T, Sees(S, T), F.state = "Line"
    PROVE  /\ F.ctx[1].n \notin TextLines /\ NumbersOf(F.ctx) \cap TextLines = {}
           /\ Begins(F) = F.off - 1 /\ F.off >= 1 /\ F.state \in TextStates
           /\ F.state \in BodyStates /\ F.then.k # "substitution"
           /\ F.ctx \in LinesOf(DOMAIN doc) /\ Len(F.ctx) = 1
           /\ Span(F.lines, Begins(F), F.off, TextLines) = {}
<1>1. F.state \in TextStates /\ F.state \in BodyStates
  BY DEF TextStates, BodyStates
<1>2. MachineIn(F, TextLines)
  BY SeenText, Zenon
<1>3. /\ NumbersOf(F.ctx) \cap TextLines = Span(F.lines, Begins(F), F.off, TextLines)
      /\ Begins(F) = F.off - 1 /\ F.off >= 1 /\ Len(F.ctx) = 1 /\ F.ctx \in LinesOf(DOMAIN doc)
      /\ Span(F.lines, Begins(F), F.off, TextLines) = {F.ctx[1].n} \cap TextLines
  BY <1>1, SeenTerm
<1>4. F.ctx[1].n \notin TextLines
  <2>1. 1 \in 1 .. Len(F.ctx)
    BY <1>3
  <2> QED
    BY <1>2, <2>1 DEF MachineIn
<1>5. F.then.k # "substitution"
  BY <1>2, Zenon DEF MachineIn
<1> QED
  BY <1>1, <1>3, <1>4, <1>5

\* An overline that is text after all is read again, and nothing else.
LEMMA SeenAsText ==
    ASSUME Onward, NEW S, NEW T, Sees(S, T), F.state = "Line", NEW f, frames' = Append(Below, f),
           f = AsText(F, 1) \/ f = AsText(Moved(F, 1), 2),
           memo'.level # 0 <=> memo.level # 0, Grown({}, {})
    PROVE  Ledger'
<1> DEFINE X == TextLines
<1>1. /\ DOMAIN F = MachineFields /\ MachineIn(F, X) /\ F.off \in Nat /\ F.phase = "run"
  BY SeenText, Zenon
<1>2. F.then.k # "substitution" /\ F.state \in BodyStates /\ Begins(F) = F.off - 1
  BY SeenOverline, Zenon
<1>3. /\ DOMAIN f = MachineFields /\ Keeps(F, f) /\ f.state = "Body" /\ f.phase = F.phase
      /\ f.off = F.off - 2 /\ f.lines = F.lines /\ f.then = F.then
  <2>1. /\ DOMAIN f = MachineFields /\ Keeps(F, f) /\ f.state = "Body" /\ f.phase = F.phase
        /\ f.lines = F.lines /\ f.then = F.then
        /\ f.off = F.off + (-1 - 1) \/ f.off = F.off + 1 + (-2 - 1)
    BY ONLY <1>1, f = AsText(F, 1) \/ f = AsText(Moved(F, 1), 2)
       DEF AsText, Moved, Keeps, MachineFields
  <2> QED
    BY <1>1, <2>1
<1>4. f.state \in BodyStates /\ f.state \notin TextStates /\ f.state # "Line"
  BY <1>3 DEF BodyStates, TextStates
<1>5. Alike(F, f, X)
  BY <1>1, <1>2, <1>3, <1>4, AlikeSections, Zenon
<1>6. TopIn(f, Len(tree'), X)
  BY <1>1, <1>2, <1>3, <1>4, Zenon DEF TopIn
<1>7. Owed(f, X) = Left(F.lines, Begins(F), X)
  <2>1. Resume(f) = f.off + 1
    BY <1>1, <1>3, <1>4, Zenon DEF Resume
  <2>2. f.off + 1 = F.off - 1
    BY <1>1, <1>3
  <2> QED
    BY <1>2, <1>3, <2>1, <2>2, Zenon DEF Owed
<1> QED
  BY <1>5, <1>6, <1>7, SeenSame

\* A machine that is done with a block and reads on in Body.
LEMMA SeenBodyAgain ==
    ASSUME Onward, NEW S, NEW T, Sees(S, T), F.state \in BodyStates,
           NEW off \in Int, Begins(F) <= off + 1, NEW f, frames' = Append(Below, f),
           DOMAIN f = MachineFields, Keeps(F, f), f.state = "Body", f.phase = "run", f.off = off,
           memo'.level # 0 <=> memo.level # 0, NEW H, NEW U, Grown(H, U),
           NEW Y, Y = Span(F.lines, Begins(F), off + 1, TextLines),
           Y \subseteq H \cup dropped', ~reread' => U \subseteq Y
    PROVE  Ledger'
<1>1. DOMAIN F = MachineFields
  BY SeenText, Zenon
<1>2. f.state \in BodyStates /\ f.state \notin TextStates \cup {"SubstitutionDef"} /\ f.state # "Line"
  BY DEF BodyStates, TextStates
<1>3. Alike(F, f, TextLines)
  BY <1>1, <1>2, AlikeSections, Zenon
<1> QED
  BY <1>2, <1>3, SeenOn

\* No section is open around the root.
LEMMA RootLevel ==
    ASSUME Onward, Top.then.k = "root"
    PROVE  memo.level = 0
<1> DEFINE m == Len(frames)
<1>1. m \in 1 .. m /\ m \in Nat /\ Top = frames[m] /\ (memo.level # 0 <=> Sectioned(frames, m))
  BY TopOwes
<1>2. \A i \in 2 .. Len(frames) : LinkOK(frames[i - 1], frames[i])
  BY DEF Onward, Stack, StackOK
<1>3. \A i \in 2 .. Len(frames) : frames[i].then.k # "root"
  BY <1>2, Zenon DEF LinkOK
<1> HIDE DEF m
<1>4. m = 1
  <2>1. frames[m].then.k = "root"
    BY <1>1
  <2>2. m \notin 2 .. m
    BY <1>3, <2>1, Zenon DEF m
  <2> QED
    BY <1>1, <2>2
<1>5. ~IsSection(frames[1])
  BY <1>1, <1>4 DEF IsSection
<1>6. ~Sectioned(frames, m)
  BY <1>4, <1>5 DEF Sectioned
<1> QED
  BY <1>1, <1>6

\* A title is held by its node, and the section owes what is behind it.
LEMMA SeenSection ==
    ASSUME Ready, NEW S, NEW T, Sees(S, T), F.state \in {"Text", "Line"},
           NEW over \in BOOLEAN, over <=> F.state = "Line",
           NEW f, DOMAIN f = MachineFields, Keeps(F, f), f.state = F.state, f.phase = "run",
           f.off = IF over THEN F.off + 1 ELSE F.off,
           f.ctx = IF over THEN F.ctx ELSE <<>>,
           NEW c, NEW of, of \cap TextLines = Span(F.lines, Begins(F), f.off + 1, TextLines),
           NEW messages, NEW G, Tells(messages, G, {}, TextLines),
           Section(f, [c |-> c, over |-> over], of, messages)
    PROVE  Ledger'
<1> DEFINE X == TextLines
           style == [c |-> c, over |-> over]
           level == IndexOf(memo.styles, style)
           new == level = 0 /\ Len(memo.styles) = memo.level
           more == IF new THEN Append(memo.styles, style) ELSE memo.styles
           deeper == memo.level + 1
           bubble == memo.bubble \/ over
           state == "Body"
           titles == TRUE
           then == [Then("section", TRUE) EXCEPT !.level = memo.level]
           lines == From(f.lines, f.off + 1)
           base == AbsOffset(f) + 1
           node == NextNode
           g == Kept(Machine(state, lines, base, node, titles, then))
           two == <<Node("section", f.node, {}), Node("title", node, of)>>
           below == Ended(Moved(f, IF over THEN -3 ELSE -2))
           body == [BackToBody(f) EXCEPT !.eofcheck = TRUE]
<1>1. \/ /\ frames' = Below \o <<f, g>>
         /\ tree' = tree \o two \o messages
         /\ memo' = [memo EXCEPT !.level = deeper, !.styles = more]
      \/ /\ level # 0 /\ level <= memo.level
         /\ frames' = Append(Below, below)
         /\ tree' = tree \o <<Message("error", f.node, {})>> \/ tree' = tree \o <<>>
         /\ memo' = [memo EXCEPT !.level = level, !.bubble = bubble]
      \/ /\ frames' = Append(Below, body)
         /\ tree' = tree \o <<Message("severe", f.node, of)>>
         /\ memo' = memo
  BY DEF Section, NestedParse, Goes, Continue, Same
<1>2. doc' = doc /\ error' = error /\ dropped' = dropped
  BY DEF Section, Continue, Same
<1>3. Onward
  BY <1>2, SeenOnward
<1>4. /\ DOMAIN F = MachineFields /\ MachineIn(F, X) /\ F.phase = "run" /\ AnyNext(F)
      /\ F.off \in Nat /\ F.state \in TextStates /\ Alike(Top, F, X)
  BY <1>3, SeenText DEF TextStates
<1>5. F.state \in BodyStates /\ F.state # "SubstitutionDef" /\ Begins(F) = F.off - 1
  BY <1>4 DEF BodyStates, Begins
<1>6. f.off \in Int /\ Begins(F) <= f.off + 1
  BY <1>4, <1>5
<1>7. f.lines = F.lines /\ f.node = F.node /\ f.then = F.then
  BY DEF Keeps
<1>8. memo \in MemoType /\ memo.level \in Nat
  BY DEF Ready, Stack, MemoType
<1>9. F.then.k # "substitution"
  BY <1>4, <1>5, Zenon DEF MachineIn
<1> DEFINE Y == Span(F.lines, Begins(F), f.off + 1, X)
<1>10. CASE /\ frames' = Below \o <<f, g>>
            /\ tree' = tree \o two \o messages
            /\ memo' = [memo EXCEPT !.level = deeper, !.styles = more]
  <2>1. then.k = "section" /\ then.level = memo.level
    BY DEF Then
  <2>2. g = Kept(Machine(state, lines, base, node, titles, then)) /\ state \notin TextStates
    BY DEF TextStates
  <2>3. memo'.level # 0
    <3> HIDE DEF more, g, two
    <3>1. memo'.level = deeper
      BY <1>8, <1>10 DEF MemoType
    <3> QED
      BY <1>8, <3>1
  <2>4. NextNode \in Nat /\ F.node <= NextNode
    BY <1>3, SeenNext
  <2>5. tree' = tree \o two \o messages /\ frames' = Below \o <<f, g>>
    BY <1>10
  <2>6. Tells(two, of, of \cap X, X)
    <3> DEFINE a == <<Node("section", f.node, {})>>
               kind == "title"
               b == <<Node(kind, node, of)>>
    <3>1. Silent(a)
      BY SilentNodes
    <3>2. Tells(b, of, of \cap X, X)
      <4>1. kind \notin Levels
        BY DEF Levels
      <4> HIDE DEF kind
      <4> QED
        BY <4>1, TellsNode
    <3>3. a \o b = two
      BY PairSeq
    <3> HIDE DEF a, b, two, X
    <3> QED
      BY ONLY <3>1, <3>2, <3>3, SilentFirst DEF X
  <2> HIDE DEF state, lines, base, node, titles, then, g, two
  <2>7. Unstarted(g) /\ g.state = state /\ g.lines = lines /\ g.then = then /\ g.node = node
    BY ONLY <2>2, KeptFresh
  <2>8. TakesOver(f, g) /\ IsSection(g) /\ g.then.level = memo.level
    BY <2>1, <2>7 DEF TakesOver, IsSection, lines, state
  <2> DEFINE H == of \cup G
             none == {}
             U == (of \cap X) \cup none
  <2>9. Grown(H, U)
    <3>1. Tells(messages, G, none, X) /\ Stack /\ (of \cap X) \cap none = {}
      BY <1>3 DEF Onward
    <3> HIDE DEF none
    <3> QED
      BY <2>5, <2>6, <3>1, GrownTwice
  <2>10. Alike(F, f, X)
    <3>1. f.state = "Line" => \A k \in 1 .. Len(f.ctx) : f.ctx[k].n \notin X
      BY <1>4 DEF MachineIn
    <3> QED
      BY <1>4, <1>5, <3>1, AlikeSections
  <2>11. Y \subseteq H \cup dropped' /\ U \subseteq Y
    OBVIOUS
  <2>12. g.node \in Nat /\ F.node <= g.node
    BY <2>4, <2>7 DEF node
  <2>13. /\ memo'.level # 0 <=> memo.level # 0 \/ IsSection(g)
         /\ IsSection(g) => (g.then.level # 0 <=> memo.level # 0)
    BY <2>3, <2>8
  <2>14. /\ Sees(S, T) /\ frames' = Below \o <<f, g>> /\ Y = Span(F.lines, Begins(F), f.off + 1, X)
         /\ TakesOver(f, g)
    BY <2>5, <2>8
  <2> HIDE DEF H, U, Y, none
  <2> QED
    BY ONLY <1>3, <1>5, <1>6, <2>9, <2>10, <2>11, <2>12, <2>13, <2>14, SeenTakesOver DEF X
<1>11. CASE /\ level # 0 /\ level <= memo.level
            /\ frames' = Append(Below, below)
            /\ tree' = tree \o <<Message("error", f.node, {})>> \/ tree' = tree \o <<>>
            /\ memo' = [memo EXCEPT !.level = level, !.bubble = bubble]
  <2>1. level \in Nat
    <3>1. memo.styles \in Seq(Style) /\ style \in {style}
      BY <1>8 DEF MemoType
    <3>2. DOMAIN memo.styles = 1 .. Len(memo.styles) /\ Len(memo.styles) \in Nat
      BY <3>1, LenProperties
    <3> QED
      BY <3>2 DEF IndexOf
  <2>2. memo'.level # 0 /\ memo.level # 0
    <3> HIDE DEF level, below
    <3>1. memo'.level = level
      BY <1>8, <1>11 DEF MemoType
    <3> QED
      BY <1>8, <1>11, <2>1, <3>1
  <2>3. frames' = Append(Below, below) /\ Grown({}, {})
    <3>1. Silent(<<Message("error", f.node, {})>>) /\ Silent(<<>>)
      BY SilentNodes
    <3> QED
      BY <1>3, <1>11, <3>1, GrownNone
  <2>4. /\ DOMAIN below = MachineFields /\ Keeps(F, below) /\ below.state = F.state
        /\ below.ctx = f.ctx /\ below.off = F.off - 2 /\ below.phase = "eof"
        /\ below.lines = F.lines /\ below.then = F.then
    <3> DEFINE by == IF over THEN -3 ELSE -2
    <3>1. DOMAIN f = MachineFields /\ f.state \in TextStates /\ Keeps(F, f) /\ f.state = F.state
      BY <1>4
    <3>2. f.off + by = F.off - 2
      BY <1>4
    <3> HIDE DEF by
    <3>3. /\ DOMAIN below = MachineFields /\ Keeps(F, below) /\ below.state = F.state
          /\ below.ctx = f.ctx /\ below.off = f.off + by /\ below.phase = "eof"
          /\ below.lines = F.lines /\ below.then = F.then
      BY ONLY <3>1, below = Ended(Moved(f, by)) DEF Ended, Moved, Keeps, MachineFields, by
    <3> QED
      BY <3>2, <3>3
  <2> HIDE DEF below
  <2>5. Alike(F, below, X)
    <3>1. below.state = "Line" => \A k \in 1 .. Len(below.ctx) : below.ctx[k].n \notin X
      BY <1>4, <2>4 DEF MachineIn
    <3> QED
      BY <1>4, <1>5, <2>4, <3>1, AlikeSections
  <2>6. F.then.k # "root"
    <3>1. Top.then = F.then
      BY <1>4 DEF Alike, Like, Keeps
    <3> QED
      BY <1>3, <2>2, <3>1, RootLevel
  <2>7. below.state = "Text" => below.ctx = <<>>
    BY <2>4
  <2>8. TopIn(below, Len(tree'), X)
    BY <1>9, <2>4, <2>6, <2>7, Zenon DEF TopIn
  <2>9. Owed(below, X) = Left(F.lines, Begins(F), X)
    <3>1. below.state # "Definition"
      BY <2>4
    <3>2. Resume(below) = below.off + 1
      BY <2>4, <2>7, <3>1, Zenon DEF Resume
    <3>3. below.off + 1 = F.off - 1
      BY <1>4, <2>4
    <3> QED
      BY <1>5, <2>4, <3>2, <3>3, Zenon DEF Owed
  <2> QED
    BY <1>3, <2>2, <2>3, <2>5, <2>8, <2>9, SeenSame
<1>12. CASE /\ frames' = Append(Below, body)
            /\ tree' = tree \o <<Message("severe", f.node, of)>>
            /\ memo' = memo
  <2>1. /\ DOMAIN body = MachineFields /\ Keeps(F, body) /\ body.state = "Body"
        /\ body.phase = "run" /\ body.off = f.off
    <3>1. DOMAIN f = MachineFields /\ Keeps(F, f) /\ f.phase = "run"
      OBVIOUS
    <3> QED
      BY ONLY <3>1 DEF BackToBody, Keeps, MachineFields
  <2>2. frames' = Append(Below, body) /\ memo' = memo
    BY <1>12
  <2>3. Grown(of, {})
    <3> DEFINE kind == "severe"
    <3>1. kind \in Levels
      BY DEF Levels
    <3>2. tree' = tree \o <<Node(kind, f.node, of)>>
      BY <1>12, Zenon DEF Message
    <3> HIDE DEF kind
    <3> QED
      BY <1>3, <3>1, <3>2, GrownNode, Zenon DEF Onward
  <2> DEFINE off == f.off
             none == {}
  <2>4. off \in Int /\ Begins(F) <= off + 1 /\ body.off = off /\ Y = Span(F.lines, Begins(F), off + 1, X)
    BY <1>6, <2>1
  <2>5. Y \subseteq of \cup dropped' /\ none \subseteq Y /\ Grown(of, none)
    BY <2>3
  <2> HIDE DEF body, off, Y, none
  <2> QED
    BY <1>3, <1>5, <2>1, <2>2, <2>4, <2>5, SeenBodyAgain
<1> HIDE DEF g, two, below, body, level, more, bubble
<1> QED
  BY <1>1, <1>10, <1>11, <1>12

\* The machine that goes on in Body.
LEMMA BodyKept ==
    ASSUME NEW f, DOMAIN f = MachineFields, f.phase = "run"
    PROVE  /\ DOMAIN BackToBody(f) = MachineFields /\ Keeps(f, BackToBody(f))
           /\ BackToBody(f).state = "Body" /\ BackToBody(f).phase = "run"
           /\ BackToBody(f).off = f.off
  BY DEF BackToBody, Keeps, MachineFields

\* LineBlank: a transition, or text.
LEMMA LineBlankOnce ==
    ASSUME Ready, LineBlank
    PROVE  Ledger'
<1> DEFINE X == TextLines
           S == {"Line"}
           T == {"blank"}
           H == NumbersOf(F.ctx)
           kind == "transition"
<1>1. Sees(S, T)
  BY Zenon DEF LineBlank
<1>2. /\ doc' = doc /\ error' = error /\ dropped' = dropped /\ memo' = memo
      /\ \/ frames' = Append(Below, AsText(F, 1)) /\ tree' = tree \o <<>>
         \/ frames' = Append(Below, BackToBody(F)) /\ tree' = tree \o <<Node(kind, F.node, H)>>
  BY DEF LineBlank, Continue, Goes, Same
<1>3. Onward
  BY <1>1, <1>2, SeenOnward
<1>4. F.state = "Line" /\ Transition = "blank"
  BY <1>1 DEF Sees
<1>5. CASE frames' = Append(Below, AsText(F, 1)) /\ tree' = tree \o <<>>
  <2> DEFINE f == AsText(F, 1)
  <2>1. Grown({}, {})
    BY <1>3, <1>5, GrownNone
  <2>2. frames' = Append(Below, f) /\ f = AsText(F, 1)
    BY <1>5
  <2> HIDE DEF f
  <2> QED
    BY <1>1, <1>2, <1>3, <1>4, <2>1, <2>2, SeenAsText
<1>6. CASE frames' = Append(Below, BackToBody(F)) /\ tree' = tree \o <<Node(kind, F.node, H)>>
  <2> DEFINE f == BackToBody(F)
             off == F.off
             Y == Span(F.lines, Begins(F), off + 1, X)
             U == H \cap X
  <2>1. DOMAIN F = MachineFields /\ F.phase = "run" /\ off \in Nat /\ Line = F.lines[F.off + 1]
    BY <1>1, <1>3, SeenText, Zenon
  <2>2. /\ U = {} /\ Begins(F) = off - 1 /\ F.state \in BodyStates
        /\ Span(F.lines, Begins(F), off, X) = {}
    BY <1>1, <1>3, <1>4, SeenOverline
  <2>3. Y = {}
    <3>1. Blank(Line)
      BY <1>1, <1>3, <1>4, SeenAs
    <3>2. Span(F.lines, off, off + 1, X) = {}
      BY <1>1, <1>3, <3>1, SeenLeft
    <3> QED
      BY <2>1, <2>2, <3>2 DEF Span
  <2>4. /\ DOMAIN f = MachineFields /\ Keeps(F, f) /\ f.state = "Body" /\ f.phase = "run"
        /\ f.off = off
    BY <2>1, BodyKept
  <2>5. Grown(H, U)
    <3>1. kind \notin Levels
      BY DEF Levels
    <3> HIDE DEF kind, H
    <3> QED
      BY <1>3, <1>6, <3>1, GrownNode DEF Onward
  <2>6. off \in Int /\ Begins(F) <= off + 1 /\ frames' = Append(Below, f)
    BY <1>6, <2>1, <2>2
  <2>7. Y \subseteq H \cup dropped' /\ U \subseteq Y /\ Y = Span(F.lines, Begins(F), off + 1, X)
    BY <2>2, <2>3
  <2> HIDE DEF f, off, Y, U, H
  <2> QED
    BY <1>1, <1>2, <1>3, <2>2, <2>4, <2>5, <2>6, <2>7, SeenBodyAgain
<1> QED
  BY <1>2, <1>5, <1>6

\* LineUnderline: two rules, or text.
LEMMA LineUnderlineOnce ==
    ASSUME Ready, LineUnderline
    PROVE  Ledger'
<1> DEFINE X == TextLines
           S == {"Line"}
           T == {"underline"}
           H == NumbersOf(F.ctx \o <<Line>>)
           kind == "error"
           note == <<Message("info", F.node, {})>>
<1>1. Sees(S, T)
  BY Zenon DEF LineUnderline
<1>2. /\ doc' = doc /\ error' = error /\ dropped' = dropped /\ memo' = memo
      /\ \/ frames' = Append(Below, AsText(F, 1)) /\ tree' = tree \o note
         \/ frames' = Append(Below, BackToBody(F)) /\ tree' = tree \o <<Node(kind, F.node, H)>>
  BY DEF LineUnderline, Continue, Goes, Same, Message
<1>3. Onward
  BY <1>1, <1>2, SeenOnward
<1>4. F.state = "Line" /\ Transition = "underline"
  BY <1>1 DEF Sees
<1>5. CASE frames' = Append(Below, AsText(F, 1)) /\ tree' = tree \o note
  <2> DEFINE f == AsText(F, 1)
  <2>1. Grown({}, {})
    <3>1. Silent(note)
      BY SilentNodes
    <3> QED
      BY <1>3, <1>5, <3>1, GrownNone
  <2>2. frames' = Append(Below, f) /\ f = AsText(F, 1)
    BY <1>5
  <2> HIDE DEF f
  <2> QED
    BY <1>1, <1>2, <1>3, <1>4, <2>1, <2>2, SeenAsText
<1>6. CASE frames' = Append(Below, BackToBody(F)) /\ tree' = tree \o <<Node(kind, F.node, H)>>
  <2> DEFINE f == BackToBody(F)
             off == F.off
             Y == Span(F.lines, Begins(F), off + 1, X)
             none == {}
  <2>1. DOMAIN F = MachineFields /\ F.phase = "run" /\ off \in Nat
    BY <1>1, <1>3, SeenText, Zenon
  <2>2. /\ Begins(F) = off - 1 /\ F.state \in BodyStates /\ F.ctx \in LinesOf(DOMAIN doc)
        /\ Span(F.lines, Begins(F), off, X) = {}
    BY <1>1, <1>3, <1>4, SeenOverline
  <2>3. Y \subseteq H
    <3>1. Span(F.lines, off, off + 1, X) = {Line.n} \cap X /\ (Blank(Line) => {Line.n} \cap X = {})
      BY <1>1, <1>3, SeenLeft
    <3>2. Y \subseteq {Line.n} \cap X
      BY <2>1, <2>2, <3>1 DEF Span
    <3>3. Line \in LineOf(DOMAIN doc)
      BY <1>1, <1>3, Seen, Zenon DEF Onward
    <3> DEFINE one == <<Line>>
               D == DOMAIN doc
    <3>4. one \in LinesOf(D)
      BY <3>3 DEF LinesOf
    <3>5. ~Blank(Line) => Line.n \in NumbersOf(one)
      BY DEF NumbersOf
    <3>6. F.ctx \in LinesOf(D) /\ H = NumbersOf(F.ctx \o one)
      BY <2>2
    <3> HIDE DEF one, D, H
    <3>7. H = NumbersOf(F.ctx) \cup NumbersOf(one)
      BY <3>4, <3>6, NumbersJoin
    <3> QED
      BY <3>1, <3>2, <3>5, <3>7
  <2>4. /\ DOMAIN f = MachineFields /\ Keeps(F, f) /\ f.state = "Body" /\ f.phase = "run"
        /\ f.off = off
    BY <2>1, BodyKept
  <2>5. Grown(H, none)
    <3>1. kind \in Levels
      BY DEF Levels
    <3> HIDE DEF kind, H
    <3> QED
      BY <1>3, <1>6, <3>1, GrownNode DEF Onward
  <2>6. off \in Int /\ Begins(F) <= off + 1 /\ frames' = Append(Below, f)
    BY <1>6, <2>1, <2>2
  <2>7. Y \subseteq H \cup dropped' /\ none \subseteq Y /\ Y = Span(F.lines, Begins(F), off + 1, X)
    BY <2>3
  <2>8. memo'.level # 0 <=> memo.level # 0
    BY <1>2
  <2> HIDE DEF f, off, Y, none, H
  <2> QED
    BY ONLY <1>1, <1>3, <2>2, <2>4, <2>5, <2>6, <2>7, <2>8, SeenBodyAgain DEF X
<1> QED
  BY <1>2, <1>5, <1>6

\* A warning about a title holds nothing, or the lines of the title.
LEMMA WarnedTells ==
    ASSUME NEW warn, NEW up, NEW of
    PROVE  /\ Tells(IF warn THEN <<Message("warning", up, of)>> ELSE <<>>,
                    IF warn THEN of ELSE {}, {}, TextLines)
           /\ Tells(<<Message("severe", up, of)>>, of, {}, TextLines)
           /\ Tells(Append(IF warn THEN <<Message("warning", up, of)>> ELSE <<>>,
                           Message("severe", up, of)),
                    of, {}, TextLines)
<1> DEFINE X == TextLines
           kind == "warning"
           other == "severe"
           a == <<Message(kind, up, of)>>
           b == <<Message(other, up, of)>>
           none == {}
           nil == <<>>
<1>1. kind \in Levels /\ other \in Levels
  BY DEF Levels
<1>2. Tells(a, of, none, X) /\ Tells(b, of, none, X)
  <2> HIDE DEF kind, other
  <2> QED
    BY <1>1, TellsNode
<1>3. Tells(nil, none, none, X)
  BY TellsNothing
<1>4. a \o b = Append(a, Message(other, up, of)) /\ nil \o b = Append(nil, Message(other, up, of))
  OBVIOUS
<1>5. Tells(a \o b, of \cup of, none \cup none, X)
  <2>1. none \cap none = {}
    OBVIOUS
  <2> HIDE DEF a, b, none, X
  <2> QED
    BY <1>2, <2>1, TellsBoth
<1>6. Tells(nil \o b, none \cup of, none \cup none, X)
  <2>1. none \cap none = {}
    OBVIOUS
  <2> HIDE DEF nil, b, none, X
  <2> QED
    BY <1>2, <1>3, <2>1, TellsBoth
<1>7. of \cup of = of /\ none \cup none = none /\ none \cup of = of
  OBVIOUS
<1> HIDE DEF a, b, none, X
<1>8. Tells(a \o b, of, none, X) /\ Tells(nil \o b, of, none, X)
  BY <1>5, <1>6, <1>7, Zenon
<1>9. CASE warn
  BY <1>2, <1>4, <1>8, <1>9, Zenon DEF a, b, none, X
<1>10. CASE ~warn
  BY <1>2, <1>3, <1>4, <1>8, <1>10, Zenon DEF a, b, none, X
<1> QED
  BY <1>9, <1>10

\* LineText: an overlined title, a message, or text.
LEMMA LineTextOnce ==
    ASSUME Ready, LineText
    PROVE  Ledger'
<1> DEFINE X == TextLines
           S == {"Line"}
           T == {"text", "indent"}
           f == Moved(F, 1)
           c == RuleOf(F.ctx[1]).c
           i == F.off
           j == F.off + 2
           of == NumbersOf(F.ctx \o Slice(F.lines, i, j))
           wide == Width(Line) > RuleOf(F.ctx[1]).u
           messages == IF wide THEN <<Message("warning", NextNode, of)>> ELSE <<>>
           note == <<Message("info", F.node, {})>>
           title == [f EXCEPT !.eofcheck = FALSE]
           over == TRUE
           kind == "severe"
<1>1. Sees(S, T)
  BY Zenon DEF LineText
<1>2. \/ /\ Same
         /\ frames' = Append(Below, AsText(f, 2)) /\ tree' = tree \o note
      \/ /\ Same
         /\ frames' = Append(Below, BackToBody(f)) /\ tree' = tree \o <<Node(kind, F.node, of)>>
      \/ Section(title, [c |-> c, over |-> over], of, messages)
  <2> HIDE DEF of, wide
  <2> QED
    BY DEF LineText, Continue, Goes, Message, of, wide
<1>3. doc' = doc /\ error' = error /\ dropped' = dropped
  BY <1>2 DEF Same, Section, Continue
<1>4. Onward
  BY <1>1, <1>3, SeenOnward
<1>5. F.state = "Line"
  BY <1>1 DEF Sees
<1>6. /\ DOMAIN F = MachineFields /\ F.phase = "run" /\ i \in Nat
      /\ F.lines \in LinesOf(DOMAIN doc) /\ Sound(F.lines, X)
  BY <1>1, <1>4, SeenText, Zenon
<1>7. /\ NumbersOf(F.ctx) \cap X = {} /\ Begins(F) = i - 1 /\ F.state \in BodyStates
      /\ F.ctx \in LinesOf(DOMAIN doc) /\ Span(F.lines, Begins(F), i, X) = {}
  BY <1>1, <1>4, <1>5, SeenOverline
<1>8. of \cap X = Span(F.lines, Begins(F), j, X)
  <2> DEFINE b == Slice(F.lines, i, j)
             D == DOMAIN doc
  <2>1. j \in Int /\ F.lines \in LinesOf(D) /\ F.ctx \in LinesOf(D)
    BY <1>6, <1>7
  <2> HIDE DEF D, i, j
  <2>2. b \in LinesOf(D) /\ NumbersOf(b) \cap X = Span(F.lines, i, j, X)
    BY <1>6, <2>1, SliceLeft
  <2>3. of = NumbersOf(F.ctx) \cup NumbersOf(b)
    BY <2>1, <2>2, NumbersJoin
  <2>4. Span(F.lines, Begins(F), j, X)
        = Span(F.lines, Begins(F), i, X) \cup Span(F.lines, i, j, X)
    BY <1>6, <1>7 DEF Span, i, j
  <2> HIDE DEF of, b
  <2> QED
    BY <1>7, <2>2, <2>3, <2>4
<1>9. /\ DOMAIN f = MachineFields /\ Keeps(F, f) /\ f.phase = "run" /\ f.off = i + 1
      /\ f.state = F.state /\ f.ctx = F.ctx
  BY ONLY <1>6 DEF Moved, Keeps, MachineFields
<1>10. i + 1 \in Int /\ (i + 1) + 1 = j /\ Begins(F) <= (i + 1) + 1
  BY <1>6, <1>7
<1>11. CASE Same /\ frames' = Append(Below, AsText(f, 2)) /\ tree' = tree \o note
  <2> DEFINE g == AsText(Moved(F, 1), 2)
  <2>1. Grown({}, {})
    <3>1. Silent(note)
      BY SilentNodes
    <3> QED
      BY <1>4, <1>11, <3>1, GrownNone
  <2>2. frames' = Append(Below, g) /\ g = AsText(Moved(F, 1), 2) /\ memo' = memo
    BY <1>11 DEF Same
  <2> HIDE DEF g
  <2> QED
    BY ONLY <1>1, <1>4, <1>5, <2>1, <2>2, SeenAsText
<1> HIDE DEF of, c, wide, i, j
<1>12. CASE /\ Same
            /\ frames' = Append(Below, BackToBody(f)) /\ tree' = tree \o <<Node(kind, F.node, of)>>
  <2> DEFINE g == BackToBody(f)
             off == i + 1
             Y == Span(F.lines, Begins(F), off + 1, X)
             none == {}
  <2>1. /\ DOMAIN g = MachineFields /\ Keeps(f, g) /\ g.state = "Body" /\ g.phase = "run"
        /\ g.off = off
    BY <1>9, BodyKept
  <2>2. Keeps(F, g)
    BY <1>9, <2>1 DEF Keeps
  <2>3. Grown(of, none)
    <3>1. kind \in Levels
      BY DEF Levels
    <3> HIDE DEF kind
    <3> QED
      BY <1>4, <1>12, <3>1, GrownNode DEF Onward
  <2>4. off \in Int /\ Begins(F) <= off + 1 /\ frames' = Append(Below, g)
    BY <1>10, <1>12
  <2>5. Y = Span(F.lines, Begins(F), off + 1, X) /\ Y \subseteq of \cup dropped' /\ none \subseteq Y
    BY <1>8, <1>10
  <2>6. memo'.level # 0 <=> memo.level # 0
    BY <1>12 DEF Same
  <2> HIDE DEF g, off, Y, none
  <2> QED
    BY ONLY <1>1, <1>4, <1>7, <2>1, <2>2, <2>3, <2>4, <2>5, <2>6, SeenBodyAgain DEF X
<1>13. CASE Section(title, [c |-> c, over |-> over], of, messages)
  <2>1. /\ DOMAIN title = MachineFields /\ Keeps(F, title) /\ title.phase = "run"
        /\ title.off = i + 1 /\ title.state = F.state /\ title.ctx = F.ctx
    <3> HIDE DEF f
    <3> QED
      BY ONLY <1>9 DEF Keeps, MachineFields
  <2> DEFINE G == IF wide THEN of ELSE {}
             none == {}
  <2>2. Tells(messages, G, none, X)
    BY WarnedTells
  <2>3. over \in BOOLEAN /\ (over <=> F.state = "Line") /\ F.state \in {"Text", "Line"}
    BY <1>5
  <2>4. title.off = (IF over THEN F.off + 1 ELSE F.off) /\ title.ctx = IF over THEN F.ctx ELSE <<>>
    BY <2>1 DEF i
  <2>5. of \cap X = Span(F.lines, Begins(F), title.off + 1, X)
    BY <1>8, <1>10, <2>1
  <2>6. Section(title, [c |-> c, over |-> over], of, messages) /\ Ready
    BY <1>13
  <2> HIDE DEF title, messages, G, over, none, f
  <2> QED
    BY ONLY <1>1, <2>1, <2>2, <2>3, <2>4, <2>5, <2>6, SeenSection DEF X, none
<1> QED
  BY <1>2, <1>11, <1>12, <1>13

\* Underline: a title, a message, or text.
LEMMA UnderlineOnce ==
    ASSUME Ready, Underline
    PROVE  Ledger'
<1> DEFINE X == TextLines
           D == DOMAIN doc
           S == {"Text"}
           T == {"underline"}
           c == RuleOf(Line).c
           i == F.off
           pair == <<F.ctx[1], Line>>
           of == NumbersOf(pair)
           short == Width(F.ctx[1]) > RuleOf(Line).u
           warned(up) == IF short THEN <<Message("warning", up, of)>> ELSE <<>>
           note == <<Message("info", F.node, {})>>
           title == [F EXCEPT !.ctx = <<>>]
           over == FALSE
           kind == "severe"
<1>1. Sees(S, T)
  BY Zenon DEF Underline
<1>2. \/ Same /\ frames' = Append(Below, Correct(F)) /\ (tree' = tree \o note \/ tree' = tree \o <<>>)
      \/ /\ Same
         /\ frames' = Append(Below, BackToBody(F))
         /\ tree' = tree \o Append(warned(F.node), Message(kind, F.node, of))
      \/ Section(title, [c |-> c, over |-> over], of, warned(NextNode))
  <2> HIDE DEF of, short
  <2> QED
    BY DEF Underline, Continue, Goes, of, short
<1>3. doc' = doc /\ error' = error /\ dropped' = dropped
  BY <1>2 DEF Same, Section, Continue
<1>4. Onward
  BY <1>1, <1>3, SeenOnward
<1>5. F.state = "Text" /\ F.state \in TextStates /\ F.state \in BodyStates
  BY <1>1 DEF Sees, TextStates, BodyStates
<1>6. /\ DOMAIN F = MachineFields /\ F.phase = "run" /\ i \in Nat /\ i < Len(F.lines)
      /\ F.lines \in LinesOf(D) /\ Sound(F.lines, X) /\ Proper(Line, X) /\ MachineIn(F, X)
  BY <1>1, <1>4, SeenText, Zenon
<1>7. /\ NumbersOf(F.ctx) \cap X = Span(F.lines, Begins(F), i, X)
      /\ Begins(F) = i - 1 /\ F.off >= 1 /\ F.ctx = <<F.lines[F.off]>>
      /\ F.ctx \in LinesOf(D) /\ Len(F.ctx) = 1
  BY <1>1, <1>4, <1>5, SeenTerm
<1>8. of \cap X = Span(F.lines, Begins(F), i + 1, X)
  <2>1. Line \in LineOf(D)
    BY <1>1, <1>4, Seen, Zenon DEF Onward
  <2> DEFINE one == <<Line>>
  <2>2. pair = F.ctx \o one
    <3>1. F.ctx = <<F.ctx[1]>>
      BY <1>7
    <3> QED
      BY <3>1, PairSeq
  <2>3. one \in LinesOf(D) /\ Sound(one, X) /\ Left(one, 0, X) = {Line.n} \cap X
    BY <1>6, <2>1, OneLine
  <2>4. Span(F.lines, i, i + 1, X) = {Line.n} \cap X
    BY <1>1, <1>4, SeenLeft
  <2> HIDE DEF one, D, X, pair
  <2>5. of = NumbersOf(F.ctx) \cup NumbersOf(one)
    BY <1>7, <2>2, <2>3, NumbersJoin
  <2>6. NumbersOf(one) \cap X = {Line.n} \cap X
    BY <2>3, NumbersAreLeft
  <2>7. Span(F.lines, Begins(F), i + 1, X)
        = Span(F.lines, Begins(F), i, X) \cup Span(F.lines, i, i + 1, X)
    BY <1>6, <1>7 DEF Span
  <2> QED
    BY <1>7, <2>4, <2>5, <2>6, <2>7
<1>9. i \in Int /\ Begins(F) <= i + 1
  BY <1>6, <1>7
<1>10. CASE Same /\ frames' = Append(Below, Correct(F))
            /\ (tree' = tree \o note \/ tree' = tree \o <<>>)
  <2> DEFINE g == Correct(F)
  <2>1. Grown({}, {})
    <3>1. Silent(note) /\ Silent(<<>>)
      BY SilentNodes
    <3> QED
      BY <1>4, <1>10, <3>1, GrownNone
  <2>2. frames' = Append(Below, g) /\ memo' = memo
    BY <1>10 DEF Same
  <2>3. Alike(F, g, X) /\ g.off = F.off - 1 /\ g.phase = "run" /\ g.state = F.state
    BY <1>1, <1>4, <1>5, SeenBack
  <2>4. g.ctx = F.ctx
    BY ONLY <1>6 DEF Correct, Moved, MachineFields
  <2> HIDE DEF g
  <2>5. g.lines = F.lines /\ g.then = F.then
    BY <2>3 DEF Alike, Like, Keeps
  <2>6. F.then.k # "substitution"
    BY <1>5, <1>6, Zenon DEF MachineIn
  <2>7. g.off < Len(g.lines) /\ g.off + 1 = F.off
    BY <1>6, <2>3, <2>5, LenProperties DEF LinesOf
  <2>8. TopIn(g, Len(tree'), X)
    <3>1. g.ctx = <<g.lines[g.off + 1]>>
      BY <1>7, <2>4, <2>5, <2>7, Zenon
    <3> QED
      BY <1>5, <2>3, <2>5, <2>6, <2>7, <3>1, Zenon DEF TopIn
  <2>9. Owed(g, X) = Left(F.lines, Begins(F), X)
    <3>1. Resume(g) = g.off
      BY <1>5, <2>3, Zenon DEF Resume
    <3> QED
      BY <1>7, <2>3, <2>5, <3>1, Zenon DEF Owed, i
  <2>10. memo'.level # 0 <=> memo.level # 0
    BY <2>2
  <2> QED
    BY ONLY <1>1, <1>4, <2>1, <2>2, <2>3, <2>8, <2>9, <2>10, SeenSame DEF X
<1> HIDE DEF of, c, short, i, D
<1>11. CASE /\ Same
            /\ frames' = Append(Below, BackToBody(F))
            /\ tree' = tree \o Append(warned(F.node), Message(kind, F.node, of))
  <2> DEFINE g == BackToBody(F)
             off == i
             Y == Span(F.lines, Begins(F), off + 1, X)
             none == {}
  <2>1. /\ DOMAIN g = MachineFields /\ Keeps(F, g) /\ g.state = "Body" /\ g.phase = "run"
        /\ g.off = off
    BY <1>6, BodyKept DEF i
  <2>2. Grown(of, none)
    <3> DEFINE nodes == Append(warned(F.node), Message(kind, F.node, of))
    <3>1. Tells(nodes, of, none, X)
      BY WarnedTells
    <3>2. tree' = tree \o nodes
      BY <1>11
    <3> HIDE DEF nodes, none
    <3> QED
      BY <3>1, <3>2, Zenon DEF Grown, X
  <2>3. off \in Int /\ Begins(F) <= off + 1 /\ frames' = Append(Below, g)
    BY <1>9, <1>11
  <2>4. Y = Span(F.lines, Begins(F), off + 1, X) /\ Y \subseteq of \cup dropped' /\ none \subseteq Y
    BY <1>8
  <2>5. memo'.level # 0 <=> memo.level # 0
    BY <1>11 DEF Same
  <2> HIDE DEF g, off, Y, none
  <2> QED
    BY ONLY <1>1, <1>4, <1>5, <2>1, <2>2, <2>3, <2>4, <2>5, SeenBodyAgain DEF X
<1>12. CASE Section(title, [c |-> c, over |-> over], of, warned(NextNode))
  <2>1. /\ DOMAIN title = MachineFields /\ Keeps(F, title) /\ title.phase = "run"
        /\ title.off = F.off /\ title.state = F.state /\ title.ctx = <<>>
    BY ONLY <1>6 DEF Keeps, MachineFields
  <2> DEFINE G == IF short THEN of ELSE {}
             none == {}
             messages == warned(NextNode)
  <2>2. Tells(messages, G, none, X)
    BY WarnedTells
  <2>3. over \in BOOLEAN /\ (over <=> F.state = "Line") /\ F.state \in {"Text", "Line"}
    BY <1>5
  <2>4. title.off = (IF over THEN F.off + 1 ELSE F.off) /\ title.ctx = IF over THEN F.ctx ELSE <<>>
    BY <2>1
  <2>5. of \cap X = Span(F.lines, Begins(F), title.off + 1, X)
    BY <1>8, <2>1 DEF i
  <2>6. Section(title, [c |-> c, over |-> over], of, messages) /\ Ready
    BY <1>12
  <2> HIDE DEF title, messages, G, over, none
  <2> QED
    BY ONLY <1>1, <2>1, <2>2, <2>3, <2>4, <2>5, <2>6, SeenSection DEF X, none
<1> QED
  BY <1>2, <1>10, <1>11, <1>12

\* The lines that a paragraph and the literal block behind it hold.
Literally(f, lines, X) ==
    (NumbersOf(lines) \cap X)
    \cup (IF LiteralNext(lines) THEN Span(f.lines, f.off, Literal(f, lines).f.off + 1, X) ELSE {})

\* A paragraph and a literal block have their lines from one place each.
LEMMA LiteralTells ==
    ASSUME NEW D, NEW f, DOMAIN f = MachineFields, f.lines \in LinesOf(D),
           Sound(f.lines, TextLines), f.off \in Nat, NEW lines \in LinesOf(D), NEW up,
           LiteralNext(lines) => \/ Len(f.lines) <= f.off \/ Blank(At(f.lines, f.off))
                                 \/ At(f.lines, f.off).ind > 0,
           LiteralNext(lines) =>
               NumbersOf(lines) \cap TextLines \cap Left(f.lines, f.off, TextLines) = {},
           NEW between, Silent(between)
    PROVE  LET l == Literal(f, lines)
           IN  /\ DOMAIN l.f = MachineFields /\ Keeps(f, l.f) /\ l.f.state = f.state
               /\ l.f.phase = f.phase /\ l.f.ctx = f.ctx /\ l.f.only = f.only
               /\ l.f.off \in Int /\ l.f.off >= f.off
               /\ ~LiteralNext(lines) => l.f.off = f.off
               /\ \E H : /\ H \cap TextLines = Literally(f, lines, TextLines)
                         /\ Tells(Paragraph(lines, up) \o l.nodes, H, H \cap TextLines, TextLines)
                         /\ Tells(Paragraph(lines, up) \o between \o l.nodes, H, H \cap TextLines,
                                  TextLines)
<1> DEFINE X == TextLines
           start == f.off
           base == f.base
           mode == "unknown"
           until == FALSE
           s == f.lines
           b == IndentedBlock(s, start, base, mode, until)
           last == b.last
           N == NumbersOf(lines)
           B == NumbersOf(b.lines)
           lone == Len(lines) = 1 /\ IsColons(lines[1])
           colons == IF lone THEN {lines[1].n} ELSE {}
           l == Literal(f, lines)
           para == Paragraph(lines, up)
           P == IF lone THEN {} ELSE N
           kind == "literal_block"
           C == colons \cup B
           none == {}
<1>1. /\ l.f = IF LiteralNext(lines) THEN [f EXCEPT !.off = last] ELSE f
      /\ l.nodes = IF ~LiteralNext(lines) THEN <<>>
                   ELSE <<Node(kind, f.node, C)>>
                        \o (IF b.finish THEN <<>> ELSE <<Message("warning", f.node, {})>>)
  BY DEF Literal
<1>2. mode \in Modes /\ mode # "known" /\ ~until
  BY DEF Modes
<1>3. ASSUME LiteralNext(lines)
      PROVE  /\ last \in Int /\ last >= start /\ B \cap X = Span(s, start, last + 1, X)
             /\ Span(s, start, last + 1, X) \subseteq Left(s, start, X)
  <2>1. s \in LinesOf(D) /\ Sound(s, X) /\ start \in Nat /\ start \in Int
    OBVIOUS
  <2>2. mode = "unknown" /\ (Len(s) <= start \/ Blank(At(s, start)) \/ At(s, start).ind > 0)
    BY <1>3
  <2> HIDE DEF s, start, X, base, mode, until
  <2>3. /\ b.lines \in LinesOf(D) /\ Sound(b.lines, X)
        /\ Left(b.lines, 0, X) = Span(s, start, last + 1, X)
        /\ last \in Int /\ last >= start
    BY <1>2, <2>1, <2>2, IndentedLeft
  <2>4. B \cap X = Left(b.lines, 0, X)
    BY <2>3, NumbersAreLeft
  <2>5. Span(s, start, last + 1, X) \subseteq Left(s, start, X)
    BY DEF Span, Left
  <2> QED
    BY <2>3, <2>4, <2>5
<1>4. lone => LiteralNext(lines) /\ colons = N
  <2> SUFFICES ASSUME lone PROVE LiteralNext(lines) /\ colons = N
    OBVIOUS
  <2>1. Len(lines) = 1 /\ IsColons(lines[1]) /\ DOMAIN lines = 1 .. 1
    BY DEF LinesOf
  <2>2. Last(lines) = lines[1]
    BY <2>1 DEF Last
  <2>3. lines[1].m # <<>> /\ ~Blank(lines[1])
    BY <2>1 DEF IsColons, Lone, Blank
  <2> HIDE DEF s, start, l, b
  <2>4. LiteralNext(lines)
    BY <2>1, <2>2, <2>3 DEF LiteralNext
  <2>5. \A i \in 1 .. 1 : i = 1
    OBVIOUS
  <2>6. N = {lines[1].n}
    BY <2>1, <2>3, <2>5 DEF NumbersOf
  <2> QED
    BY <2>4, <2>6
<1>5. ~lone => colons = {}
  OBVIOUS
<1>6. /\ DOMAIN l.f = MachineFields /\ Keeps(f, l.f) /\ l.f.state = f.state
      /\ l.f.phase = f.phase /\ l.f.ctx = f.ctx /\ l.f.only = f.only
      /\ l.f.off = IF LiteralNext(lines) THEN last ELSE f.off
  <2> HIDE DEF l, last
  <2>1. CASE LiteralNext(lines)
    BY <1>1, <2>1 DEF Keeps, MachineFields
  <2>2. CASE ~LiteralNext(lines)
    BY <1>1, <2>2 DEF Keeps
  <2> QED
    BY <2>1, <2>2
<1> DEFINE H == P \cup (IF LiteralNext(lines) THEN C ELSE {})
<1>7. Literally(f, lines, X)
      = (N \cap X) \cup (IF LiteralNext(lines) THEN Span(s, start, last + 1, X) ELSE {})
  BY <1>6 DEF Literally
<1>8. LiteralNext(lines) => N \cap X \cap Left(s, start, X) = {}
  OBVIOUS
<1>9. Tells(para, P, P \cap X, X)
  <2> DEFINE nil == <<>>
             paragraph == "paragraph"
  <2>1. Tells(nil, none, none, X)
    BY TellsNothing
  <2>2. Tells(<<Node(paragraph, up, N)>>, N, N \cap X, X)
    <3>1. paragraph \notin Levels
      BY DEF Levels
    <3> HIDE DEF paragraph, N
    <3> QED
      BY <3>1, TellsNode
  <2>3. CASE lone
    <3>1. para = nil /\ P = none /\ none \cap X = none
      BY <2>3 DEF Paragraph
    <3> HIDE DEF para, P, none, nil, X
    <3> QED
      BY <2>1, <3>1
  <2>4. CASE ~lone
    <3>1. para = <<Node(paragraph, up, N)>> /\ P = N
      BY <2>4 DEF Paragraph
    <3> HIDE DEF para, P, N, paragraph, X
    <3> QED
      BY <2>2, <3>1
  <2> QED
    BY <2>3, <2>4
<1> DEFINE L == IF LiteralNext(lines) THEN C ELSE {}
<1>10. Tells(l.nodes, L, L \cap X, X)
  <2> DEFINE nil == <<>>
             note == IF b.finish THEN <<>> ELSE <<Message("warning", f.node, {})>>
             block == <<Node(kind, f.node, C)>>
  <2>1. Tells(nil, none, none, X)
    BY TellsNothing
  <2>2. Tells(block, C, C \cap X, X)
    <3>1. kind \notin Levels
      BY DEF Levels
    <3> HIDE DEF kind, C
    <3> QED
      BY <3>1, TellsNode
  <2>3. Silent(note)
    BY SilentNodes
  <2>4. Tells(block \o note, C, C \cap X, X)
    <3> HIDE DEF block, note, C
    <3> QED
      BY <2>2, <2>3, SilentLast
  <2>5. CASE LiteralNext(lines)
    <3>1. l.nodes = block \o note /\ L = C
      BY <1>1, <2>5
    <3> HIDE DEF l, block, note, L, C, X
    <3> QED
      BY <2>4, <3>1
  <2>6. CASE ~LiteralNext(lines)
    <3>1. l.nodes = nil /\ L = none /\ none \cap X = none
      BY <1>1, <2>6
    <3> HIDE DEF l, nil, L, none, X
    <3> QED
      BY <2>1, <3>1
  <2> QED
    BY <2>5, <2>6
<1>11. (P \cap X) \cap (L \cap X) = {} /\ (P \cup L) \cap X = Literally(f, lines, X)
  <2> HIDE DEF N, B, lone, X, last, s, start, colons
  <2> QED
    BY <1>3, <1>4, <1>5, <1>7, <1>8
<1>12. Tells(para \o l.nodes, P \cup L, (P \cap X) \cup (L \cap X), X)
  <2> HIDE DEF para, l, P, L, X
  <2> QED
    BY <1>9, <1>10, <1>11, TellsBoth
<1>13. Tells(para \o between \o l.nodes, P \cup L, (P \cap X) \cup (L \cap X), X)
  <2> DEFINE first == para \o between
  <2>1. Tells(first, P, P \cap X, X)
    <3> HIDE DEF para, l, P, L
    <3> QED
      BY <1>9, SilentLast
  <2> HIDE DEF first, l, P, L, X
  <2>2. Tells(first \o l.nodes, P \cup L, (P \cap X) \cup (L \cap X), X)
    BY <1>10, <1>11, <2>1, TellsBoth
  <2> QED
    BY <2>2 DEF first
<1>14. (P \cap X) \cup (L \cap X) = (P \cup L) \cap X
  OBVIOUS
<1>15. l.f.off \in Int /\ l.f.off >= f.off /\ (~LiteralNext(lines) => l.f.off = f.off)
  <2> HIDE DEF last, l, start
  <2>1. start = f.off
    BY DEF start
  <2>2. CASE LiteralNext(lines)
    <3>1. l.f.off = last
      BY <1>6, <2>2, Zenon
    <3> QED
      BY <1>3, <2>1, <2>2, <3>1
  <2>3. CASE ~LiteralNext(lines)
    <3>1. l.f.off = f.off
      BY <1>6, <2>3, Zenon
    <3> QED
      BY <2>3, <3>1
  <2> QED
    BY <2>2, <2>3
<1> DEFINE all == P \cup L
<1>16. /\ all \cap X = Literally(f, lines, X) /\ Tells(para \o l.nodes, all, all \cap X, X)
       /\ Tells(para \o between \o l.nodes, all, all \cap X, X)
  <2> HIDE DEF para, l, P, L, X
  <2> QED
    BY <1>11, <1>12, <1>13, <1>14
<1> HIDE DEF all, para, l, X
<1>17. \E G : /\ G \cap X = Literally(f, lines, X)
              /\ Tells(para \o l.nodes, G, G \cap X, X)
              /\ Tells(para \o between \o l.nodes, G, G \cap X, X)
  BY <1>16
<1> QED
  BY <1>6, <1>15, <1>17 DEF para, l, X


\* The lines of a part, and those of the part behind it.
LEMMA SpanJoin ==
    ASSUME NEW D, NEW s \in LinesOf(D), NEW X, NEW i \in Int, NEW j \in Int, NEW k \in Int,
           i <= j, j <= k
    PROVE  /\ Span(s, i, k, X) = Span(s, i, j, X) \cup Span(s, j, k, X)
           /\ Single(s) => Span(s, i, j, X) \cap Left(s, j, X) = {}
           /\ Span(s, j, j, X) = {}
<1>1. Len(s) \in Nat
  BY DEF LinesOf
<1>2. Span(s, i, k, X) \subseteq Span(s, i, j, X) \cup Span(s, j, k, X)
  BY <1>1, SMT DEF Span
<1>3. Span(s, i, j, X) \cup Span(s, j, k, X) \subseteq Span(s, i, k, X)
  BY <1>1, SMT DEF Span
<1>4. Span(s, j, j, X) = {}
  BY <1>1, SMT DEF Span
<1>5. Single(s) => Span(s, i, j, X) \cap Left(s, j, X) = {}
  BY SpanSplit
<1> QED
  BY <1>2, <1>3, <1>4, <1>5

\* A paragraph and the literal block behind it hold the lines from its first to its last.
LEMMA LiteralSpan ==
    ASSUME NEW D, NEW f, f.lines \in LinesOf(D), f.off \in Int, NEW lines, NEW i \in Int, NEW j \in Int,
           i <= j, NumbersOf(lines) \cap TextLines = Span(f.lines, i, j, TextLines),
           LiteralNext(lines) => f.off = j,
           ~LiteralNext(lines) => /\ j <= f.off + 1
                                  /\ Span(f.lines, j, f.off + 1, TextLines) = {},
           NEW off, off = Literal(f, lines).f.off, off \in Int, off >= f.off,
           ~LiteralNext(lines) => off = f.off
    PROVE  /\ Literally(f, lines, TextLines) = Span(f.lines, i, off + 1, TextLines)
           /\ i <= off + 1
<1> DEFINE X == TextLines
           e == off + 1
<1> HIDE DEF X
<1>1. j <= e /\ i <= e /\ e \in Int
  OBVIOUS
<1> HIDE DEF e
<1>3. Span(f.lines, i, e, X) = Span(f.lines, i, j, X) \cup Span(f.lines, j, e, X)
  <2> DEFINE s == f.lines
  <2>1. s \in LinesOf(D) /\ i \in Int /\ j \in Int /\ i <= j
    OBVIOUS
  <2> HIDE DEF s
  <2>2. Span(s, i, e, X) = Span(s, i, j, X) \cup Span(s, j, e, X)
    BY ONLY <1>1, <2>1, SpanJoin
  <2> QED
    BY <2>2 DEF s
<1>4. NumbersOf(lines) \cap X = Span(f.lines, i, j, X)
  BY DEF X
<1>5. CASE LiteralNext(lines)
  <2>1. Literally(f, lines, X) = Span(f.lines, i, j, X) \cup Span(f.lines, j, e, X)
    BY <1>4, <1>5 DEF Literally, e
  <2> QED
    BY <1>1, <1>3, <2>1, Zenon DEF X, e
<1>6. CASE ~LiteralNext(lines)
  <2>1. Literally(f, lines, X) = Span(f.lines, i, j, X)
    BY <1>4, <1>6 DEF Literally
  <2>2. Span(f.lines, j, e, X) = {}
    BY <1>6 DEF X, e
  <2>3. Literally(f, lines, X) = Span(f.lines, i, e, X)
    BY <1>3, <2>1, <2>2
  <2> QED
    BY <1>1, <2>3, Zenon DEF X, e
<1> QED
  BY <1>5, <1>6

\* What Text.blank and Text.text have in common: the text goes on to line j, and its nodes are made.
LEMMA SeenLiteral ==
    ASSUME Onward, NEW S, NEW T, Sees(S, T), F.state = "Text", NEW f, DOMAIN f = MachineFields,
           Keeps(F, f), f.phase = "run", f.off \in Nat, f.lines = F.lines,
           NEW lines \in LinesOf(DOMAIN doc), NEW j \in Int, Begins(F) <= j,
           NumbersOf(lines) \cap TextLines = Span(F.lines, Begins(F), j, TextLines),
           LiteralNext(lines) => /\ f.off = j
                                 /\ \/ Len(F.lines) <= j \/ Blank(At(F.lines, j))
                                    \/ At(F.lines, j).ind > 0,
           ~LiteralNext(lines) => /\ j <= f.off + 1
                                  /\ Span(F.lines, j, f.off + 1, TextLines) = {},
           frames' = Append(Below, BackToBody(Literal(f, lines).f)),
           NEW between, Silent(between), NEW up,
           \/ tree' = tree \o (Paragraph(lines, up) \o Literal(f, lines).nodes)
           \/ tree' = tree \o (Paragraph(lines, up) \o between \o Literal(f, lines).nodes),
           memo'.level # 0 <=> memo.level # 0
    PROVE  Ledger'
<1> DEFINE X == TextLines
           D == DOMAIN doc
           l == Literal(f, lines)
           g == BackToBody(l.f)
           off == l.f.off
           Y == Span(F.lines, Begins(F), off + 1, X)
           i == Begins(F)
<1>1. /\ F.lines \in LinesOf(D) /\ Sound(F.lines, X) /\ F.off \in Nat /\ i \in Nat /\ i \in Int
      /\ DOMAIN F = MachineFields
  <2>1. /\ F.lines \in LinesOf(D) /\ Sound(F.lines, X) /\ F.off \in Nat /\ i \in Nat
        /\ DOMAIN F = MachineFields
    BY SeenText, Zenon
  <2> HIDE DEF i, X, D
  <2> QED
    BY <2>1
<1>2. LiteralNext(lines) => NumbersOf(lines) \cap X \cap Left(F.lines, f.off, X) = {}
  <2> DEFINE s == F.lines
  <2>1. s \in LinesOf(D) /\ Single(s) /\ i \in Int /\ i <= j /\ j <= j
    BY <1>1 DEF Sound
  <2> HIDE DEF s, X, D, i
  <2>2. Span(s, i, j, X) \cap Left(s, j, X) = {}
    BY ONLY <2>1, SpanJoin, j \in Int
  <2> QED
    BY <2>2 DEF s, X, i
<1>3. /\ DOMAIN l.f = MachineFields /\ Keeps(f, l.f) /\ l.f.state = f.state
      /\ l.f.phase = f.phase /\ l.f.ctx = f.ctx /\ l.f.only = f.only
      /\ off \in Int /\ off >= f.off
      /\ ~LiteralNext(lines) => off = f.off
      /\ \E H : /\ H \cap X = Literally(f, lines, X)
                /\ Tells(Paragraph(lines, up) \o l.nodes, H, H \cap X, X)
                /\ Tells(Paragraph(lines, up) \o between \o l.nodes, H, H \cap X, X)
  <2>1. f.lines \in LinesOf(D) /\ Sound(f.lines, X) /\ f.off \in Nat /\ lines \in LinesOf(D)
    BY <1>1
  <2>2. LiteralNext(lines) => \/ Len(f.lines) <= f.off \/ Blank(At(f.lines, f.off))
                              \/ At(f.lines, f.off).ind > 0
    OBVIOUS
  <2>3. LiteralNext(lines) => NumbersOf(lines) \cap X \cap Left(f.lines, f.off, X) = {}
    BY <1>2
  <2> HIDE DEF D
  <2> QED
    BY ONLY DOMAIN f = MachineFields, <2>1, <2>2, <2>3, Silent(between), LiteralTells DEF X, l, off
<1>4. Literally(f, lines, X) = Y /\ i <= off + 1
  <2> DEFINE s == F.lines
  <2>1. f.lines \in LinesOf(D) /\ f.off \in Int /\ i \in Int /\ i <= j /\ j \in Int
    BY <1>1
  <2>2. NumbersOf(lines) \cap X = Span(f.lines, i, j, X)
    OBVIOUS
  <2>3. LiteralNext(lines) => f.off = j
    OBVIOUS
  <2>4. ~LiteralNext(lines) => j <= f.off + 1 /\ Span(f.lines, j, f.off + 1, X) = {}
    OBVIOUS
  <2>5. off = Literal(f, lines).f.off /\ off \in Int /\ off >= f.off /\ (~LiteralNext(lines) => off = f.off)
    BY <1>3
  <2> HIDE DEF D, i, off
  <2>6. Literally(f, lines, X) = Span(f.lines, i, off + 1, X) /\ i <= off + 1
    BY ONLY <2>1, <2>2, <2>3, <2>4, <2>5, LiteralSpan DEF X
  <2> QED
    BY <2>6 DEF i
<1>5. PICK H : /\ H \cap X = Y
               /\ Tells(Paragraph(lines, up) \o l.nodes, H, H \cap X, X)
               /\ Tells(Paragraph(lines, up) \o between \o l.nodes, H, H \cap X, X)
  BY <1>3, <1>4
<1>6. Grown(H, H \cap X)
  BY <1>5 DEF Grown
<1>7. /\ DOMAIN g = MachineFields /\ Keeps(F, g) /\ g.state = "Body" /\ g.phase = "run"
      /\ g.off = off
  <2> HIDE DEF l
  <2>1. DOMAIN g = MachineFields /\ Keeps(l.f, g) /\ g.state = "Body" /\ g.phase = "run" /\ g.off = off
    BY <1>3, BodyKept
  <2>2. Keeps(F, g)
    BY <1>3, <2>1, Zenon DEF Keeps
  <2> QED
    BY <2>1, <2>2
<1>8. F.state \in BodyStates
  BY DEF BodyStates
<1>9. off \in Int /\ Begins(F) <= off + 1 /\ frames' = Append(Below, g)
  BY <1>3, <1>4
<1> DEFINE U == H \cap X
<1>10. Y \subseteq H \cup dropped' /\ (~reread' => U \subseteq Y) /\ Grown(H, U)
  BY <1>5, <1>6
<1>11. Onward /\ Sees(S, T) /\ (memo'.level # 0 <=> memo.level # 0)
       /\ Y = Span(F.lines, Begins(F), off + 1, X)
  OBVIOUS
<1> HIDE DEF g, off, Y, U, l
<1> QED
  BY ONLY <1>7, <1>8, <1>9, <1>10, <1>11, SeenBodyAgain DEF X

\* TextBlank: a line of text is a paragraph.
LEMMA TextBlankOnce ==
    ASSUME Ready, TextBlank
    PROVE  Ledger'
<1> DEFINE X == TextLines
           D == DOMAIN doc
           S == {"Text"}
           T == {"blank"}
           lines == F.ctx
           f == F
           up == F.node
           j == F.off
           between == <<>>
<1>1. Sees(S, T)
  BY Zenon DEF TextBlank
<1>2. /\ doc' = doc /\ error' = error /\ dropped' = dropped /\ memo' = memo
      /\ frames' = Append(Below, BackToBody(Literal(f, lines).f))
      /\ tree' = tree \o (Paragraph(lines, up) \o Literal(f, lines).nodes)
  BY Zenon DEF TextBlank, Continue, Goes, Same
<1>3. Onward
  BY <1>1, <1>2, SeenOnward
<1>4. F.state = "Text" /\ F.state \in TextStates /\ Transition = "blank"
  BY <1>1 DEF Sees, TextStates
<1>5. /\ DOMAIN f = MachineFields /\ f.phase = "run" /\ f.off \in Nat /\ F.off < Len(F.lines)
      /\ F.lines \in LinesOf(D) /\ Line = F.lines[F.off + 1]
  BY <1>1, <1>3, SeenText, Zenon
<1>6. /\ NumbersOf(lines) \cap X = Span(F.lines, Begins(F), j, X)
      /\ Begins(F) = F.off - 1 /\ F.off >= 1 /\ lines \in LinesOf(D)
  BY <1>1, <1>3, <1>4, SeenTerm
<1>7. Blank(Line) /\ Span(F.lines, F.off, F.off + 1, X) = {}
  <2>1. Blank(Line)
    BY <1>1, <1>3, <1>4, SeenAs
  <2> QED
    BY <1>1, <1>3, <2>1, SeenLeft
<1>8. Keeps(F, f) /\ f.lines = F.lines
  BY DEF Keeps
<1>9. j \in Int /\ Begins(F) <= j
  BY <1>5, <1>6
<1>10. LiteralNext(lines) => f.off = j /\ Blank(At(F.lines, j))
  BY <1>7 DEF Line
<1>11. ~LiteralNext(lines) => j <= f.off + 1 /\ Span(F.lines, j, f.off + 1, X) = {}
  BY <1>5, <1>7
<1>12. Silent(between) /\ (memo'.level # 0 <=> memo.level # 0)
  BY <1>2, SilentNodes
<1> HIDE DEF lines, f, up, j, between, S, T, D
<1> QED
  BY ONLY <1>1, <1>2, <1>3, <1>4, <1>5, <1>6, <1>8, <1>9, <1>10, <1>11, <1>12, SeenLiteral DEF X, D

\* What a flush block of text ends at.
LEMMA TextBlockNext ==
    ASSUME NEW D, NEW s \in LinesOf(D), NEW start \in Int, start <= Len(s)
    PROVE  LET end == TextBlockEnd(s, start, TRUE)
           IN  /\ end \in Int /\ start <= end /\ end <= Len(s)
               /\ Len(s) <= end \/ Blank(At(s, end)) \/ At(s, end).ind > 0
<1> DEFINE S == {k \in start .. Len(s) - 1 : \/ Blank(At(s, k))
                                             \/ (TRUE /\ At(s, k).ind > 0)}
           end == TextBlockEnd(s, start, TRUE)
<1>1. Len(s) \in Nat /\ S \in SUBSET (start .. Len(s) - 1)
  BY LenProperties DEF LinesOf
<1>2. end = Min(S \cup {Len(s)})
  BY DEF TextBlockEnd, FirstFrom
<1>3. \A k \in S : Blank(At(s, k)) \/ At(s, k).ind > 0
  OBVIOUS
<1> HIDE DEF S
<1>4. /\ Min(S \cup {Len(s)}) \in Int /\ Min(S \cup {Len(s)}) <= Len(s)
      /\ start <= Len(s) => start <= Min(S \cup {Len(s)})
      /\ Min(S \cup {Len(s)}) \in S \cup {Len(s)}
  BY <1>1, FirstOffset, Zenon
<1>5. end \in Int /\ end <= Len(s) /\ start <= end /\ (end \in S \/ end = Len(s))
  BY <1>2, <1>4
<1> HIDE DEF end
<1>6. Len(s) <= end \/ Blank(At(s, end)) \/ At(s, end).ind > 0
  BY <1>1, <1>3, <1>5
<1> QED
  BY <1>5, <1>6 DEF end

\* TextText: several lines of text are a paragraph.
LEMMA TextTextOnce ==
    ASSUME Ready, TextText
    PROVE  Ledger'
<1> DEFINE X == TextLines
           D == DOMAIN doc
           S == {"Text"}
           T == {"text"}
           end == TextBlockEnd(F.lines, F.off, TRUE)
           lines == F.ctx \o Slice(F.lines, F.off, end)
           off == IF LiteralNext(lines) THEN end ELSE end - 1
           f == [F EXCEPT !.off = off]
           up == F.node
           between == IF UnexpectedIndentation(F.lines, F.off)
                      THEN <<Message("error", F.node, {})>> ELSE <<>>
<1>1. Sees(S, T)
  BY Zenon DEF TextText
<1>2. /\ doc' = doc /\ error' = error /\ dropped' = dropped /\ memo' = memo
      /\ frames' = Append(Below, BackToBody(Literal(f, lines).f))
      /\ tree' = tree \o (Paragraph(lines, up) \o between \o Literal(f, lines).nodes)
  BY Zenon DEF TextText, Continue, Goes, Same
<1>3. Onward
  BY <1>1, <1>2, SeenOnward
<1>4. F.state = "Text" /\ F.state \in TextStates /\ Transition = "text"
  BY <1>1 DEF Sees, TextStates
<1>5. /\ DOMAIN F = MachineFields /\ F.phase = "run" /\ F.off \in Nat /\ F.off < Len(F.lines)
      /\ F.lines \in LinesOf(D) /\ Sound(F.lines, X) /\ Len(F.lines) \in Nat
  BY <1>1, <1>3, SeenText, Zenon
<1>6. /\ NumbersOf(F.ctx) \cap X = Span(F.lines, Begins(F), F.off, X)
      /\ Begins(F) = F.off - 1 /\ F.off >= 1 /\ F.ctx \in LinesOf(D)
  BY <1>1, <1>3, <1>4, SeenTerm
<1>7. /\ end \in Int /\ F.off <= end /\ end <= Len(F.lines)
      /\ Len(F.lines) <= end \/ Blank(At(F.lines, end)) \/ At(F.lines, end).ind > 0
  <2> DEFINE s == F.lines
             start == F.off
             e == TextBlockEnd(s, start, TRUE)
  <2>1. s \in LinesOf(D) /\ start \in Int /\ start <= Len(s)
    BY <1>5
  <2> HIDE DEF s, start, D
  <2>2. /\ e \in Int /\ start <= e /\ e <= Len(s)
        /\ Len(s) <= e \/ Blank(At(s, e)) \/ At(s, e).ind > 0
    BY ONLY <2>1, TextBlockNext
  <2> QED
    BY <2>2 DEF s, start
<1> HIDE DEF end
<1>8. lines \in LinesOf(D) /\ NumbersOf(lines) \cap X = Span(F.lines, Begins(F), end, X)
  <2> DEFINE s == F.lines
             i == F.off
             more == Slice(s, i, end)
             b == Begins(F)
  <2>1. s \in LinesOf(D) /\ Sound(s, X) /\ i \in Nat /\ i \in Int /\ b \in Int /\ b <= i /\ i <= end
    BY <1>5, <1>6, <1>7
  <2>2. NumbersOf(F.ctx) \cap X = Span(s, b, i, X) /\ F.ctx \in LinesOf(D)
    BY <1>6
  <2> HIDE DEF s, i, b, X, D
  <2>3. more \in LinesOf(D) /\ NumbersOf(more) \cap X = Span(s, i, end, X)
    BY <1>7, <2>1, SliceLeft
  <2>4. lines = F.ctx \o more
    BY DEF s, i
  <2> HIDE DEF more, lines
  <2>5. lines \in LinesOf(D) /\ NumbersOf(lines) = NumbersOf(F.ctx) \cup NumbersOf(more)
    BY <2>2, <2>3, <2>4, NumbersJoin
  <2>6. Span(s, b, end, X) = Span(s, b, i, X) \cup Span(s, i, end, X)
    <3>1. end \in Int
      BY <1>7
    <3> QED
      BY ONLY <2>1, <3>1, SpanJoin
  <2>7. NumbersOf(lines) \cap X = Span(s, b, end, X)
    BY <2>2, <2>3, <2>5, <2>6
  <2> QED
    BY <2>5, <2>7 DEF s, b
<1> HIDE DEF lines
<1>9. off \in Nat /\ Begins(F) <= end
  BY <1>5, <1>6, <1>7
<1>10. LiteralNext(lines) => off = end
  OBVIOUS
<1>11. ~LiteralNext(lines) => end <= off + 1 /\ Span(F.lines, end, off + 1, X) = {}
  <2> SUFFICES ASSUME ~LiteralNext(lines)
               PROVE  end <= off + 1 /\ Span(F.lines, end, off + 1, X) = {}
    OBVIOUS
  <2>1. off + 1 = end /\ end \in Int
    BY <1>7
  <2>2. Span(F.lines, end, end, X) = {}
    BY <1>5, <1>7, SMT DEF Span
  <2> QED
    BY <2>1, <2>2
<1> HIDE DEF off
<1>12. DOMAIN f = MachineFields /\ Keeps(F, f) /\ f.phase = "run" /\ f.off = off /\ f.lines = F.lines
  BY <1>5, Zenon DEF Keeps, MachineFields
<1>13. Silent(between) /\ (memo'.level # 0 <=> memo.level # 0)
  BY <1>2, SilentNodes
<1>14. /\ f.off \in Nat
       /\ LiteralNext(lines) => /\ f.off = end
                                /\ \/ Len(F.lines) <= end \/ Blank(At(F.lines, end))
                                   \/ At(F.lines, end).ind > 0
       /\ ~LiteralNext(lines) => /\ end <= f.off + 1
                                 /\ Span(F.lines, end, f.off + 1, X) = {}
  BY <1>7, <1>9, <1>10, <1>11, <1>12
<1> HIDE DEF f, up, between, S, T, D
<1> QED
  BY ONLY <1>1, <1>2, <1>3, <1>4, <1>7, <1>8, <1>9, <1>12, <1>13, <1>14, SeenLiteral DEF X, D

-----------------------------------------------------------------------------
(* The end of a machine's input. *)

\* A machine that has no line left, and what it becomes.
LEMMA NoLineLeft ==
    ASSUME Onward, Top.phase = "run", ~HasLine(F, F.off)
    PROVE  LET f == Ended(F)
           IN  /\ DOMAIN f = MachineFields /\ Alike(Top, f, TextLines)
               /\ f.state = Top.state /\ f.ctx = Top.ctx /\ f.lines = Top.lines /\ f.then = Top.then
               /\ Top.off \in Int /\ f.off = Top.off + 1 /\ f.off \in Nat /\ f.off >= Len(f.lines)
               /\ Len(f.lines) \in Nat /\ f.lines \in LinesOf(DOMAIN doc)
               /\ f.state \in TextStates =>
                     f.phase = "eof" /\ f.off >= 1 /\ f.ctx # <<>> /\ Len(f.ctx) = 1
               /\ f.state \notin TextStates => f.phase = "over"
<1> DEFINE X == TextLines
           f == Ended(F)
           D == DOMAIN doc
<1>1. /\ FrameOK(F, Len(tree), D) /\ Keeps(Top, F)
      /\ F.phase = "run" /\ F.state = Top.state
      /\ F.state \in TextStates => F.off >= 1 /\ Len(F.ctx) = 1
  BY NextLine DEF Onward
<1>2. /\ DOMAIN F = MachineFields /\ F.off \in Int /\ F.lines \in LinesOf(D) /\ F.off >= -1
  BY <1>1, Zenon DEF FrameOK
<1>3. MachineIn(Top, X) /\ FrameOK(Top, Len(tree), D)
  BY TopOwes
<1>4. /\ DOMAIN Top = MachineFields /\ Top.off \in Int /\ Top.off >= -1
  BY <1>3, Zenon DEF FrameOK
<1>5. AnyNext(F)
  BY <1>4, Zenon DEF F, Moved, MachineFields, AnyNext
<1>6. F.off = Top.off + 1 /\ F.ctx = Top.ctx /\ F.lines = Top.lines /\ F.then = Top.then
  BY <1>4, Zenon DEF F, Moved, MachineFields
<1>7. Len(F.lines) \in Nat /\ F.off >= Len(F.lines) /\ F.off \in Nat
  <2>1. Len(F.lines) \in Nat
    BY <1>2, LenProperties DEF LinesOf
  <2> QED
    BY <1>2, <2>1 DEF HasLine
<1>8. /\ DOMAIN f = MachineFields /\ Keeps(F, f) /\ f.state = F.state /\ f.ctx = F.ctx
      /\ f.off = F.off /\ f.only = F.only /\ f.lines = F.lines /\ f.then = F.then
  BY <1>2, Zenon DEF Ended, MachineFields, Keeps
<1>9. f.phase = IF F.state \in TextStates THEN "eof" ELSE "over"
  BY <1>2, Zenon DEF Ended, MachineFields
<1>10. Keeps(Top, f)
  BY <1>1, <1>8, Zenon DEF Keeps
<1>11. Alike(Top, f, X)
  <2>1. Like(Top, f)
    BY <1>1, <1>4, <1>8, <1>10, Zenon DEF Like
  <2>2. AnyNext(f)
    BY <1>5, <1>8, Zenon DEF AnyNext
  <2>3. f.state = "Line" => \A k \in 1 .. Len(f.ctx) : f.ctx[k].n \notin X
    BY <1>1, <1>3, <1>6, <1>8, Zenon DEF MachineIn
  <2> QED
    BY <1>1, <1>8, <2>1, <2>2, <2>3, Zenon DEF Alike
<1>12. f.state \in TextStates => f.off >= 1 /\ Len(f.ctx) = 1
  BY <1>1, <1>8, Zenon
<1>13. Len(f.ctx) = 1 => f.ctx # <<>>
  BY LenProperties
<1> HIDE DEF f
<1>14. f.off = Top.off + 1 /\ f.off \in Nat /\ f.off >= Len(f.lines) /\ Len(f.lines) \in Nat
       /\ f.lines \in LinesOf(D)
  BY <1>2, <1>6, <1>7, <1>8, Zenon
<1>15. f.state \in TextStates => f.phase = "eof"
  BY <1>8, <1>9, Zenon
<1>16. f.state \notin TextStates => f.phase = "over"
  BY <1>8, <1>9, Zenon
<1>17. f.state = Top.state /\ f.ctx = Top.ctx /\ f.lines = Top.lines /\ f.then = Top.then
  BY <1>1, <1>6, <1>8, Zenon
<1> QED
  BY <1>4, <1>8, <1>11, <1>12, <1>13, <1>14, <1>15, <1>16, <1>17, Zenon DEF f

\* EndOfInput: nothing is left to read but the line a text began with.
LEMMA EndOfInputOnce ==
    ASSUME Ready, EndOfInput
    PROVE  Ledger'
<1> DEFINE X == TextLines
           D == DOMAIN doc
           f == Ended(F)
           none == {}
           nodes == <<>>
<1>1. frames # <<>> /\ Top.phase = "run" /\ ~HasLine(F, F.off)
  BY DEF EndOfInput
<1>2. /\ doc' = doc /\ error' = error /\ dropped' = dropped /\ memo' = memo
      /\ frames' = Append(Below, f) /\ tree' = tree \o nodes
  BY DEF EndOfInput, Continue, Goes, Same
<1>3. Onward
  BY <1>1, <1>2, SameOnward
<1>4. /\ DOMAIN f = MachineFields /\ Alike(Top, f, X)
      /\ f.state = Top.state /\ f.ctx = Top.ctx /\ f.lines = Top.lines /\ f.then = Top.then
      /\ Top.off \in Int /\ f.off = Top.off + 1 /\ f.off \in Nat /\ f.off >= Len(f.lines)
      /\ Len(f.lines) \in Nat /\ f.lines \in LinesOf(D)
      /\ f.state \in TextStates => f.phase = "eof" /\ f.off >= 1 /\ f.ctx # <<>> /\ Len(f.ctx) = 1
      /\ f.state \notin TextStates => f.phase = "over"
  BY <1>1, <1>3, NoLineLeft
<1> HIDE DEF f
<1>5. MachineIn(Top, X) /\ TopIn(Top, Len(tree), X)
  BY <1>3, TopOwes
<1>6. Left(f.lines, f.off + 1, X) = {}
  <2> DEFINE s == f.lines
             i == f.off + 1
  <2>1. s \in LinesOf(D) /\ i \in Int /\ Len(s) <= i
    BY <1>4
  <2> HIDE DEF s, i
  <2> QED
    BY <2>1, LeftPast DEF s, i
<1>7. f.state \in TextStates => /\ Top.off < Len(f.lines) /\ f.ctx = <<f.lines[f.off]>>
                                /\ f.off = Len(f.lines) /\ Top.off = f.off - 1
  <2> SUFFICES ASSUME f.state \in TextStates
               PROVE  /\ Top.off < Len(f.lines) /\ f.ctx = <<f.lines[f.off]>>
                      /\ f.off = Len(f.lines) /\ Top.off = f.off - 1
    OBVIOUS
  <2>1. Top.off < Len(Top.lines) /\ Top.ctx = <<Top.lines[Top.off + 1]>>
    BY <1>1, <1>4, <1>5, Zenon DEF TopIn
  <2>2. Top.off < Len(f.lines) /\ f.ctx = <<f.lines[f.off]>>
    BY <1>4, <2>1, Zenon
  <2> QED
    BY <1>4, <2>2
<1>8. TopIn(f, Len(tree'), X)
  <2>1. f.phase # "run"
    BY <1>4
  <2>2. f.phase = "eof" /\ f.state = "Text" => /\ f.off = Len(f.lines) /\ f.off >= 1
                                              /\ f.ctx = <<f.lines[f.off]>>
    BY <1>4, <1>7 DEF TextStates
  <2> QED
    BY <1>6, <2>1, <2>2 DEF TopIn
<1>9. Owed(f, X) = Owed(Top, X)
  <2>1. CASE f.state \notin TextStates
    <3>1. Resume(f) = f.off + 1 /\ Resume(Top) = Top.off + 1
      BY <1>1, <1>4, <2>1 DEF Resume
    <3>2. Left(f.lines, Top.off + 1, X) = {}
      <4> DEFINE s == f.lines
                 i == Top.off + 1
      <4>1. s \in LinesOf(D) /\ i \in Int /\ Len(s) <= i
        BY <1>4
      <4> HIDE DEF s, i
      <4> QED
        BY <4>1, LeftPast DEF s, i
    <3> QED
      BY <1>4, <1>6, <3>1, <3>2, Zenon DEF Owed
  <2>2. CASE f.state \in {"Text", "Definition"}
    <3>1. f.state \in TextStates /\ f.phase = "eof"
      BY <1>4, <2>2 DEF TextStates
    <3>2. Resume(f) = f.off - 1 /\ Resume(Top) = Top.off
      BY <1>1, <1>4, <2>2, <3>1 DEF Resume
    <3> QED
      BY <1>4, <1>7, <3>1, <3>2, Zenon DEF Owed
  <2>3. CASE f.state = "Line"
    <3>1. f.state \in TextStates /\ f.phase = "eof"
      BY <1>4, <2>3 DEF TextStates
    <3>2. Resume(f) = f.off + 1 /\ Resume(Top) = Top.off
      BY <1>1, <1>4, <2>3, <3>1 DEF Resume
    <3>3. f.ctx[1].n \notin X
      <4>1. \A k \in 1 .. Len(Top.ctx) : Top.ctx[k].n \notin X
        BY <1>4, <1>5, <2>3, Zenon DEF MachineIn
      <4> QED
        BY <1>4, <3>1, <4>1
    <3>4. f.lines[f.off].n \notin X
      BY <1>7, <3>1, <3>3
    <3>5. Left(f.lines, f.off - 1, X) = {}
      <4> DEFINE s == f.lines
                 i == f.off
      <4>1. i \in Nat /\ Len(s) = i /\ s[i].n \notin X
        BY <1>4, <1>7, <3>1, <3>4
      <4> HIDE DEF s, i
      <4>2. \A k \in 1 .. Len(s) : i - 1 < k => k = i
        BY ONLY <4>1
      <4> HIDE DEF X
      <4>3. Left(s, i - 1, X) = {}
        BY <4>1, <4>2 DEF Left
      <4> QED
        BY <4>3 DEF s, i
    <3> QED
      BY <1>4, <1>6, <1>7, <3>1, <3>2, <3>5, Zenon DEF Owed
  <2> QED
    BY <2>1, <2>2, <2>3 DEF TextStates
<1>10. Tells(nodes, none, none, X)
  BY TellsNothing
<1> DEFINE H == none \cup Quoted(f, Len(tree'), X)
<1>11. Spends(Owed(Top, X), Owed(f, X), H, none)
  BY <1>9 DEF Spends
<1>12. Top.phase # "over" /\ (memo'.level # 0 <=> memo.level # 0)
  BY <1>1, <1>2
<1> HIDE DEF none, nodes
<1> QED
  BY ONLY <1>2, <1>3, <1>4, <1>8, <1>10, <1>11, <1>12, LedgerGo DEF X, H

\* A machine over its last line ends at some line.
LEMMA StopsAt ==
    ASSUME Onward, Top.phase = "eof", NEW f, frames' = Append(Below, f),
           DOMAIN f = MachineFields, Keeps(Top, f), f.state = Top.state, f.ctx = Top.ctx,
           f.phase = "over", f.off \in Int, Top.state = "Definition" \/ Top.off <= f.off,
           memo'.level # 0 <=> memo.level # 0, NEW H, NEW U, Grown(H, U),
           Spends(Owed(Top, TextLines), Left(Top.lines, f.off + 1, TextLines), H, U)
    PROVE  Ledger'
<1> DEFINE X == TextLines
           D == DOMAIN doc
<1>1. MachineIn(Top, X) /\ TopIn(Top, Len(tree), X) /\ FrameOK(Top, Len(tree), D)
  BY TopOwes
<1>2. DOMAIN Top = MachineFields /\ Top.off \in Int /\ Top.lines \in LinesOf(D)
  BY <1>1, Zenon DEF FrameOK
<1>3. TopOK(Top, memo.bubble)
  BY Tops DEF Onward
<1>4. Top.state \in {"Text", "Definition", "Line"}
  BY <1>3 DEF TopOK
<1>5. Top.state # "SubstitutionDef" /\ Top.then.k # "substitution"
  <2>1. Top.state # "SubstitutionDef"
    BY <1>4
  <2> QED
    BY <1>1, <2>1, Zenon DEF MachineIn
<1>6. f.lines = Top.lines /\ f.then = Top.then
  BY Zenon DEF Keeps
<1>7. f.state = "Line" => \A k \in 1 .. Len(f.ctx) : f.ctx[k].n \notin X
  BY <1>1, Zenon DEF MachineIn
<1>8. Alike(Top, f, X)
  <2>1. Like(Top, f)
    BY <1>2, Zenon DEF Like
  <2> QED
    BY <1>5, <1>7, <2>1, Zenon DEF Alike
<1>9. f.then.k = "root" => Left(f.lines, f.off + 1, X) = {}
  <2> SUFFICES ASSUME Top.then.k = "root" PROVE Left(Top.lines, f.off + 1, X) = {}
    BY <1>6
  <2>1. Top.state \in BodyStates /\ Left(Top.lines, Top.off + 1, X) = {}
    <3>1. Top.phase # "run"
      OBVIOUS
    <3> QED
      BY <1>1, <3>1, Zenon DEF MachineIn, TopIn
  <2>2. Top.off <= f.off
    BY <2>1 DEF BodyStates
  <2> DEFINE s == Top.lines
             i == Top.off + 1
             j == f.off + 1
  <2>3. s \in LinesOf(D) /\ i \in Int /\ j \in Int /\ i <= j
    BY <1>2, <2>2
  <2> HIDE DEF s, i, j
  <2>4. Left(s, j, X) \subseteq Left(s, i, X)
    BY <2>3, SpanSplit
  <2> QED
    BY <2>1, <2>4 DEF s, i, j
<1>10. TopIn(f, Len(tree'), X)
  <2>1. f.phase # "run" /\ f.phase # "eof" /\ f.then.k # "substitution"
    BY <1>5, <1>6
  <2> QED
    BY <1>9, <2>1, Zenon DEF TopIn
<1>11. Owed(f, X) = Left(Top.lines, f.off + 1, X)
  <2>1. Resume(f) = f.off + 1
    BY DEF Resume
  <2> QED
    BY <1>6, <2>1, Zenon DEF Owed
<1>12. PICK nodes : tree' = tree \o nodes /\ Tells(nodes, H, U, X)
  BY DEF Grown
<1> DEFINE K == H \cup Quoted(f, Len(tree'), X)
<1>13. Spends(Owed(Top, X), Owed(f, X), K, U)
  BY <1>11 DEF Spends
<1>14. Onward /\ Top.phase # "over" /\ frames' = Append(Below, f) /\ (memo'.level # 0 <=> memo.level # 0)
  OBVIOUS
<1> QED
  BY ONLY <1>8, <1>10, <1>12, <1>13, <1>14, LedgerGo DEF X, K

\* What becomes of a machine that ends where it is.
LEMMA OverKept ==
    ASSUME NEW f, DOMAIN f = MachineFields
    PROVE  /\ DOMAIN Over(f) = MachineFields /\ Keeps(f, Over(f)) /\ Over(f).state = f.state
           /\ Over(f).ctx = f.ctx /\ Over(f).phase = "over" /\ Over(f).off = f.off
           /\ Over(f).only = f.only
  BY Zenon DEF Over, Keeps, MachineFields

\* TextEof: the text at the end of the lines is a paragraph.
LEMMA TextEofOnce ==
    ASSUME Ready, TextEof
    PROVE  Ledger'
<1> DEFINE X == TextLines
           D == DOMAIN doc
           lines == Top.ctx
           up == Top.node
           s == Top.lines
           j == Top.off
           i == j - 1
           none == {}
           between == <<>>
<1>1. /\ frames # <<>> /\ Top.phase = "eof" /\ Top.state = "Text"
      /\ doc' = doc /\ error' = error /\ dropped' = dropped /\ memo' = memo
      /\ \/ lines = <<>> /\ frames' = Append(Below, Over(Top)) /\ tree' = tree \o <<>>
         \/ /\ lines # <<>> /\ frames' = Append(Below, Over(Literal(Top, lines).f))
            /\ tree' = tree \o (Paragraph(lines, up) \o Literal(Top, lines).nodes)
  BY Zenon DEF TextEof, InEof, Continue, Goes, Same
<1>2. Onward
  BY <1>1, SameOnward
<1>3. MachineIn(Top, X) /\ TopIn(Top, Len(tree), X) /\ FrameOK(Top, Len(tree), D)
  BY <1>2, TopOwes
<1>4. /\ DOMAIN Top = MachineFields /\ j \in Int /\ s \in LinesOf(D) /\ lines \in LinesOf(D)
  BY <1>3, Zenon DEF FrameOK
<1>5. Sound(s, X)
  BY <1>3, Zenon DEF MachineIn
<1>6. memo'.level # 0 <=> memo.level # 0
  BY <1>1
<1>7. CASE lines = <<>> /\ frames' = Append(Below, Over(Top)) /\ tree' = tree \o <<>>
  <2> DEFINE f == Over(Top)
  <2>1. Grown(none, none)
    BY <1>2, <1>7, GrownNone
  <2>2. /\ DOMAIN f = MachineFields /\ Keeps(Top, f) /\ f.state = Top.state /\ f.ctx = Top.ctx
        /\ f.phase = "over" /\ f.off = Top.off
    BY <1>4, OverKept
  <2>3. Owed(Top, X) = Left(Top.lines, f.off + 1, X)
    <3>1. Resume(Top) = Top.off + 1
      BY <1>1, <1>7 DEF Resume
    <3> QED
      BY <2>2, <3>1, Zenon DEF Owed
  <2>4. Spends(Owed(Top, X), Left(Top.lines, f.off + 1, X), none, none)
    BY <2>3 DEF Spends
  <2>5. f.off \in Int /\ Top.off <= f.off /\ frames' = Append(Below, f)
    BY <1>4, <1>7, <2>2
  <2> HIDE DEF f, none
  <2> QED
    BY ONLY <1>1, <1>2, <1>6, <2>1, <2>2, <2>4, <2>5, StopsAt DEF X
<1>8. CASE /\ lines # <<>> /\ frames' = Append(Below, Over(Literal(Top, lines).f))
           /\ tree' = tree \o (Paragraph(lines, up) \o Literal(Top, lines).nodes)
  <2> DEFINE l == Literal(Top, lines)
             f == Over(l.f)
             line == s[j]
             off == l.f.off
             e == off + 1
  <2>1. j = Len(s) /\ j >= 1 /\ lines = <<line>>
    BY <1>1, <1>3, <1>8, Zenon DEF TopIn
  <2>2. j \in Nat /\ i \in Nat /\ i < Len(s) /\ At(s, i) = line /\ i + 1 = j /\ j \in 1 .. Len(s)
    BY <1>4, <2>1 DEF At
  <2>3. line \in LineOf(D) /\ Proper(line, X)
    <3> HIDE DEF s, X, D, j
    <3> QED
      BY <1>4, <1>5, <2>2 DEF LinesOf, Sound
  <2>4. NumbersOf(lines) \cap X = Span(s, i, j, X)
    <3> HIDE DEF s, X, D, line, i, j, lines
    <3>1. Span(s, i, i + 1, X) = {At(s, i).n} \cap X
      BY <1>4, <2>2, SpanOne
    <3>2. Sound(lines, X) /\ Left(lines, 0, X) = {line.n} \cap X
      BY <2>1, <2>3, OneLine
    <3>3. NumbersOf(lines) \cap X = Left(lines, 0, X)
      BY <1>4, <3>2, NumbersAreLeft
    <3> QED
      BY <2>2, <3>1, <3>2, <3>3
  <2>5. LiteralNext(lines) => NumbersOf(lines) \cap X \cap Left(s, j, X) = {}
    <3>1. i \in Int /\ i <= j /\ j <= j /\ Single(s)
      BY <1>4, <1>5 DEF Sound
    <3> HIDE DEF s, X, D, i, j, lines
    <3>2. Span(s, i, j, X) \cap Left(s, j, X) = {}
      BY ONLY <1>4, <3>1, SpanJoin
    <3> QED
      BY <2>4, <3>2
  <2>6. Silent(between)
    BY SilentNodes
  <2>7. /\ DOMAIN l.f = MachineFields /\ Keeps(Top, l.f) /\ l.f.state = Top.state
        /\ l.f.phase = Top.phase /\ l.f.ctx = Top.ctx
        /\ off \in Int /\ off >= j
        /\ ~LiteralNext(lines) => off = j
        /\ \E H : /\ H \cap X = Literally(Top, lines, X)
                  /\ Tells(Paragraph(lines, up) \o l.nodes, H, H \cap X, X)
                  /\ Tells(Paragraph(lines, up) \o between \o l.nodes, H, H \cap X, X)
    <3>1. LiteralNext(lines) => Len(Top.lines) <= Top.off
      BY <2>1
    <3> DEFINE g == Top
               k == Literal(g, lines)
    <3>2. /\ DOMAIN g = MachineFields /\ g.lines \in LinesOf(D) /\ Sound(g.lines, X) /\ g.off \in Nat
          /\ LiteralNext(lines) => Len(g.lines) <= g.off
          /\ LiteralNext(lines) => NumbersOf(lines) \cap X \cap Left(g.lines, g.off, X) = {}
          /\ lines \in LinesOf(D)
      BY <1>4, <1>5, <2>2, <2>5, <3>1
    <3> HIDE DEF D, between, lines, up, g
    <3>3. /\ DOMAIN k.f = MachineFields /\ Keeps(g, k.f) /\ k.f.state = g.state
          /\ k.f.phase = g.phase /\ k.f.ctx = g.ctx /\ k.f.only = g.only
          /\ k.f.off \in Int /\ k.f.off >= g.off
          /\ ~LiteralNext(lines) => k.f.off = g.off
          /\ \E H : /\ H \cap X = Literally(g, lines, X)
                    /\ Tells(Paragraph(lines, up) \o k.nodes, H, H \cap X, X)
                    /\ Tells(Paragraph(lines, up) \o between \o k.nodes, H, H \cap X, X)
      BY ONLY <2>6, <3>2, LiteralTells DEF X, k
    <3> QED
      BY <3>3, Zenon DEF g
  <2>8. Literally(Top, lines, X) = Span(s, i, e, X) /\ Len(s) <= e
    <3>1. ~LiteralNext(lines) => j <= Top.off + 1 /\ Span(s, j, Top.off + 1, X) = {}
      <4> SUFFICES Span(s, j, j + 1, X) = {}
        BY <1>4
      <4>1. Left(s, j, X) = {}
        BY <1>4, <2>1, LeftPast
      <4> QED
        BY <4>1 DEF Span, Left
    <3>2. Top.lines \in LinesOf(D) /\ Top.off \in Int /\ i \in Int /\ j \in Int /\ i <= j /\ Top.off = j
      BY <1>4
    <3>3. NumbersOf(lines) \cap X = Span(Top.lines, i, j, X)
      BY <2>4
    <3>4. ~LiteralNext(lines) => j <= Top.off + 1 /\ Span(Top.lines, j, Top.off + 1, X) = {}
      BY <3>1
    <3>5. off = Literal(Top, lines).f.off /\ off \in Int /\ off >= Top.off
          /\ (~LiteralNext(lines) => off = Top.off)
      BY <2>7
    <3>6. Len(s) <= e
      BY <2>1, <2>7
    <3> HIDE DEF D, i, off, j, lines
    <3>7. Literally(Top, lines, X) = Span(Top.lines, i, off + 1, X)
      BY ONLY <3>2, <3>3, <3>4, <3>5, LiteralSpan DEF X
    <3> QED
      BY <3>6, <3>7
  <2>9. PICK H : /\ H \cap X = Literally(Top, lines, X)
                 /\ Tells(Paragraph(lines, up) \o l.nodes, H, H \cap X, X)
    BY <2>7
  <2>10. Grown(H, H \cap X)
    BY <1>8, <2>9 DEF Grown
  <2>11. /\ DOMAIN f = MachineFields /\ Keeps(Top, f) /\ f.state = Top.state /\ f.ctx = Top.ctx
         /\ f.phase = "over" /\ f.off = off
    <3> HIDE DEF l
    <3>1. /\ DOMAIN f = MachineFields /\ Keeps(l.f, f) /\ f.state = l.f.state /\ f.ctx = l.f.ctx
          /\ f.phase = "over" /\ f.off = off
      BY <2>7, OverKept
    <3> QED
      BY <2>7, <3>1, Zenon DEF Keeps
  <2>12. Owed(Top, X) = Left(s, i, X)
    <3>1. Resume(Top) = Top.off - 1
      BY <1>1, <1>8 DEF Resume
    <3> QED
      BY <3>1, Zenon DEF Owed
  <2>13. Left(s, e, X) = {} /\ Span(s, i, e, X) = Left(s, i, X)
    <3>1. e \in Int /\ i \in Int
      BY <1>4, <2>7
    <3> HIDE DEF s, e, i, X, D
    <3> QED
      BY <1>4, <2>8, <3>1, LeftPast, SpanPast
  <2>14. Spends(Owed(Top, X), Left(Top.lines, f.off + 1, X), H, H \cap X)
    <3>1. Left(Top.lines, f.off + 1, X) = {}
      BY <2>11, <2>13
    <3>2. Owed(Top, X) = H \cap X
      BY <2>8, <2>9, <2>12, <2>13
    <3> HIDE DEF X
    <3> QED
      BY <3>1, <3>2 DEF Spends
  <2>15. f.off \in Int /\ Top.off <= f.off /\ frames' = Append(Below, f)
    BY <1>4, <1>8, <2>7, <2>11
  <2> HIDE DEF f, X
  <2> QED
    BY ONLY <1>1, <1>2, <1>6, <2>10, <2>11, <2>14, <2>15, StopsAt DEF X
<1> QED
  BY <1>1, <1>7, <1>8

\* DefinitionEof: there is no definition, and the line goes to another machine.
LEMMA DefinitionEofOnce ==
    ASSUME Ready, DefinitionEof
    PROVE  Ledger'
<1> DEFINE X == TextLines
           D == DOMAIN doc
           m == Moved(Top, -2)
           f == Over(m)
           none == {}
<1>1. /\ frames # <<>> /\ Top.phase = "eof" /\ Top.state = "Definition"
      /\ doc' = doc /\ error' = error /\ dropped' = dropped /\ memo' = memo
      /\ frames' = Append(Below, f) /\ tree' = tree \o <<>>
  BY Zenon DEF DefinitionEof, InEof, Continue, Goes, Same
<1>2. Onward
  BY <1>1, SameOnward
<1>3. FrameOK(Top, Len(tree), D)
  BY <1>2, TopOwes
<1>4. DOMAIN Top = MachineFields /\ Top.off \in Int
  BY <1>3, Zenon DEF FrameOK
<1>5. Grown(none, none)
  BY <1>1, <1>2, GrownNone
<1>6. /\ DOMAIN m = MachineFields /\ Keeps(Top, m) /\ m.state = Top.state /\ m.ctx = Top.ctx
      /\ m.off = Top.off + (-2)
  BY <1>4, Zenon DEF Moved, Keeps, MachineFields
<1> HIDE DEF m
<1>7. /\ DOMAIN f = MachineFields /\ Keeps(m, f) /\ f.state = m.state /\ f.ctx = m.ctx
      /\ f.phase = "over" /\ f.off = m.off
  BY <1>6, OverKept
<1> HIDE DEF f
<1>8. Keeps(Top, f) /\ f.state = Top.state /\ f.ctx = Top.ctx
  BY <1>6, <1>7, Zenon DEF Keeps
<1>9. f.off \in Int /\ f.off + 1 = Top.off - 1
  BY <1>4, <1>6, <1>7
<1>10. Owed(Top, X) = Left(Top.lines, f.off + 1, X)
  <2>1. Resume(Top) = Top.off - 1
    BY <1>1 DEF Resume
  <2> QED
    BY <1>9, <2>1, Zenon DEF Owed
<1>11. Spends(Owed(Top, X), Left(Top.lines, f.off + 1, X), none, none)
  BY <1>10 DEF Spends
<1>12. memo'.level # 0 <=> memo.level # 0
  BY <1>1
<1> HIDE DEF none
<1> QED
  BY ONLY <1>1, <1>2, <1>5, <1>7, <1>8, <1>9, <1>11, <1>12, StopsAt DEF X

\* LineEof: the overline is a transition, or text, unless it belongs to a title further out.
LEMMA LineEofOnce ==
    ASSUME Ready, LineEof, RereadsSection => reread'
    PROVE  Ledger'
<1> DEFINE X == TextLines
           D == DOMAIN doc
           one == 1
           t == AsText(Top, one)
           f == [t EXCEPT !.phase = "run"]
           e == Over(Top)
           yes == TRUE
           g == [e EXCEPT !.eofcheck = yes]
           H == NumbersOf(Top.ctx)
           kind == "transition"
           none == {}
<1>1. /\ frames # <<>> /\ Top.phase = "eof" /\ Top.state = "Line"
      /\ doc' = doc /\ error' = error /\ dropped' = dropped
      /\ memo' = [memo EXCEPT !.bubble = FALSE]
      /\ \/ ~memo.bubble /\ IsShort(Top) /\ frames' = Append(Below, f) /\ tree' = tree \o <<>>
         \/ frames' = Append(Below, g) /\ tree' = tree \o <<>>
         \/ frames' = Append(Below, g) /\ tree' = tree \o <<Node(kind, Top.node, H)>>
  BY DEF LineEof, InEof, Goes
<1>2. Onward
  BY <1>1, SameOnward
<1>3. MachineIn(Top, X) /\ TopIn(Top, Len(tree), X) /\ FrameOK(Top, Len(tree), D)
  BY <1>2, TopOwes
<1>4. /\ DOMAIN Top = MachineFields /\ Top.off \in Int /\ Top.lines \in LinesOf(D)
      /\ Top.ctx \in LinesOf(D)
  BY <1>3, Zenon DEF FrameOK
<1>5. memo'.level # 0 <=> memo.level # 0
  <2>1. memo \in MemoType
    BY DEF Ready, Stack
  <2> QED
    BY <1>1, <2>1 DEF MemoType
<1>6. TopOK(Top, memo.bubble)
  BY <1>2, Tops DEF Onward
<1>7. Len(Top.ctx) = 1 /\ (~memo.bubble => Top.off >= 1)
  BY <1>1, <1>6 DEF TopOK
<1>8. Top.ctx[1].n \notin X
  <2>1. \A k \in 1 .. Len(Top.ctx) : Top.ctx[k].n \notin X
    BY <1>1, <1>3, Zenon DEF MachineIn
  <2> QED
    BY <1>7, <2>1
<1>9. H \cap X = none
  <2>1. \A k \in 1 .. Len(Top.ctx) : Top.ctx[k].n \notin X
    BY <1>1, <1>3, Zenon DEF MachineIn
  <2>2. DOMAIN Top.ctx = 1 .. Len(Top.ctx)
    BY <1>4 DEF LinesOf
  <2> HIDE DEF X
  <2> QED
    BY <2>1, <2>2 DEF NumbersOf
<1>10. Owed(Top, X) = Left(Top.lines, Top.off + 1, X)
  <2>1. Resume(Top) = Top.off + 1
    BY <1>1 DEF Resume
  <2> QED
    BY <2>1, Zenon DEF Owed
<1>11. CASE ~memo.bubble /\ IsShort(Top) /\ frames' = Append(Below, f) /\ tree' = tree \o <<>>
  <2> DEFINE nodes == <<>>
             s == Top.lines
             i == Top.off - 1
             j == Top.off + 1
  <2>1. /\ DOMAIN f = MachineFields /\ Keeps(Top, f) /\ f.state = "Body" /\ f.phase = "run"
        /\ f.off = Top.off + (-one - 1)
    <3>1. /\ DOMAIN t = MachineFields /\ Keeps(Top, t) /\ t.state = "Body"
          /\ t.off = Top.off + (-one - 1)
      BY <1>4, Zenon DEF AsText, Moved, Keeps, MachineFields
    <3> HIDE DEF t, one
    <3> QED
      BY <3>1, Zenon DEF Keeps, MachineFields
  <2> HIDE DEF f
  <2>2. f.off \in Int /\ f.off + 1 = i
    BY <1>4, <2>1
  <2>3. Owed(f, X) = Left(s, i, X)
    <3>1. Resume(f) = f.off + 1
      BY <2>1 DEF Resume, TextStates
    <3>2. f.lines = s
      BY <2>1, Zenon DEF Keeps
    <3> QED
      BY <2>2, <3>1, <3>2, Zenon DEF Owed
  <2>4. s \in LinesOf(D) /\ i \in Int /\ j \in Int /\ i <= j /\ Len(s) \in Nat
    BY <1>4, LenProperties DEF LinesOf
  <2>5. Left(s, j, X) \subseteq Left(s, i, X)
    <3> HIDE DEF s, i, j, D
    <3> QED
      BY <2>4, SpanSplit
  <2>6. ~reread' => Left(s, i, X) = {}
    <3> SUFFICES ASSUME ~reread' PROVE Left(s, i, X) = {}
      OBVIOUS
    <3>1. Top.off >= Len(s) /\ Last(s) = Top.ctx[1]
      <4>1. InEof("Line")
        BY <1>1 DEF InEof
      <4>2. ~HasLine(Top, Top.off) /\ Last(s) = Top.ctx[1]
        BY <1>11, <4>1 DEF RereadsSection
      <4> QED
        BY <1>4, <2>4, <4>2 DEF HasLine
    <3>2. \A k \in 1 .. Len(s) : i < k => k = Len(s)
      BY <1>4, <2>4, <3>1
    <3>3. Last(s) = s[Len(s)]
      BY DEF Last
    <3> HIDE DEF s, i, X
    <3> QED
      BY <1>8, <3>1, <3>2, <3>3 DEF Left
  <2>7. Alike(Top, f, X)
    <3>1. Top.state \in BodyStates /\ f.state \in BodyStates /\ f.state # "Line"
      BY <1>1, <2>1 DEF BodyStates
    <3> QED
      BY <1>4, <2>1, <3>1, AlikeSections
  <2>8. TopIn(f, Len(tree'), X)
    <3>1. f.state \notin TextStates /\ f.phase # "eof" /\ f.phase = "run"
      BY <2>1 DEF TextStates
    <3>2. f.then.k # "substitution"
      <4>1. MachineIn(f, X)
        BY <1>3, <2>7, AlikeIn
      <4> QED
        BY <2>1, <4>1, Zenon DEF MachineIn
    <3> QED
      BY <3>1, <3>2, Zenon DEF TopIn
  <2>9. Tells(nodes, none, none, X)
    BY TellsNothing
  <2> DEFINE K == none \cup Quoted(f, Len(tree'), X)
  <2>10. Spends(Owed(Top, X), Owed(f, X), K, none)
    <3>1. Owed(Top, X) = Left(s, j, X)
      BY <1>10
    <3> HIDE DEF s, i, j, X, K
    <3> QED
      BY <2>3, <2>5, <2>6, <3>1 DEF Spends
  <2>11. Top.phase # "over" /\ frames' = Append(Below, f) /\ tree' = tree \o nodes
    BY <1>1, <1>11
  <2> HIDE DEF none, nodes
  <2> QED
    BY ONLY <1>2, <1>5, <2>7, <2>8, <2>9, <2>10, <2>11, LedgerGo DEF X, K
<1>12. CASE frames' = Append(Below, g)
            /\ (tree' = tree \o <<>> \/ tree' = tree \o <<Node(kind, Top.node, H)>>)
  <2>1. /\ DOMAIN g = MachineFields /\ Keeps(Top, g) /\ g.state = Top.state /\ g.ctx = Top.ctx
        /\ g.phase = "over" /\ g.off = Top.off
    <3>1. /\ DOMAIN e = MachineFields /\ Keeps(Top, e) /\ e.state = Top.state /\ e.ctx = Top.ctx
          /\ e.phase = "over" /\ e.off = Top.off
      BY <1>4, OverKept
    <3> HIDE DEF e, yes
    <3>2. /\ DOMAIN g = MachineFields /\ Keeps(e, g) /\ g.state = e.state /\ g.ctx = e.ctx
          /\ g.phase = e.phase /\ g.off = e.off
      BY <3>1, Zenon DEF Keeps, MachineFields
    <3> HIDE DEF g
    <3> QED
      BY <3>1, <3>2, Zenon DEF Keeps
  <2> HIDE DEF g
  <2>2. \E K : Grown(K, none)
    <3>1. CASE tree' = tree \o <<>>
      BY <1>2, <3>1, GrownNone
    <3>2. CASE tree' = tree \o <<Node(kind, Top.node, H)>>
      <4>1. kind \notin Levels /\ Stack
        BY DEF Levels, Ready
      <4> HIDE DEF kind, H
      <4> QED
        BY <1>9, <3>2, <4>1, GrownNode
    <3> QED
      BY <1>12, <3>1, <3>2
  <2>3. PICK K : Grown(K, none)
    BY <2>2
  <2>4. Spends(Owed(Top, X), Left(Top.lines, g.off + 1, X), K, none)
    BY <1>10, <2>1 DEF Spends
  <2>5. g.off \in Int /\ Top.off <= g.off /\ frames' = Append(Below, g)
    BY <1>4, <1>12, <2>1
  <2> HIDE DEF none
  <2> QED
    BY ONLY <1>1, <1>2, <1>5, <2>1, <2>3, <2>4, <2>5, StopsAt DEF X
<1> QED
  BY <1>1, <1>11, <1>12

-----------------------------------------------------------------------------
(* The end of a parse. *)

\* No machine is left, and what has been made is as before.
LEMMA NoneLeft ==
    ASSUME Ready, frames # <<>>, frames' = <<>>, doc' = doc, tree' = tree,
           error' # NoError \/ Covered(<<>>, tree, dropped', TextLines)
    PROVE  Ledger'
<1> DEFINE X == TextLines
           s == <<>>
<1>1. X' = X
  BY SameText
<1>2. Len(s) = 0 /\ 1 .. Len(s) = {} /\ 2 .. Len(s) = {}
  BY LenProperties
<1>3. doc' # <<>>
  BY DEF Ready, Stack
<1>4. Formed(s, Len(tree'), X) /\ Grounded(s) /\ CoveredBelow(s, tree', dropped', X) /\ Plain(s, tree')
  <2> HIDE DEF X
  <2>1. Formed(s, Len(tree'), X)
    BY <1>2 DEF Formed
  <2>2. Grounded(s)
    BY <1>2 DEF Grounded
  <2>3. CoveredBelow(s, tree', dropped', X) /\ Plain(s, tree')
    BY <1>2 DEF CoveredBelow, Plain
  <2> QED
    BY <2>1, <2>2, <2>3
<1>5. ~reread' => Once(s, tree', X)
  <2> HIDE DEF X
  <2>1. ~reread' => Apart(tree', X)
    BY DEF Ready, Ledger, Once, X
  <2> QED
    BY <1>2, <2>1 DEF Once
<1>6. error' = NoError => Covered(s, tree', dropped', X)
  <2> HIDE DEF s
  <2> QED
    BY DEF s
<1> HIDE DEF X
<1> QED
  BY <1>1, <1>3, <1>4, <1>5, <1>6, Zenon DEF Ledger, X

\* EnumeratorFails: the exception ends the parse.
LEMMA EnumeratorFailsOnce ==
    ASSUME Ready, EnumeratorFails
    PROVE  Ledger'
<1>1. "ParserError" # NoError
  BY DEF NoError
<1>2. /\ frames # <<>> /\ frames' = <<>> /\ doc' = doc /\ tree' = tree /\ error' = "ParserError"
  BY Zenon DEF EnumeratorFails, Sees
<1> QED
  BY <1>1, <1>2, NoneLeft

\* ListFails: so does the one about a line past the end.
LEMMA ListFailsOnce ==
    ASSUME Ready, ListFails
    PROVE  Ledger'
<1>1. "IndexError" # NoError
  BY DEF NoError
<1>2. /\ frames # <<>> /\ frames' = <<>> /\ doc' = doc /\ tree' = tree /\ error' = "IndexError"
  BY DEF ListFails, Returns
<1> QED
  BY <1>1, <1>2, NoneLeft

\* ReturnRoot: the machine of the document has read it all.
LEMMA ReturnRootOnce ==
    ASSUME Ready, ReturnRoot
    PROVE  Ledger'
<1> DEFINE X == TextLines
           m == Len(frames)
           over == "over"
<1>1. /\ frames # <<>> /\ Top.phase = over /\ Top.then.k = "root" /\ doc' = doc
      /\ frames' = <<>> /\ tree' = tree /\ error' = error /\ dropped' = dropped
  BY DEF ReturnRoot, Returns
<1>2. Onward
  BY <1>1, SameOnward
<1>3. MachineIn(Top, X) /\ TopIn(Top, Len(tree), X) /\ Top = frames[m] /\ m \in 1 .. m /\ m \in Nat
  BY <1>2, TopOwes
<1>4. m = 1
  <2> SUFFICES ASSUME m # 1 PROVE FALSE
    OBVIOUS
  <2>1. m \in 2 .. m
    <3>1. m \in Nat /\ m \in 1 .. m /\ m # 1
      BY <1>3
    <3> HIDE DEF m
    <3> QED
      BY ONLY <3>1
  <2>2. LinkOK(frames[m - 1], frames[m])
    BY <2>1 DEF Ready, Stack, StackOK
  <2> QED
    BY <1>1, <1>3, <2>2 DEF LinkOK
<1>5. Owed(Top, X) = {} /\ Later(Top, X) = {} /\ Quoted(Top, Len(tree), X) = {}
  <2>1. Top.phase # "run" /\ Top.phase # "eof"
    BY <1>1
  <2>2. Resume(Top) = Top.off + 1 /\ Left(Top.lines, Top.off + 1, X) = {}
    BY <1>1, <1>3, <2>1, Zenon DEF Resume, TopIn
  <2> QED
    BY <1>1, <2>2 DEF Owed, Later, Quoted
<1>6. error = NoError => Covered(<<>>, tree, dropped', X)
  <2> SUFFICES ASSUME error = NoError PROVE Covered(<<>>, tree, dropped', X)
    OBVIOUS
  <2>1. Covered(frames, tree, dropped, X)
    BY DEF Ready, Ledger
  <2>2. \A i \in 1 .. m : i = m
    BY <1>4
  <2>3. \A i \in 1 .. m, w \in Whens : Debt(frames, i, w, X) = {}
    BY <1>3, <1>5, <2>2 DEF Debt, Own
  <2>4. Quoted(Last(frames), Len(tree), X) = {}
    BY <1>5 DEF Top
  <2> HIDE DEF X
  <2> QED
    BY <1>1, <2>1, <2>3, <2>4 DEF Covered
<1> QED
  BY <1>1, <1>6, NoneLeft

-----------------------------------------------------------------------------
(* The beginning of a parse. *)

\* The lines of a document are its own, and its text ends with a text.
LEMMA DocumentSound ==
    ASSUME NEW d \in Documents, NEW X,
           \A n \in X : n \in DOMAIN d /\ ~Blank(d[n]) /\ Last(d[n].m).t = "text"
    PROVE  d # <<>> /\ d \in LinesOf(DOMAIN d) /\ Sound(d, X)
<1>1. /\ d \in Seq(LineType) \ {<<>>} /\ \A i \in DOMAIN d : d[i].n = i
  BY DocumentsAssumption
<1>2. \A i \in DOMAIN d : \A k \in DOMAIN d[i].m :
          /\ d[i].m[k].t \in {"text", "line"} => k = Len(d[i].m)
          /\ d[i].m[k].t = "text" => d[i].m[k].c \notin DOMAIN Directives
  BY MarksAssumption
<1>3. DOMAIN d = 1 .. Len(d) /\ Len(d) \in Nat
  BY <1>1, LenProperties
<1>4. \A i \in 1 .. Len(d) : d[i] \in LineType
  BY <1>1, ElementOfSeq
<1>5. \A i \in 1 .. Len(d) : DOMAIN d[i].m = 1 .. Len(d[i].m)
  BY <1>4, LenProperties DEF LineType
<1>6. \A i \in 1 .. Len(d) : Proper(d[i], X)
  <2> TAKE i \in 1 .. Len(d)
  <2>1. d[i].n \in X => d[i].m # <<>> /\ Last(d[i].m).t = "text"
    BY <1>1, <1>3 DEF Blank
  <2>2. \A k \in 1 .. Len(d[i].m) :
            /\ d[i].m[k].t \in {"text", "line"} => k = Len(d[i].m)
            /\ d[i].m[k].t = "text" => d[i].m[k].c \notin DOMAIN Directives
    BY <1>2, <1>3, <1>5
  <2> QED
    BY <2>1, <2>2 DEF Proper
<1>7. Single(d)
  BY <1>1, <1>3 DEF Single
<1>8. d \in LinesOf(DOMAIN d)
  <2>1. d \in Seq(LineOf(DOMAIN d))
    <3>1. \A i \in 1 .. Len(d) : d[i] \in LineOf(DOMAIN d)
      BY <1>1, <1>3, <1>4 DEF LineOf, LineType
    <3> QED
      BY <1>1, <3>1
  <2> QED
    BY <2>1 DEF LinesOf
<1> QED
  BY <1>1, <1>6, <1>7, <1>8 DEF Sound

\* Nothing has been made before a document is read.
LEMMA NothingMade ==
    ASSUME Stack, doc = <<>>, NEW X
    PROVE  Apart(tree, X) /\ Used(tree, X) = {}
<1>1. DOMAIN doc = {}
  OBVIOUS
<1>2. \A i \in 1 .. Len(tree) : tree[i].of = {}
  BY <1>1 DEF Stack, TreeOK, NodesOK, NodeOK
<1>3. \A i \in 1 .. Len(tree) : Shows(tree, i, X) = {}
  BY <1>2 DEF Shows
<1> QED
  BY <1>3 DEF Apart, Used

\* A single machine over the lines of a document.
LEMMA RootLedger ==
    ASSUME NEW d, NEW X, d \in LinesOf(DOMAIN d), Sound(d, X),
           X \subseteq DOMAIN d, \A i \in DOMAIN d : d[i].n = i,
           NEW g, g = Root(d), NEW s, s = <<g>>, NEW t, Apart(t, X), Used(t, X) = {}, NEW e, NEW n
    PROVE  /\ Formed(s, n, X) /\ Grounded(s) /\ ~Sectioned(s, Len(s))
           /\ Covered(s, t, e, X) /\ CoveredBelow(s, t, e, X) /\ Plain(s, t) /\ Once(s, t, X)
<1>1. /\ g.then.k = "root" /\ g.phase = "run" /\ g.state = "Body" /\ g.lines = d /\ g.off = -1
  BY Zenon DEF Root, Machine, Then
<1> DEFINE off == g.off
<1>2. Resume(g) = 0
  <2>1. Resume(g) = g.off + 1
    BY <1>1 DEF Resume, TextStates
  <2> QED
    BY <1>1, <2>1
<1>3. Owed(g, X) = Left(d, 0, X) /\ Later(g, X) = {}
  BY <1>1, <1>2 DEF Owed, Later
<1>4. s \in Seq({g}) /\ Len(s) = 1 /\ s[1] = g /\ s # <<>> /\ Last(s) = g
  BY DEF Last
<1>5. (\A i \in 1 .. 1 : i = 1) /\ 2 .. 1 = {} /\ 1 \in 1 .. 1
  OBVIOUS
<1>6. MachineIn(g, X)
  BY <1>1, Zenon DEF MachineIn, BodyStates
<1>7. TopIn(g, n, X)
  <2>1. g.state \notin TextStates
    BY <1>1 DEF TextStates
  <2>2. g.phase # "eof" /\ g.then.k # "substitution"
    BY <1>1
  <2> QED
    BY <1>1, <2>1, <2>2, Zenon DEF TopIn
<1>8. g.node <= g.node
  <2>1. g.node = 0
    BY Zenon DEF Root, Machine
  <2> QED
    BY <2>1
<1> HIDE DEF off
<1>9. Formed(s, n, X)
  BY <1>4, <1>5, <1>6, <1>7, <1>8, Zenon DEF Formed
<1>10. ~IsSection(s[1]) /\ Grounded(s) /\ ~Sectioned(s, Len(s))
  <2>1. ~IsSection(s[1])
    BY <1>1, <1>4 DEF IsSection
  <2>2. \A i \in 1 .. Len(s) : ~IsSection(s[i])
    BY <1>4, <1>5, <2>1
  <2> QED
    BY <2>1, <2>2, Zenon DEF Grounded, Sectioned
<1>11. Debt(s, 1, "own", X) = Left(d, 0, X) /\ Debt(s, 1, "later", X) = {}
  BY <1>3, <1>4 DEF Debt, Own
<1>12. Left(d, 0, X) = X
  <2>1. DOMAIN d = 1 .. Len(d)
    BY DEF LinesOf
  <2> QED
    BY <2>1 DEF Left
<1>13. Covered(s, t, e, X)
  <2>1. \A x \in X : x \in Debt(s, 1, "own", X)
    BY <1>11, <1>12
  <2>2. "own" \in Whens /\ 1 \in 1 .. Len(s)
    BY <1>4 DEF Whens
  <2> QED
    BY <2>1, <2>2, Zenon DEF Covered
<1>14. CoveredBelow(s, t, e, X) /\ Plain(s, t)
  <2>1. 2 .. Len(s) = {}
    BY <1>4
  <2> QED
    BY <2>1 DEF CoveredBelow, Plain
<1>15. Once(s, t, X)
  <2>1. \A i, j \in 1 .. Len(s), w, v \in Whens :
            i # j \/ w # v => Debt(s, i, w, X) \cap Debt(s, j, v, X) = {}
    BY <1>4, <1>5, <1>11 DEF Whens
  <2> QED
    BY <2>1, Zenon DEF Once
<1> QED
  BY <1>9, <1>10, <1>13, <1>14, <1>15

\* Parse: the first machine owes the document.
LEMMA ParseOnce ==
    ASSUME Ready, Parse
    PROVE  Ledger'
<1> DEFINE d == doc'
           X == TextLines'
           g == Root(d)
           s == frames'
           none == {}
<1>1. /\ doc = <<>> /\ frames = <<>> /\ d \in Documents /\ s = <<g>>
      /\ tree' = tree /\ memo' = memo /\ error' = error /\ dropped' = dropped
  BY DEF Parse
<1>2. \A n \in X : n \in DOMAIN d /\ ~Blank(d[n]) /\ Last(d[n].m).t = "text"
  BY DEF TextLines
<1>3. X \subseteq DOMAIN d /\ \A i \in DOMAIN d : d[i].n = i
  BY <1>1, <1>2, DocumentsAssumption
<1>4. Apart(tree', X) /\ Used(tree', X) = none
  <2> HIDE DEF X
  <2> QED
    BY <1>1, NothingMade DEF Ready
<1>5. memo'.level = 0
  <2>1. memo.level # 0 <=> Sectioned(frames, Len(frames))
    BY <1>1 DEF Ready, Ledger
  <2>2. Len(frames) = 0
    BY <1>1, LenProperties
  <2>3. ~Sectioned(frames, 0)
    BY DEF Sectioned
  <2> QED
    BY <1>1, <2>1, <2>2, <2>3
<1> HIDE DEF X, d, none
<1>6. d \in LinesOf(DOMAIN d) /\ Sound(d, X)
  BY <1>1, <1>2, DocumentSound
<1>7. g = Root(d)
  OBVIOUS
<1> HIDE DEF g, s
<1>8. /\ Formed(s, Len(tree'), X) /\ Grounded(s) /\ ~Sectioned(s, Len(s))
      /\ Covered(s, tree', dropped', X) /\ CoveredBelow(s, tree', dropped', X) /\ Plain(s, tree')
      /\ Once(s, tree', X)
  BY <1>1, <1>3, <1>4, <1>6, <1>7, RootLedger DEF none
<1> QED
  BY <1>5, <1>8, Zenon DEF Ledger, X, s

\* Nothing is owed at first.
LEMMA InitOnce ==
    ASSUME Init
    PROVE  Ledger
<1> DEFINE X == TextLines
           s == <<>>
           none == {}
<1>1. /\ doc = s /\ frames = s /\ tree = s /\ memo.level = 0 /\ dropped = none
  BY Zenon DEF Init
<1>2. Len(s) = 0 /\ 1 .. Len(s) = {} /\ 2 .. Len(s) = {} /\ DOMAIN s = {}
  BY LenProperties
<1>3. X = {}
  BY <1>1, <1>2 DEF TextLines
<1> HIDE DEF s, none, X
<1>4. Formed(s, Len(s), X) /\ Grounded(s) /\ CoveredBelow(s, s, none, X) /\ Plain(s, s)
  <2>1. Formed(s, Len(s), X)
    <3>1. s = <<>>
      BY DEF s
    <3> QED
      BY <1>2, <3>1 DEF Formed
  <2>2. Grounded(s)
    BY <1>2 DEF Grounded
  <2>3. CoveredBelow(s, s, none, X) /\ Plain(s, s)
    BY <1>2 DEF CoveredBelow, Plain
  <2> QED
    BY <2>1, <2>2, <2>3
<1>5. Once(s, s, X) /\ Covered(s, s, none, X)
  BY <1>2, <1>3 DEF Once, Covered, Apart, Used
<1>6. ~Sectioned(s, Len(s))
  BY <1>2 DEF Sectioned
<1> QED
  BY <1>1, <1>4, <1>5, <1>6, Zenon DEF Ledger, X

-----------------------------------------------------------------------------
(* A machine that is over, and the one that started it. *)

\* m is the place of the machine that started the innermost one, which is over.
Back(m) == /\ Onward /\ Top.phase = "over" /\ Top.then.k # "root"
           /\ m = Len(frames) - 1

\* What the two have to read.
LEMMA CallerOwes ==
    ASSUME NEW m, Back(m)
    PROVE  /\ m \in 1 .. Len(frames) /\ m \in Nat /\ Len(frames) = m + 1 /\ IsSeq(frames)
           /\ Caller = frames[m] /\ Top = frames[m + 1]
           /\ Others = SubSeq(frames, 1, m - 1) /\ IsSeq(Others)
           /\ FrameOK(Caller, Len(tree), DOMAIN doc) /\ FrameOK(Top, Len(tree), DOMAIN doc)
           /\ LinkOK(Caller, Top) /\ WaitIn(Caller, Top, TextLines)
           /\ MachineIn(Caller, TextLines) /\ MachineIn(Top, TextLines)
           /\ TopIn(Top, Len(tree), TextLines) /\ Caller.node <= Top.node
           /\ Owed(Top, TextLines) = Left(Top.lines, Top.off + 1, TextLines)
           /\ Due(frames, m, TextLines)
              = Waits(Caller, Top, TextLines) \cup Owed(Top, TextLines) \cup Later(Top, TextLines)
           /\ IsSection(Top) => (Top.then.level # 0 <=> Sectioned(frames, m))
           /\ ~IsSection(Top) => (memo.level # 0 <=> Sectioned(frames, m))
           /\ Len(tree) \in Nat
<1>1. Stack /\ frames # <<>> /\ Top.then.k # "root" /\ m = Len(frames) - 1
  BY DEF Back, Onward
<1>2. /\ m \in 1 .. Len(frames) /\ Caller = frames[m]
      /\ FrameOK(Caller, Len(tree), DOMAIN doc) /\ LinkOK(Caller, Top)
      /\ Others = SubSeq(frames, 1, m - 1) /\ IsSeq(Others)
  BY <1>1, Callers
<1>3. /\ Len(frames) \in 1 .. Len(frames) /\ Len(frames) \in Nat /\ IsSeq(frames)
      /\ Top = frames[Len(frames)] /\ FrameOK(Top, Len(tree), DOMAIN doc)
      /\ MachineIn(Top, TextLines) /\ TopIn(Top, Len(tree), TextLines)
      /\ memo.level # 0 <=> Sectioned(frames, Len(frames))
  BY TopOwes DEF Back
<1>4. m \in Nat /\ Len(frames) = m + 1 /\ m + 1 \in 2 .. Len(frames) /\ m <= m + 1
      /\ m + 1 \in 1 .. Len(frames) /\ (m + 1) - 1 = m
  BY <1>1, <1>2, <1>3
<1>5. MachineIn(Caller, TextLines) /\ WaitIn(Caller, Top, TextLines) /\ Caller.node <= Top.node
  <2>1. Formed(frames, Len(tree), TextLines)
    BY DEF Back, Onward, Ledger
  <2>2. /\ \A i \in 1 .. Len(frames) : MachineIn(frames[i], TextLines)
        /\ \A i \in 2 .. Len(frames) : WaitIn(frames[i - 1], frames[i], TextLines)
        /\ \A i, j \in 1 .. Len(frames) : i <= j => frames[i].node <= frames[j].node
    BY <2>1, Zenon DEF Formed
  <2>3. WaitIn(frames[(m + 1) - 1], frames[m + 1], TextLines)
    BY <1>4, <2>2, Zenon
  <2> QED
    BY <1>2, <1>3, <1>4, <2>2, <2>3, Zenon
<1>6. Owed(Top, TextLines) = Left(Top.lines, Top.off + 1, TextLines)
  <2>1. Top.phase # "run" /\ Top.phase # "eof"
    BY DEF Back
  <2> QED
    BY <2>1, Zenon DEF Owed, Resume
<1>7. Due(frames, m, TextLines)
      = Waits(Caller, Top, TextLines) \cup Owed(Top, TextLines) \cup Later(Top, TextLines)
  <2>1. Last(frames) = Top
    BY DEF Top
  <2>2. Len(frames) - 1 \in 1 .. Len(frames)
    BY <1>1, <1>2
  <2> QED
    BY <1>1, <1>2, <1>3, <2>1, <2>2, CallerDue
<1>8. IsSection(Top) => (Top.then.level # 0 <=> Sectioned(frames, m))
  <2>1. Grounded(frames)
    BY DEF Back, Onward, Ledger
  <2> QED
    BY <1>3, <1>4, <2>1, Zenon DEF Grounded
<1>9. ~IsSection(Top) => (memo.level # 0 <=> Sectioned(frames, m))
  <2> SUFFICES ASSUME ~IsSection(Top) PROVE Sectioned(frames, m) <=> Sectioned(frames, m + 1)
    BY <1>3, <1>4
  <2>1. ~IsSection(frames[m + 1])
    BY <1>3, <1>4
  <2>2. \A j \in 1 .. m + 1 : j = m + 1 \/ j \in 1 .. m
    BY <1>4
  <2>3. \A j \in 1 .. m : j \in 1 .. m + 1
    BY <1>4
  <2> QED
    BY <2>1, <2>2, <2>3, Zenon DEF Sectioned
<1>10. Len(tree) \in Nat
  BY <1>1, TreeLength DEF Stack
<1> QED
  BY <1>2, <1>3, <1>4, <1>5, <1>6, <1>7, <1>8, <1>9, <1>10

\* No line in two of them, and none of them in a node.
LEMMA CallerApart ==
    ASSUME NEW m, Back(m), ~reread
    PROVE  /\ Waits(Caller, Top, TextLines) \cap Owed(Top, TextLines) = {}
           /\ Waits(Caller, Top, TextLines) \cap Later(Top, TextLines) = {}
           /\ Owed(Top, TextLines) \cap Later(Top, TextLines) = {}
           /\ Due(frames, m, TextLines) \cap Used(tree, TextLines) = {}
<1> DEFINE X == TextLines
           P == Waits(Caller, Top, X)
           Q == Owed(Top, X)
           R == Later(Top, X)
           U == Used(tree, X)
           s == frames
<1>1. /\ m \in 1 .. Len(s) /\ m \in Nat /\ Len(s) = m + 1 /\ IsSeq(s)
      /\ Caller = s[m] /\ Due(s, m, X) = P \cup Q \cup R
  BY CallerOwes, Zenon
<1>2. Debt(s, m, "own", X) = P /\ Debt(s, m + 1, "own", X) = Q /\ Debt(s, m + 1, "later", X) = R
  <2>1. Last(s) = Top
    BY DEF Top
  <2>2. Len(s) - 1 \in 1 .. Len(s) /\ Len(s) - 1 = m
    BY <1>1
  <2> HIDE DEF X, s, P, Q, R
  <2>3. /\ Debt(s, Len(s) - 1, "own", X) = Waits(s[Len(s) - 1], Last(s), X)
        /\ Debt(s, Len(s), "own", X) = Owed(Last(s), X)
        /\ Debt(s, Len(s), "later", X) = Later(Last(s), X)
    BY <1>1, <2>2, CallerDue
  <2> QED
    BY <1>1, <2>1, <2>2, <2>3, Zenon DEF P, Q, R
<1>3. Once(s, tree, X)
  BY DEF Back, Onward, Ledger
<1>4. /\ m \in 1 .. Len(s) /\ m + 1 \in 1 .. Len(s) /\ m # m + 1
      /\ "own" \in Whens /\ "later" \in Whens /\ "own" # "later"
  BY <1>1 DEF Whens
<1> HIDE DEF X, s, P, Q, R, U
<1>5. P \cap Q = {} /\ P \cap R = {} /\ Q \cap R = {}
  BY <1>2, <1>3, <1>4, Zenon DEF Once
<1>6. Used(tree, X) \cap P = {} /\ Used(tree, X) \cap Q = {} /\ Used(tree, X) \cap R = {}
  BY <1>2, <1>3, <1>4, Zenon DEF Once
<1>7. Due(s, m, X) \cap Used(tree, X) = {}
  BY <1>1, <1>6
<1> QED
  BY <1>5, <1>7 DEF X, s, P, Q, R

\* The lines behind the caller are W: all others are held, or dropped, or others read them.
Settled(m, W) == /\ Accounted(m, W, {}) /\ KeptBelow(m)
                 /\ ~reread' => NewOnce(m, W)

\* A machine that leaves nothing in the nodes settles what it gives back.
LEMMA SettledBy ==
    ASSUME NEW m, Back(m), Top.then.k # "substitution", Grown({}, {}),
           NEW W, W \subseteq Due(frames, m, TextLines),
           Due(frames, m, TextLines) \subseteq W \cup dropped'
    PROVE  Settled(m, W)
<1> DEFINE none == {}
<1>1. Onward /\ dropped \subseteq dropped' /\ (reread => reread') /\ m \in 1 .. Len(frames)
  BY CallerOwes DEF Back, Onward
<1>2. Quoted(Top, Len(tree), TextLines) = {}
  BY DEF Quoted
<1>3. none \cap Used(tree, TextLines) = {}
  OBVIOUS
<1> HIDE DEF none
<1>4. PICK nodes : tree' = tree \o nodes /\ Tells(nodes, none, none, TextLines)
  BY Zenon DEF Grown, none
<1>5. /\ Held(tree') = Held(tree) \cup none /\ KeptBelow(m)
      /\ ~reread => /\ Apart(tree', TextLines)
                    /\ Used(tree', TextLines) = Used(tree, TextLines) \cup none
  BY <1>1, <1>3, <1>4, NodesAdded
<1>6. Accounted(m, W, {})
  BY <1>1, <1>2, <1>5 DEF Accounted
<1>7. ~reread' => NewOnce(m, W)
  BY <1>1, <1>5 DEF NewOnce, none
<1> QED
  BY <1>5, <1>6, <1>7 DEF Settled

\* The caller goes on with the lines W.
LEMMA BackOn ==
    ASSUME NEW m, Back(m), NEW f, frames' = Append(Others, f), Alike(Caller, f, TextLines),
           TopIn(f, Len(tree'), TextLines), memo'.level # 0 <=> Sectioned(frames, m),
           NEW W, W = Owed(f, TextLines), Settled(m, W)
    PROVE  Ledger'
<1>1. /\ m \in 1 .. Len(frames) /\ Caller = frames[m] /\ Others = SubSeq(frames, 1, m - 1)
      /\ IsSeq(Others) /\ Onward
  BY CallerOwes DEF Back
<1>2. frames' = Put(frames, m, f)
  BY <1>1, AppendIsPut DEF Put
<1>3. Accounted(m, W, Quoted(f, Len(tree'), TextLines)) /\ KeptBelow(m) /\ (~reread' => NewOnce(m, W))
  BY DEF Settled, Accounted
<1>4. (memo'.level # 0) <=> Sectioned(frames, m)
  OBVIOUS
<1> QED
  BY <1>1, <1>2, <1>3, <1>4, LedgerPut

\* The caller goes on with a list machine that reads the lines W.
LEMMA BackList ==
    ASSUME NEW m, Back(m), NEW g, frames' = Others \o <<Caller, g>>, TakesOver(Caller, g),
           g.then.k = "list", g.node \in Nat, Caller.node <= g.node,
           memo'.level # 0 <=> Sectioned(frames, m),
           NEW W, W = Left(Caller.lines, Caller.off + 1, TextLines), Settled(m, W)
    PROVE  Ledger'
<1> DEFINE X == TextLines
           f == Caller
           P == {}
           R == {}
           D == DOMAIN doc
           n == Len(tree')
<1>1. /\ m \in 1 .. Len(frames) /\ f = frames[m] /\ Others = SubSeq(frames, 1, m - 1)
      /\ IsSeq(Others) /\ MachineIn(f, X) /\ FrameOK(f, Len(tree), D)
      /\ f.state = "SubstitutionDef" => Left(f.lines, f.off + 1, X) = {}
  BY CallerOwes, Zenon DEF MachineIn, WaitIn
<1>2. frames' = Start(frames, m, f, g)
  BY <1>1 DEF Start
<1>3. f.lines \in LinesOf(D) /\ f.off \in Int /\ f.off >= -1 /\ DOMAIN f = MachineFields
  BY <1>1, Zenon DEF FrameOK
<1>4. Alike(f, f, X)
  <2>1. Keeps(f, f)
    BY DEF Keeps
  <2> HIDE DEF f, X
  <2> QED
    BY <1>1, <1>3, <2>1, AlikeStill
<1> HIDE DEF D, n, X
<1>5. /\ MachineIn(g, X) /\ TopIn(g, n, X) /\ WaitIn(f, g, X)
      /\ P = Waits(f, g, X) /\ R = Later(g, X) /\ W = Owed(g, X)
  BY <1>1, <1>3, ListOwes, Zenon DEF X
<1>6. /\ Accounted(m, P \cup W \cup R, {}) /\ KeptBelow(m)
      /\ ~reread' => NewOnce(m, P \cup W \cup R) /\ Split3(Due(frames, m, X), P, W, R)
  <2>1. P \cup W \cup R = W
    OBVIOUS
  <2>2. W \subseteq Due(frames, m, X) => Split3(Due(frames, m, X), P, W, R)
    BY DEF Split3
  <2>3. NewOnce(m, W) => W \subseteq Due(frames, m, X)
    BY DEF NewOnce, X
  <2> QED
    BY <2>1, <2>2, <2>3, Zenon DEF Settled
<1>7. ~IsSection(g) /\ g.then.k # "replace" /\ g.then.k \notin {"replace", "substitution"}
  BY DEF IsSection
<1>8. (memo'.level # 0) <=> (Sectioned(frames, m) \/ IsSection(g))
  BY <1>7
<1>9. Onward /\ f.node <= g.node
  BY DEF Back
<1> HIDE DEF P, R, f
<1>10. Alike(frames[m], f, X)
  BY <1>1, <1>4
<1> QED
  BY <1>1, <1>2, <1>5, <1>6, <1>7, <1>8, <1>9, <1>10, LedgerStart DEF X, n

\* The construct is finished: the explicit markup goes on, or begins, or the definition ends.
LEMMA BuiltBack ==
    ASSUME NEW m, Back(m), ~IsSection(Top), NEW finish,
           frames' = EndConstruct(Caller, finish, Others),
           memo'.level # 0 <=> Sectioned(frames, m),
           NEW W, W = Left(Caller.lines, Caller.off + 1, TextLines), Settled(m, W)
    PROVE  Ledger'
<1> DEFINE X == TextLines
           f == Caller
<1>1. /\ MachineIn(f, X) /\ FrameOK(f, Len(tree), DOMAIN doc) /\ LinkOK(f, Top)
      /\ WaitIn(f, Top, X) /\ Len(tree) \in Nat
  BY CallerOwes, Zenon
<1>2. DOMAIN f = MachineFields /\ f.phase = "run" /\ f.state \notin TextStates /\ f.node \in 0 .. Len(tree)
  <2>1. Top.then.k # "section"
    BY DEF IsSection
  <2> QED
    BY <1>1, <2>1, Zenon DEF FrameOK, LinkOK
<1>3. CASE f.state = "Explicit"
  <2> DEFINE g == [f EXCEPT !.finish = finish]
  <2>1. frames' = Append(Others, g)
    BY <1>3 DEF EndConstruct
  <2> HIDE DEF f
  <2>2. DOMAIN g = MachineFields /\ Keeps(f, g) /\ g.state = f.state /\ g.ctx = f.ctx
        /\ g.only = f.only /\ g.off = f.off /\ g.phase = f.phase
    BY ONLY <1>2, Zenon DEF Keeps, MachineFields
  <2> HIDE DEF g
  <2>3. Alike(f, g, X)
    BY <1>1, <1>2, <2>2, AlikeStill, Zenon
  <2>4. g.state \notin TextStates /\ g.phase = "run" /\ g.lines = f.lines /\ g.then.k # "substitution"
    BY <1>1, <1>2, <1>3, <2>2 DEF Keeps, MachineIn
  <2>5. TopIn(g, Len(tree'), X)
    <3>1. g.phase # "eof"
      BY <2>4
    <3> QED
      BY <2>4, <3>1, Zenon DEF TopIn
  <2>6. W = Owed(g, X)
    <3>1. Resume(g) = g.off + 1
      BY <2>4 DEF Resume
    <3> QED
      BY <2>2, <2>4, <3>1, Zenon DEF Owed, f
  <2> QED
    BY <2>1, <2>3, <2>5, <2>6, BackOn DEF f
<1>4. CASE f.state = "SubstitutionDef"
  <2> DEFINE h == [f EXCEPT !.finish = IF HasLine(f, f.off + 1) THEN finish ELSE @]
             g == Ended(h)
  <2>1. frames' = Append(Others, g)
    BY <1>4 DEF EndConstruct
  <2> HIDE DEF f
  <2>2. DOMAIN h = MachineFields /\ Keeps(f, h) /\ h.state = f.state /\ h.ctx = f.ctx
        /\ h.only = f.only /\ h.off = f.off
    BY ONLY <1>2, Zenon DEF Keeps, MachineFields
  <2> HIDE DEF h
  <2>3. DOMAIN g = MachineFields /\ Keeps(f, g) /\ g.state = f.state /\ g.ctx = f.ctx
        /\ g.only = f.only /\ g.off = f.off /\ g.phase = "over"
    BY <1>2, <2>2, Zenon DEF Keeps, MachineFields, Ended
  <2> HIDE DEF g
  <2>4. Alike(f, g, X)
    BY <1>1, <1>2, <2>3, AlikeStill, Zenon
  <2>5. f.then.k = "substitution" /\ g.then = f.then /\ g.lines = f.lines
    BY <1>1, <1>4, <2>3, Zenon DEF MachineIn, Keeps
  <2>6. W = {}
    BY <1>1, <2>5, Zenon DEF WaitIn, f
  <2>7. Owed(g, X) = W
    <3>1. Resume(g) = g.off + 1
      BY <1>4, <2>3 DEF Resume, TextStates
    <3> QED
      BY <2>3, <2>5, <3>1, Zenon DEF Owed, f
  <2>8. TopIn(g, Len(tree'), X)
    <3>1. g.then.k # "root" /\ g.phase # "run" /\ g.phase # "eof"
      BY <2>3, <2>5
    <3>2. Left(g.lines, g.off + 1, X) = {}
      BY <2>3, <2>5, <2>6, Zenon DEF f
    <3> HIDE DEF X
    <3> QED
      BY <3>1, <3>2, Zenon DEF TopIn
  <2> QED
    BY <2>1, <2>4, <2>7, <2>8, BackOn DEF f
<1>5. CASE f.state \notin {"Explicit", "SubstitutionDef"}
  <2> DEFINE state == "Explicit"
             then == Then("list", finish)
             g == Machine(state, From(f.lines, f.off + 1), AbsOffset(f) + 1, f.node, f.titles, then)
  <2>1. frames' = Others \o <<f, g>>
    BY <1>5 DEF EndConstruct
  <2>2. state \notin TextStates /\ state # "SubstitutionDef" /\ then.k = "list"
    BY DEF TextStates, Then
  <2> HIDE DEF state, then
  <2>3. Unstarted(g) /\ g.state = state /\ g.lines = From(f.lines, f.off + 1) /\ g.then = then
        /\ g.node = f.node
    <3> DEFINE lines == From(f.lines, f.off + 1)
               base == AbsOffset(f) + 1
               node == f.node
               titles == f.titles
    <3>1. g = Machine(state, lines, base, node, titles, then)
      OBVIOUS
    <3> HIDE DEF lines, base, node, titles, g
    <3>2. Unstarted(g) /\ g.state = state /\ g.lines = lines /\ g.then = then /\ g.node = node
      BY ONLY <2>2, <3>1, MadeMachine
    <3> QED
      BY <3>2, Zenon DEF lines, node
  <2> HIDE DEF g
  <2>4. TakesOver(f, g) /\ g.then.k = "list"
    BY <2>2, <2>3 DEF TakesOver
  <2>5. g.node \in Nat /\ f.node <= g.node /\ f.state # "SubstitutionDef"
    BY <1>1, <1>2, <1>5, <2>3
  <2> QED
    BY <2>1, <2>4, <2>5, BackList DEF f
<1> QED
  BY <1>3, <1>4, <1>5

\* What the machine has not read is dropped.
LEMMA UnreadOwed ==
    ASSUME NEW m, Back(m)
    PROVE  Unread \cap TextLines = Owed(Top, TextLines)
<1> DEFINE X == TextLines
           s == Top.lines
           i == Top.off + 1
           D == DOMAIN doc
<1>1. FrameOK(Top, Len(tree), D) /\ MachineIn(Top, X) /\ Owed(Top, X) = Left(s, i, X)
  BY CallerOwes, Zenon
<1>2. s \in LinesOf(D) /\ Sound(s, X) /\ Top.off \in Int /\ Top.off >= -1
  BY <1>1, Zenon DEF FrameOK, MachineIn
<1>3. i \in Nat
  BY <1>2
<1> HIDE DEF s, i, X, D
<1>4. NumbersOf(From(s, i)) \cap X = Left(s, i, X)
  BY <1>2, <1>3, FromLeft
<1> QED
  BY <1>1, <1>4, Zenon DEF Unread, s, i, X

\* A machine that is over returns to its caller.
LEMMA ReturnBack ==
    ASSUME Ready, NEW k, k # "root", Returns(k), error' = error, dropped \subseteq dropped',
           NEW m, m = Len(frames) - 1
    PROVE  Back(m) /\ Top.then.k = k /\ (IsSection(Top) <=> k = "section")
<1>1. Onward
  BY SameOnward, Zenon DEF Returns
<1> QED
  BY <1>1, Zenon DEF Back, Returns, IsSection

\* A nested parse whose lines are not looked at again, and what it leaves to the caller.
LEMMA FinishedSettled ==
    ASSUME NEW m, Back(m), Top.then.k \notin {"list", "section", "substitution"}, tree' = tree,
           dropped' = dropped \cup Unread
    PROVE  Settled(m, Left(Caller.lines, Caller.off + 1, TextLines) \cup Later(Top, TextLines))
<1> DEFINE X == TextLines
           W == Left(Caller.lines, Caller.off + 1, X)
           R == Later(Top, X)
           all == W \cup R
<1>1. Due(frames, m, X) = Waits(Caller, Top, X) \cup Owed(Top, X) \cup R
  BY CallerOwes, Zenon
<1>2. Waits(Caller, Top, X) = W
  BY DEF Waits
<1>3. Owed(Top, X) \subseteq dropped'
  BY UnreadOwed
<1>4. Grown({}, {})
  BY GrownNone DEF Back
<1> HIDE DEF W, R
<1>5. all \subseteq Due(frames, m, X) /\ Due(frames, m, X) \subseteq all \cup dropped'
  BY <1>1, <1>2, <1>3
<1> HIDE DEF all
<1>6. Settled(m, all)
  BY <1>4, <1>5, SettledBy
<1> QED
  BY <1>6 DEF all, W, R

\* The caller is at the line it was at.
LEMMA CallerOn ==
    ASSUME NEW m, Back(m), Top.then.k # "section", NEW n
    PROVE  /\ Alike(Caller, Caller, TextLines) /\ TopIn(Caller, n, TextLines)
           /\ Owed(Caller, TextLines) = Left(Caller.lines, Caller.off + 1, TextLines)
<1> DEFINE X == TextLines
           f == Caller
<1>1. /\ MachineIn(f, X) /\ FrameOK(f, Len(tree), DOMAIN doc) /\ LinkOK(f, Top) /\ WaitIn(f, Top, X)
  BY CallerOwes, Zenon
<1>2. DOMAIN f = MachineFields /\ f.phase = "run" /\ f.state \notin TextStates
  BY <1>1, Zenon DEF FrameOK, LinkOK
<1>3. Alike(f, f, X)
  <2>1. Keeps(f, f)
    BY DEF Keeps
  <2> HIDE DEF f, X
  <2> QED
    BY <1>1, <1>2, <2>1, AlikeStill
<1>4. f.phase # "eof" /\ (f.then.k = "substitution" => Left(f.lines, f.off + 1, X) = {})
  BY <1>1, <1>2, Zenon DEF WaitIn
<1>5. TopIn(f, n, X)
  BY <1>2, <1>4, Zenon DEF TopIn
<1>6. Resume(f) = f.off + 1
  BY <1>2, <1>4, Zenon DEF Resume
<1> QED
  BY <1>3, <1>5, <1>6, Zenon DEF Owed

\* ReturnNothing: the caller goes on behind the block.
LEMMA ReturnNothingOnce ==
    ASSUME Ready, ReturnNothing
    PROVE  Ledger'
<1> DEFINE m == Len(frames) - 1
           W == Left(Caller.lines, Caller.off + 1, TextLines)
<1>1. /\ Returns("nothing") /\ frames' = Below /\ dropped' = dropped \cup Unread
      /\ tree' = tree /\ memo' = memo /\ error' = error
  BY Zenon DEF ReturnNothing, Finished
<1> HIDE DEF m
<1>2. Back(m) /\ Top.then.k = "nothing" /\ ~IsSection(Top)
  BY <1>1, ReturnBack DEF m
<1>3. Settled(m, W)
  <2>1. Later(Top, TextLines) = {}
    BY <1>2 DEF Later
  <2> QED
    BY <1>1, <1>2, <2>1, FinishedSettled
<1>4. frames' = Append(Others, Caller)
  BY <1>1, <1>2, BelowIsCaller DEF Back, Onward
<1>5. memo'.level # 0 <=> Sectioned(frames, m)
  BY <1>1, <1>2, CallerOwes
<1>6. /\ Alike(Caller, Caller, TextLines) /\ TopIn(Caller, Len(tree'), TextLines)
      /\ W = Owed(Caller, TextLines)
  BY <1>2, CallerOn
<1> HIDE DEF W
<1> QED
  BY <1>2, <1>3, <1>4, <1>5, <1>6, BackOn

\* ReturnConstruct: the explicit markup is finished.
LEMMA ReturnConstructOnce ==
    ASSUME Ready, ReturnConstruct
    PROVE  Ledger'
<1> DEFINE m == Len(frames) - 1
           W == Left(Caller.lines, Caller.off + 1, TextLines)
           finish == Top.then.finish
<1>1. /\ Returns("construct") /\ frames' = EndConstruct(Caller, finish, Others)
      /\ dropped' = dropped \cup Unread /\ tree' = tree /\ memo' = memo /\ error' = error
  BY Zenon DEF ReturnConstruct, Finished
<1> HIDE DEF m, finish
<1>2. Back(m) /\ Top.then.k = "construct" /\ ~IsSection(Top)
  BY <1>1, ReturnBack DEF m
<1>3. Settled(m, W)
  <2>1. Later(Top, TextLines) = {}
    BY <1>2 DEF Later
  <2> QED
    BY <1>1, <1>2, <2>1, FinishedSettled
<1>4. memo'.level # 0 <=> Sectioned(frames, m)
  BY <1>1, <1>2, CallerOwes
<1> HIDE DEF W
<1>5. W = Left(Caller.lines, Caller.off + 1, TextLines)
  BY DEF W
<1> QED
  BY <1>1, <1>2, <1>3, <1>4, <1>5, BuiltBack

\* ReturnDirective: so is the directive.
LEMMA ReturnDirectiveOnce ==
    ASSUME Ready, ReturnDirective
    PROVE  Ledger'
<1> DEFINE m == Len(frames) - 1
           W == Left(Caller.lines, Caller.off + 1, TextLines)
           finish == Finishes(Caller, Top.then.finish)
<1>1. /\ Returns("directive") /\ frames' = EndConstruct(Caller, finish, Others)
      /\ dropped' = dropped \cup Unread /\ tree' = tree /\ error' = error
  BY Zenon DEF ReturnDirective, Finished
<1>2. memo'.level = memo.level
  <2>1. memo' = IF Top.then.level = 1 THEN [memo EXCEPT !.minimum = Front(@)] ELSE memo
    BY Zenon DEF ReturnDirective
  <2>2. memo \in MemoType
    BY DEF Ready, Stack
  <2> QED
    BY <2>1, <2>2 DEF MemoType
<1> HIDE DEF m, finish
<1>3. Back(m) /\ Top.then.k = "directive" /\ ~IsSection(Top)
  BY <1>1, ReturnBack DEF m
<1>4. Settled(m, W)
  <2>1. Later(Top, TextLines) = {}
    BY <1>3 DEF Later
  <2> QED
    BY <1>1, <1>3, <2>1, FinishedSettled
<1>5. memo'.level # 0 <=> Sectioned(frames, m)
  BY <1>2, <1>3, CallerOwes
<1> HIDE DEF W
<1>6. W = Left(Caller.lines, Caller.off + 1, TextLines)
  BY DEF W
<1> QED
  BY <1>1, <1>3, <1>4, <1>5, <1>6, BuiltBack

\* ReturnFirst: the list goes on behind its first item.
LEMMA ReturnFirstOnce ==
    ASSUME Ready, ReturnFirst
    PROVE  Ledger'
<1> DEFINE X == TextLines
           m == Len(frames) - 1
           W == Left(Caller.lines, Caller.off + 1, X)
           t == Top.then
           state == t.state
           lines == From(Caller.lines, Caller.off + 1)
           base == AbsOffset(Caller) + 1
           node == t.node
           titles == FALSE
           then == [Then("list", t.finish) EXCEPT !.list = t.list]
           g == Machine(state, lines, base, node, titles, then)
<1>1. /\ Returns("first") /\ frames' = Others \o <<Caller, g>>
      /\ dropped' = dropped \cup Unread /\ tree' = tree /\ memo' = memo /\ error' = error
  BY Zenon DEF ReturnFirst, Finished
<1>2. then.k = "list"
  BY Zenon DEF Then
<1> HIDE DEF m, then
<1>3. Back(m) /\ Top.then.k = "first" /\ ~IsSection(Top)
  <2> HIDE DEF g
  <2> QED
    BY <1>1, ReturnBack DEF m
<1>4. Settled(m, W)
  <2>1. Later(Top, X) = {}
    BY <1>3 DEF Later
  <2> QED
    BY <1>1, <1>3, <2>1, FinishedSettled
<1>5. /\ state \notin TextStates /\ state # "SubstitutionDef" /\ node \in 0 .. Len(tree)
      /\ Caller.node <= node /\ Len(tree) \in Nat
  <2>1. /\ FrameOK(Top, Len(tree), DOMAIN doc) /\ MachineIn(Top, X) /\ WaitIn(Caller, Top, X)
        /\ Len(tree) \in Nat
    BY <1>3, CallerOwes, Zenon
  <2>2. t.state \in States \ TextStates /\ t.node \in 0 .. Len(tree)
    BY <1>3, <2>1, Zenon DEF FrameOK, ThenOK
  <2> QED
    BY <1>3, <2>1, <2>2 DEF MachineIn, WaitIn
<1>6. g = Machine(state, lines, base, node, titles, then)
  OBVIOUS
<1> HIDE DEF state, lines, base, node, titles, g
<1>7. Unstarted(g) /\ g.state = state /\ g.lines = lines /\ g.then = then /\ g.node = node
  BY ONLY <1>5, <1>6, MadeMachine
<1>8. TakesOver(Caller, g) /\ g.then.k = "list"
  BY <1>2, <1>5, <1>7 DEF TakesOver, lines
<1>9. g.node \in Nat /\ Caller.node <= g.node
  BY <1>5, <1>7
<1>10. memo'.level # 0 <=> Sectioned(frames, m)
  BY <1>1, <1>3, CallerOwes
<1> HIDE DEF W
<1>11. W = Left(Caller.lines, Caller.off + 1, TextLines)
  BY DEF W
<1> QED
  BY <1>1, <1>3, <1>4, <1>8, <1>9, <1>10, <1>11, BackList

\* ReturnArgument: the content of the directive is read next.
LEMMA ReturnArgumentOnce ==
    ASSUME Ready, ReturnArgument
    PROVE  Ledger'
<1> DEFINE X == TextLines
           m == Len(frames) - 1
           f == Caller
           P == Left(f.lines, f.off + 1, X)
           Q == Later(Top, X)
           R == {}
           state == "Body"
           lines == Top.then.next[1]
           base == Top.then.level
           node == Top.then.node
           titles == TRUE
           then == [Then("directive", Top.then.finish) EXCEPT !.level = 1]
           content == Machine(state, lines, base, node, titles, then)
           g == [content EXCEPT !.eofcheck = Top.eofcheck]
           n == Len(tree')
<1>1. /\ Returns("argument") /\ frames' = Others \o <<f, g>>
      /\ dropped' = dropped \cup Unread /\ tree' = tree /\ error' = error
      /\ memo' = [memo EXCEPT !.minimum = Append(@, memo.level)]
  BY Zenon DEF ReturnArgument
<1>2. memo'.level = memo.level
  <2>1. memo \in MemoType
    BY DEF Ready, Stack
  <2> QED
    BY <1>1, <2>1 DEF MemoType
<1>3. then.k = "directive" /\ state \notin TextStates
  BY DEF Then, TextStates
<1> HIDE DEF m, then
<1>4. Back(m) /\ Top.then.k = "argument" /\ ~IsSection(Top)
  <2> HIDE DEF g
  <2> QED
    BY <1>1, ReturnBack DEF m
<1>5. Settled(m, P \cup Q)
  BY <1>1, <1>4, FinishedSettled
<1>6. /\ FrameOK(Top, Len(tree), DOMAIN doc) /\ MachineIn(Top, X) /\ WaitIn(f, Top, X)
      /\ Len(tree) \in Nat /\ m \in 1 .. Len(frames) /\ f = frames[m]
      /\ Others = SubSeq(frames, 1, m - 1) /\ (memo.level # 0 <=> Sectioned(frames, m))
  BY <1>4, CallerOwes, Zenon
<1>7. node \in 0 .. Len(tree) /\ f.node <= node /\ Sound(lines, X) /\ Q = Left(lines, 0, X)
  BY <1>4, <1>6, Zenon DEF FrameOK, ThenOK, MachineIn, WaitIn, Later
<1>8. content = Machine(state, lines, base, node, titles, then) /\ g = [content EXCEPT !.eofcheck = Top.eofcheck]
  OBVIOUS
<1>9. /\ Unstarted(content) /\ content.state = state /\ content.lines = lines /\ content.then = then
      /\ content.node = node
  <2> HIDE DEF state, lines, base, node, titles, content, g
  <2> QED
    BY ONLY <1>3, <1>8, MadeMachine
<1>10. DOMAIN content = MachineFields
  BY DEF Machine, MachineFields
<1> HIDE DEF content, lines, node, base, titles
<1>11. Unstarted(g) /\ g.state = state /\ g.lines = lines /\ g.then = then /\ g.node = node
  BY ONLY <1>8, <1>9, <1>10, Zenon DEF Unstarted, AnyNext, MachineFields
<1> HIDE DEF g, n, X, P, Q
<1>12. /\ MachineIn(g, X) /\ TopIn(g, n, X) /\ Q = Owed(g, X)
  <2>1. /\ g.then.k \notin {"substitution", "root"} /\ g.then.k # "argument" /\ g.then.k # "first"
        /\ g.then.k # "replace" /\ g.state # "SubstitutionDef"
    BY <1>3, <1>11
  <2> QED
    BY <1>7, <1>11, <2>1, FreshIn, Zenon
<1>13. /\ P = Waits(f, g, X) /\ R = Later(g, X) /\ WaitIn(f, g, X)
       /\ g.then.k # "replace" /\ g.then.k \notin {"replace", "substitution"} /\ ~IsSection(g)
  <2>1. g.then.k = "directive"
    BY <1>3, <1>11
  <2>2. P = Waits(f, g, X) /\ R = Later(g, X)
    BY <2>1 DEF Waits, Later, P
  <2>3. WaitIn(f, g, X)
    BY <1>6, <2>1 DEF WaitIn
  <2> QED
    BY <2>1, <2>2, <2>3 DEF IsSection
<1>14. /\ Accounted(m, P \cup Q \cup R, {}) /\ KeptBelow(m)
       /\ ~reread' => NewOnce(m, P \cup Q \cup R)
  <2>1. P \cup Q \cup R = P \cup Q
    OBVIOUS
  <2> QED
    BY <1>5, <2>1, Zenon DEF Settled
<1>15. ~reread' => Split3(Due(frames, m, X), P, Q, R)
  <2> SUFFICES ASSUME ~reread' PROVE Split3(Due(frames, m, X), P, Q, R)
    OBVIOUS
  <2>1. ~reread
    BY DEF Ready
  <2>2. Waits(f, Top, X) \cap Q = {}
    BY <1>4, <2>1, CallerApart DEF Q, X
  <2>3. Waits(f, Top, X) = P
    BY <1>4 DEF Waits, P
  <2>4. P \cup Q \cup R \subseteq Due(frames, m, X)
    BY <1>14 DEF NewOnce, X
  <2> QED
    BY <2>2, <2>3, <2>4 DEF Split3
<1>16. Alike(f, f, X)
  BY <1>4, CallerOn DEF X
<1>17. frames' = Start(frames, m, f, g) /\ Onward
  BY <1>1, <1>4, <1>6 DEF Start, Back
<1>18. g.node \in Nat /\ f.node <= g.node
  BY <1>6, <1>7, <1>11
<1>19. (memo'.level # 0) <=> (Sectioned(frames, m) \/ IsSection(g))
  BY <1>2, <1>6, <1>13
<1> HIDE DEF R, f
<1>20. Alike(frames[m], f, X)
  BY <1>6, <1>16
<1> QED
  BY <1>6, <1>12, <1>13, <1>14, <1>15, <1>17, <1>18, <1>19, <1>20, LedgerStart DEF X, n

\* GoTo: the lines a list or a section has left are those behind the line it goes to.
LEMMA JumpOwes ==
    ASSUME NEW m, Back(m), Top.then.k \in {"list", "section"}
    PROVE  LET f == GoTo(Caller)
           IN  /\ DOMAIN f = MachineFields /\ Keeps(Caller, f) /\ f.state = Caller.state
               /\ f.ctx = Caller.ctx /\ f.phase = "run" /\ f.only = Caller.only /\ f.off \in Int
               /\ Owed(Top, TextLines) = Left(f.lines, f.off + 1, TextLines)
               /\ Due(frames, m, TextLines) = Owed(Top, TextLines)
               /\ Caller.then.k = "substitution" => Left(f.lines, f.off + 1, TextLines) = {}
<1> DEFINE X == TextLines
           c == Caller
           f == GoTo(c)
           D == DOMAIN doc
           i == c.off + 1
           j == Top.off + 1
           s == c.lines
<1>1. /\ MachineIn(c, X) /\ FrameOK(c, Len(tree), D) /\ FrameOK(Top, Len(tree), D)
      /\ LinkOK(c, Top) /\ WaitIn(c, Top, X)
      /\ Owed(Top, X) = Left(Top.lines, j, X)
      /\ Due(frames, m, X) = Waits(c, Top, X) \cup Owed(Top, X) \cup Later(Top, X)
  BY CallerOwes, Zenon
<1>2. /\ Top.lines = From(s, i) /\ Top.base = c.base + c.off + 1
      /\ s \in LinesOf(D) /\ Sound(s, X) /\ DOMAIN c = MachineFields /\ c.phase = "run"
      /\ (c.then.k = "substitution" => Left(s, i, X) = {})
  BY <1>1, Zenon DEF FrameOK, LinkOK, WaitIn, MachineIn
<1>3. /\ c.off \in Int /\ c.off >= -1 /\ c.base \in Int /\ Top.off \in Int /\ Top.off >= -1
  BY <1>1, Zenon DEF FrameOK
<1>4. i \in Nat /\ j \in Int /\ j >= 0
  BY <1>3
<1>5. Waits(c, Top, X) = {} /\ Later(Top, X) = {}
  BY DEF Waits, Later
<1>6. /\ DOMAIN f = MachineFields /\ Keeps(c, f) /\ f.state = c.state
      /\ f.ctx = c.ctx /\ f.phase = c.phase /\ f.only = c.only
      /\ f.off = AbsOffset(Top) - c.base
  <2> HIDE DEF c
  <2> QED
    BY ONLY <1>2, Zenon DEF GoTo, Keeps, MachineFields
<1>7. f.off + 1 = i + j /\ f.off \in Int /\ i <= i + j /\ i + j \in Int /\ i \in Int
  BY <1>2, <1>3, <1>6 DEF AbsOffset
<1> HIDE DEF f, i, j, s, X, D
<1>8. Left(From(s, i), j, X) = Left(s, i + j, X)
  BY <1>2, <1>4, FromLeft
<1>9. Left(s, i + j, X) \subseteq Left(s, i, X)
  BY <1>2, <1>7, SpanSplit
<1>10. f.lines = s
  BY <1>6 DEF Keeps, s
<1>11. Owed(Top, X) = Left(f.lines, f.off + 1, X)
  BY <1>1, <1>2, <1>7, <1>8, <1>10, Zenon
<1>12. Due(frames, m, X) = Owed(Top, X)
  BY <1>1, <1>5
<1>13. c.then.k = "substitution" => Left(f.lines, f.off + 1, X) = {}
  BY <1>2, <1>7, <1>9, <1>10
<1> QED
  BY <1>2, <1>6, <1>7, <1>11, <1>12, <1>13, Zenon DEF f, X

\* ReturnList: the caller goes on where the list stopped.
LEMMA ReturnListOnce ==
    ASSUME Ready, ReturnList
    PROVE  Ledger'
<1> DEFINE X == TextLines
           m == Len(frames) - 1
           f == GoTo(Caller)
           W == Owed(Top, X)
           kind == "warning"
           of == {}
           n == Len(tree')
<1>1. /\ Returns("list") /\ frames' = Append(Others, f)
      /\ tree' = tree \/ tree' = Append(tree, Node(kind, Caller.node, of))
      /\ dropped' = dropped /\ memo' = memo /\ error' = error
  BY Zenon DEF ReturnList, Message
<1> HIDE DEF m, f
<1>2. Back(m) /\ Top.then.k = "list" /\ ~IsSection(Top)
  BY <1>1, ReturnBack DEF m
<1>3. /\ DOMAIN f = MachineFields /\ Keeps(Caller, f) /\ f.state = Caller.state
      /\ f.ctx = Caller.ctx /\ f.phase = "run" /\ f.only = Caller.only
      /\ W = Left(f.lines, f.off + 1, X)
      /\ Due(frames, m, X) = W
      /\ Caller.then.k = "substitution" => Left(f.lines, f.off + 1, X) = {}
  <2>1. Top.then.k \in {"list", "section"}
    BY <1>2
  <2> QED
    BY <1>2, <2>1, JumpOwes, Zenon DEF f
<1>4. /\ MachineIn(Caller, X) /\ FrameOK(Caller, Len(tree), DOMAIN doc) /\ LinkOK(Caller, Top)
  BY <1>2, CallerOwes, Zenon
<1>5. f.state \notin TextStates /\ DOMAIN Caller = MachineFields /\ f.phase # "eof"
  <2>1. "list" # "section" /\ "run" # "eof"
    OBVIOUS
  <2>2. Caller.state \notin TextStates
    BY <1>2, <1>4, <2>1, Zenon DEF LinkOK
  <2>3. DOMAIN Caller = MachineFields
    BY <1>4, Zenon DEF FrameOK
  <2> QED
    BY <1>3, <2>1, <2>2, <2>3, Zenon
<1>6. Alike(Caller, f, X)
  BY <1>3, <1>4, <1>5, AlikeStill, Zenon
<1>7. TopIn(f, n, X)
  <2>1. f.then = Caller.then
    BY <1>3 DEF Keeps
  <2> QED
    BY <1>3, <1>5, <2>1, Zenon DEF TopIn
<1>8. W = Owed(f, X)
  <2>1. Resume(f) = f.off + 1
    BY <1>5, Zenon DEF Resume
  <2> QED
    BY <1>3, <2>1, Zenon DEF Owed
<1>9. Grown({}, {})
  <2>1. kind \in Levels
    BY DEF Levels
  <2> HIDE DEF kind, of
  <2>2. Grown(of, {}) \/ tree' = tree
    BY <1>1, <2>1, GrownNode DEF Ready
  <2> QED
    BY <1>2, <2>2, GrownNone DEF Back, of
<1> HIDE DEF W, n, X
<1>10. Settled(m, W)
  <2>1. Top.then.k # "substitution"
    BY <1>2
  <2>2. W \subseteq Due(frames, m, X) /\ Due(frames, m, X) \subseteq W \cup dropped'
    BY <1>3
  <2> QED
    BY <1>2, <1>9, <2>1, <2>2, SettledBy DEF X
<1>11. memo'.level # 0 <=> Sectioned(frames, m)
  BY <1>1, <1>2, CallerOwes
<1> QED
  BY <1>1, <1>2, <1>6, <1>7, <1>8, <1>10, <1>11, BackOn DEF X, n

\* A title at or above the level of the section it ends: the caller is in a section, too.
LEMMA SectionAround ==
    ASSUME NEW m, Back(m), IsSection(Top), Stack
    PROVE  /\ memo.level # 0
           /\ memo.level <= Top.then.level => Sectioned(frames, m) /\ Caller.then.k # "root"
           /\ Top.then.level # 0 <=> Sectioned(frames, m)
           /\ Top.then.level \in Nat
<1>1. /\ m \in 1 .. Len(frames) /\ m \in Nat /\ Len(frames) = m + 1
      /\ Caller = frames[m] /\ Top = frames[m + 1] /\ FrameOK(Top, Len(tree), DOMAIN doc)
      /\ Top.then.level # 0 <=> Sectioned(frames, m)
  BY CallerOwes, Zenon
<1>2. memo.level # 0 <=> Sectioned(frames, Len(frames))
  BY TopOwes DEF Back
<1>3. memo.level # 0
  BY <1>1, <1>2 DEF Sectioned
<1>4. Top.then.level \in Nat
  <2>1. ThenOK(Top.then, Len(tree), DOMAIN doc)
    BY <1>1, Zenon DEF FrameOK
  <2> QED
    BY <2>1, Zenon DEF ThenOK, IsSection
<1>5. memo.level \in Nat
  BY DEF Stack, MemoType
<1>6. ASSUME memo.level <= Top.then.level
      PROVE  Sectioned(frames, m) /\ Caller.then.k # "root"
  <2>1. Sectioned(frames, m)
    BY <1>1, <1>3, <1>4, <1>5, <1>6
  <2>2. PICK j \in 1 .. m : IsSection(frames[j])
    BY <2>1 DEF Sectioned
  <2>3. ASSUME Caller.then.k = "root" PROVE FALSE
    <3>1. \A i \in 2 .. Len(frames) : LinkOK(frames[i - 1], frames[i])
      BY DEF Stack, StackOK
    <3>2. CASE m = 1
      <4>1. j = 1
        BY <2>2, <3>2
      <4> QED
        BY <1>1, <2>2, <2>3, <3>2, <4>1 DEF IsSection
    <3>3. CASE m # 1
      <4>1. LinkOK(frames[m - 1], frames[m])
        BY <1>1, <3>1, <3>3
      <4> QED
        BY <1>1, <2>3, <4>1, Zenon DEF LinkOK
    <3> QED
      BY <3>2, <3>3
  <2> QED
    BY <2>1, <2>3
<1> QED
  BY <1>1, <1>3, <1>4, <1>6

\* ReturnSection: the caller goes on where the section stopped.
LEMMA ReturnSectionOnce ==
    ASSUME Ready, ReturnSection
    PROVE  Ledger'
<1> DEFINE X == TextLines
           m == Len(frames) - 1
           f == GoTo(Caller)
           W == Owed(Top, X)
           n == Len(tree')
           out == memo.level <= Top.then.level
           b == [BackToBody(f) EXCEPT !.eofcheck = TRUE]
           g == IF out THEN Ended(f) ELSE b
<1>1. /\ Returns("section") /\ frames' = Append(Others, g)
      /\ tree' = tree /\ dropped' = dropped /\ error' = error
      /\ out => memo' = memo
      /\ ~out => memo' = [memo EXCEPT !.level = Top.then.level]
  BY Zenon DEF ReturnSection
<1> HIDE DEF m, f, out, b, g
<1>2. Back(m) /\ Top.then.k = "section" /\ IsSection(Top) /\ Stack
  BY <1>1, ReturnBack DEF m, Ready
<1>3. /\ DOMAIN f = MachineFields /\ Keeps(Caller, f) /\ f.state = Caller.state
      /\ f.ctx = Caller.ctx /\ f.phase = "run" /\ f.only = Caller.only
      /\ W = Left(f.lines, f.off + 1, X)
      /\ Due(frames, m, X) = W
      /\ Caller.then.k = "substitution" => Left(f.lines, f.off + 1, X) = {}
  <2>1. Top.then.k \in {"list", "section"}
    BY <1>2
  <2> QED
    BY <1>2, <2>1, JumpOwes, Zenon DEF f
<1>4. /\ MachineIn(Caller, X) /\ FrameOK(Caller, Len(tree), DOMAIN doc) /\ LinkOK(Caller, Top)
  BY <1>2, CallerOwes, Zenon
<1>5. /\ memo.level # 0
      /\ (out => Sectioned(frames, m) /\ Caller.then.k # "root")
      /\ Top.then.level # 0 <=> Sectioned(frames, m)
      /\ Top.then.level \in Nat
  BY <1>2, SectionAround DEF out
<1>6. /\ DOMAIN Caller = MachineFields /\ Caller.state \in {"Text", "Line"}
      /\ Caller.state = "Text" => Caller.ctx = <<>>
  <2>1. DOMAIN Caller = MachineFields /\ Caller.ctx \in LinesOf(DOMAIN doc)
    BY <1>4, Zenon DEF FrameOK
  <2>2. /\ Caller.state \in {"Text", "Line"}
        /\ Len(Caller.ctx) = IF Caller.state = "Text" THEN 0 ELSE 1
    BY <1>2, <1>4, Zenon DEF LinkOK
  <2> QED
    BY <2>1, <2>2 DEF LinesOf
<1>7. /\ DOMAIN g = MachineFields /\ Keeps(Caller, g) /\ g.off = f.off
      /\ out => g.phase = "eof" /\ g.state = Caller.state /\ g.ctx = Caller.ctx
                /\ g.only = Caller.only
      /\ ~out => g.phase = "run" /\ g.state = "Body"
  <2>1. CASE out
    <3>1. g = [f EXCEPT !.phase = "eof"]
      BY <1>3, <1>6, <2>1 DEF g, Ended, TextStates
    <3> QED
      BY <1>3, <2>1, <3>1 DEF Keeps, MachineFields
  <2>2. CASE ~out
    <3>1. g = [BackToBody(f) EXCEPT !.eofcheck = TRUE]
      BY <2>2 DEF g, b
    <3>2. /\ DOMAIN BackToBody(f) = MachineFields /\ Keeps(f, BackToBody(f))
          /\ BackToBody(f).state = "Body" /\ BackToBody(f).phase = "run"
          /\ BackToBody(f).off = f.off
      BY <1>3, BodyKept
    <3> QED
      BY <1>3, <2>2, <3>1, <3>2 DEF Keeps, MachineFields
  <2> QED
    BY <2>1, <2>2
<1>8. Alike(Caller, g, X)
  <2>1. CASE out
    BY <1>4, <1>6, <1>7, <2>1, AlikeStill, Zenon
  <2>2. CASE ~out
    <3>1. Caller.state \in BodyStates /\ g.state \in {"Body", "Text"}
      BY <1>6, <1>7, <2>2 DEF BodyStates
    <3> QED
      BY <1>6, <1>7, <3>1, AlikeBody
  <2> QED
    BY <2>1, <2>2
<1>9. /\ g.lines = f.lines /\ g.then = Caller.then
  BY <1>3, <1>7 DEF Keeps
<1>10. Resume(g) = g.off + 1
  <2>1. CASE out
    <3>1. g.phase = "eof" /\ g.phase # "run" /\ g.state # "Definition" /\ ~(g.state = "Text" /\ g.ctx # <<>>)
      BY <1>6, <1>7, <2>1
    <3> QED
      BY <3>1, Zenon DEF Resume
  <2>2. CASE ~out
    <3>1. g.phase # "eof" /\ g.state \notin TextStates
      BY <1>7, <2>2 DEF TextStates
    <3> QED
      BY <3>1, Zenon DEF Resume
  <2> QED
    BY <2>1, <2>2
<1>11. W = Owed(g, X)
  BY <1>3, <1>7, <1>9, <1>10, Zenon DEF Owed
<1>12. TopIn(g, n, X)
  <2>1. /\ ~(g.phase = "run" /\ g.state \in TextStates)
        /\ ~(g.phase = "eof" /\ g.state = "Text" /\ g.ctx # <<>>)
        /\ ~(g.then.k = "root" /\ g.phase # "run")
    <3>1. CASE out
      <4>1. "run" # "eof"
        OBVIOUS
      <4> QED
        BY <1>5, <1>6, <1>7, <1>9, <3>1, <4>1, Zenon
    <3>2. CASE ~out
      <4>1. "run" # "eof" /\ "Body" \notin TextStates
        BY DEF TextStates
      <4> QED
        BY <1>7, <3>2, <4>1, Zenon
    <3> QED
      BY <3>1, <3>2
  <2>2. g.then.k = "substitution" => Left(g.lines, g.off + 1, X) = {}
    BY <1>3, <1>7, <1>9, Zenon
  <2> HIDE DEF n, X
  <2> QED
    BY <2>1, <2>2, Zenon DEF TopIn
<1> HIDE DEF W, n, X
<1>13. Settled(m, W)
  <2>1. Grown({}, {})
    BY <1>1, <1>2, GrownNone DEF Back
  <2>2. Top.then.k # "substitution"
    BY <1>2
  <2>3. W \subseteq Due(frames, m, TextLines) /\ Due(frames, m, TextLines) \subseteq W \cup dropped'
    BY <1>3 DEF X
  <2> QED
    BY <1>2, <2>1, <2>2, <2>3, SettledBy
<1>14. memo'.level # 0 <=> Sectioned(frames, m)
  <2>1. CASE out
    BY <1>1, <1>5, <2>1
  <2>2. CASE ~out
    <3>1. memo \in MemoType
      BY <1>2, Zenon DEF Stack
    <3>2. memo'.level = Top.then.level
      BY <1>1, <2>2, <3>1 DEF MemoType
    <3> QED
      BY <1>5, <3>2
  <2> QED
    BY <2>1, <2>2
<1> QED
  BY <1>1, <1>2, <1>8, <1>11, <1>12, <1>13, <1>14, BackOn DEF X, n

\* Nodes that show no more than others did, and that hold what those held.
LEMMA LessShown ==
    ASSUME NEW X, NEW t, NEW u, Len(u) = Len(t),
           \A i \in 1 .. Len(t) : Shows(u, i, X) \subseteq Shows(t, i, X)
    PROVE  Used(u, X) \subseteq Used(t, X) /\ (Apart(t, X) => Apart(u, X))
<1>1. Used(u, X) \subseteq Used(t, X)
  BY Zenon DEF Used
<1>2. ASSUME Apart(t, X) PROVE Apart(u, X)
  BY <1>2, Zenon DEF Apart
<1> QED
  BY <1>1, <1>2

\* Nodes that hold what others did, the first k of them.
LEMMA StillHeld ==
    ASSUME NEW t, NEW u, NEW k, \A i \in 1 .. k : t[i].of \subseteq u[i].of
    PROVE  HeldTo(t, k) \subseteq HeldTo(u, k)
<1> SUFFICES ASSUME NEW x \in HeldTo(t, k) PROVE x \in HeldTo(u, k)
  OBVIOUS
<1>1. PICK i \in 1 .. k : x \in t[i].of
  BY Zenon DEF HeldTo
<1>2. x \in u[i].of
  BY <1>1, Zenon
<1> QED
  BY <1>2, Zenon DEF HeldTo

\* All nodes are those up to the last.
LEMMA HeldIsTo ==
    ASSUME NEW t
    PROVE  Held(t) = HeldTo(t, Len(t))
  BY DEF Held, HeldTo

\* A machine below the caller was started for a node before that of the machine that ended.
LEMMA NodeBelow ==
    ASSUME NEW m, Back(m), Top.then.k \in {"replace", "substitution"}, NEW k \in 2 .. m,
           frames[k].then.k \in {"replace", "substitution"}
    PROVE  /\ frames[k].then.node \in Nat /\ frames[k].then.node < Top.then.node
           /\ Top.then.node \in 1 .. Len(tree) /\ frames[k].then.node \in 1 .. Len(tree)
<1>1. /\ m \in 1 .. Len(frames) /\ m \in Nat /\ Len(frames) = m + 1
      /\ Caller = frames[m] /\ Top = frames[m + 1] /\ Len(tree) \in Nat
      /\ FrameOK(Top, Len(tree), DOMAIN doc) /\ LinkOK(Caller, Top)
      /\ FrameOK(Caller, Len(tree), DOMAIN doc)
  BY CallerOwes, Zenon
<1>2. /\ \A i \in 1 .. Len(frames) : MachineIn(frames[i], TextLines)
      /\ \A i, j \in 1 .. Len(frames) : i <= j => frames[i].node <= frames[j].node
  BY Zenon DEF Back, Onward, Ledger, Formed
<1>3. k \in 1 .. Len(frames) /\ k <= m /\ k - 1 \in Nat /\ k \in 2 .. Len(frames)
  BY <1>1
<1>4. frames[k].then.node = frames[k].node
  BY <1>2, <1>3, Zenon DEF MachineIn
<1>5. frames[k].node <= Caller.node
  BY <1>1, <1>2, <1>3
<1>6. Caller.node < Top.then.node
  BY <1>1, Zenon DEF LinkOK
<1>7. Top.then.node \in 0 .. Len(tree)
  <2>1. ThenOK(Top.then, Len(tree), DOMAIN doc)
    BY <1>1, Zenon DEF FrameOK
  <2> QED
    BY <2>1, Zenon DEF ThenOK
<1>8. Caller.node \in 0 .. Len(tree)
  BY <1>1, Zenon DEF FrameOK
<1>9. FrameOK(frames[k], Len(tree), DOMAIN doc)
  BY <1>3, Zenon DEF Back, Onward, Stack, StackOK
<1>10. frames[k].node \in 0 .. Len(tree)
  BY <1>9, Zenon DEF FrameOK
<1>11. LinkOK(frames[k - 1], frames[k])
  BY <1>3 DEF Back, Onward, Stack, StackOK
<1>12. frames[k - 1].node < frames[k].then.node
  BY <1>11, Zenon DEF LinkOK
<1>13. FrameOK(frames[k - 1], Len(tree), DOMAIN doc)
  <2>1. k - 1 \in 1 .. Len(frames)
    BY <1>1, <1>3
  <2> QED
    BY <2>1, Zenon DEF Back, Onward, Stack, StackOK
<1>14. frames[k - 1].node \in 0 .. Len(tree)
  BY <1>13, Zenon DEF FrameOK
<1> DEFINE a == frames[k - 1].node
           b == frames[k].node
           c == Caller.node
           e == Top.then.node
           n == Len(tree)
           d == frames[k].then.node
<1>15. /\ n \in Nat /\ d = b /\ b <= c /\ c < e /\ e \in 0 .. n /\ c \in 0 .. n
       /\ b \in 0 .. n /\ a < d /\ a \in 0 .. n
  BY <1>1, <1>4, <1>5, <1>6, <1>7, <1>8, <1>10, <1>12, <1>14, Zenon
<1> HIDE DEF a, b, c, d, e, n
<1>16. d \in Nat /\ d < e /\ e \in 1 .. n /\ d \in 1 .. n
  BY <1>15
<1> QED
  BY <1>16, Zenon DEF d, e, n

\* Nodes made over when a machine has ended show no more, and none before its own changes.
LEMMA RetoldSettled ==
    ASSUME NEW m, Back(m), Ready, Top.then.k \in {"replace", "substitution"},
           Len(tree') = Len(tree),
           \A i \in 1 .. Len(tree) : Shows(tree', i, TextLines) \subseteq Shows(tree, i, TextLines),
           \A i \in 1 .. Len(tree) : i < Top.then.node => tree'[i].of = tree[i].of,
           NEW W, W \subseteq Due(frames, m, TextLines), Accounted(m, W, {})
    PROVE  Settled(m, W)
<1> DEFINE X == TextLines
           e == Top.then.node
<1>1. Used(tree', X) \subseteq Used(tree, X) /\ (Apart(tree, X) => Apart(tree', X))
  <2> DEFINE t == tree
             u == tree'
  <2>1. Len(u) = Len(t) /\ \A i \in 1 .. Len(t) : Shows(u, i, X) \subseteq Shows(t, i, X)
    OBVIOUS
  <2> HIDE DEF t, u, X
  <2>2. Used(u, X) \subseteq Used(t, X) /\ (Apart(t, X) => Apart(u, X))
    BY <2>1, LessShown
  <2> QED
    BY <2>2 DEF t, u
<1>2. ASSUME ~reread' PROVE NewOnce(m, W)
  <2>1. Apart(tree, X)
    BY <1>2, Zenon DEF Ready, Ledger, Once
  <2> QED
    BY <1>1, <2>1, Zenon DEF NewOnce
<1>3. Len(tree) \in Nat
  BY CallerOwes
<1>4. ASSUME NEW k \in 2 .. m, frames[k].then.k \in {"replace", "substitution"}
      PROVE  /\ HeldTo(tree, frames[k].then.node) \cap X
                \subseteq HeldTo(tree', frames[k].then.node) \cup dropped'
             /\ tree'[frames[k].then.node].of = tree[frames[k].then.node].of
  <2> DEFINE d == frames[k].then.node
             t == tree
             u == tree'
  <2>1. d \in Nat /\ d < e /\ e \in 1 .. Len(tree) /\ d \in 1 .. Len(tree)
    BY <1>4, NodeBelow
  <2>2. \A i \in 1 .. Len(tree) : i < e => u[i].of = t[i].of
    OBVIOUS
  <2> HIDE DEF d, e, t, u
  <2>3. \A i \in 1 .. d : i \in 1 .. Len(tree) /\ i < e
    BY <1>3, <2>1
  <2>4. \A i \in 1 .. d : t[i].of \subseteq u[i].of
    BY <2>2, <2>3, Zenon
  <2>5. HeldTo(t, d) \subseteq HeldTo(u, d)
    BY <2>4, StillHeld
  <2>6. u[d].of = t[d].of
    BY <2>1, <2>2
  <2> QED
    BY <2>5, <2>6, Zenon DEF d, t, u
<1>5. KeptBelow(m)
  <2>1. \A k \in 2 .. m : frames[k].then.k = "replace" =>
            frames[k].then.k \in {"replace", "substitution"}
    OBVIOUS
  <2> QED
    BY <1>4, <2>1, Zenon DEF KeptBelow
<1> QED
  BY <1>2, <1>5, Zenon DEF Settled

\* The nodes when a replacement ends: its own element is a message or nothing.
LEMMA ReplacedNodes ==
    ASSUME NEW m, Back(m), Top.then.k = "replace", ReturnReplace
    PROVE  /\ Len(tree') = Len(tree) /\ Top.then.node \in 1 .. Len(tree)
           /\ \A i \in 1 .. Len(tree) :
                 Shows(tree', i, TextLines) \subseteq Shows(tree, i, TextLines)
           /\ \A i \in 1 .. Len(tree) : i < Top.then.node => tree'[i].of = tree[i].of
           /\ \/ tree'[Top.then.node].of = Top.then.of
              \/ \A i \in 1 .. Len(tree) : i # Top.then.node => tree'[i].of = tree[i].of
<1> DEFINE e == Top.then.node
           of == Top.then.of
           up == Caller.node
           X == TextLines
           single == Children(e) = {} \/ \E i \in Children(e) :
                         Children(e) = {i} /\ tree[i].kind = "paragraph"
           gone == Node("gone", 0, {})
           x == Node("error", up, of)
           u == [i \in DOMAIN tree |->
                   IF i = e THEN IF single THEN gone ELSE x
                   ELSE IF i \notin Within(e) THEN tree[i]
                   ELSE IF ~single THEN gone
                   ELSE IF IsMessage(tree[i]) THEN [tree[i] EXCEPT !.up = up]
                   ELSE [tree[i] EXCEPT !.up = up, !.kind = "inline"]]
<1>1. tree' = u
  BY Zenon DEF ReturnReplace, Message
<1>2. /\ FrameOK(Top, Len(tree), DOMAIN doc) /\ LinkOK(Caller, Top)
      /\ FrameOK(Caller, Len(tree), DOMAIN doc) /\ Len(tree) \in Nat
  BY CallerOwes, Zenon
<1>3. up \in 0 .. Len(tree)
  BY <1>2, Zenon DEF FrameOK
<1>4. up < e
  BY <1>2, Zenon DEF LinkOK
<1>5. e \in 0 .. Len(tree)
  <2>1. ThenOK(Top.then, Len(tree), DOMAIN doc)
    BY <1>2, Zenon DEF FrameOK
  <2> QED
    BY <2>1, Zenon DEF ThenOK
<1>6. TreeOK(tree, DOMAIN doc)
  BY Zenon DEF Back, Onward, Stack
<1> HIDE DEF single, of, up, e
<1>7. e \in 1 .. Len(tree) /\ e \in Nat
  BY <1>2, <1>3, <1>4, <1>5
<1>8. DOMAIN tree = 1 .. Len(tree)
  <2>1. tree \in Seq(Range(tree))
    BY <1>6 DEF TreeOK, NodesOK, IsSeq
  <2> QED
    BY <2>1, LenProperties
<1>9. Len(u) = Len(tree)
  BY <1>2, <1>8
<1>10. /\ gone.of = {} /\ x.of = of /\ IsMessage(x)
  BY DEF Node, IsMessage, Levels
<1> HIDE DEF gone, x, u
<1>11. ASSUME NEW i \in 1 .. Len(tree)
       PROVE  /\ Shows(u, i, X) \subseteq Shows(tree, i, X)
              /\ i < e => u[i].of = tree[i].of
              /\ i = e => u[i] = IF single THEN gone ELSE x
              /\ i # e /\ single => u[i].of = tree[i].of
  <2> DEFINE y == tree[i]
  <2>1. DOMAIN y = {"kind", "up", "of"}
    BY <1>6, TreeNode DEF NodeOK
  <2>2. u[i] = IF i = e THEN IF single THEN gone ELSE x
               ELSE IF i \notin Within(e) THEN y
               ELSE IF ~single THEN gone
               ELSE IF IsMessage(y) THEN [y EXCEPT !.up = up]
               ELSE [y EXCEPT !.up = up, !.kind = "inline"]
    BY <1>8 DEF u
  <2>3. i \in Within(e) => i > e
    BY <1>6, <1>7, WithinAfter
  <2>4. /\ [y EXCEPT !.up = up].of = y.of
        /\ [y EXCEPT !.up = up].kind = y.kind
        /\ [y EXCEPT !.up = up, !.kind = "inline"].of = y.of
    BY <2>1
  <2>5. IsMessage(y) => IsMessage([y EXCEPT !.up = up])
    BY <2>4 DEF IsMessage
  <2> DEFINE y1 == [y EXCEPT !.up = up]
             y2 == [y EXCEPT !.up = up, !.kind = "inline"]
             v == u[i]
             within == i \in Within(e)
             T == IF IsMessage(v) THEN {} ELSE v.of \cap X
             S == IF IsMessage(y) THEN {} ELSE y.of \cap X
  <2>6. v = IF i = e THEN IF single THEN gone ELSE x
            ELSE IF ~within THEN y
            ELSE IF ~single THEN gone
            ELSE IF IsMessage(y) THEN y1 ELSE y2
    BY <2>2
  <2>7. y1.of = y.of /\ y2.of = y.of /\ (IsMessage(y) => IsMessage(y1)) /\ (within => i > e)
    BY <2>3, <2>4, <2>5
  <2>8. Shows(u, i, X) = T /\ Shows(tree, i, X) = S
    BY DEF Shows
  <2>9. v = u[i] /\ y = tree[i] /\ i \in Nat
    BY <1>2
  <2> HIDE DEF y, y1, y2, v, within, X
  <2>10. T \subseteq S
    <3>1. v.of = {} \/ IsMessage(v) \/ v = y \/ (v = y1 /\ IsMessage(y)) \/ (v = y2 /\ ~IsMessage(y))
      BY <1>10, <2>6, Zenon
    <3> QED
      BY <2>7, <3>1, Zenon
  <2>11. i < e => v = y
    BY <1>7, <2>6, <2>7, <2>9
  <2>12. i # e /\ single => v.of = y.of
    BY <2>6, <2>7, Zenon
  <2> QED
    BY <2>6, <2>8, <2>9, <2>10, <2>11, <2>12, Zenon
<1>12. u[e].of = of \/ \A i \in 1 .. Len(tree) : i # e => u[i].of = tree[i].of
  <2>1. u[e] = IF single THEN gone ELSE x
    BY <1>7, <1>11, Zenon
  <2> QED
    BY <1>10, <1>11, <2>1, Zenon
<1> QED
  BY <1>1, <1>7, <1>9, <1>11, <1>12 DEF e, of

\* ReturnReplace: what the element held is held by its error, or shown as it was.
LEMMA ReturnReplaceOnce ==
    ASSUME Ready, ReturnReplace
    PROVE  Ledger'
<1> DEFINE X == TextLines
           m == Len(frames) - 1
           W == Left(Caller.lines, Caller.off + 1, X)
           e == Top.then.node
           of == Top.then.of
           finish == Finishes(Caller, Top.then.finish)
<1>1. /\ Returns("replace") /\ frames' = EndConstruct(Caller, finish, Others)
      /\ dropped' = dropped \cup Unread /\ memo' = memo /\ error' = error
  BY Zenon DEF ReturnReplace, Finished
<1> HIDE DEF m, finish
<1>2. Back(m) /\ Top.then.k = "replace" /\ ~IsSection(Top)
  BY <1>1, ReturnBack DEF m
<1>3. /\ Len(tree') = Len(tree) /\ e \in 1 .. Len(tree)
      /\ \A i \in 1 .. Len(tree) : Shows(tree', i, X) \subseteq Shows(tree, i, X)
      /\ \A i \in 1 .. Len(tree) : i < e => tree'[i].of = tree[i].of
      /\ \/ tree'[e].of = of
         \/ \A i \in 1 .. Len(tree) : i # e => tree'[i].of = tree[i].of
  BY <1>2, ReplacedNodes
<1>4. /\ m \in 1 .. Len(frames) /\ m \in Nat /\ Len(frames) = m + 1 /\ Top = frames[m + 1]
      /\ Caller = frames[m] /\ WaitIn(Caller, Top, X) /\ Len(tree) \in Nat
      /\ Owed(Top, X) = Left(Top.lines, Top.off + 1, X)
      /\ Due(frames, m, X) = Waits(Caller, Top, X) \cup Owed(Top, X) \cup Later(Top, X)
  BY <1>2, CallerOwes, Zenon
<1>5. /\ W = {} /\ Later(Top, X) = {} /\ Waits(Caller, Top, X) = {} /\ Top.then.k # "substitution"
  <2>1. Caller.then.k = "substitution" /\ W = {}
    BY <1>2, <1>4, Zenon DEF WaitIn
  <2>2. Top.then.k # "argument" /\ Top.then.k # "substitution"
    BY <1>2
  <2>3. Later(Top, X) = {}
    BY <2>2, Zenon DEF Later
  <2>4. Waits(Caller, Top, X) = {}
    BY <2>1, Zenon DEF Waits
  <2> QED
    BY <2>1, <2>2, <2>3, <2>4
<1>6. Due(frames, m, X) \subseteq dropped'
  <2>1. Unread \cap TextLines = Owed(Top, TextLines)
    BY <1>2, UnreadOwed
  <2> QED
    BY <1>1, <1>4, <1>5, <2>1
<1>7. tree[e].of = {}
  <2>1. m + 1 \in 2 .. Len(frames)
    BY <1>4
  <2>2. Top.then.k \in {"replace", "substitution"}
    BY <1>2
  <2> QED
    BY <1>4, <2>1, <2>2, Zenon DEF Ready, Ledger, Plain
<1>8. \A x \in X : \/ x \in HeldTo(tree, e) \/ x \in dropped \/ x \in of
                   \/ \E i \in 1 .. m, w \in Whens : x \in Debt(frames, i, w, X)
  <2>1. m + 1 \in 2 .. Len(frames) /\ (m + 1) - 1 = m
    BY <1>4
  <2>2. CoveredBelow(frames, tree, dropped, X)
    BY Zenon DEF Ready, Ledger
  <2>3. frames[m + 1].then.k = "replace"
    BY <1>2, <1>4
  <2> HIDE DEF X
  <2>4. \A x \in X : \/ x \in HeldTo(tree, frames[m + 1].then.node) \/ x \in dropped
                     \/ x \in frames[m + 1].then.of
                     \/ \E i \in 1 .. (m + 1) - 1, w \in Whens : x \in Debt(frames, i, w, X)
    BY <2>1, <2>2, <2>3, Zenon DEF CoveredBelow
  <2> QED
    BY <1>4, <2>1, <2>4, Zenon
<1>9. \A x \in X : (\E i \in 1 .. m, w \in Whens : x \in Debt(frames, i, w, X)) =>
                   x \in Lower(frames, m, X)
  <2> SUFFICES ASSUME NEW x \in X, NEW i \in 1 .. m, NEW w \in Whens, x \in Debt(frames, i, w, X)
               PROVE  x \in Lower(frames, m, X)
    OBVIOUS
  <2>1. ~(i = m /\ w = "own")
    <3> SUFFICES ASSUME i = m, w = "own" PROVE FALSE
      OBVIOUS
    <3>1. m # Len(frames)
      BY <1>4
    <3>2. Debt(frames, m, w, X) = Waits(frames[m], frames[m + 1], X)
      BY <3>1, Zenon DEF Debt, Own
    <3> QED
      BY <1>4, <1>5, <3>2, Zenon
  <2>2. ~Above(m, i, w)
    BY <1>4, <2>1 DEF Above
  <2> QED
    BY <2>2, Zenon DEF Lower
<1> HIDE DEF X, W, e, of
<1>10. Accounted(m, W, {})
  <2> DEFINE t == tree
             u == tree'
             n == Len(tree)
  <2>1. Held(t) = HeldTo(t, n) /\ Held(u) = HeldTo(u, n)
    BY <1>3, HeldIsTo
  <2>2. ASSUME u[e].of = of PROVE of \subseteq Held(u)
    <3> HIDE DEF u, n
    <3> QED
      BY <1>3, <2>1, <2>2, Zenon DEF HeldTo, n
  <2>3. HeldTo(t, e) \subseteq HeldTo(u, n)
    <3>1. \A i \in 1 .. e : i \in 1 .. n /\ (i < e \/ i = e)
      BY <1>3, <1>4
    <3>2. \A i \in 1 .. e : t[i].of \subseteq u[i].of
      BY <1>3, <1>7, <3>1
    <3> HIDE DEF t, u, n
    <3>3. HeldTo(t, e) \subseteq HeldTo(u, e)
      BY <3>2, StillHeld
    <3>4. HeldTo(u, e) \subseteq HeldTo(u, n)
      BY <3>1, Zenon DEF HeldTo
    <3> QED
      BY <3>3, <3>4
  <2>4. ASSUME \A i \in 1 .. n : i # e => u[i].of = t[i].of
        PROVE  HeldTo(t, n) \subseteq HeldTo(u, n)
    <3>1. \A i \in 1 .. n : t[i].of \subseteq u[i].of
      BY <1>7, <2>4
    <3> HIDE DEF t, u, n
    <3> QED
      BY <3>1, StillHeld
  <2>5. Quoted(Top, Len(tree), X) = {}
    BY <1>5, Zenon DEF Quoted
  <2>6. u[e].of = of \/ \A i \in 1 .. n : i # e => u[i].of = t[i].of
    BY <1>3
  <2>7. dropped \subseteq dropped'
    BY <1>1
  <2>8. u = tree' /\ t = tree
    OBVIOUS
  <2> HIDE DEF t, u, n
  <2> SUFFICES ASSUME NEW x \in X,
                      \/ x \in Held(t) \/ x \in dropped \/ x \in Due(frames, m, X)
                      \/ x \in Quoted(Top, Len(tree), X)
               PROVE  \/ x \in Held(u) \/ x \in dropped' \/ x \in Lower(frames, m, X)
    BY <2>8, Zenon DEF Accounted, X
  <2>9. CASE u[e].of = of
    BY <1>8, <1>9, <2>1, <2>2, <2>3, <2>7, <2>8, <2>9
  <2>10. CASE \A i \in 1 .. n : i # e => u[i].of = t[i].of
    BY <1>6, <2>1, <2>4, <2>5, <2>7, <2>10
  <2> QED
    BY <2>6, <2>9, <2>10
<1>11. Settled(m, W)
  <2>1. W \subseteq Due(frames, m, TextLines)
    BY <1>5
  <2>2. Top.then.k \in {"replace", "substitution"}
    BY <1>2
  <2> QED
    BY <1>2, <1>3, <1>10, <2>1, <2>2, RetoldSettled DEF X, e
<1>12. memo'.level # 0 <=> Sectioned(frames, m)
  BY <1>1, <1>2, CallerOwes
<1>13. W = Left(Caller.lines, Caller.off + 1, TextLines)
  BY DEF W, X
<1> QED
  BY <1>1, <1>2, <1>11, <1>12, <1>13, BuiltBack

\* The nodes when a substitution definition ends: empty, it is a message that quotes its lines.
LEMMA DefinedNodes ==
    ASSUME NEW m, Back(m), Top.then.k = "substitution", ReturnSubstitution
    PROVE  /\ Len(tree') = Len(tree) /\ Top.then.node \in 1 .. Len(tree)
           /\ \A i \in 1 .. Len(tree) :
                 Shows(tree', i, TextLines) \subseteq Shows(tree, i, TextLines)
           /\ \A i \in 1 .. Len(tree) : i < Top.then.node => tree'[i].of = tree[i].of
           /\ \A i \in 1 .. Len(tree) : i # Top.then.node => tree'[i].of = tree[i].of
           /\ Top.then.node = Len(tree) => tree'[Top.then.node].of = Top.then.of
<1> DEFINE s == Top.then.node
           of == Top.then.of
           up == Caller.node
           X == TextLines
           n == Len(tree)
           empty == \A i \in DOMAIN tree : tree[i].up = s => tree[i].kind # "inline"
           x == Node("warning", up, of)
           u == [i \in DOMAIN tree |->
                   IF i = s /\ empty THEN x
                   ELSE IF tree[i].up = s /\ tree[i].kind # "inline"
                        THEN [tree[i] EXCEPT !.up = up]
                   ELSE tree[i]]
<1>1. tree' = u
  BY Zenon DEF ReturnSubstitution, Message
<1>2. /\ FrameOK(Top, n, DOMAIN doc) /\ LinkOK(Caller, Top)
      /\ FrameOK(Caller, n, DOMAIN doc) /\ n \in Nat
  BY CallerOwes, Zenon
<1>3. up \in 0 .. n
  BY <1>2, Zenon DEF FrameOK
<1>4. up < s
  BY <1>2, Zenon DEF LinkOK
<1>5. s \in 0 .. n
  <2>1. ThenOK(Top.then, n, DOMAIN doc)
    BY <1>2, Zenon DEF FrameOK
  <2> QED
    BY <2>1, Zenon DEF ThenOK
<1>6. TreeOK(tree, DOMAIN doc)
  BY Zenon DEF Back, Onward, Stack
<1> HIDE DEF of, up, s
<1>7. s \in 1 .. n /\ s \in Nat
  BY <1>2, <1>3, <1>4, <1>5
<1>8. DOMAIN tree = 1 .. n
  <2>1. tree \in Seq(Range(tree))
    BY <1>6 DEF TreeOK, NodesOK, IsSeq
  <2> QED
    BY <2>1, LenProperties
<1>9. Len(u) = n
  BY <1>2, <1>8
<1>10. x.of = of /\ IsMessage(x)
  BY DEF Node, IsMessage, Levels
<1>11. s = n => empty
  <2> SUFFICES ASSUME s = n, NEW i \in 1 .. n, tree[i].up = s PROVE FALSE
    BY <1>8
  <2>1. tree[i].up < i /\ i \in Nat
    BY <1>6, TreeNode
  <2> QED
    BY <1>2, <2>1
<1> HIDE DEF x, u, empty
<1>12. ASSUME NEW i \in 1 .. n
       PROVE  /\ Shows(u, i, X) \subseteq Shows(tree, i, X)
              /\ i # s => u[i].of = tree[i].of
              /\ i = s /\ empty => u[i].of = of
  <2> DEFINE y == tree[i]
             z == [y EXCEPT !.up = up]
  <2>1. DOMAIN y = {"kind", "up", "of"}
    BY <1>6, TreeNode DEF NodeOK
  <2>2. u[i] = IF i = s /\ empty THEN x
               ELSE IF y.up = s /\ y.kind # "inline" THEN z ELSE y
    BY <1>8 DEF u
  <2>3. z.of = y.of /\ z.kind = y.kind
    BY <2>1
  <2>4. IsMessage(y) <=> IsMessage(z)
    BY <2>3 DEF IsMessage
  <2> DEFINE v == u[i]
             T == IF IsMessage(v) THEN {} ELSE v.of \cap X
             S == IF IsMessage(y) THEN {} ELSE y.of \cap X
  <2>5. Shows(u, i, X) = T /\ Shows(tree, i, X) = S
    BY DEF Shows
  <2>6. v = u[i] /\ y = tree[i]
    OBVIOUS
  <2>7. v = IF i = s /\ empty THEN x ELSE IF y.up = s /\ y.kind # "inline" THEN z ELSE y
    BY <2>2
  <2> HIDE DEF y, z, v, X
  <2>8. T \subseteq S
    <3>1. IsMessage(v) \/ v = z \/ v = y
      BY <1>10, <2>7, Zenon
    <3> QED
      BY <2>3, <2>4, <3>1, Zenon
  <2>9. i # s => v.of = y.of
    BY <2>3, <2>7, Zenon
  <2>10. i = s /\ empty => v.of = of
    BY <1>10, <2>7, Zenon
  <2> QED
    BY <2>5, <2>6, <2>8, <2>9, <2>10, Zenon
<1>13. s = n => u[s].of = of
  BY <1>7, <1>11, <1>12, Zenon
<1>14. \A i \in 1 .. n : i < s => i # s
  BY <1>7
<1> QED
  BY <1>1, <1>7, <1>9, <1>12, <1>13, <1>14 DEF s, of

\* ReturnSubstitution: what the definition has not shown its message quotes.
LEMMA ReturnSubstitutionOnce ==
    ASSUME Ready, ReturnSubstitution
    PROVE  Ledger'
<1> DEFINE X == TextLines
           m == Len(frames) - 1
           W == Left(Caller.lines, Caller.off + 1, X)
           s == Top.then.node
           of == Top.then.of
           n == Len(tree)
           finish == Top.finish
<1>1. /\ Returns("substitution") /\ frames' = EndConstruct(Caller, finish, Others)
      /\ dropped' = dropped /\ memo' = memo /\ error' = error
  BY Zenon DEF ReturnSubstitution
<1> HIDE DEF m, finish
<1>2. Back(m) /\ Top.then.k = "substitution" /\ ~IsSection(Top)
  <2>1. dropped \subseteq dropped'
    BY <1>1
  <2> QED
    BY <1>1, <2>1, ReturnBack DEF m
<1>3. /\ Len(tree') = n /\ s \in 1 .. n
      /\ \A i \in 1 .. n : Shows(tree', i, X) \subseteq Shows(tree, i, X)
      /\ \A i \in 1 .. n : i < s => tree'[i].of = tree[i].of
      /\ \A i \in 1 .. n : i # s => tree'[i].of = tree[i].of
      /\ s = n => tree'[s].of = of
  BY <1>2, DefinedNodes
<1>4. /\ m \in 1 .. Len(frames) /\ m \in Nat /\ Len(frames) = m + 1 /\ Top = frames[m + 1]
      /\ MachineIn(Top, X) /\ TopIn(Top, n, X) /\ n \in Nat
      /\ Owed(Top, X) = Left(Top.lines, Top.off + 1, X)
      /\ Due(frames, m, X) = Waits(Caller, Top, X) \cup Owed(Top, X) \cup Later(Top, X)
      /\ FrameOK(Top, n, DOMAIN doc)
  BY <1>2, CallerOwes, Zenon
<1>5. Later(Top, X) = {} /\ Waits(Caller, Top, X) = W
  <2>1. Top.then.k # "argument" /\ Top.then.k \notin {"section", "list"}
    BY <1>2
  <2> QED
    BY <2>1, Zenon DEF Later, Waits
<1>6. Left(Top.lines, 0, X) \subseteq of /\ Left(Top.lines, Top.off + 1, X) \subseteq of
      /\ (Left(Top.lines, Top.off + 1, X) = {} \/ s = n)
  <2>1. Top.lines \in LinesOf(DOMAIN doc) /\ Top.off \in Int /\ Top.off >= -1
    BY <1>4, Zenon DEF FrameOK
  <2> DEFINE l == Top.lines
             i == 0
             j == Top.off + 1
             D == DOMAIN doc
  <2>2. l \in LinesOf(D) /\ i \in Int /\ j \in Int /\ i <= j
    BY <2>1
  <2>3. Left(l, j, X) \subseteq Left(l, i, X)
    <3> HIDE DEF l, i, j, D, X
    <3> QED
      BY <2>2, SpanSplit
  <2>4. Left(Top.lines, 0, X) \subseteq of
    BY <1>2, <1>4, Zenon DEF MachineIn
  <2>5. Left(Top.lines, Top.off + 1, X) = {} \/ s = n
    BY <1>2, <1>4, Zenon DEF TopIn
  <2> QED
    BY <2>3, <2>4, <2>5
<1>7. tree[s].of = {}
  <2>1. m + 1 \in 2 .. Len(frames)
    BY <1>4
  <2>2. Top.then.k \in {"replace", "substitution"}
    BY <1>2
  <2> QED
    BY <1>4, <2>1, <2>2, Zenon DEF Ready, Ledger, Plain
<1> HIDE DEF X, W, s, of, n
<1>8. Accounted(m, W, {})
  <2> DEFINE t == tree
             u == tree'
  <2>1. Held(t) = HeldTo(t, n) /\ Held(u) = HeldTo(u, n)
    BY <1>3, HeldIsTo DEF n
  <2>2. Held(t) \subseteq Held(u)
    <3>1. \A i \in 1 .. n : t[i].of \subseteq u[i].of
      BY <1>3, <1>7
    <3> HIDE DEF t, u
    <3> QED
      BY <2>1, <3>1, StillHeld
  <2>3. s = n => of \subseteq Held(u)
    <3> HIDE DEF t
    <3>1. \A i \in 1 .. n : u[i].of \subseteq HeldTo(u, n)
      BY Zenon DEF HeldTo
    <3> QED
      BY <1>3, <2>1, <3>1
  <2>4. Quoted(Top, n, X) \subseteq Held(u)
    <3>1. Quoted(Top, n, X) = {} \/ (s = n /\ Quoted(Top, n, X) = Left(Top.lines, 0, X))
      BY Zenon DEF Quoted, s
    <3> QED
      BY <1>6, <2>3, <3>1
  <2>5. Due(frames, m, X) \subseteq W \cup Held(u)
    BY <1>4, <1>5, <1>6, <2>3
  <2>6. u = tree' /\ t = tree
    OBVIOUS
  <2> HIDE DEF t, u
  <2> SUFFICES ASSUME NEW x \in X,
                      \/ x \in Held(t) \/ x \in dropped \/ x \in Due(frames, m, X)
                      \/ x \in Quoted(Top, n, X)
               PROVE  \/ x \in Held(u) \/ x \in dropped' \/ x \in W
    BY <2>6, Zenon DEF Accounted, X, n
  <2> QED
    BY <1>1, <2>2, <2>4, <2>5
<1>9. Settled(m, W)
  <2>1. W \subseteq Due(frames, m, TextLines)
    BY <1>4, <1>5 DEF X
  <2>2. Top.then.k \in {"replace", "substitution"}
    BY <1>2
  <2> QED
    BY <1>2, <1>3, <1>8, <2>1, <2>2, RetoldSettled DEF X, n, s
<1>10. memo'.level # 0 <=> Sectioned(frames, m)
  BY <1>1, <1>2, CallerOwes
<1>11. W = Left(Caller.lines, Caller.off + 1, TextLines)
  BY DEF W, X
<1> QED
  BY <1>1, <1>2, <1>9, <1>10, <1>11, BuiltBack

-----------------------------------------------------------------------------
(* Every step keeps the ledger. *)

\* When nothing changes.
LEMMA StillOnce ==
    ASSUME Ledger, UNCHANGED vars
    PROVE  Ledger'
<1>1. /\ doc' = doc /\ frames' = frames /\ tree' = tree /\ memo' = memo /\ error' = error
      /\ dropped' = dropped /\ reread' = reread
  BY DEF vars
<1>2. TextLines' = TextLines
  BY <1>1, SameText
<1> QED
  BY <1>1, <1>2 DEF Ledger

\* Every step keeps the invariant.
LEMMA StepOnce ==
    ASSUME Stack, Ledger, Step, reread' = (reread \/ RereadsSection)
    PROVE  Ledger'
<1>1. Ready /\ (RereadsSection => reread')
  BY Zenon DEF Ready
<1>2. CASE Parse \/ BodyBlank \/ BlockQuote \/ InvalidInput
  BY <1>1, <1>2, ParseOnce, BodyBlankOnce, BlockQuoteOnce, InvalidInputOnce
<1>3. CASE \E t \in DOMAIN Lists : FirstItem(t) \/ TextAfterAll(t) \/ NextItem(t)
  BY <1>1, <1>3, FirstItemOnce, TextAfterAllOnce, NextItemOnce
<1>4. CASE EnumeratorFails \/ LineBlockLine \/ Doctest
  BY <1>1, <1>4, EnumeratorFailsOnce, LineBlockLineOnce, DoctestOnce
<1>5. CASE Comment \/ FootnoteOrCitation \/ Target \/ Malformed \/ UnknownDirective
  BY <1>1, <1>5, CommentOnce, FootnoteOrCitationOnce, TargetOnce, MalformedOnce,
     UnknownDirectiveOnce
<1>6. CASE SubstitutionDefinition \/ SubstitutionText
  BY <1>1, <1>6, SubstitutionDefinitionOnce, SubstitutionTextOnce
<1>7. CASE RefuseDirective \/ CodeDirective \/ BlockDirective \/ BlockArgument
  BY <1>1, <1>7, RefuseDirectiveOnce, CodeDirectiveOnce, BlockDirectiveOnce, BlockArgumentOnce
<1>8. CASE VersionDirective \/ ReplaceDirective
  BY <1>1, <1>8, VersionDirectiveOnce, ReplaceDirectiveOnce
<1>9. CASE BodyText \/ TextBlank \/ TextText \/ TextIndent \/ DefinitionIndent \/ NoDefinition
  BY <1>1, <1>9, BodyTextOnce, TextBlankOnce, TextTextOnce, TextIndentOnce, DefinitionIndentOnce,
     NoDefinitionOnce
<1>10. CASE Underline \/ BodyLine \/ LineBlank \/ LineText \/ LineUnderline
  BY <1>1, <1>10, UnderlineOnce, BodyLineOnce, LineBlankOnce, LineTextOnce, LineUnderlineOnce
<1>11. CASE EndOfInput \/ TextEof \/ DefinitionEof \/ LineEof
  BY <1>1, <1>11, EndOfInputOnce, TextEofOnce, DefinitionEofOnce, LineEofOnce
<1>12. CASE ReturnNothing \/ ReturnFirst \/ ReturnList \/ ListFails \/ ReturnSection
  BY <1>1, <1>12, ReturnNothingOnce, ReturnFirstOnce, ReturnListOnce, ListFailsOnce,
     ReturnSectionOnce
<1>13. CASE ReturnConstruct \/ ReturnDirective \/ ReturnArgument \/ ReturnReplace
  BY <1>1, <1>13, ReturnConstructOnce, ReturnDirectiveOnce, ReturnArgumentOnce, ReturnReplaceOnce
<1>14. CASE ReturnSubstitution \/ ReturnRoot
  BY <1>1, <1>14, ReturnSubstitutionOnce, ReturnRootOnce
<1> QED
  BY <1>2, <1>3, <1>4, <1>5, <1>6, <1>7, <1>8, <1>9, <1>10, <1>11, <1>12, <1>13, <1>14 DEF Step

\* When no machine is left, what none of them owes is held, or dropped, and shown once.
LEMMA LedgerClosed ==
    ASSUME Stack, Ledger
    PROVE  EachLineOnce
<1> DEFINE X == TextLines
<1> SUFFICES ASSUME Complete, NEW n \in X
             PROVE  /\ reread \/ Cardinality(Contents(n)) <= 1
                    /\ Holders(n) = {} => n \in dropped
  BY Zenon DEF EachLineOnce
<1>1. frames = <<>> /\ error = NoError
  BY Zenon DEF Complete
<1>2. DOMAIN tree = 1 .. Len(tree)
  <2>1. tree \in Seq(Range(tree))
    BY DEF Stack, TreeOK, NodesOK, IsSeq
  <2> QED
    BY <2>1, LenProperties
<1> HIDE DEF X
<1>3. ASSUME Holders(n) = {} PROVE n \in dropped
  <2>1. n \notin Held(tree)
    <3> SUFFICES ASSUME n \in Held(tree) PROVE FALSE
      OBVIOUS
    <3>1. PICK i \in 1 .. Len(tree) : n \in tree[i].of
      BY Zenon DEF Held
    <3>2. i \in Holders(n)
      BY <1>2, <3>1, Zenon DEF Holders
    <3> QED
      BY <1>3, <3>2, Zenon
  <2>2. Covered(frames, tree, dropped, X)
    BY <1>1, Zenon DEF Ledger, X
  <2>3. 1 .. Len(frames) = {}
    BY <1>1
  <2> QED
    BY <1>1, <2>1, <2>2, <2>3, Zenon DEF Covered
<1>4. ASSUME ~reread PROVE Cardinality(Contents(n)) <= 1
  <2>1. Apart(tree, X)
    BY <1>4, Zenon DEF Ledger, Once, X
  <2>2. ASSUME NEW i \in Contents(n), NEW j \in Contents(n)
        PROVE  i = j
    <3>1. /\ i \in 1 .. Len(tree) /\ n \in tree[i].of /\ ~IsMessage(tree[i])
          /\ j \in 1 .. Len(tree) /\ n \in tree[j].of /\ ~IsMessage(tree[j])
      BY <1>2, <2>2, Zenon DEF Contents, Holders
    <3>2. n \in Shows(tree, i, X) /\ n \in Shows(tree, j, X)
      BY <3>1 DEF Shows
    <3> QED
      BY <2>1, <3>1, <3>2, Zenon DEF Apart
  <2>3. CASE Contents(n) = {}
    BY <2>3, FS_EmptySet
  <2>4. CASE Contents(n) # {}
    <3>1. PICK i : i \in Contents(n)
      BY <2>4
    <3>2. Contents(n) = {i}
      BY <2>2, <3>1
    <3>3. Cardinality({i}) = 1
      BY FS_Singleton
    <3> QED
      BY <3>2, <3>3
  <2> QED
    BY <2>3, <2>4
<1> QED
  BY <1>3, <1>4

(***************************************************************************)
(* When a document has been parsed, every line of text in it is content of *)
(* exactly one node, or is quoted by a message, or no machine has read it: *)
(* goto_line, previous_line, the corrections of check_line and the end of  *)
(* a section by a title further out neither repeat nor skip a line; only   *)
(* behind a section that Line.eof reads again is a line repeated.          *)
(***************************************************************************)
THEOREM TextIsReadOnce == Spec => []EachLineOnce
<1>1. Init => Ledger
  BY InitOnce
<1>2. Stack /\ Ledger /\ [Next]_vars => Ledger'
  <2> SUFFICES ASSUME Stack, Ledger, [Next]_vars
               PROVE  Ledger'
    OBVIOUS
  <2>1. CASE Step /\ reread' = (reread \/ RereadsSection)
    BY <2>1, StepOnce
  <2>2. CASE UNCHANGED vars
    BY <2>2, StillOnce
  <2> QED
    BY <2>1, <2>2 DEF Next, Done
<1>3. Stack /\ Ledger => EachLineOnce
  BY LedgerClosed
<1> QED
  BY <1>1, <1>2, <1>3, StackHolds, PTL DEF Spec
=============================================================================
