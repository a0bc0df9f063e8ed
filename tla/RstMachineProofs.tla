------------------------- MODULE RstMachineProofs --------------------------
(***************************************************************************)
(* What is true of the stack of state machines, whatever the document, and *)
(* that the steps of the body keep it so: lists, explicit markup and       *)
(* directives.  RstStatesProofs has the other steps and the theorems.      *)
(*                                                                         *)
(* First what the operators of RstLines do to the lines they are given: a  *)
(* block is made of lines of the file, it ends within the lines it is      *)
(* taken from, and its offset counts what was cut off at the top.          *)
(*                                                                         *)
(* The inductive invariant, Stack, says what is true of each machine       *)
(* (FrameOK), of a machine and the one it started (LinkOK), and of the     *)
(* innermost one (TopOK).  A step touches one or two machines at the top   *)
(* of the stack, so there is one lemma for each of these two shapes, one   *)
(* about a line that is seen, and one for each action.                     *)
(*                                                                         *)
(* Last, which lines of text are left when a block has been taken out of a *)
(* list, its lines dedented, or a directive's block divided: what the      *)
(* account of them in RstStatesProofs and RstOnceProofs rests on.          *)
(***************************************************************************)
EXTENDS RstStates, SequenceTheorems, FiniteSetTheorems, TLAPS

\* The lines of a file whose lines are numbered by D.
LineOf(D)  == [n : D, ind : Nat, m : Seq(MarkType)]
LinesOf(D) == Seq(LineOf(D))

-----------------------------------------------------------------------------
(* The first offset at which something holds. *)

\* A set of numbers has a least one (induction over sizes, as the provers can cite it).
LEMMA LeastNatural ==
    ASSUME NEW T \in SUBSET Nat, T # {}
    PROVE  \E x \in T : \A y \in T : x <= y
<1> DEFINE segments == {0 .. n : n \in T}
<1>1. segments \subseteq FiniteSubsetsOf(Nat)
  <2> SUFFICES ASSUME NEW n \in T PROVE 0 .. n \in FiniteSubsetsOf(Nat)
    OBVIOUS
  <2>1. IsFiniteSet(0 .. n)
    <3>1. n \in Int /\ 0 \in Int
      OBVIOUS
    <3> QED
      BY ONLY <3>1, FS_Interval, Zenon
  <2> QED
    BY <2>1 DEF FiniteSubsetsOf
<1>2. \E s \in segments : \A r \in segments : ~(<<r, s>> \in StrictSubsetOrdering(Nat))
  <2> HIDE DEF segments
  <2>1. segments # {}
    BY DEF segments
  <2> QED
    <3>1. IsWellFoundedOn(StrictSubsetOrdering(Nat), FiniteSubsetsOf(Nat))
      BY ONLY FS_StrictSubsetOrderingWellFounded, Zenon
    <3> QED
      BY ONLY <1>1, <2>1, <3>1, WFMin, Zenon
<1>3. PICK x \in T : \A y \in T : ~(<<0 .. y, 0 .. x>> \in StrictSubsetOrdering(Nat))
  BY <1>2
<1>4. \A y \in T : x <= y
  <2> SUFFICES ASSUME NEW y \in T, y < x PROVE FALSE
    OBVIOUS
  <2>1. 0 .. y \subseteq 0 .. x /\ x \in 0 .. x /\ x \notin 0 .. y
    OBVIOUS
  <2>2. 0 .. y \in SUBSET Nat /\ 0 .. x \in SUBSET Nat
    OBVIOUS
  <2> QED
    BY <1>3, <2>1, <2>2 DEF StrictSubsetOrdering
<1> QED
  BY <1>4

\* Min returns it.
LEMMA LeastOf ==
    ASSUME NEW i \in Int, NEW S \in SUBSET Int, S # {}, \A x \in S : x >= i
    PROVE  Min(S) \in S /\ \A y \in S : Min(S) <= y
<1> DEFINE T == {x \in Nat : x + i \in S}
<1>1. T # {}
  <2>1. PICK s \in S : TRUE
    OBVIOUS
  <2>2. s - i \in T
    BY <2>1
  <2> QED
    BY <2>2
<1>2. PICK x \in T : \A y \in T : x <= y
  BY <1>1, LeastNatural
<1>3. x + i \in S
  OBVIOUS
<1>4. \A y \in S : x + i <= y
  <2> TAKE y \in S
  <2>1. y - i \in T
    OBVIOUS
  <2> QED
    BY <2>1, <1>2
<1> QED
  BY <1>3, <1>4 DEF Min

\* What FirstFrom returns: n stands for the number of lines, S for the offsets that satisfy P.
LEMMA FirstOffset ==
    ASSUME NEW n \in Nat, NEW i \in Int, NEW S \in SUBSET (i .. n - 1)
    PROVE  /\ Min(S \cup {n}) \in S \cup {n}
           /\ Min(S \cup {n}) \in Int
           /\ Min(S \cup {n}) <= n
           /\ i <= n => i <= Min(S \cup {n})
           /\ \A k \in S : Min(S \cup {n}) <= k
<1> DEFINE a == IF i < n THEN i ELSE n
<1>1. \A x \in S \cup {n} : x \in Int /\ x >= a
  OBVIOUS
<1> DEFINE T == S \cup {n}
<1>2. Min(T) \in T /\ \A y \in T : Min(T) <= y
  <2>1. T \in SUBSET Int /\ T # {} /\ a \in Int
    OBVIOUS
  <2> QED
    BY <1>1, <2>1, LeastOf
<1>3. a \in Int /\ a <= n /\ (i <= n => a >= i)
  OBVIOUS
<1>4. Min(T) \in Int /\ Min(T) >= a /\ Min(T) <= n
  BY <1>1, <1>2
<1> HIDE DEF a
<1> QED
  BY <1>2, <1>3, <1>4

-----------------------------------------------------------------------------
(* Parts of a sequence of lines. *)

\* A slice takes its lines, in order, from those it cuts.
LEMMA SlicePart ==
    ASSUME NEW T, NEW s \in Seq(T), NEW i \in Nat, NEW j \in Int
    PROVE  /\ Slice(s, i, j) \in Seq(T)
           /\ j <= Len(s) /\ i <= j => Len(Slice(s, i, j)) = j - i
           /\ i <= Len(s) /\ Len(s) <= j => Len(Slice(s, i, j)) = Len(s) - i
           /\ j <= i => Slice(s, i, j) = <<>>
           /\ Len(s) <= i => Slice(s, i, j) = <<>>
           /\ \A k \in 1 .. Len(Slice(s, i, j)) :
                 k + i \in 1 .. Len(s) /\ k + i <= j /\ Slice(s, i, j)[k] = s[k + i]
<1> DEFINE e == IF j > Len(s) THEN Len(s) ELSE j
<1>1. Slice(s, i, j) = SubSeq(s, i + 1, e)
  BY DEF Slice
<1>2. e \in Int /\ e <= Len(s) /\ e <= j /\ i + 1 \in Int /\ Len(s) \in Nat
  OBVIOUS
<1>3. \A k \in (i + 1) .. e : s[k] \in T
  BY <1>2, ElementOfSeq
<1>4. /\ SubSeq(s, i + 1, e) \in Seq(T)
      /\ Len(SubSeq(s, i + 1, e)) = IF i + 1 <= e THEN e - (i + 1) + 1 ELSE 0
      /\ \A k \in 1 .. e - (i + 1) + 1 : SubSeq(s, i + 1, e)[k] = s[i + 1 + k - 1]
  BY <1>2, <1>3, SubSeqProperties
<1> QED
  BY <1>1, <1>2, <1>4, EmptySeq

\* Its elements are those of the sequence, and as many as it says.
LEMMA SliceElements ==
    ASSUME NEW T, NEW s \in Seq(T), NEW i \in Nat, NEW j \in Int
    PROVE  \A k \in 1 .. Len(Slice(s, i, j)) : k + i \in 1 .. Len(s) /\ Slice(s, i, j)[k] = s[k + i]
  BY SlicePart

LEMMA SliceLength ==
    ASSUME NEW T, NEW s \in Seq(T), NEW i \in Nat, i <= Len(s)
    PROVE  Slice(s, i, Len(s)) \in Seq(T) /\ Len(Slice(s, i, Len(s))) = Len(s) - i
  BY SlicePart, LenProperties

\* What is left from an offset on.
LEMMA FromPart ==
    ASSUME NEW T, NEW s \in Seq(T), NEW i \in 0 .. Len(s)
    PROVE  /\ From(s, i) \in Seq(T)
           /\ Len(From(s, i)) = Len(s) - i
           /\ \A k \in 1 .. Len(From(s, i)) : From(s, i)[k] = s[k + i]
  BY SlicePart, LenProperties DEF From

\* Lines in reverse order are the same lines.
LEMMA ReverseProperties ==
    ASSUME NEW T, NEW s \in Seq(T)
    PROVE  /\ Reverse(s) \in Seq(T)
           /\ Len(Reverse(s)) = Len(s)
           /\ \A k \in 1 .. Len(s) : Reverse(s)[k] = s[Len(s) - k + 1]
  BY LenProperties, ElementOfSeq DEF Reverse

\* Without the blank lines at the top, lines are those from some offset on.
LEMMA TrimStartPart ==
    ASSUME NEW T, NEW s \in Seq(T)
    PROVE  /\ TrimStart(s) \in Seq(T)
           /\ Len(TrimStart(s)) <= Len(s)
           /\ \A k \in 1 .. Len(TrimStart(s)) :
                 TrimStart(s)[k] = s[k + (Len(s) - Len(TrimStart(s)))]
           /\ s # <<>> /\ ~Blank(s[1]) => TrimStart(s) = s
<1> DEFINE S == {k \in 0 .. Len(s) - 1 : ~Blank(At(s, k))}
           i == Min(S \cup {Len(s)})
<1>1. TrimStart(s) = From(s, i)
  BY DEF TrimStart, FirstFrom
<1>2. Len(s) \in Nat /\ S \in SUBSET (0 .. Len(s) - 1)
  BY LenProperties
<1>3. i \in 0 .. Len(s) /\ \A k \in S : i <= k
  <2> HIDE DEF S
  <2>1. /\ i \in Int /\ i <= Len(s)
        /\ 0 <= Len(s) => 0 <= i
        /\ \A k \in S : i <= k
    <3>1. 0 \in Int
      OBVIOUS
    <3> QED
      BY ONLY <1>2, <3>1, FirstOffset, Zenon DEF i
  <2> HIDE DEF i
  <2> QED
    BY <1>2, <2>1
<1>4. s # <<>> /\ ~Blank(s[1]) => i = 0
  <2> SUFFICES ASSUME s # <<>>, ~Blank(s[1]) PROVE i = 0
    OBVIOUS
  <2>1. 0 \in S
    BY LenProperties, EmptySeq DEF At
  <2> QED
    BY <1>3, <2>1
<1>5. From(s, 0) = s
  <2>1. From(s, 0) = SubSeq(s, 1, Len(s))
    BY DEF From, Slice
  <2> QED
    BY <2>1, SubSeqFull
<1> HIDE DEF i
<1>6. /\ From(s, i) \in Seq(T)
      /\ Len(From(s, i)) = Len(s) - i
      /\ \A k \in 1 .. Len(From(s, i)) : From(s, i)[k] = s[k + i]
  BY <1>3, FromPart
<1> QED
  BY <1>1, <1>2, <1>3, <1>4, <1>5, <1>6

\* Without those at the bottom, they are those up to some offset.
LEMMA TrimEndPart ==
    ASSUME NEW T, NEW s \in Seq(T)
    PROVE  /\ TrimEnd(s) \in Seq(T)
           /\ Len(TrimEnd(s)) <= Len(s)
           /\ \A k \in 1 .. Len(TrimEnd(s)) : TrimEnd(s)[k] = s[k]
<1> DEFINE r == Reverse(s)
           u == TrimStart(r)
<1>1. r \in Seq(T) /\ Len(r) = Len(s) /\ \A k \in 1 .. Len(s) : r[k] = s[Len(s) - k + 1]
  BY ReverseProperties
<1>2. /\ u \in Seq(T) /\ Len(u) <= Len(r)
      /\ \A k \in 1 .. Len(u) : u[k] = r[k + (Len(r) - Len(u))]
  BY <1>1, TrimStartPart
<1>3. /\ Reverse(u) \in Seq(T) /\ Len(Reverse(u)) = Len(u)
      /\ \A k \in 1 .. Len(u) : Reverse(u)[k] = u[Len(u) - k + 1]
  BY <1>2, ReverseProperties
<1>4. TrimEnd(s) = Reverse(u)
  BY DEF TrimEnd
<1>5. Len(s) \in Nat /\ Len(u) \in Nat
  BY <1>2, LenProperties
<1> HIDE DEF u
<1>6. ASSUME NEW k \in 1 .. Len(u) PROVE Reverse(u)[k] = s[k]
  <2>1. Len(u) - k + 1 \in 1 .. Len(u)
    BY <1>5
  <2>2. u[Len(u) - k + 1] = r[(Len(u) - k + 1) + (Len(r) - Len(u))]
    BY <1>2, <2>1
  <2>3. (Len(u) - k + 1) + (Len(r) - Len(u)) = Len(s) - k + 1
    BY <1>1, <1>5
  <2>4. Len(s) - k + 1 \in 1 .. Len(s) /\ Len(s) - (Len(s) - k + 1) + 1 = k
    BY <1>1, <1>2, <1>5
  <2>5. r[Len(s) - k + 1] = s[Len(s) - (Len(s) - k + 1) + 1]
    BY <1>1, <2>4
  <2> QED
    BY <1>3, <2>2, <2>3, <2>4, <2>5
<1> QED
  BY <1>1, <1>2, <1>3, <1>4, <1>6

-----------------------------------------------------------------------------
(* Lines without their marker, or moved to the left. *)

\* A line has a number, an indentation and marks.
LEMMA LineFields ==
    ASSUME NEW D, NEW line \in LineOf(D)
    PROVE  /\ line.n \in D /\ line.ind \in Nat /\ line.m \in Seq(MarkType)
           /\ line = [n |-> line.n, ind |-> line.ind, m |-> line.m]
  BY DEF LineOf

\* What follows the first mark of a line is a line with the same number.
LEMMA BehindLine ==
    ASSUME NEW D, NEW line \in LineOf(D)
    PROVE  Behind(line) \in LineOf(D) /\ Behind(line).n = line.n
<1>1. CASE Blank(line)
  BY <1>1 DEF Behind
<1>2. CASE ~Blank(line)
  <2>1. Tail(line.m) \in Seq(MarkType)
    BY <1>2, LineFields, HeadTailProperties DEF Blank
  <2>2. Behind(line) = [line EXCEPT !.ind = 0, !.m = Tail(line.m)]
    BY <1>2 DEF Behind
  <2>3. [line EXCEPT !.ind = 0, !.m = Tail(line.m)] \in LineOf(D)
    BY <2>1 DEF LineOf
  <2>4. [line EXCEPT !.ind = 0, !.m = Tail(line.m)].n = line.n
    BY DEF LineOf
  <2> QED
    BY <2>2, <2>3, <2>4
<1> QED
  BY <1>1, <1>2

\* A line that loses indentation keeps its number.
LEMMA DedentedLine ==
    ASSUME NEW D, NEW line \in LineOf(D), NEW by \in Nat
    PROVE  Dedent(line, by) \in LineOf(D) /\ Dedent(line, by).n = line.n
  BY LineFields DEF Dedent, LineOf

\* So do all lines of a block.
LEMMA DedentedLines ==
    ASSUME NEW D, NEW s \in LinesOf(D), NEW by \in Nat
    PROVE  /\ DedentAll(s, by) \in LinesOf(D)
           /\ Len(DedentAll(s, by)) = Len(s)
           /\ \A k \in 1 .. Len(s) : DedentAll(s, by)[k].n = s[k].n
<1>1. DOMAIN s = 1 .. Len(s) /\ Len(s) \in Nat /\ \A k \in 1 .. Len(s) : s[k] \in LineOf(D)
  BY LenProperties, ElementOfSeq DEF LinesOf
<1>2. \A k \in 1 .. Len(s) : Dedent(s[k], by) \in LineOf(D) /\ Dedent(s[k], by).n = s[k].n
  BY <1>1, DedentedLine
<1> QED
  BY <1>1, <1>2 DEF DedentAll, LinesOf

\* The indentation of a block is a number.
LEMMA IndentationIsNat ==
    ASSUME NEW D, NEW s \in LinesOf(D)
    PROVE  Indentation(s) \in Nat
<1> DEFINE indents == {s[i].ind : i \in {k \in DOMAIN s : ~Blank(s[k])}}
<1>1. indents \subseteq Nat
  BY LenProperties, ElementOfSeq, LineFields DEF LinesOf
<1>2. CASE indents = {}
  BY <1>2 DEF Indentation
<1>3. CASE indents # {}
  <2> HIDE DEF indents
  <2>1. Min(indents) \in indents
    <3>1. 0 \in Int /\ indents \in SUBSET Int /\ \A x \in indents : x >= 0
      BY <1>1
    <3> QED
      BY ONLY <1>3, <3>1, LeastOf, Zenon
  <2>2. Indentation(s) = Min(indents)
    BY <1>3 DEF Indentation, indents
  <2> QED
    BY <1>1, <2>1, <2>2
<1> QED
  BY <1>2, <1>3

\* The lines behind a marker, and those of the block that follow it.
Marked(s, start, end, by) == <<Behind(At(s, start))>> \o DedentAll(Slice(s, start + 1, end), by)

\* The block behind a marker: its first line keeps its number.
LEMMA MarkedBlock ==
    ASSUME NEW D, NEW s \in LinesOf(D), NEW start \in Nat, NEW end \in Int, NEW by \in Nat,
           start < end, end <= Len(s)
    PROVE  /\ Marked(s, start, end, by) \in LinesOf(D)
           /\ Len(Marked(s, start, end, by)) = end - start
           /\ \A k \in 1 .. end - start : Marked(s, start, end, by)[k].n = s[start + k].n
<1> DEFINE first == Behind(At(s, start))
           part  == Slice(s, start + 1, end)
           rest  == DedentAll(part, by)
           block == Marked(s, start, end, by)
<1>1. start + 1 \in 1 .. Len(s) /\ Len(s) \in Nat
  BY LenProperties DEF LinesOf
<1>2. first \in LineOf(D) /\ first.n = s[start + 1].n
  BY <1>1, ElementOfSeq, BehindLine DEF LinesOf, At
<1>3. /\ part \in LinesOf(D)
      /\ Len(part) = end - (start + 1)
      /\ \A k \in 1 .. end - (start + 1) : part[k] = s[k + (start + 1)]
  BY <1>1, SlicePart DEF LinesOf
<1>4. /\ rest \in LinesOf(D) /\ Len(rest) = end - (start + 1)
      /\ \A k \in 1 .. end - (start + 1) : rest[k].n = s[k + (start + 1)].n
  <2> HIDE DEF part
  <2>1. /\ rest \in LinesOf(D) /\ Len(rest) = Len(part)
        /\ \A k \in 1 .. Len(part) : rest[k].n = part[k].n
    BY <1>3, DedentedLines
  <2> HIDE DEF rest
  <2> QED
    BY <1>3, <2>1
<1>5. block = <<first>> \o rest
  BY DEF Marked
<1> HIDE DEF first, rest, block
<1> DEFINE one == <<first>>
<1>6. one \in Seq(LineOf(D)) /\ Len(one) = 1 /\ one[1] = first
  BY <1>2
<1> HIDE DEF one
<1>7. /\ block \in LinesOf(D)
      /\ Len(block) = 1 + Len(rest)
      /\ \A k \in 1 .. 1 + Len(rest) : block[k] = IF k <= 1 THEN one[k] ELSE rest[k - 1]
  <2>1. block = one \o rest
    BY <1>5 DEF one
  <2> DEFINE both == one \o rest
  <2>2. /\ both \in Seq(LineOf(D))
        /\ Len(both) = Len(one) + Len(rest)
        /\ \A k \in 1 .. Len(one) + Len(rest) :
              both[k] = IF k <= Len(one) THEN one[k] ELSE rest[k - Len(one)]
    BY <1>4, <1>6, ConcatProperties DEF LinesOf
  <2> HIDE DEF both
  <2>3. block = both
    BY <2>1 DEF both
  <2> QED
    BY <1>6, <2>2, <2>3 DEF LinesOf
<1>8. ASSUME NEW k \in 1 .. end - start PROVE block[k].n = s[start + k].n
  <2>1. k \in 1 .. 1 + Len(rest) /\ (k = 1 \/ k > 1)
    BY <1>4
  <2>2. CASE k = 1
    BY <1>2, <1>6, <1>7, <2>1, <2>2
  <2>3. CASE k > 1
    <3>1. k - 1 \in 1 .. end - (start + 1) /\ (k - 1) + (start + 1) = start + k
      BY <1>4, <2>3
    <3>2. block[k] = rest[k - 1]
      BY <1>7, <2>1, <2>3
    <3> QED
      BY <1>4, <3>1, <3>2
  <2> QED
    BY <2>1, <2>2, <2>3
<1> QED
  BY <1>4, <1>7, <1>8 DEF block

-----------------------------------------------------------------------------
(* Indented blocks. *)

Modes == {"unknown", "first", "known"}

\* The lines of a block up to a given end, and the last line that it takes.
LEMMA IndentedToPart ==
    ASSUME NEW D, NEW s \in LinesOf(D), NEW start \in Nat, NEW mode \in Modes,
           NEW known \in Nat, NEW end \in Int, end <= Len(s),
           start <= Len(s) => start <= end,
           mode # "unknown" => start < end
    PROVE  LET b == IndentedTo(s, start, mode, known, end)
           IN  /\ b = [lines |-> b.lines, last |-> b.last, finish |-> b.finish]
               /\ b.finish \in BOOLEAN
               /\ b.lines \in LinesOf(D)
               /\ Len(b.lines) = IF start < end THEN end - start ELSE 0
               /\ \A k \in 1 .. Len(b.lines) : b.lines[k].n = s[start + k].n
               /\ b.last \in Int /\ b.last >= start
               /\ start < Len(s) => b.last < Len(s)
               /\ b.last = IF end > start THEN end - 1 ELSE start
<1> DEFINE b == IndentedTo(s, start, mode, known, end)
           part == Slice(s, start, end)
           rest == Slice(s, start + 1, end)
<1>1. Len(s) \in Nat
  BY LenProperties DEF LinesOf
<1>2. /\ part \in LinesOf(D)
      /\ Len(part) = IF start < end THEN end - start ELSE 0
      /\ \A k \in 1 .. Len(part) : part[k] = s[k + start]
  BY <1>1, SlicePart, EmptySeq DEF LinesOf
<1>3. rest \in LinesOf(D)
  BY SlicePart DEF LinesOf
<1>4. Indentation(part) \in Nat /\ Indentation(rest) \in Nat
  BY <1>2, <1>3, IndentationIsNat
<1>5. /\ b.lines \in LinesOf(D)
      /\ Len(b.lines) = IF start < end THEN end - start ELSE 0
      /\ \A k \in 1 .. Len(b.lines) : b.lines[k].n = s[start + k].n
  <2>1. CASE mode = "unknown"
    <3>1. b.lines = DedentAll(part, Indentation(part))
      BY <2>1 DEF IndentedTo
    <3>2. /\ DedentAll(part, Indentation(part)) \in LinesOf(D)
          /\ Len(DedentAll(part, Indentation(part))) = Len(part)
          /\ \A k \in 1 .. Len(part) : DedentAll(part, Indentation(part))[k].n = part[k].n
      BY <1>2, <1>4, DedentedLines
    <3> HIDE DEF b, part
    <3> QED
      BY <1>2, <3>1, <3>2
  <2>2. CASE mode # "unknown"
    <3>1. PICK by \in Nat : b.lines = Marked(s, start, end, by)
      BY <1>4, <2>2 DEF IndentedTo, Modes, Marked
    <3> HIDE DEF b
    <3>2. start < end
      BY <2>2
    <3>3. /\ Marked(s, start, end, by) \in LinesOf(D)
          /\ Len(Marked(s, start, end, by)) = end - start
          /\ \A k \in 1 .. end - start : Marked(s, start, end, by)[k].n = s[start + k].n
      BY <3>2, MarkedBlock
    <3> QED
      BY <3>1, <3>2, <3>3
  <2> QED
    BY <2>1, <2>2
<1>6. /\ b.last = IF end > start THEN end - 1 ELSE start
      /\ b.finish \in BOOLEAN
      /\ b = [lines |-> b.lines, last |-> b.last, finish |-> b.finish]
  BY DEF IndentedTo
<1> HIDE DEF b
<1>7. /\ b.last \in Int /\ b.last >= start
      /\ start < Len(s) => b.last < Len(s)
  BY <1>1, <1>6
<1> QED
  BY <1>5, <1>6, <1>7 DEF b

\* The end of a block is within the lines, and behind the line with the marker.
LEMMA IndentedEndRange ==
    ASSUME NEW D, NEW s \in LinesOf(D), NEW start \in Nat, NEW mode \in Modes,
           NEW known \in Nat, NEW untilBlank,
           mode # "unknown" => start < Len(s)
    PROVE  LET end == IndentedEnd(s, start, mode, known, untilBlank)
           IN  /\ end \in Int /\ end <= Len(s)
               /\ start <= Len(s) => start <= end
               /\ mode # "unknown" => start < end
<1> DEFINE from == IF mode = "unknown" THEN start ELSE start + 1
           S == {k \in from .. Len(s) - 1 : \/ Outside(At(s, k), known)
                                            \/ (untilBlank /\ Blank(At(s, k)))}
           end == Min(S \cup {Len(s)})
<1>1. Len(s) \in Nat /\ from \in Int /\ S \in SUBSET (from .. Len(s) - 1)
  BY LenProperties DEF LinesOf
<1>2. IndentedEnd(s, start, mode, known, untilBlank) = end
  BY DEF IndentedEnd, FirstFrom
<1>3. /\ mode # "unknown" => from = start + 1
      /\ mode = "unknown" => from = start
  OBVIOUS
<1> HIDE DEF from, S
<1>4. end \in Int /\ end <= Len(s) /\ (from <= Len(s) => from <= end)
  BY ONLY <1>1, FirstOffset, Zenon DEF end
<1> HIDE DEF end
<1> QED
  BY <1>1, <1>2, <1>3, <1>4

\* The width of a marker is a number.
LEMMA KnownIsNat ==
    ASSUME NEW D, NEW s \in LinesOf(D), NEW start \in Nat, start < Len(s), ~Blank(At(s, start))
    PROVE  Head(At(s, start).m).w \in Nat
<1>1. start + 1 \in 1 .. Len(s)
  BY LenProperties DEF LinesOf
<1>2. s[start + 1].m \in Seq(MarkType) /\ s[start + 1].m # <<>>
  BY <1>1, ElementOfSeq, LineFields DEF LinesOf, At, Blank
<1>3. Head(s[start + 1].m) \in MarkType
  BY <1>2, HeadTailProperties
<1> QED
  BY <1>3 DEF At, MarkType

\* An indented block is part of the lines, and counts on from its first.
LEMMA GetIndentedPart ==
    ASSUME NEW D, NEW s \in LinesOf(D), NEW start \in Nat, NEW mode \in Modes, NEW untilBlank,
           mode # "unknown" => start < Len(s),
           mode = "known" => ~Blank(At(s, start))
    PROVE  LET b == GetIndented(s, start, mode, untilBlank)
           IN  /\ b = [lines |-> b.lines, last |-> b.last, finish |-> b.finish]
               /\ b.finish \in BOOLEAN
               /\ b.lines \in LinesOf(D)
               /\ Len(b.lines) = 0 \/ start + Len(b.lines) <= Len(s)
               /\ \A k \in 1 .. Len(b.lines) : b.lines[k].n = s[start + k].n
               /\ b.last \in Int /\ b.last >= start
               /\ start < Len(s) => b.last < Len(s)
<1> DEFINE known == IF mode = "known" THEN Head(At(s, start).m).w ELSE 0
           end == IndentedEnd(s, start, mode, known, untilBlank)
           b == IndentedTo(s, start, mode, known, end)
<1>1. GetIndented(s, start, mode, untilBlank) = b
  BY DEF GetIndented
<1>2. known \in Nat /\ Len(s) \in Nat
  BY KnownIsNat, LenProperties DEF LinesOf
<1> HIDE DEF known
<1>3. /\ end \in Int /\ end <= Len(s)
      /\ start <= Len(s) => start <= end
      /\ mode # "unknown" => start < end
  BY <1>2, IndentedEndRange
<1> HIDE DEF end
<1>4. /\ b = [lines |-> b.lines, last |-> b.last, finish |-> b.finish]
      /\ b.finish \in BOOLEAN
      /\ b.lines \in LinesOf(D)
      /\ Len(b.lines) = IF start < end THEN end - start ELSE 0
      /\ \A k \in 1 .. Len(b.lines) : b.lines[k].n = s[start + k].n
      /\ b.last \in Int /\ b.last >= start
      /\ start < Len(s) => b.last < Len(s)
  BY <1>2, <1>3, IndentedToPart
<1> HIDE DEF b
<1>5. Len(b.lines) = 0 \/ start + Len(b.lines) <= Len(s)
  BY <1>2, <1>3, <1>4
<1> QED
  BY <1>1, <1>4, <1>5

\* A block without the blank lines at its top starts where its offset says.
LEMMA IndentedBlockPart ==
    ASSUME NEW D, NEW s \in LinesOf(D), NEW start \in Nat, NEW base \in Int,
           NEW mode \in Modes, NEW untilBlank,
           mode # "unknown" => start < Len(s),
           mode = "known" => ~Blank(At(s, start))
    PROVE  LET b == IndentedBlock(s, start, base, mode, untilBlank)
           IN  /\ b.finish \in BOOLEAN
               /\ b.lines \in LinesOf(D)
               /\ b.off \in Int
               /\ InStep(s, base) => InStep(b.lines, b.off)
               /\ b.last \in Int /\ b.last >= start
               /\ start < Len(s) => b.last < Len(s)
<1> DEFINE got == GetIndented(s, start, mode, untilBlank)
           b == IndentedBlock(s, start, base, mode, untilBlank)
           t == TrimStart(got.lines)
<1>1. /\ got = [lines |-> got.lines, last |-> got.last, finish |-> got.finish]
      /\ got.finish \in BOOLEAN
      /\ got.lines \in LinesOf(D)
      /\ Len(got.lines) = 0 \/ start + Len(got.lines) <= Len(s)
      /\ \A k \in 1 .. Len(got.lines) : got.lines[k].n = s[start + k].n
      /\ got.last \in Int /\ got.last >= start
      /\ start < Len(s) => got.last < Len(s)
  BY GetIndentedPart
<1>2. /\ b.lines = t /\ b.last = got.last /\ b.finish = got.finish
      /\ b.off = (base + start) + Len(got.lines) - Len(t)
  BY DEF IndentedBlock, Trimmed
<1> HIDE DEF b
<1>3. /\ t \in LinesOf(D) /\ Len(t) <= Len(got.lines)
      /\ \A k \in 1 .. Len(t) : t[k] = got.lines[k + (Len(got.lines) - Len(t))]
  BY <1>1, TrimStartPart DEF LinesOf
<1>4. Len(t) \in Nat /\ Len(got.lines) \in Nat /\ Len(s) \in Nat /\ DOMAIN t = 1 .. Len(t)
      /\ DOMAIN s = 1 .. Len(s)
  BY <1>1, <1>3, LenProperties DEF LinesOf
<1> HIDE DEF t, got
<1>5. ASSUME InStep(s, base), NEW k \in 1 .. Len(t)
      PROVE  t[k].n = ((base + start) + Len(got.lines) - Len(t)) + k
  <2> DEFINE j == k + (Len(got.lines) - Len(t))
  <2>1. j \in 1 .. Len(got.lines)
    BY <1>3, <1>4
  <2>2. t[k] = got.lines[j]
    BY <1>3
  <2>3. got.lines[j].n = s[start + j].n
    BY <1>1, <2>1
  <2>4. start + j \in 1 .. Len(s)
    BY <1>1, <1>3, <1>4, <2>1
  <2>5. s[start + j].n = base + (start + j)
    BY <1>4, <1>5, <2>4 DEF InStep
  <2> QED
    BY <1>3, <1>4, <2>2, <2>3, <2>5
<1>6. InStep(s, base) => InStep(b.lines, b.off)
  BY <1>2, <1>4, <1>5 DEF InStep
<1> QED
  BY <1>1, <1>2, <1>3, <1>4, <1>6 DEF b

-----------------------------------------------------------------------------
(* Blocks of text, numbers, and what is numbered as in the file. *)

\* A block of text ends within the lines.
LEMMA TextBlockRange ==
    ASSUME NEW D, NEW s \in LinesOf(D), NEW start \in Int, NEW flush
    PROVE  /\ TextBlockEnd(s, start, flush) \in Int
           /\ TextBlockEnd(s, start, flush) <= Len(s)
           /\ start <= Len(s) => start <= TextBlockEnd(s, start, flush)
<1> DEFINE S == {k \in start .. Len(s) - 1 : \/ Blank(At(s, k))
                                             \/ (flush /\ At(s, k).ind > 0)}
<1>1. Len(s) \in Nat /\ S \in SUBSET (start .. Len(s) - 1)
  BY LenProperties DEF LinesOf
<1>2. TextBlockEnd(s, start, flush) = Min(S \cup {Len(s)})
  BY DEF TextBlockEnd, FirstFrom
<1> HIDE DEF S
<1>3. /\ Min(S \cup {Len(s)}) \in Int /\ Min(S \cup {Len(s)}) <= Len(s)
      /\ start <= Len(s) => start <= Min(S \cup {Len(s)})
  BY <1>1, FirstOffset, Zenon
<1> QED
  BY <1>2, <1>3, Zenon

\* Lines of the file are numbered as in the file.
LEMMA NumbersInFile ==
    ASSUME NEW D, NEW s \in LinesOf(D)
    PROVE  NumbersOf(s) \subseteq D
  BY LenProperties, ElementOfSeq, LineFields DEF LinesOf, NumbersOf

\* A slice of lines that count in step does so from its own first line on.
LEMMA SliceInStep ==
    ASSUME NEW T, NEW s \in Seq(T), NEW i \in Nat, NEW j \in Int, NEW base \in Int,
           InStep(s, base)
    PROVE  InStep(Slice(s, i, j), base + i)
<1>1. /\ Slice(s, i, j) \in Seq(T)
      /\ \A k \in 1 .. Len(Slice(s, i, j)) :
            k + i \in 1 .. Len(s) /\ Slice(s, i, j)[k] = s[k + i]
  BY SlicePart
<1>2. DOMAIN s = 1 .. Len(s) /\ DOMAIN Slice(s, i, j) = 1 .. Len(Slice(s, i, j))
      /\ Len(Slice(s, i, j)) \in Nat
  BY <1>1, LenProperties
<1>3. ASSUME NEW k \in DOMAIN Slice(s, i, j)
      PROVE  Slice(s, i, j)[k].n = (base + i) + k
  <2>1. k \in Nat /\ k + i \in DOMAIN s /\ Slice(s, i, j)[k] = s[k + i]
    BY <1>1, <1>2, <1>3
  <2>2. s[k + i].n = base + (k + i)
    BY <2>1 DEF InStep
  <2>3. base + (k + i) = (base + i) + k
    BY <2>1
  <2> QED
    BY <2>1, <2>2, <2>3, Zenon
<1> QED
  BY <1>3 DEF InStep

\* So do the lines from an offset on.
LEMMA FromInStep ==
    ASSUME NEW T, NEW s \in Seq(T), NEW i \in Nat, NEW base \in Int
    PROVE  /\ From(s, i) \in Seq(T)
           /\ InStep(s, base) => InStep(From(s, i), base + i)
<1>1. Len(s) \in Int
  BY LenProperties
<1> QED
  BY <1>1, SlicePart, SliceInStep DEF From

-----------------------------------------------------------------------------
(* What is true of a machine, of two, and of the innermost one. *)

MachineFields == {"state", "lines", "base", "off", "only", "ctx", "phase", "titles", "finish",
                  "node", "list", "eofcheck", "then"}
ThenFields == {"k", "finish", "state", "list", "node", "of", "level", "next"}

\* n is the number of nodes made so far, D numbers the lines of the document.
ThenOK(t, n, D) ==
    /\ DOMAIN t = ThenFields
    /\ t.node \in 0 .. n
    /\ t.of \subseteq D
    /\ t.level \in Int
    /\ t.k = "first" => t.state \in States \ TextStates
    /\ t.k = "section" => t.level \in Nat
    /\ t.k = "argument" => t.next[1] \in LinesOf(D)

FrameOK(f, n, D) ==
    /\ DOMAIN f = MachineFields
    /\ f.state \in States
    /\ f.phase \in {"run", "eof", "over"}
    /\ f.lines \in LinesOf(D) /\ f.ctx \in LinesOf(D)
    /\ f.base \in Int /\ f.off \in Int /\ f.off >= -1
    /\ f.only \in {"", "text"}
    /\ f.node \in 0 .. n
    /\ f.eofcheck \in BOOLEAN
    /\ f.state \in TextStates => Len(f.ctx) <= 1
    /\ ThenOK(f.then, n, D)

\* What a machine numbers, and whether it does so as the file.
Counted(f) == InStep(f.lines, f.base)
Exempt(f)  == f.then.k = "argument" \/ OptionsCut(f)

\* Machine f waits for g, which it has started.
LinkOK(f, g) ==
    /\ f.phase = "run"
    /\ g.then.k # "root"
    /\ Counted(f) => Counted(g) \/ Exempt(g)
    /\ g.then.k = "argument" /\ Counted(f) => InStep(g.then.next[1], g.then.level)
    /\ g.then.k \in {"section", "list"} => g.base = f.base + f.off + 1
    /\ g.then.k \in {"replace", "substitution"} => f.node < g.then.node
    /\ IF g.then.k = "section"
       THEN /\ f.state \in {"Text", "Line"} /\ f.off >= 1
            /\ Len(f.ctx) = IF f.state = "Text" THEN 0 ELSE 1
       ELSE f.state \notin TextStates

\* Machine f is the innermost one.
TopOK(f, bubble) ==
    /\ f.phase = "run" /\ f.state \in TextStates => f.off >= 0 /\ Len(f.ctx) = 1
    /\ f.phase = "eof" =>
          \/ f.state = "Text" /\ (f.ctx # <<>> => f.off >= 0)
          \/ f.state = "Definition" /\ f.off >= 1
          \/ f.state = "Line" /\ Len(f.ctx) = 1 /\ (~bubble => f.off >= 1)
    /\ bubble => f.phase = "eof" /\ f.state = "Line"

IsSeq(s) == s \in Seq(Range(s))

StackOK(s, n, D) ==
    /\ IsSeq(s)
    /\ \A i \in 1 .. Len(s) : FrameOK(s[i], n, D)
    /\ \A i \in 2 .. Len(s) : LinkOK(s[i - 1], s[i])
    /\ s # <<>> => s[1].then.k = "root" /\ Counted(s[1])

\* How many machines have pushed a lowest section level.
Pushes(f) == f.then.k = "directive" /\ f.then.level = 1
Pushers(s) == Cardinality({i \in 1 .. Len(s) : Pushes(s[i])})

\* Nodes that are made when there are n already.
NodeOK(x, D) == DOMAIN x = {"kind", "up", "of"} /\ x.up \in Nat /\ x.of \subseteq D
NodesOK(nodes, n, D) ==
    IsSeq(nodes) /\ \A j \in 1 .. Len(nodes) : NodeOK(nodes[j], D) /\ nodes[j].up < n + j
TreeOK(t, D) == NodesOK(t, 0, D)

Style == [c : STRING, over : BOOLEAN]
MemoType == [styles : Seq(Style), level : Nat, bubble : BOOLEAN, minimum : Seq(Int)]
MemoOK(m, pushers) ==
    /\ m \in MemoType
    /\ m.level <= Len(m.styles)
    /\ Len(m.minimum) = 1 + pushers /\ m.minimum[1] = 0

Stack ==
    /\ doc = <<>> => frames = <<>> /\ error = NoError
    /\ StackOK(frames, Len(tree), DOMAIN doc)
    /\ IF frames = <<>> THEN error = NoError => ~memo.bubble ELSE TopOK(Last(frames), memo.bubble)
    /\ TreeOK(tree, DOMAIN doc)
    /\ memo \in MemoType /\ memo.level <= Len(memo.styles)
    /\ error = NoError => MemoOK(memo, Pushers(frames))
    /\ cache \in Seq(BOOLEAN)
    /\ error \in {NoError, "ParserError", "IndexError"} /\ (error # NoError => frames = <<>>)
    /\ dropped \subseteq DOMAIN doc

-----------------------------------------------------------------------------
(* The stack when its top changes. *)

Put(s, m, f)     == SubSeq(s, 1, m - 1) \o <<f>>
Start(s, m, f, g) == SubSeq(s, 1, m - 1) \o <<f, g>>

\* The first machines of a stack.
LEMMA CutSeq ==
    ASSUME NEW s, IsSeq(s), NEW m \in 0 .. Len(s)
    PROVE  /\ IsSeq(SubSeq(s, 1, m)) /\ Len(SubSeq(s, 1, m)) = m /\ Len(s) \in Nat
           /\ \A i \in 1 .. m : SubSeq(s, 1, m)[i] = s[i]
<1> DEFINE t == SubSeq(s, 1, m)
<1>1. Len(s) \in Nat /\ \A i \in 1 .. m : s[i] \in Range(s)
  BY LenProperties, ElementOfSeq DEF IsSeq
<1>2. /\ t \in Seq(Range(s)) /\ Len(t) = IF 1 <= m THEN m - 1 + 1 ELSE 0
      /\ \A i \in 1 .. m - 1 + 1 : t[i] = s[1 + i - 1]
  BY <1>1, SubSeqProperties
<1> HIDE DEF t
<1>3. t \in Seq(Range(t))
  BY <1>2, SeqOfRange
<1>4. Len(t) = m /\ \A i \in 1 .. m : t[i] = s[i]
  BY <1>1, <1>2
<1> QED
  BY <1>1, <1>3, <1>4 DEF t, IsSeq

\* Two sequences one after the other.
LEMMA JoinSeq ==
    ASSUME NEW s, NEW t, IsSeq(s), IsSeq(t)
    PROVE  /\ IsSeq(s \o t) /\ Len(s \o t) = Len(s) + Len(t)
           /\ \A i \in 1 .. Len(s) + Len(t) :
                 (s \o t)[i] = IF i <= Len(s) THEN s[i] ELSE t[i - Len(s)]
<1> DEFINE T == Range(s) \cup Range(t)
           u == s \o t
<1>1. s \in Seq(T) /\ t \in Seq(T)
  BY SeqMonotonic DEF IsSeq
<1> HIDE DEF T
<1>2. /\ u \in Seq(T) /\ Len(u) = Len(s) + Len(t)
      /\ \A i \in 1 .. Len(s) + Len(t) : u[i] = IF i <= Len(s) THEN s[i] ELSE t[i - Len(s)]
  BY <1>1, ConcatProperties
<1> HIDE DEF u
<1>3. u \in Seq(Range(u))
  BY <1>2, SeqOfRange
<1> QED
  BY <1>2, <1>3 DEF u, IsSeq

\* A stack of one machine.
LEMMA OneSeq ==
    ASSUME NEW f
    PROVE  /\ IsSeq(<<f>>) /\ Len(<<f>>) = 1 /\ <<f>>[1] = f
<1>1. <<f>> \in Seq({f})
  OBVIOUS
<1> QED
  BY <1>1, SeqOfRange DEF IsSeq

\* A stack of two machines.
LEMMA TwoSeq ==
    ASSUME NEW f, NEW g
    PROVE  /\ IsSeq(<<f, g>>) /\ Len(<<f, g>>) = 2 /\ <<f, g>>[1] = f /\ <<f, g>>[2] = g
<1>1. <<f, g>> \in Seq({f, g})
  OBVIOUS
<1> QED
  BY <1>1, SeqOfRange DEF IsSeq

\* A stack whose machine m is replaced and is the last.
LEMMA PutSeq ==
    ASSUME NEW s, IsSeq(s), NEW m \in 1 .. Len(s), NEW f
    PROVE  /\ IsSeq(Put(s, m, f)) /\ Len(Put(s, m, f)) = m /\ Put(s, m, f)[m] = f
           /\ \A i \in 1 .. m - 1 : Put(s, m, f)[i] = s[i]
<1>1. Len(s) \in Nat
  BY LenProperties DEF IsSeq
<1> DEFINE a == SubSeq(s, 1, m - 1)
           b == <<f>>
<1>2. m - 1 \in 0 .. Len(s)
  BY <1>1
<1>3. IsSeq(a) /\ Len(a) = m - 1 /\ \A i \in 1 .. m - 1 : a[i] = s[i]
  BY <1>2, CutSeq
<1>4. IsSeq(b) /\ Len(b) = 1 /\ b[1] = f
  BY OneSeq
<1> HIDE DEF a, b
<1>5. /\ IsSeq(a \o b) /\ Len(a \o b) = Len(a) + Len(b)
      /\ \A i \in 1 .. Len(a) + Len(b) : (a \o b)[i] = IF i <= Len(a) THEN a[i] ELSE b[i - Len(a)]
  BY <1>3, <1>4, JoinSeq
<1> DEFINE c == a \o b
<1>6. Put(s, m, f) = c
  BY DEF Put, a, b
<1>7. /\ IsSeq(c) /\ Len(c) = Len(a) + Len(b)
      /\ \A i \in 1 .. Len(a) + Len(b) : c[i] = IF i <= Len(a) THEN a[i] ELSE b[i - Len(a)]
  BY <1>5
<1> HIDE DEF c
<1> QED
  BY <1>1, <1>3, <1>4, <1>6, <1>7

\* A stack whose machine m is replaced and has started another one.
LEMMA StartSeq ==
    ASSUME NEW s, IsSeq(s), NEW m \in 1 .. Len(s), NEW f, NEW g
    PROVE  /\ IsSeq(Start(s, m, f, g)) /\ Len(Start(s, m, f, g)) = m + 1
           /\ Start(s, m, f, g)[m] = f /\ Start(s, m, f, g)[m + 1] = g
           /\ \A i \in 1 .. m - 1 : Start(s, m, f, g)[i] = s[i]
<1>1. Len(s) \in Nat
  BY LenProperties DEF IsSeq
<1> DEFINE a == SubSeq(s, 1, m - 1)
           b == <<f, g>>
<1>2. m - 1 \in 0 .. Len(s)
  BY <1>1
<1>3. IsSeq(a) /\ Len(a) = m - 1 /\ \A i \in 1 .. m - 1 : a[i] = s[i]
  BY <1>2, CutSeq
<1>4. IsSeq(b) /\ Len(b) = 2 /\ b[1] = f /\ b[2] = g
  BY TwoSeq
<1> HIDE DEF a, b
<1> DEFINE c == a \o b
<1>5. Start(s, m, f, g) = c
  BY DEF Start, a, b
<1>6. /\ IsSeq(c) /\ Len(c) = Len(a) + Len(b)
      /\ \A i \in 1 .. Len(a) + Len(b) : c[i] = IF i <= Len(a) THEN a[i] ELSE b[i - Len(a)]
  BY <1>3, <1>4, JoinSeq
<1> HIDE DEF c
<1> QED
  BY <1>1, <1>3, <1>4, <1>5, <1>6

\* What a step does not change of a machine.
Keeps(f, g) == g.lines = f.lines /\ g.base = f.base /\ g.node = f.node /\ g.then = f.then

\* What holds of a machine does so when nodes are added.
LEMMA MoreNodes ==
    ASSUME NEW n \in Nat, NEW m \in Nat, n <= m, NEW D, NEW f, FrameOK(f, n, D)
    PROVE  FrameOK(f, m, D)
<1>1. \A i \in 0 .. n : i \in 0 .. m
  OBVIOUS
<1>2. ThenOK(f.then, m, D)
  BY <1>1, Zenon DEF FrameOK, ThenOK
<1> QED
  BY <1>1, <1>2, Zenon DEF FrameOK

\* What a machine was started with survives what its own steps change.
LEMMA LinkKept ==
    ASSUME NEW a, NEW f, NEW g, LinkOK(a, f), Keeps(f, g)
    PROVE  LinkOK(a, g)
  BY DEF LinkOK, Keeps, Counted, Exempt, OptionsCut

\* The machines that are left when others end make a stack.
LEMMA CutStack ==
    ASSUME NEW n \in Nat, NEW k \in Nat, n <= k, NEW D, NEW s, StackOK(s, n, D),
           NEW m \in 0 .. Len(s)
    PROVE  StackOK(SubSeq(s, 1, m), k, D)
<1> DEFINE t == SubSeq(s, 1, m)
<1>1. IsSeq(t) /\ Len(t) = m /\ Len(s) \in Nat /\ \A i \in 1 .. m : t[i] = s[i]
  BY CutSeq DEF StackOK
<1> HIDE DEF t
<1>2. \A i \in 1 .. m : FrameOK(t[i], k, D)
  BY <1>1, MoreNodes DEF StackOK
<1>3. \A i \in 2 .. m : LinkOK(t[i - 1], t[i])
  <2> TAKE i \in 2 .. m
  <2>1. i \in 2 .. Len(s) /\ t[i - 1] = s[i - 1] /\ t[i] = s[i]
    BY <1>1
  <2> QED
    BY <2>1 DEF StackOK
<1>4. t # <<>> => t[1] = s[1] /\ s # <<>>
  <2> HAVE t # <<>>
  <2>1. Len(t) # 0
    BY <1>1, EmptySeq DEF IsSeq
  <2>2. 1 \in 1 .. m
    BY <1>1, <2>1
  <2>3. s # <<>>
    BY <1>1, <2>2
  <2> QED
    BY <1>1, <2>2, <2>3
<1> QED
  BY <1>1, <1>2, <1>3, <1>4 DEF StackOK, t

\* So do they when the last one has made a step,
LEMMA PutStack ==
    ASSUME NEW n \in Nat, NEW k \in Nat, n <= k, NEW D, NEW s, StackOK(s, n, D),
           NEW m \in 1 .. Len(s), NEW f, FrameOK(f, k, D), Keeps(s[m], f)
    PROVE  StackOK(Put(s, m, f), k, D)
<1> DEFINE t == Put(s, m, f)
<1>1. /\ IsSeq(t) /\ Len(t) = m /\ t[m] = f
      /\ \A i \in 1 .. m - 1 : t[i] = s[i]
  BY PutSeq DEF StackOK
<1>2. Len(s) \in Nat
  BY LenProperties DEF StackOK, IsSeq
<1> HIDE DEF t
<1>3. \A i \in 1 .. m : FrameOK(t[i], k, D)
  <2> TAKE i \in 1 .. m
  <2>1. CASE i = m
    BY <1>1, <2>1
  <2>2. CASE i # m
    <3>1. i \in 1 .. m - 1 /\ i \in 1 .. Len(s)
      BY <1>2, <2>2
    <3> QED
      BY <1>1, <3>1, MoreNodes DEF StackOK
  <2> QED
    BY <2>1, <2>2
<1>4. \A i \in 2 .. m : LinkOK(t[i - 1], t[i])
  <2> TAKE i \in 2 .. m
  <2>1. i \in 2 .. Len(s) /\ i - 1 \in 1 .. m - 1
    BY <1>2
  <2>2. LinkOK(s[i - 1], s[i]) /\ t[i - 1] = s[i - 1]
    BY <1>1, <2>1 DEF StackOK
  <2>3. CASE i = m
    BY <1>1, <2>2, <2>3, LinkKept
  <2>4. CASE i # m
    <3>1. t[i] = s[i]
      BY <1>1, <2>4
    <3> QED
      BY <2>2, <3>1
  <2> QED
    BY <2>3, <2>4
<1>5. t[1].then.k = "root" /\ Counted(t[1])
  <2>1. s # <<>> /\ s[1].then.k = "root" /\ Counted(s[1])
    BY <1>2 DEF StackOK
  <2>2. CASE m = 1
    BY <1>1, <2>1, <2>2 DEF Keeps, Counted
  <2>3. CASE m # 1
    <3>1. t[1] = s[1]
      BY <1>1, <2>3
    <3> QED
      BY <2>1, <3>1
  <2> QED
    BY <2>2, <2>3
<1> QED
  BY <1>1, <1>3, <1>4, <1>5 DEF StackOK, t

\* and when it has started another one.
LEMMA StartStack ==
    ASSUME NEW n \in Nat, NEW k \in Nat, n <= k, NEW D, NEW s, StackOK(s, n, D),
           NEW m \in 1 .. Len(s), NEW f, FrameOK(f, k, D), Keeps(s[m], f),
           NEW g, FrameOK(g, k, D), LinkOK(f, g)
    PROVE  StackOK(Start(s, m, f, g), k, D)
<1> DEFINE t == Start(s, m, f, g)
           u == Put(s, m, f)
<1>1. /\ IsSeq(t) /\ Len(t) = m + 1 /\ t[m] = f /\ t[m + 1] = g
      /\ \A i \in 1 .. m - 1 : t[i] = s[i]
  BY StartSeq DEF StackOK
<1>2. /\ IsSeq(u) /\ Len(u) = m /\ u[m] = f
      /\ \A i \in 1 .. m - 1 : u[i] = s[i]
  BY PutSeq DEF StackOK
<1>3. StackOK(u, k, D)
  BY PutStack
<1>4. Len(s) \in Nat
  BY LenProperties DEF StackOK, IsSeq
<1> HIDE DEF t, u
<1>5. \A i \in 1 .. m : t[i] = u[i]
  BY <1>1, <1>2, <1>4
<1>6. \A i \in 1 .. m + 1 : FrameOK(t[i], k, D)
  <2> TAKE i \in 1 .. m + 1
  <2>1. i \in 1 .. m \/ i = m + 1
    BY <1>4
  <2> QED
    BY <1>1, <1>2, <1>3, <1>5, <2>1 DEF StackOK
<1>7. \A i \in 2 .. m + 1 : LinkOK(t[i - 1], t[i])
  <2> TAKE i \in 2 .. m + 1
  <2>1. CASE i = m + 1
    <3>1. i - 1 = m
      BY <1>4, <2>1
    <3> QED
      BY <1>1, <2>1, <3>1
  <2>2. CASE i # m + 1
    <3>1. i \in 2 .. m /\ i \in 1 .. m /\ i - 1 \in 1 .. m
      BY <1>4, <2>2
    <3>2. LinkOK(u[i - 1], u[i])
      BY <1>2, <1>3, <3>1 DEF StackOK
    <3> QED
      BY <1>5, <3>1, <3>2
  <2> QED
    BY <2>1, <2>2
<1>8. t[1].then.k = "root" /\ Counted(t[1])
  <2>1. 1 \in 1 .. m /\ u # <<>>
    BY <1>2, <1>4
  <2> QED
    BY <1>3, <1>5, <2>1 DEF StackOK
<1> QED
  BY <1>1, <1>6, <1>7, <1>8 DEF StackOK, t

-----------------------------------------------------------------------------
(* How many machines have pushed a lowest level. *)

\* The machines that pushed a level can be counted.
LEMMA PushersFinite ==
    ASSUME NEW s, NEW m \in Nat
    PROVE  /\ IsFiniteSet({i \in 1 .. m : Pushes(s[i])})
           /\ Cardinality({i \in 1 .. m : Pushes(s[i])}) \in Nat
<1>1. IsFiniteSet(1 .. m)
  BY FS_Interval
<1>2. {i \in 1 .. m : Pushes(s[i])} \in SUBSET (1 .. m)
  OBVIOUS
<1>3. IsFiniteSet({i \in 1 .. m : Pushes(s[i])})
  BY <1>1, <1>2, FS_Subset
<1> QED
  BY <1>3, FS_CardinalityType

\* One machine more.
LEMMA OnePusher ==
    ASSUME NEW s, NEW t, NEW m \in Nat, Len(s) = m, Len(t) = m + 1,
           \A i \in 1 .. m : Pushes(t[i]) <=> Pushes(s[i])
    PROVE  /\ Pushers(s) \in Nat
           /\ Pushers(t) = IF Pushes(t[m + 1]) THEN Pushers(s) + 1 ELSE Pushers(s)
<1> DEFINE A == {i \in 1 .. m : Pushes(s[i])}
           B == {i \in 1 .. m + 1 : Pushes(t[i])}
<1>1. IsFiniteSet(A) /\ Cardinality(A) \in Nat
  BY PushersFinite
<1>2. m + 1 \notin A /\ B = IF Pushes(t[m + 1]) THEN A \cup {m + 1} ELSE A
  OBVIOUS
<1>3. Pushers(s) = Cardinality(A) /\ Pushers(t) = Cardinality(B)
  BY DEF Pushers
<1> HIDE DEF A, B
<1>4. Cardinality(A \cup {m + 1}) = Cardinality(A) + 1
  BY <1>1, <1>2, FS_AddElement
<1> QED
  BY <1>1, <1>2, <1>3, <1>4

\* A step that keeps what machines were started for keeps their number.
LEMMA SamePushers ==
    ASSUME NEW s, NEW t, NEW m \in Nat, Len(s) = m, Len(t) = m,
           \A i \in 1 .. m : Pushes(t[i]) <=> Pushes(s[i])
    PROVE  Pushers(t) = Pushers(s)
<1>1. {i \in 1 .. m : Pushes(s[i])} = {i \in 1 .. m : Pushes(t[i])}
  OBVIOUS
<1> QED
  BY <1>1 DEF Pushers

\* The number when the last machine ends,
LEMMA CutPushers ==
    ASSUME NEW s, IsSeq(s), s # <<>>
    PROVE  /\ Pushers(SubSeq(s, 1, Len(s) - 1)) \in Nat
           /\ Pushers(s) = IF Pushes(s[Len(s)]) THEN Pushers(SubSeq(s, 1, Len(s) - 1)) + 1
                           ELSE Pushers(SubSeq(s, 1, Len(s) - 1))
<1> DEFINE m == Len(s) - 1
           t == SubSeq(s, 1, m)
<1>1. m \in Nat /\ Len(s) = m + 1 /\ m \in 0 .. Len(s)
  BY EmptySeq DEF IsSeq
<1>2. Len(t) = m /\ \A i \in 1 .. m : t[i] = s[i]
  BY <1>1, CutSeq
<1> HIDE DEF t, m
<1>3. /\ Pushers(t) \in Nat
      /\ Pushers(s) = IF Pushes(s[m + 1]) THEN Pushers(t) + 1 ELSE Pushers(t)
  BY <1>1, <1>2, OnePusher
<1> QED
  BY <1>1, <1>3 DEF t, m

\* when it makes a step,
LEMMA PutPushers ==
    ASSUME NEW s, IsSeq(s), NEW m \in 1 .. Len(s), NEW f, Keeps(s[m], f)
    PROVE  Pushers(Put(s, m, f)) = Pushers(SubSeq(s, 1, m))
<1> DEFINE t == Put(s, m, f)
           u == SubSeq(s, 1, m)
<1>1. Len(s) \in Nat /\ m \in 0 .. Len(s)
  BY LenProperties DEF IsSeq
<1>2. Len(t) = m /\ t[m] = f /\ \A i \in 1 .. m - 1 : t[i] = s[i]
  BY PutSeq
<1>3. Len(u) = m /\ \A i \in 1 .. m : u[i] = s[i]
  BY <1>1, CutSeq
<1> HIDE DEF t, u
<1>4. \A i \in 1 .. m : Pushes(t[i]) <=> Pushes(u[i])
  <2> TAKE i \in 1 .. m
  <2>1. CASE i = m
    BY <1>2, <1>3, <2>1 DEF Pushes, Keeps
  <2>2. CASE i # m
    <3>1. t[i] = s[i] /\ u[i] = s[i]
      BY <1>1, <1>2, <1>3, <2>2
    <3> QED
      BY <3>1
  <2> QED
    BY <2>1, <2>2
<1>5. Pushers(t) = Pushers(u)
  BY <1>1, <1>2, <1>3, <1>4, SamePushers
<1> QED
  BY <1>5 DEF t, u

\* and when it starts another one.
LEMMA StartPushers ==
    ASSUME NEW s, IsSeq(s), NEW m \in 1 .. Len(s), NEW f, Keeps(s[m], f), NEW g
    PROVE  /\ Pushers(SubSeq(s, 1, m)) \in Nat
           /\ Pushers(Start(s, m, f, g)) = IF Pushes(g) THEN Pushers(SubSeq(s, 1, m)) + 1
                                           ELSE Pushers(SubSeq(s, 1, m))
<1> DEFINE t == Start(s, m, f, g)
           u == SubSeq(s, 1, m)
<1>1. Len(s) \in Nat /\ m \in 0 .. Len(s) /\ m \in Nat
  BY LenProperties DEF IsSeq
<1>2. Len(t) = m + 1 /\ t[m] = f /\ t[m + 1] = g /\ \A i \in 1 .. m - 1 : t[i] = s[i]
  BY StartSeq
<1>3. Len(u) = m /\ \A i \in 1 .. m : u[i] = s[i]
  BY <1>1, CutSeq
<1> HIDE DEF t, u
<1>4. \A i \in 1 .. m : Pushes(t[i]) <=> Pushes(u[i])
  <2> TAKE i \in 1 .. m
  <2>1. CASE i = m
    BY <1>2, <1>3, <2>1 DEF Pushes, Keeps
  <2>2. CASE i # m
    <3>1. t[i] = s[i] /\ u[i] = s[i]
      BY <1>1, <1>2, <1>3, <2>2
    <3> QED
      BY <3>1
  <2> QED
    BY <2>1, <2>2
<1>5. /\ Pushers(u) \in Nat
      /\ Pushers(t) = IF Pushes(t[m + 1]) THEN Pushers(u) + 1 ELSE Pushers(u)
  BY <1>1, <1>2, <1>3, <1>4, OnePusher
<1> QED
  BY <1>2, <1>5 DEF t, u

-----------------------------------------------------------------------------
(* The nodes that a step makes. *)

\* A step may make no nodes.
LEMMA NoNodes ==
    ASSUME NEW n \in Nat, NEW D
    PROVE  NodesOK(<<>>, n, D) /\ Len(<<>>) = 0
<1>1. <<>> \in Seq(Range(<<>>))
  OBVIOUS
<1> QED
  BY <1>1 DEF NodesOK, IsSeq

\* A node is made below a node that is there.
LEMMA NewNode ==
    ASSUME NEW D, NEW kind, NEW up \in Nat, NEW of \in SUBSET D
    PROVE  NodeOK(Node(kind, up, of), D) /\ Node(kind, up, of).up = up
<1> DEFINE x == Node(kind, up, of)
<1>1. DOMAIN x = {"kind", "up", "of"} /\ x.of = of
  BY DEF Node
<1>2. x.up = up
  BY DEF Node
<1> HIDE DEF x
<1> QED
  BY <1>1, <1>2, Zenon DEF NodeOK, x

\* A step makes one node.
LEMMA OneNode ==
    ASSUME NEW n \in Nat, NEW D, NEW kind, NEW up \in 0 .. n, NEW of \in SUBSET D
    PROVE  NodesOK(<<Node(kind, up, of)>>, n, D) /\ Len(<<Node(kind, up, of)>>) = 1
<1>1. NodeOK(Node(kind, up, of), D) /\ Node(kind, up, of).up = up
  BY NewNode
<1> DEFINE x == Node(kind, up, of)
<1> HIDE DEF x
<1>2. IsSeq(<<x>>) /\ Len(<<x>>) = 1 /\ <<x>>[1] = x
  BY OneSeq
<1>3. \A j \in 1 .. 1 : NodeOK(<<x>>[j], D) /\ <<x>>[j].up < n + j
  BY <1>1, <1>2 DEF x
<1> QED
  BY <1>2, <1>3 DEF NodesOK, x

\* Nodes made one after the other.
LEMMA JoinNodes ==
    ASSUME NEW n \in Nat, NEW D, NEW a, NodesOK(a, n, D), NEW b, NodesOK(b, n + Len(a), D)
    PROVE  NodesOK(a \o b, n, D) /\ Len(a \o b) = Len(a) + Len(b)
<1> DEFINE c == a \o b
<1>1. Len(a) \in Nat /\ Len(b) \in Nat
  BY LenProperties DEF NodesOK, IsSeq
<1>2. /\ IsSeq(c) /\ Len(c) = Len(a) + Len(b)
      /\ \A i \in 1 .. Len(a) + Len(b) : c[i] = IF i <= Len(a) THEN a[i] ELSE b[i - Len(a)]
  BY JoinSeq DEF NodesOK
<1> HIDE DEF c
<1>3. ASSUME NEW j \in 1 .. Len(c) PROVE NodeOK(c[j], D) /\ c[j].up < n + j
  <2>1. CASE j <= Len(a)
    <3>1. j \in 1 .. Len(a) /\ c[j] = a[j]
      BY <1>1, <1>2, <2>1
    <3> QED
      BY <3>1 DEF NodesOK
  <2>2. CASE ~(j <= Len(a))
    <3>1. j - Len(a) \in 1 .. Len(b) /\ c[j] = b[j - Len(a)]
      BY <1>1, <1>2, <2>2
    <3>2. NodeOK(b[j - Len(a)], D) /\ b[j - Len(a)].up < (n + Len(a)) + (j - Len(a))
      BY <3>1 DEF NodesOK
    <3>3. (n + Len(a)) + (j - Len(a)) = n + j
      BY <1>1, <1>2
    <3> QED
      BY <3>1, <3>2, <3>3
  <2> QED
    BY <2>1, <2>2
<1> QED
  BY <1>2, <1>3 DEF NodesOK, c

\* The tree with the nodes of a step.
LEMMA GrownTree ==
    ASSUME NEW D, NEW t, TreeOK(t, D), NEW nodes, NodesOK(nodes, Len(t), D)
    PROVE  /\ TreeOK(t \o nodes, D)
           /\ Len(t \o nodes) = Len(t) + Len(nodes)
           /\ Len(t) \in Nat /\ Len(nodes) \in Nat
<1>1. NodesOK(t, 0, D) /\ Len(t) \in Nat /\ Len(nodes) \in Nat /\ 0 + Len(t) = Len(t)
  BY LenProperties DEF TreeOK, NodesOK, IsSeq
<1> DEFINE c == t \o nodes
<1>2. NodesOK(c, 0, D) /\ Len(c) = Len(t) + Len(nodes)
  BY <1>1, JoinNodes
<1> HIDE DEF c
<1> QED
  BY <1>1, <1>2 DEF c, TreeOK

\* The nodes can be counted.
LEMMA TreeLength ==
    ASSUME NEW D, NEW t, TreeOK(t, D)
    PROVE  Len(t) \in Nat
  BY LenProperties DEF TreeOK, NodesOK, IsSeq

-----------------------------------------------------------------------------
(* The shapes of a step. *)

\* The lowest section levels when machine m is on top, without and with another one.
LEMMA AfterOne ==
    ASSUME Stack, NEW m \in 1 .. Len(frames), NEW f, frames' = Put(frames, m, f),
           FrameOK(f, Len(tree'), DOMAIN doc), Keeps(frames[m], f), TopOK(f, memo'.bubble),
           doc' = doc, TreeOK(tree', DOMAIN doc), Len(tree) <= Len(tree'),
           memo' \in MemoType, memo'.level <= Len(memo'.styles), memo'.minimum[1] = 0,
           Len(memo'.minimum) = 1 + Pushers(SubSeq(frames, 1, m)),
           cache' \in Seq(BOOLEAN), error' = error, dropped' \subseteq DOMAIN doc
    PROVE  Stack'
<1>1. Len(tree) \in Nat /\ Len(tree') \in Nat
  BY TreeLength DEF Stack
<1>2. StackOK(frames', Len(tree'), DOMAIN doc)
  BY <1>1, PutStack DEF Stack
<1>3. Pushers(frames') = Pushers(SubSeq(frames, 1, m))
  BY PutPushers DEF Stack, StackOK
<1>4. Len(frames') = m /\ frames'[m] = f /\ m \in Nat \ {0}
  BY PutSeq, LenProperties DEF Stack, StackOK, IsSeq
<1>5. frames # <<>> /\ doc # <<>> /\ frames' # <<>> /\ Last(frames') = f
  BY <1>4, EmptySeq DEF Stack, Last
<1>6. error = NoError
  BY <1>5 DEF Stack
<1> QED
  BY <1>2, <1>3, <1>5, <1>6 DEF Stack, MemoOK

\* The same when that machine starts another one.
LEMMA AfterTwo ==
    ASSUME Stack, NEW m \in 1 .. Len(frames), NEW f, NEW g, frames' = Start(frames, m, f, g),
           FrameOK(f, Len(tree'), DOMAIN doc), Keeps(frames[m], f),
           FrameOK(g, Len(tree'), DOMAIN doc), LinkOK(f, g), TopOK(g, memo'.bubble),
           doc' = doc, TreeOK(tree', DOMAIN doc), Len(tree) <= Len(tree'),
           memo' \in MemoType, memo'.level <= Len(memo'.styles), memo'.minimum[1] = 0,
           Len(memo'.minimum) = IF Pushes(g) THEN 2 + Pushers(SubSeq(frames, 1, m))
                                ELSE 1 + Pushers(SubSeq(frames, 1, m)),
           cache' \in Seq(BOOLEAN), error' = error, dropped' \subseteq DOMAIN doc
    PROVE  Stack'
<1>1. Len(tree) \in Nat /\ Len(tree') \in Nat
  BY TreeLength DEF Stack
<1>2. StackOK(frames', Len(tree'), DOMAIN doc)
  BY <1>1, StartStack DEF Stack
<1>3. /\ Pushers(SubSeq(frames, 1, m)) \in Nat
      /\ Pushers(frames') = IF Pushes(g) THEN Pushers(SubSeq(frames, 1, m)) + 1
                            ELSE Pushers(SubSeq(frames, 1, m))
  BY StartPushers DEF Stack, StackOK
<1>4. Len(frames') = m + 1 /\ frames'[m + 1] = g /\ m \in Nat \ {0}
  BY StartSeq, LenProperties DEF Stack, StackOK, IsSeq
<1>5. frames # <<>> /\ doc # <<>> /\ frames' # <<>> /\ Last(frames') = g
  BY <1>4, EmptySeq DEF Stack, Last
<1>6. error = NoError
  BY <1>5 DEF Stack
<1>7. Len(memo'.minimum) = 1 + Pushers(frames')
  BY <1>3
<1> QED
  BY <1>2, <1>5, <1>6, <1>7 DEF Stack, MemoOK

\* Where the top of the stack and the machine below it are.
LEMMA Tops ==
    ASSUME Stack, frames # <<>>
    PROVE  /\ Len(frames) \in 1 .. Len(frames) /\ Len(frames) \in Nat
           /\ Top = frames[Len(frames)]
           /\ FrameOK(Top, Len(tree), DOMAIN doc) /\ TopOK(Top, memo.bubble)
           /\ Below = SubSeq(frames, 1, Len(frames) - 1)
           /\ IsSeq(Below)
           /\ SubSeq(frames, 1, Len(frames)) = frames
           /\ error = NoError /\ doc # <<>> /\ MemoOK(memo, Pushers(frames))
           /\ Pushers(frames) \in Nat
           /\ Pushers(frames) = IF Pushes(Top) THEN Pushers(Below) + 1 ELSE Pushers(Below)
           /\ Pushers(Below) \in Nat
           /\ Len(tree) \in Nat
<1>1. /\ Len(frames) \in 1 .. Len(frames) /\ Len(frames) \in Nat
      /\ SubSeq(frames, 1, Len(frames)) = frames
      /\ Len(tree) \in Nat
  BY EmptySeq, LenProperties, SubSeqFull, TreeLength DEF Stack, StackOK, IsSeq
<1>2. Top = frames[Len(frames)] /\ Last(frames) = Top /\ Below = SubSeq(frames, 1, Len(frames) - 1)
  BY DEF Top, Last, Below, Front
<1>3. FrameOK(Top, Len(tree), DOMAIN doc) /\ TopOK(Top, memo.bubble)
  BY <1>1, <1>2 DEF Stack, StackOK
<1>4. error = NoError /\ doc # <<>> /\ MemoOK(memo, Pushers(frames))
  BY DEF Stack
<1>5. IsSeq(Below)
  <2>1. Len(frames) - 1 \in 0 .. Len(frames)
    BY <1>1
  <2> QED
    BY <1>2, <2>1, CutSeq DEF Stack, StackOK
<1>6. /\ Pushers(Below) \in Nat
      /\ Pushers(frames) = IF Pushes(Top) THEN Pushers(Below) + 1 ELSE Pushers(Below)
  BY <1>2, CutPushers DEF Stack, StackOK
<1> QED
  BY <1>1, <1>2, <1>3, <1>4, <1>5, <1>6

\* Append, as a concatenation.
LEMMA AppendIsPut ==
    ASSUME NEW s, IsSeq(s), NEW f
    PROVE  Append(s, f) = s \o <<f>>
<1>1. s \in Seq(Range(s) \cup {f})
  BY SeqMonotonic DEF IsSeq
<1> QED
  BY <1>1, AppendIsConcat

\* The machine on top goes on.
LEMMA Going ==
    ASSUME Stack, frames # <<>>, NEW f, NEW nodes, Goes(f, nodes),
           FrameOK(f, Len(tree), DOMAIN doc), Keeps(Top, f), TopOK(f, memo'.bubble),
           NodesOK(nodes, Len(tree), DOMAIN doc),
           doc' = doc, memo' \in MemoType, memo'.level <= Len(memo'.styles),
           memo'.minimum = memo.minimum,
           cache' \in Seq(BOOLEAN), error' = error, dropped' \subseteq DOMAIN doc
    PROVE  Stack'
<1> DEFINE m == Len(frames)
<1>1. frames' = Put(frames, m, f)
  BY Tops, AppendIsPut, Zenon DEF Goes, Put
<1>2. /\ TreeOK(tree', DOMAIN doc) /\ Len(tree) <= Len(tree')
      /\ FrameOK(f, Len(tree'), DOMAIN doc)
  <2>1. /\ TreeOK(tree', DOMAIN doc) /\ Len(tree') = Len(tree) + Len(nodes)
        /\ Len(tree) \in Nat /\ Len(nodes) \in Nat
    BY GrownTree DEF Stack, Goes
  <2>2. Len(tree) <= Len(tree') /\ Len(tree') \in Nat
    BY <2>1
  <2> QED
    BY <2>1, <2>2, MoreNodes
<1>3. memo'.minimum[1] = 0 /\ Len(memo'.minimum) = 1 + Pushers(SubSeq(frames, 1, m))
  BY Tops DEF MemoOK
<1>4. m \in 1 .. Len(frames) /\ Keeps(frames[m], f)
  BY Tops
<1> HIDE DEF m
<1> QED
  BY <1>1, <1>2, <1>3, <1>4, AfterOne

\* A step that changes nothing but its machine and the tree.
LEMMA Continuing ==
    ASSUME Stack, frames # <<>>, NEW f, NEW nodes, Continue(f, nodes),
           FrameOK(f, Len(tree), DOMAIN doc), Keeps(Top, f), TopOK(f, memo.bubble),
           NodesOK(nodes, Len(tree), DOMAIN doc)
    PROVE  Stack'
<1>1. Goes(f, nodes) /\ doc' = doc /\ memo' = memo /\ cache' = cache /\ error' = error
      /\ dropped' = dropped
  BY DEF Continue, Same
<1>2. memo \in MemoType /\ memo.level <= Len(memo.styles) /\ cache \in Seq(BOOLEAN)
      /\ dropped \subseteq DOMAIN doc
  BY DEF Stack
<1> QED
  BY <1>1, <1>2, Going

\* It starts another one.
LEMMA Starting ==
    ASSUME Stack, frames # <<>>, NEW f, NEW g, frames' = Below \o <<f, g>>,
           NEW nodes, tree' = tree \o nodes, NodesOK(nodes, Len(tree), DOMAIN doc),
           FrameOK(f, Len(tree), DOMAIN doc), Keeps(Top, f),
           FrameOK(g, Len(tree) + Len(nodes), DOMAIN doc), LinkOK(f, g), TopOK(g, FALSE),
           doc' = doc, memo' \in MemoType, memo'.level <= Len(memo'.styles),
           memo'.bubble = FALSE,
           NEW level \in Int,
           memo'.minimum = IF Pushes(g) THEN Append(memo.minimum, level) ELSE memo.minimum,
           cache' \in Seq(BOOLEAN), error' = error, dropped' \subseteq DOMAIN doc
    PROVE  Stack'
<1> DEFINE m == Len(frames)
<1>1. frames' = Start(frames, m, f, g)
  BY Tops DEF Start
<1>2. /\ TreeOK(tree', DOMAIN doc) /\ Len(tree) <= Len(tree')
      /\ FrameOK(f, Len(tree'), DOMAIN doc)
      /\ FrameOK(g, Len(tree'), DOMAIN doc)
  <2>1. /\ TreeOK(tree', DOMAIN doc) /\ Len(tree') = Len(tree) + Len(nodes)
        /\ Len(tree) \in Nat /\ Len(nodes) \in Nat
    BY GrownTree DEF Stack
  <2>2. Len(tree) <= Len(tree') /\ Len(tree') \in Nat
    BY <2>1
  <2> QED
    BY <2>1, <2>2, MoreNodes
<1>3. /\ memo'.minimum[1] = 0
      /\ Len(memo'.minimum) = IF Pushes(g) THEN 2 + Pushers(SubSeq(frames, 1, m))
                              ELSE 1 + Pushers(SubSeq(frames, 1, m))
  <2>1. /\ memo.minimum \in Seq(Int) /\ Len(memo.minimum) = 1 + Pushers(frames)
        /\ memo.minimum[1] = 0 /\ Pushers(frames) \in Nat
        /\ SubSeq(frames, 1, m) = frames
    BY Tops DEF MemoOK, MemoType
  <2>2. /\ Len(Append(memo.minimum, level)) = Len(memo.minimum) + 1
        /\ Append(memo.minimum, level)[1] = memo.minimum[1]
    <3>1. 1 \in 1 .. Len(memo.minimum)
      BY <2>1
    <3> QED
      BY <2>1, <3>1, AppendProperties
  <2> DEFINE more == Append(memo.minimum, level)
  <2>3. memo'.minimum = IF Pushes(g) THEN more ELSE memo.minimum
    OBVIOUS
  <2> HIDE DEF more
  <2>4. Len(more) = Len(memo.minimum) + 1 /\ more[1] = memo.minimum[1]
    BY <2>2 DEF more
  <2>5. /\ memo'.minimum[1] = 0
        /\ Len(memo'.minimum) = IF Pushes(g) THEN 2 + Pushers(frames) ELSE 1 + Pushers(frames)
    <3>1. CASE Pushes(g)
      <4>1. memo'.minimum = more
        BY ONLY <2>3, <3>1
      <4> QED
        BY ONLY <2>1, <2>4, <3>1, <4>1
    <3>2. CASE ~Pushes(g)
      BY ONLY <2>1, <2>3, <3>2
    <3> QED
      BY ONLY <3>1, <3>2
  <2> QED
    BY ONLY <2>1, <2>5
<1>4. m \in 1 .. Len(frames) /\ Keeps(frames[m], f)
  BY Tops
<1> HIDE DEF m
<1> QED
  BY <1>1, <1>2, <1>3, <1>4, AfterTwo

\* The machine on top has ended, and there is one that has started it.
LEMMA Callers ==
    ASSUME Stack, frames # <<>>, Top.then.k # "root"
    PROVE  /\ Len(frames) - 1 \in 1 .. Len(frames)
           /\ Caller = frames[Len(frames) - 1]
           /\ FrameOK(Caller, Len(tree), DOMAIN doc) /\ LinkOK(Caller, Top)
           /\ Others = SubSeq(frames, 1, (Len(frames) - 1) - 1)
           /\ IsSeq(Others)
           /\ Below = SubSeq(frames, 1, Len(frames) - 1)
<1>1. /\ Len(frames) \in 1 .. Len(frames) /\ Len(frames) \in Nat
      /\ Top = frames[Len(frames)] /\ Below = SubSeq(frames, 1, Len(frames) - 1)
  BY Tops
<1>2. frames[1].then.k = "root"
  BY DEF Stack, StackOK
<1>3. Len(frames) # 1
  BY <1>1, <1>2
<1>4. /\ Len(frames) - 1 \in 1 .. Len(frames) /\ Len(frames) \in 2 .. Len(frames)
      /\ Len(frames) - 2 = (Len(frames) - 1) - 1 /\ (Len(frames) - 1) - 1 \in 0 .. Len(frames)
  <2> DEFINE n == Len(frames)
  <2>1. n \in Nat /\ n \in 1 .. n /\ n # 1
    BY <1>1, <1>3
  <2> HIDE DEF n
  <2>2. n - 1 \in 1 .. n /\ n \in 2 .. n /\ n - 2 = (n - 1) - 1 /\ (n - 1) - 1 \in 0 .. n
    BY ONLY <2>1
  <2> QED
    BY <2>2 DEF n
<1>5. IsSeq(SubSeq(frames, 1, (Len(frames) - 1) - 1))
  BY <1>4, CutSeq DEF Stack, StackOK
<1>6. /\ FrameOK(frames[Len(frames) - 1], Len(tree), DOMAIN doc)
      /\ LinkOK(frames[Len(frames) - 1], frames[Len(frames)])
  BY <1>4 DEF Stack, StackOK
<1> QED
  BY <1>1, <1>4, <1>5, <1>6 DEF Caller, Others

\* The lowest levels when the machine on top goes.
LEMMA Popped ==
    ASSUME Stack, frames # <<>>, NEW minimum,
           minimum = IF Pushes(Top) THEN Front(memo.minimum) ELSE memo.minimum
    PROVE  minimum[1] = 0 /\ Len(minimum) = 1 + Pushers(Below)
<1>1. /\ memo.minimum \in Seq(Int) /\ Len(memo.minimum) = 1 + Pushers(frames)
      /\ memo.minimum[1] = 0 /\ Pushers(Below) \in Nat
      /\ Pushers(frames) = IF Pushes(Top) THEN Pushers(Below) + 1 ELSE Pushers(Below)
  BY Tops DEF MemoOK, MemoType
<1>2. CASE Pushes(Top)
  <2> DEFINE m == memo.minimum
             less == SubSeq(m, 1, Len(m) - 1)
  <2>1. m \in Seq(Int) /\ Len(m) = 2 + Pushers(Below) /\ m[1] = 0
    BY <1>1, <1>2
  <2>2. minimum = less
    BY <1>2 DEF Front
  <2> HIDE DEF m
  <2>3. 1 \in Int /\ Len(m) - 1 \in Int
    BY <1>1, <2>1
  <2>4. 1 <= Len(m) - 1 /\ Len(m) - 1 <= Len(m) /\ 1 \in 1 .. Len(m) - 1
    BY <1>1, <2>1
  <2>5. Len(less) = Len(m) - 1 /\ less[1] = m[1]
    BY <1>1, <2>1, <2>3, <2>4
  <2> HIDE DEF less
  <2> QED
    BY ONLY <1>1, <2>1, <2>2, <2>5
<1>3. CASE ~Pushes(Top)
  BY <1>1, <1>3
<1> QED
  BY <1>2, <1>3

\* The machine on top has gone, and its caller goes on.
LEMMA Returning ==
    ASSUME Stack, frames # <<>>, Top.then.k # "root", NEW f, frames' = Append(Others, f),
           FrameOK(f, Len(tree), DOMAIN doc), Keeps(Caller, f), TopOK(f, memo'.bubble),
           doc' = doc, TreeOK(tree', DOMAIN doc), Len(tree) <= Len(tree'),
           memo' \in MemoType, memo'.level <= Len(memo'.styles),
           memo'.minimum = IF Pushes(Top) THEN Front(memo.minimum) ELSE memo.minimum,
           cache' \in Seq(BOOLEAN), error' = error, dropped' \subseteq DOMAIN doc
    PROVE  Stack'
<1> DEFINE m == Len(frames) - 1
<1>1. frames' = Put(frames, m, f)
  BY Callers, AppendIsPut DEF Put
<1>2. FrameOK(f, Len(tree'), DOMAIN doc)
  <2>1. Len(tree) \in Nat /\ Len(tree') \in Nat
    BY TreeLength DEF Stack
  <2> QED
    BY <2>1, MoreNodes
<1>3. memo'.minimum[1] = 0 /\ Len(memo'.minimum) = 1 + Pushers(Below)
  BY Popped
<1>4. m \in 1 .. Len(frames) /\ Keeps(frames[m], f) /\ Below = SubSeq(frames, 1, m)
  BY Callers
<1> HIDE DEF m
<1> QED
  BY <1>1, <1>2, <1>3, <1>4, AfterOne

\* A lowest level more.
LEMMA Pushed ==
    ASSUME Stack, frames # <<>>, ~Pushes(Top), NEW level \in Int, NEW minimum,
           minimum = Append(memo.minimum, level)
    PROVE  minimum[1] = 0 /\ Len(minimum) = 2 + Pushers(Below)
<1>1. /\ memo.minimum \in Seq(Int) /\ Len(memo.minimum) = 1 + Pushers(Below)
      /\ memo.minimum[1] = 0 /\ Pushers(Below) \in Nat
  BY Tops DEF MemoOK, MemoType
<1>2. 1 \in 1 .. Len(memo.minimum)
  BY <1>1
<1>3. Len(minimum) = Len(memo.minimum) + 1 /\ minimum[1] = memo.minimum[1]
  BY <1>1, <1>2, AppendProperties
<1> QED
  BY ONLY <1>1, <1>3

\* It goes on by starting another one.
LEMMA ReturningStart ==
    ASSUME Stack, frames # <<>>, Top.then.k # "root",
           NEW f, NEW g, frames' = Others \o <<f, g>>,
           FrameOK(f, Len(tree), DOMAIN doc), Keeps(Caller, f),
           FrameOK(g, Len(tree), DOMAIN doc), LinkOK(f, g), TopOK(g, memo'.bubble),
           doc' = doc, TreeOK(tree', DOMAIN doc), Len(tree) <= Len(tree'),
           memo' \in MemoType, memo'.level <= Len(memo'.styles), memo'.minimum[1] = 0,
           Len(memo'.minimum) = IF Pushes(g) THEN 2 + Pushers(Below) ELSE 1 + Pushers(Below),
           cache' \in Seq(BOOLEAN), error' = error, dropped' \subseteq DOMAIN doc
    PROVE  Stack'
<1> DEFINE m == Len(frames) - 1
<1>1. frames' = Start(frames, m, f, g)
  BY Callers DEF Start
<1>2. FrameOK(f, Len(tree'), DOMAIN doc) /\ FrameOK(g, Len(tree'), DOMAIN doc)
  <2>1. Len(tree) \in Nat /\ Len(tree') \in Nat
    BY TreeLength DEF Stack
  <2> QED
    BY <2>1, MoreNodes
<1>3. m \in 1 .. Len(frames) /\ Keeps(frames[m], f) /\ Below = SubSeq(frames, 1, m)
  BY Callers
<1> HIDE DEF m
<1> QED
  BY <1>1, <1>2, <1>3, AfterTwo

-----------------------------------------------------------------------------
(* A line that is seen, and the machines that its construct makes. *)

\* A machine is changed by what is not in Keeps.
LEMMA Changed ==
    ASSUME NEW n, NEW D, NEW f, FrameOK(f, n, D), NEW g, DOMAIN g = MachineFields, Keeps(f, g),
           g.state \in States, g.phase \in {"run", "eof", "over"}, g.ctx \in LinesOf(D),
           g.off \in Int, g.off >= -1, g.only \in {"", "text"}, g.eofcheck \in BOOLEAN,
           g.state \in TextStates => Len(g.ctx) <= 1
    PROVE  FrameOK(g, n, D)
  BY Zenon DEF FrameOK, Keeps

\* A machine at another line.
LEMMA MovedMachine ==
    ASSUME NEW n, NEW D, NEW f, FrameOK(f, n, D), NEW off \in Int, off >= -1
    PROVE  /\ FrameOK([f EXCEPT !.off = off], n, D) /\ Keeps(f, [f EXCEPT !.off = off])
           /\ [f EXCEPT !.off = off].state = f.state /\ [f EXCEPT !.off = off].phase = f.phase
           /\ [f EXCEPT !.off = off].ctx = f.ctx /\ [f EXCEPT !.off = off].only = f.only
           /\ [f EXCEPT !.off = off].eofcheck = f.eofcheck
<1> DEFINE g == [f EXCEPT !.off = off]
<1>1. DOMAIN f = MachineFields
  BY Zenon DEF FrameOK
<1>2. /\ DOMAIN g = MachineFields /\ Keeps(f, g) /\ g.off = off /\ g.state = f.state
      /\ g.phase = f.phase /\ g.ctx = f.ctx /\ g.only = f.only /\ g.eofcheck = f.eofcheck
  BY <1>1 DEF MachineFields, Keeps
<1> HIDE DEF g
<1>3. FrameOK(g, n, D)
  BY <1>2, Changed, Zenon DEF FrameOK
<1> QED
  BY <1>2, <1>3 DEF g

\* What is known when a machine sees a line.
LEMMA Seen ==
    ASSUME Stack, NEW S, NEW T, Sees(S, T)
    PROVE  /\ frames # <<>> /\ F.state \in S /\ Transition \in T
           /\ FrameOK(F, Len(tree), DOMAIN doc) /\ Keeps(Top, F)
           /\ F.phase = "run" /\ F.only = "" /\ memo.bubble = FALSE /\ error = NoError
           /\ Line \in LineOf(DOMAIN doc)
<1>1. /\ frames # <<>> /\ Top.phase = "run" /\ HasLine(F, F.off)
      /\ F.state \in S /\ Transition \in T
  BY DEF Sees
<1>2. FrameOK(Top, Len(tree), DOMAIN doc) /\ TopOK(Top, memo.bubble) /\ error = NoError
  BY <1>1, Tops
<1>3. /\ FrameOK(F, Len(tree), DOMAIN doc) /\ Keeps(Top, F)
      /\ F.off = Top.off + 1 /\ F.phase = Top.phase /\ F.only = "" /\ F.state = Top.state
      /\ F.ctx = Top.ctx
  <2> DEFINE t == Top
             f == F
  <2>1. DOMAIN t = MachineFields /\ t.off \in Int /\ t.off >= -1
    BY <1>2, Zenon DEF FrameOK
  <2>2. f = [[t EXCEPT !.off = t.off + 1] EXCEPT !.only = ""]
    BY DEF F, Moved
  <2> HIDE DEF t, f
  <2>3. /\ DOMAIN f = MachineFields /\ Keeps(t, f) /\ f.off = t.off + 1 /\ f.only = ""
        /\ f.state = t.state /\ f.phase = t.phase /\ f.ctx = t.ctx /\ f.eofcheck = t.eofcheck
    BY <2>1, <2>2 DEF MachineFields, Keeps
  <2>4. f.off \in Int /\ f.off >= -1
    <3>1. f.off = t.off + 1
      BY <2>3, Zenon
    <3> QED
      BY <2>1, <3>1
  <2>5. FrameOK(t, Len(tree), DOMAIN doc)
    BY <1>2 DEF t
  <2>6. FrameOK(f, Len(tree), DOMAIN doc)
    BY <2>3, <2>4, <2>5, Changed, Zenon DEF FrameOK
  <2> QED
    BY <2>3, <2>6, Zenon DEF t, f
<1>4. F.phase = "run"
  BY <1>1, <1>3, Zenon
<1>5. memo.bubble = FALSE
  BY <1>1, <1>2 DEF TopOK, Stack, MemoType
<1>6. Line \in LineOf(DOMAIN doc)
  <2>1. F.lines \in Seq(LineOf(DOMAIN doc))
    BY <1>3, Zenon DEF FrameOK, LinesOf
  <2>2. F.off = Top.off + 1 /\ Top.off \in Int /\ Top.off >= -1 /\ F.off < Len(F.lines)
    BY <1>1, <1>2, <1>3, Zenon DEF FrameOK, HasLine
  <2>3. F.off + 1 \in 1 .. Len(F.lines)
    BY <2>1, <2>2
  <2>4. F.lines[F.off + 1] \in LineOf(DOMAIN doc)
    BY <2>1, <2>3, ElementOfSeq
  <2> QED
    BY <2>4 DEF Line, At
<1> QED
  BY <1>1, <1>2, <1>3, <1>4, <1>5, <1>6, Zenon

\* Where the line is, and the line before it in a text state.
LEMMA SeenAt ==
    ASSUME Stack, NEW S, NEW T, Sees(S, T)
    PROVE  /\ F.off \in Nat /\ F.off < Len(F.lines)
           /\ F.state \in TextStates => F.off >= 1 /\ Len(F.ctx) = 1
<1>1. frames # <<>> /\ Top.phase = "run" /\ HasLine(F, F.off)
  BY DEF Sees
<1>2. FrameOK(Top, Len(tree), DOMAIN doc) /\ TopOK(Top, memo.bubble)
  BY <1>1, Tops
<1>3. Top.off \in Int /\ Top.off >= -1
  BY <1>2, Zenon DEF FrameOK
<1>4. DOMAIN Top = MachineFields
  BY <1>2, Zenon DEF FrameOK
<1>5. F.off = Top.off + 1
  BY <1>4 DEF F, Moved, MachineFields
<1>6. F.state = Top.state /\ F.ctx = Top.ctx
  BY <1>4 DEF F, Moved, MachineFields
<1>7. Top.state \in TextStates => Top.off >= 0 /\ Len(Top.ctx) = 1
  BY <1>1, <1>2 DEF TopOK
<1>8. F.off < Len(F.lines)
  BY <1>1 DEF HasLine
<1> QED
  BY <1>3, <1>5, <1>6, <1>7, <1>8

\* A machine that begins.
LEMMA NewMachine ==
    ASSUME NEW n, NEW D, NEW state \in States \ TextStates, NEW lines \in LinesOf(D),
           NEW base \in Int, NEW node \in 0 .. n, NEW titles, NEW then, ThenOK(then, n, D)
    PROVE  /\ FrameOK(Machine(state, lines, base, node, titles, then), n, D)
           /\ TopOK(Machine(state, lines, base, node, titles, then), FALSE)
<1> DEFINE g == Machine(state, lines, base, node, titles, then)
<1>1. /\ DOMAIN g = MachineFields /\ g.state = state /\ g.phase = "run" /\ g.lines = lines
      /\ g.ctx = <<>> /\ g.base = base /\ g.only = "" /\ g.node = node /\ g.eofcheck = TRUE
      /\ g.then = then
  BY DEF Machine, MachineFields
<1>2. g.off = -1
  BY DEF Machine
<1> HIDE DEF g
<1>3. g.off \in Int /\ g.off >= -1
  BY <1>2
<1>4. <<>> \in LinesOf(D)
  BY DEF LinesOf
<1>5. FrameOK(g, n, D)
  BY <1>1, <1>3, <1>4, Zenon DEF FrameOK
<1>6. TopOK(g, FALSE)
  BY <1>1, Zenon DEF TopOK
<1> QED
  BY <1>1, <1>5, <1>6, Zenon DEF g

\* Its state objects may have been used before.
LEMMA KeptMachine ==
    ASSUME cache \in Seq(BOOLEAN), NEW n, NEW D, NEW f, FrameOK(f, n, D), NEW eofcheck,
           eofcheck \in BOOLEAN
    PROVE  /\ FrameOK([f EXCEPT !.eofcheck = eofcheck], n, D)
           /\ Keeps(f, [f EXCEPT !.eofcheck = eofcheck])
           /\ \A bubble : TopOK(f, bubble) => TopOK([f EXCEPT !.eofcheck = eofcheck], bubble)
<1> DEFINE g == [f EXCEPT !.eofcheck = eofcheck]
<1>1. DOMAIN f = MachineFields
  BY Zenon DEF FrameOK
<1>2. /\ DOMAIN g = MachineFields /\ Keeps(f, g) /\ g.eofcheck = eofcheck
      /\ g.off = f.off /\ g.state = f.state
      /\ g.phase = f.phase /\ g.ctx = f.ctx /\ g.only = f.only
  BY <1>1 DEF MachineFields, Keeps
<1> HIDE DEF g
<1>3. FrameOK(g, n, D)
  BY <1>2, Changed, Zenon DEF FrameOK
<1>4. \A bubble : TopOK(f, bubble) => TopOK(g, bubble)
  BY <1>2, Zenon DEF TopOK
<1> QED
  BY <1>2, <1>3, <1>4 DEF g

\* A machine taken out of the cache leaves the others there.
LEMMA CacheUsed ==
    ASSUME cache \in Seq(BOOLEAN)
    PROVE  /\ (IF cache = <<>> THEN TRUE ELSE Last(cache)) \in BOOLEAN
           /\ (IF cache = <<>> THEN <<>> ELSE Front(cache)) \in Seq(BOOLEAN)
<1>1. CASE cache = <<>>
  BY <1>1
<1>2. CASE cache # <<>>
  <2>1. Len(cache) \in Nat /\ Len(cache) # 0
    BY <1>2, EmptySeq
  <2>2. Len(cache) \in 1 .. Len(cache) /\ Len(cache) - 1 \in Int
    BY <2>1
  <2>3. cache[Len(cache)] \in BOOLEAN
    BY <2>2, ElementOfSeq
  <2>4. SubSeq(cache, 1, Len(cache) - 1) \in Seq(BOOLEAN)
    BY <2>2
  <2> QED
    BY <1>2, <2>3, <2>4 DEF Last, Front
<1> QED
  BY <1>1, <1>2

\* RSTState.nested_parse; what else the step does to the memo is left to it.
LEMMA Nesting ==
    ASSUME Stack, frames # <<>>,
           NEW f, NEW lines, NEW base, NEW node, NEW titles, NEW then,
           NestedParse(f, lines, base, node, titles, then),
           NEW nodes, tree' = tree \o nodes, NodesOK(nodes, Len(tree), DOMAIN doc),
           FrameOK(f, Len(tree), DOMAIN doc), Keeps(Top, f),
           lines \in LinesOf(DOMAIN doc), base \in Int,
           node \in 0 .. Len(tree) + Len(nodes),
           ThenOK(then, Len(tree) + Len(nodes), DOMAIN doc),
           LinkOK(f, Machine("Body", lines, base, node, titles, then)),
           doc' = doc, memo' \in MemoType, memo'.level <= Len(memo'.styles),
           memo'.bubble = FALSE,
           NEW level \in Int,
           memo'.minimum = IF then.k = "directive" /\ then.level = 1
                           THEN Append(memo.minimum, level) ELSE memo.minimum,
           error' = error, dropped' \subseteq DOMAIN doc
    PROVE  Stack'
<1> DEFINE g == Machine("Body", lines, base, node, titles, then)
           h == Kept(g)
           n == Len(tree) + Len(nodes)
<1>1. cache \in Seq(BOOLEAN)
  BY DEF Stack
<1>2. "Body" \in States \ TextStates
  BY DEF States, TextStates
<1>3. /\ node \in 0 .. n /\ ThenOK(then, n, DOMAIN doc)
      /\ lines \in LinesOf(DOMAIN doc) /\ base \in Int
  OBVIOUS
<1>4. LinkOK(f, g)
  OBVIOUS
<1> HIDE DEF g, n
<1>10. FrameOK(g, n, DOMAIN doc) /\ TopOK(g, FALSE) /\ g.then = then
  <2>1. FrameOK(g, n, DOMAIN doc) /\ TopOK(g, FALSE)
    BY <1>2, <1>3, NewMachine DEF g
  <2> QED
    BY <2>1, Zenon DEF g, Machine
<1>5. FrameOK(h, n, DOMAIN doc) /\ TopOK(h, FALSE) /\ Keeps(g, h)
  BY <1>1, <1>10, CacheUsed, KeptMachine DEF Kept
<1>6. LinkOK(f, h)
  BY <1>4, <1>5, LinkKept
<1>7. Pushes(h) <=> then.k = "directive" /\ then.level = 1
  BY <1>5, <1>10 DEF Pushes, Keeps
<1>8. frames' = Below \o <<f, h>> /\ cache' \in Seq(BOOLEAN)
  BY <1>1, CacheUsed DEF NestedParse, g
<1> HIDE DEF h
<1>9. memo'.minimum = IF Pushes(h) THEN Append(memo.minimum, level) ELSE memo.minimum
  <2>1. CASE Pushes(h)
    BY <1>7, <2>1, Zenon
  <2>2. CASE ~Pushes(h)
    BY <1>7, <2>2, Zenon
  <2> QED
    BY <2>1, <2>2
<1> QED
  BY <1>5, <1>6, <1>8, <1>9, Starting DEF n

\* raise EOFError in a state without an eof method.
LEMMA EndedMachine ==
    ASSUME NEW n, NEW D, NEW f, FrameOK(f, n, D), f.state \notin TextStates
    PROVE  FrameOK(Ended(f), n, D) /\ Keeps(f, Ended(f)) /\ TopOK(Ended(f), FALSE)
<1> DEFINE g == Ended(f)
<1>1. DOMAIN f = MachineFields
  BY Zenon DEF FrameOK
<1>2. /\ DOMAIN g = MachineFields /\ Keeps(f, g) /\ g.phase = "over" /\ g.eofcheck = f.eofcheck
      /\ g.state = f.state /\ g.ctx = f.ctx /\ g.only = f.only /\ g.off = f.off
  BY <1>1 DEF Ended, MachineFields, Keeps
<1> HIDE DEF g
<1>3. FrameOK(g, n, D)
  BY <1>2, Changed, Zenon DEF FrameOK
<1>4. TopOK(g, FALSE)
  BY <1>2 DEF TopOK
<1> QED
  BY <1>2, <1>3, <1>4 DEF g

\* How a list or a construct ended is noted.
LEMMA FinishedMachine ==
    ASSUME NEW n, NEW D, NEW f, FrameOK(f, n, D), NEW finish
    PROVE  /\ FrameOK([f EXCEPT !.finish = finish], n, D)
           /\ Keeps(f, [f EXCEPT !.finish = finish])
           /\ [f EXCEPT !.finish = finish].state = f.state
           /\ [f EXCEPT !.finish = finish].phase = f.phase
           /\ \A bubble : TopOK(f, bubble) => TopOK([f EXCEPT !.finish = finish], bubble)
<1> DEFINE g == [f EXCEPT !.finish = finish]
<1>1. DOMAIN f = MachineFields
  BY Zenon DEF FrameOK
<1>2. /\ DOMAIN g = MachineFields /\ Keeps(f, g) /\ g.eofcheck = f.eofcheck
      /\ g.off = f.off /\ g.state = f.state
      /\ g.phase = f.phase /\ g.ctx = f.ctx /\ g.only = f.only
  BY <1>1 DEF MachineFields, Keeps
<1> HIDE DEF g
<1>3. FrameOK(g, n, D)
  BY <1>2, Changed, Zenon DEF FrameOK
<1>4. \A bubble : TopOK(f, bubble) => TopOK(g, bubble)
  BY <1>2, Zenon DEF TopOK
<1> QED
  BY <1>2, <1>3, <1>4 DEF g

\* What two changes keep, both keep.
LEMMA KeptTwice ==
    ASSUME NEW f, NEW g, NEW h, Keeps(f, g), Keeps(g, h)
    PROVE  Keeps(f, h)
  BY DEF Keeps

\* The rest of a machine's lines, for the machine of a list.
LEMMA ListMachine ==
    ASSUME NEW n \in Nat, NEW D, NEW f, FrameOK(f, n, D), f.phase = "run",
           f.state \notin TextStates,
           NEW state \in States \ TextStates, NEW node \in 0 .. n, NEW titles, NEW then,
           ThenOK(then, n, D), then.k = "list"
    PROVE  LET g == Machine(state, From(f.lines, f.off + 1), AbsOffset(f) + 1, node, titles, then)
           IN  FrameOK(g, n, D) /\ TopOK(g, FALSE) /\ LinkOK(f, g) /\ ~Pushes(g)
<1> DEFINE lines == From(f.lines, f.off + 1)
           base == AbsOffset(f) + 1
           g == Machine(state, lines, base, node, titles, then)
<1>1. f.lines \in Seq(LineOf(D)) /\ f.base \in Int /\ f.off \in Int /\ f.off >= -1
  BY Zenon DEF FrameOK, LinesOf
<1>2. f.off + 1 \in Nat /\ base \in Int /\ base = f.base + (f.off + 1)
      /\ base = f.base + f.off + 1
  BY <1>1 DEF AbsOffset
<1>3. lines \in LinesOf(D) /\ (Counted(f) => InStep(lines, base))
  BY <1>1, <1>2, FromInStep DEF LinesOf, Counted
<1>4. g.then = then /\ g.lines = lines /\ g.base = base
  BY DEF Machine
<1>5. base = f.base + f.off + 1
  BY <1>2
<1> HIDE DEF lines, base
<1>6. base \in Int
  BY <1>2
<1>7. FrameOK(g, n, D) /\ TopOK(g, FALSE)
  BY <1>3, <1>6, NewMachine
<1> HIDE DEF g
<1>8. LinkOK(f, g)
  BY <1>3, <1>4, <1>5 DEF LinkOK, Counted
<1> QED
  BY <1>4, <1>7, <1>8 DEF Pushes, g, lines, base

\* What is left to do after most constructs.
LEMMA ThenIsOK ==
    ASSUME NEW n \in Nat, NEW D, NEW k \in {"nothing", "list", "construct", "directive"},
           NEW finish
    PROVE  ThenOK(Then(k, finish), n, D) /\ Then(k, finish).k = k
<1> DEFINE t == Then(k, finish)
<1>1. DOMAIN t = ThenFields /\ t.k = k /\ t.of = {}
  BY DEF Then, ThenFields
<1>2. t.node = 0
  BY DEF Then
<1>3. t.level = 0
  BY DEF Then
<1> HIDE DEF t
<1>4. t.node \in 0 .. n
  BY <1>2
<1>5. t.level \in Int
  BY <1>3
<1>6. t.k # "first" /\ t.k # "section" /\ t.k # "argument" /\ t.of \subseteq D
  BY <1>1
<1> QED
  BY <1>1, <1>4, <1>5, <1>6, Zenon DEF ThenOK, t

\* Body.explicit_construct, and the run of an embedded directive.
LEMMA Constructing ==
    ASSUME Stack, frames # <<>>, NEW f, NEW finish, NEW nodes, Construct(f, finish, nodes),
           NodesOK(nodes, Len(tree), DOMAIN doc),
           FrameOK(f, Len(tree), DOMAIN doc), Keeps(Top, f), f.phase = "run",
           f.state \notin TextStates, memo.bubble = FALSE,
           doc' = doc, memo' = memo, cache' = cache, error' = error, dropped' \subseteq DOMAIN doc
    PROVE  Stack'
<1> DEFINE D == DOMAIN doc
           n == Len(tree)
<1>1. /\ memo \in MemoType /\ memo.level <= Len(memo.styles) /\ cache \in Seq(BOOLEAN)
      /\ Len(tree) \in Nat
  BY Tops DEF Stack
<1>2. CASE f.state = "Explicit"
  <2> DEFINE g == [f EXCEPT !.finish = finish]
  <2>1. TopOK(f, FALSE)
    BY DEF TopOK
  <2>2. FrameOK(g, n, D) /\ Keeps(Top, g) /\ TopOK(g, memo.bubble)
    BY <2>1, FinishedMachine, KeptTwice
  <2>3. Goes(g, nodes)
    BY <1>2 DEF Construct, EndConstruct, Goes
  <2> HIDE DEF g
  <2> QED
    BY <1>1, <2>2, <2>3, Going
<1>3. CASE f.state = "SubstitutionDef"
  <2> DEFINE late == IF HasLine(f, f.off + 1) THEN finish ELSE f.finish
             e == [f EXCEPT !.finish = late]
             g == Ended(e)
  <2>2. Goes(g, nodes)
    BY <1>3 DEF Construct, EndConstruct, Goes
  <2> HIDE DEF late
  <2>1. FrameOK(e, n, D) /\ Keeps(f, e) /\ e.state = f.state
    BY FinishedMachine
  <2> HIDE DEF e
  <2>3. FrameOK(g, n, D) /\ Keeps(Top, g) /\ TopOK(g, memo.bubble)
    BY <2>1, EndedMachine, KeptTwice
  <2> HIDE DEF g
  <2> QED
    BY <1>1, <2>2, <2>3, Going
<1>4. CASE f.state # "Explicit" /\ f.state # "SubstitutionDef"
  <2> DEFINE g == Machine("Explicit", From(f.lines, f.off + 1), AbsOffset(f) + 1,
                          f.node, f.titles, Then("list", finish))
  <2>1. frames' = Below \o <<f, g>> /\ tree' = tree \o nodes
    BY <1>4 DEF Construct, EndConstruct
  <2>2. Len(nodes) \in Nat
    BY LenProperties DEF NodesOK, IsSeq
  <2>3. "Explicit" \in States \ TextStates /\ f.node \in 0 .. n
    BY Zenon DEF States, Members, TextStates, FrameOK
  <2>4. ThenOK(Then("list", finish), n, D) /\ Then("list", finish).k = "list"
    BY <1>1, ThenIsOK
  <2>5. FrameOK(g, n, D) /\ TopOK(g, FALSE) /\ LinkOK(f, g) /\ ~Pushes(g)
    BY <1>1, <2>3, <2>4, ListMachine
  <2> HIDE DEF g
  <2>6. FrameOK(g, Len(tree) + Len(nodes), D)
    BY <1>1, <2>2, <2>5, MoreNodes
  <2>7. 0 \in Int
    OBVIOUS
  <2> QED
    BY <1>1, <2>1, <2>5, <2>6, <2>7, Starting
<1> QED
  BY <1>2, <1>3, <1>4

\* The block at a line, in the machine that has read it.
LEMMA SeenBlock ==
    ASSUME Stack, NEW S, NEW T, Sees(S, T), NEW mode \in Modes, NEW untilBlank,
           mode = "known" => ~Blank(Line)
    PROVE  LET b == IndentedBlock(F.lines, F.off, F.base, mode, untilBlank)
           IN  /\ b.lines \in LinesOf(DOMAIN doc) /\ b.off \in Int
               /\ Counted(F) => InStep(b.lines, b.off)
               /\ b.last \in Int /\ b.last >= F.off /\ b.last < Len(F.lines)
<1> DEFINE lines == F.lines
           base == F.base
           off == F.off
<1>1. lines \in LinesOf(DOMAIN doc) /\ base \in Int /\ off \in Nat /\ off < Len(lines)
  BY Seen, SeenAt, Zenon DEF FrameOK
<1>2. mode = "known" => ~Blank(At(lines, off))
  BY DEF Line
<1> HIDE DEF lines, base, off
<1> DEFINE b == IndentedBlock(lines, off, base, mode, untilBlank)
<1>3. /\ b.lines \in LinesOf(DOMAIN doc) /\ b.off \in Int
      /\ InStep(lines, base) => InStep(b.lines, b.off)
      /\ b.last \in Int /\ b.last >= off /\ b.last < Len(lines)
  BY <1>1, <1>2, IndentedBlockPart
<1> QED
  BY <1>3 DEF Counted, lines, base, off

\* A machine in the body of a document that moves to a line further on.
LEMMA SeenMoved ==
    ASSUME Stack, NEW S, NEW T, Sees(S, T), NEW off \in Int, off >= -1, F.state \notin TextStates
    PROVE  LET f == [F EXCEPT !.off = off]
           IN  /\ FrameOK(f, Len(tree), DOMAIN doc) /\ Keeps(Top, f) /\ Keeps(F, f)
               /\ f.phase = "run" /\ f.state = F.state /\ f.state \notin TextStates
               /\ TopOK(f, FALSE)
<1> DEFINE f == [F EXCEPT !.off = off]
<1>1. FrameOK(F, Len(tree), DOMAIN doc) /\ Keeps(Top, F) /\ F.phase = "run"
  BY Seen, Zenon
<1>2. /\ FrameOK(f, Len(tree), DOMAIN doc) /\ Keeps(F, f)
      /\ f.phase = F.phase /\ f.state = F.state
  BY <1>1, MovedMachine
<1> HIDE DEF f
<1>3. Keeps(Top, f)
  BY <1>1, <1>2, KeptTwice
<1>4. TopOK(f, FALSE)
  BY <1>1, <1>2 DEF TopOK
<1> QED
  BY <1>1, <1>2, <1>3, <1>4 DEF f

\* What waits for the parse of a part of its own lines.
LEMMA PartLink ==
    ASSUME NEW f, NEW g, f.phase = "run", f.state \notin TextStates,
           Counted(f) => InStep(g.lines, g.base),
           g.then.k \in {"nothing", "first", "construct", "directive"}
    PROVE  LinkOK(f, g)
  BY DEF LinkOK, Counted

\* A nested parse of an indented block of the lines at hand.
LEMMA BlockNesting ==
    ASSUME Stack, NEW S, NEW T, Sees(S, T),
           NEW mode \in Modes, NEW untilBlank, mode = "known" => ~Blank(Line),
           NEW b, b = IndentedBlock(F.lines, F.off, F.base, mode, untilBlank),
           NEW f, f.phase = "run", f.state \notin TextStates, Keeps(F, f),
           FrameOK(f, Len(tree), DOMAIN doc),
           NEW node, NEW titles, NEW then, NestedParse(f, b.lines, b.off, node, titles, then),
           NEW nodes, tree' = tree \o nodes, NodesOK(nodes, Len(tree), DOMAIN doc),
           node \in 0 .. Len(tree) + Len(nodes),
           ThenOK(then, Len(tree) + Len(nodes), DOMAIN doc),
           then.k \in {"nothing", "first", "construct"},
           UNCHANGED <<doc, memo, error, dropped>>
    PROVE  Stack'
<1> DEFINE lines == b.lines
           base == b.off
           g == Machine("Body", lines, base, node, titles, then)
<1>1. /\ lines \in LinesOf(DOMAIN doc) /\ base \in Int
      /\ Counted(F) => InStep(lines, base)
  BY SeenBlock
<1> HIDE DEF lines, base
<1>2. g.then = then /\ g.lines = lines
  BY DEF Machine
<1>3. g.base = base
  BY DEF Machine
<1> HIDE DEF g
<1>4. Counted(f) => InStep(g.lines, g.base)
  BY <1>1, <1>2, <1>3 DEF Counted, Keeps
<1>5. LinkOK(f, g)
  BY <1>2, <1>4, PartLink
<1>6. NestedParse(f, lines, base, node, titles, then) /\ doc' = doc /\ memo' = memo
      /\ error' = error /\ dropped' = dropped
  BY DEF lines, base
<1>7. frames # <<>> /\ Keeps(Top, f) /\ memo.bubble = FALSE
  BY Seen, KeptTwice, Zenon
<1>8. memo \in MemoType /\ memo.level <= Len(memo.styles) /\ dropped \subseteq DOMAIN doc
  BY DEF Stack
<1>9. then.k # "directive" /\ 0 \in Int
  OBVIOUS
<1>10. memo'.minimum = IF then.k = "directive" /\ then.level = 1
                       THEN Append(memo.minimum, 0) ELSE memo.minimum
  BY <1>6, <1>9
<1> QED
  BY <1>1, <1>5, <1>6, <1>7, <1>8, <1>9, <1>10, Nesting DEF g

-----------------------------------------------------------------------------
(* The beginning of a parse. *)

\* The lines of a document are numbered from 1, as its machine counts them.
LEMMA DocumentLines ==
    ASSUME NEW d \in Documents
    PROVE  d \in LinesOf(DOMAIN d) /\ InStep(d, 0) /\ d # <<>>
<1>1. d \in Seq(LineType) /\ d # <<>> /\ \A i \in DOMAIN d : d[i].n = i
  BY DocumentsAssumption
<1>2. Len(d) \in Nat /\ DOMAIN d = 1 .. Len(d) /\ \A i \in 1 .. Len(d) : d[i] \in LineType
  BY <1>1, LenProperties, ElementOfSeq
<1>3. \A i \in 1 .. Len(d) : d[i] \in LineOf(DOMAIN d)
  <2> TAKE i \in 1 .. Len(d)
  <2>1. d[i] \in LineType /\ d[i].n = i /\ i \in DOMAIN d
    BY <1>1, <1>2
  <2> QED
    BY <2>1 DEF LineType, LineOf
<1>4. d \in LinesOf(DOMAIN d)
  BY <1>1, <1>2, <1>3, SeqDef DEF LinesOf
<1>5. InStep(d, 0)
  BY <1>1, <1>2 DEF InStep
<1> QED
  BY <1>1, <1>4, <1>5

\* The first machine has the whole document.
LEMMA ParseStep ==
    ASSUME Stack, Parse
    PROVE  Stack'
<1> DEFINE D == DOMAIN doc'
           n == Len(tree)
           r == Root(doc')
           t == Then("root", TRUE)
<1>1. /\ doc = <<>> /\ frames = <<>> /\ doc' \in Documents /\ frames' = <<r>> /\ tree' = tree
      /\ memo' = memo /\ cache' = cache /\ error' = error /\ dropped' = dropped
  BY DEF Parse
<1>2. doc' \in LinesOf(D) /\ InStep(doc', 0) /\ doc' # <<>>
  BY <1>1, DocumentLines
<1>3. DOMAIN doc = {} /\ {} \subseteq D
  BY <1>1
<1>4. /\ error = NoError /\ memo.bubble = FALSE /\ MemoOK(memo, Pushers(frames))
      /\ n \in Nat /\ dropped \subseteq {} /\ cache \in Seq(BOOLEAN)
      /\ memo \in MemoType /\ memo.level <= Len(memo.styles)
  <2>1. n \in Nat
    BY TreeLength DEF Stack
  <2>2. memo.bubble = FALSE
    BY <1>1 DEF Stack, MemoType
  <2> QED
    BY <1>1, <1>3, <2>1, <2>2 DEF Stack
<1>5. TreeOK(tree, D)
  <2>1. TreeOK(tree, {})
    BY <1>3 DEF Stack
  <2>2. \A x : NodeOK(x, {}) => NodeOK(x, D)
    BY DEF NodeOK
  <2> HIDE DEF D
  <2> QED
    BY <2>1, <2>2 DEF TreeOK, NodesOK
<1>6. ThenOK(t, n, D) /\ t.k = "root"
  <2>1. DOMAIN t = ThenFields /\ t.k = "root" /\ t.of = {}
    BY DEF Then, ThenFields
  <2>2. t.node = 0
    BY DEF Then
  <2>3. t.level = 0
    BY DEF Then
  <2> HIDE DEF t
  <2>4. t.node \in 0 .. n
    BY <1>4, <2>2
  <2>5. t.level \in Int
    BY <2>3
  <2>6. t.k # "first" /\ t.k # "section" /\ t.k # "argument" /\ t.of \subseteq D
    BY <2>1
  <2> QED
    BY <2>1, <2>4, <2>5, <2>6, Zenon DEF ThenOK
<1>7. r.lines = doc' /\ r.then = t
  BY DEF Root, Machine
<1>8. r.base = 0
  BY DEF Root, Machine
<1>9. FrameOK(r, n, D) /\ TopOK(r, FALSE)
  <2>1. "Body" \in States \ TextStates
    BY DEF States, TextStates
  <2>2. 0 \in 0 .. n /\ 0 \in Int
    BY <1>4
  <2> HIDE DEF n, D, t
  <2> QED
    BY <1>2, <1>6, <2>1, <2>2, NewMachine DEF Root, t
<1> HIDE DEF r, t, n
<1>10. Counted(r)
  BY <1>2, <1>7, <1>8 DEF Counted
<1>11. IsSeq(frames') /\ Len(frames') = 1 /\ frames'[1] = r
  BY <1>1, OneSeq
<1>12. StackOK(frames', n, D)
  <2>1. \A i \in 1 .. 1 : frames'[i] = r
    BY <1>11
  <2> QED
    BY <1>6, <1>7, <1>9, <1>10, <1>11, <2>1 DEF StackOK
<1>13. frames' # <<>> /\ Last(frames') = r
  BY <1>11 DEF Last
<1>14. Pushers(frames') = Pushers(frames)
  <2>1. {i \in 1 .. Len(frames') : Pushes(frames'[i])} = {}
    <3>1. ~Pushes(r)
      BY <1>6, <1>7 DEF Pushes
    <3> QED
      BY <1>11, <3>1
  <2>2. {i \in 1 .. Len(frames) : Pushes(frames[i])} = {}
    BY <1>1
  <2> QED
    BY <2>1, <2>2 DEF Pushers
<1> QED
  <2>1. TopOK(Last(frames'), memo'.bubble)
    BY <1>1, <1>4, <1>9, <1>13
  <2>2. StackOK(frames', Len(tree'), D) /\ TreeOK(tree', D) /\ dropped' \subseteq D
    BY <1>1, <1>4, <1>5, <1>12 DEF n
  <2>3. MemoOK(memo', Pushers(frames')) /\ error' = NoError /\ cache' \in Seq(BOOLEAN)
        /\ memo' \in MemoType /\ memo'.level <= Len(memo'.styles)
    BY <1>1, <1>4, <1>14
  <2> HIDE DEF D
  <2> QED
    BY <1>2, <1>13, <2>1, <2>2, <2>3 DEF Stack, D

-----------------------------------------------------------------------------
(* The nodes of a step that are not always there. *)

\* A node that is made only on a condition.
LEMMA MaybeNode ==
    ASSUME NEW n \in Nat, NEW D, NEW kind, NEW up \in 0 .. n, NEW of \in SUBSET D, NEW there
    PROVE  /\ NodesOK(IF there THEN <<Node(kind, up, of)>> ELSE <<>>, n, D)
           /\ NodesOK(IF there THEN <<>> ELSE <<Node(kind, up, of)>>, n, D)
<1>1. NodesOK(<<Node(kind, up, of)>>, n, D) /\ NodesOK(<<>>, n, D)
  BY OneNode, NoNodes
<1> QED
  BY <1>1

\* A node and one below it.
LEMMA TwoNodes ==
    ASSUME NEW n \in Nat, NEW D, NEW kind, NEW up \in 0 .. n, NEW of \in SUBSET D,
           NEW kind2, NEW up2 \in 0 .. n + 1, NEW of2 \in SUBSET D
    PROVE  /\ NodesOK(<<Node(kind, up, of), Node(kind2, up2, of2)>>, n, D)
           /\ Len(<<Node(kind, up, of), Node(kind2, up2, of2)>>) = 2
<1> DEFINE x == Node(kind, up, of)
           y == Node(kind2, up2, of2)
<1>1. NodeOK(x, D) /\ x.up = up /\ NodeOK(y, D) /\ y.up = up2
  BY NewNode
<1> HIDE DEF x, y
<1>2. IsSeq(<<x, y>>) /\ <<x, y>>[1] = x /\ <<x, y>>[2] = y /\ Len(<<x, y>>) = 2
  BY TwoSeq
<1> DEFINE z == <<x, y>>
<1>3. IsSeq(z) /\ z[1] = x /\ z[2] = y /\ Len(z) = 2
  BY <1>2
<1> HIDE DEF z
<1>4. \A j \in 1 .. 2 : NodeOK(z[j], D) /\ z[j].up < n + j
  <2>1. z[1].up < n + 1 /\ z[2].up < n + 2
    BY <1>1, <1>3
  <2> QED
    BY <1>1, <1>3, <2>1
<1>5. NodesOK(z, n, D)
  BY <1>3, <1>4 DEF NodesOK
<1> QED
  BY <1>2, <1>5 DEF x, y, z

\* The tree with two groups of nodes.
LEMMA JoinedNodes ==
    ASSUME NEW D, NEW t, TreeOK(t, D), NEW a, NodesOK(a, Len(t), D),
           NEW b, NodesOK(b, Len(t) + Len(a), D)
    PROVE  /\ t \o a \o b = t \o (a \o b) /\ NodesOK(a \o b, Len(t), D)
           /\ Len(a \o b) = Len(a) + Len(b) /\ Len(a) \in Nat /\ Len(b) \in Nat
           /\ Len(t) \in Nat
<1>1. Len(t) \in Nat /\ Len(a) \in Nat /\ Len(b) \in Nat
  BY TreeLength, LenProperties DEF NodesOK, IsSeq
<1>2. t \o a \o b = t \o (a \o b)
  <2> DEFINE T == Range(t) \cup Range(a) \cup Range(b)
  <2>1. t \in Seq(T) /\ a \in Seq(T) /\ b \in Seq(T)
    BY SeqMonotonic DEF TreeOK, NodesOK, IsSeq
  <2> HIDE DEF T
  <2> QED
    BY <2>1, ConcatAssociative
<1>3. NodesOK(a \o b, Len(t), D) /\ Len(a \o b) = Len(a) + Len(b)
  BY <1>1, JoinNodes
<1> QED
  BY <1>1, <1>2, <1>3

\* The tree with one node.
LEMMA AppendedNode ==
    ASSUME NEW D, NEW t, NEW n, NodesOK(t, n, D), NEW x
    PROVE  Append(t, x) = t \o <<x>>
  BY AppendIsPut, Zenon DEF NodesOK

-----------------------------------------------------------------------------
(* The body, and lists with markers. *)

\* The machine ends, in a state that has no eof method.
LEMMA Ending ==
    ASSUME Stack, frames # <<>>, memo.bubble = FALSE, NEW f, NEW nodes, Continue(Ended(f), nodes),
           FrameOK(f, Len(tree), DOMAIN doc), Keeps(Top, f), f.state \notin TextStates,
           NodesOK(nodes, Len(tree), DOMAIN doc)
    PROVE  Stack'
<1> DEFINE g == Ended(f)
<1>1. FrameOK(g, Len(tree), DOMAIN doc) /\ Keeps(f, g) /\ TopOK(g, FALSE)
  BY EndedMachine
<1> HIDE DEF g
<1>2. Keeps(Top, g) /\ TopOK(g, memo.bubble)
  BY <1>1, KeptTwice
<1> QED
  BY <1>1, <1>2, Continuing DEF g

\* TransitionCorrection("text").
LEMMA Correcting ==
    ASSUME Stack, NEW S, NEW T, Sees(S, T), NEW nodes, Continue(Correct(F), nodes),
           NodesOK(nodes, Len(tree), DOMAIN doc)
    PROVE  Stack'
<1> DEFINE f == F
           off == f.off + (-1)
           e == [f EXCEPT !.off = off]
           g == [e EXCEPT !.only = "text"]
<1>1. frames # <<>> /\ FrameOK(f, Len(tree), DOMAIN doc) /\ Keeps(Top, f)
      /\ f.phase = "run" /\ memo.bubble = FALSE
  BY Seen, Zenon
<1>2. f.off \in Nat /\ (f.state \in TextStates => f.off >= 1 /\ Len(f.ctx) = 1)
  BY SeenAt
<1>3. g = Correct(F)
  BY DEF Correct, Moved
<1> HIDE DEF f
<1>4. off \in Int /\ off >= -1 /\ (f.state \in TextStates => off >= 0 /\ Len(f.ctx) = 1)
  BY <1>2
<1> HIDE DEF off
<1>5. /\ FrameOK(e, Len(tree), DOMAIN doc) /\ Keeps(f, e)
      /\ e.state = f.state /\ e.phase = f.phase /\ e.ctx = f.ctx
  BY <1>1, <1>4, MovedMachine
<1>6. DOMAIN f = MachineFields
  BY <1>1, Zenon DEF FrameOK
<1>7. e.off = off
  BY <1>6 DEF MachineFields
<1> HIDE DEF e
<1>8. DOMAIN e = MachineFields
  BY <1>5, Zenon DEF FrameOK
<1>9. /\ DOMAIN g = MachineFields /\ Keeps(e, g) /\ g.state = e.state /\ g.phase = e.phase
      /\ g.ctx = e.ctx /\ g.only = "text" /\ g.eofcheck = e.eofcheck
  BY <1>8 DEF MachineFields, Keeps
<1>10. g.off = e.off
  BY <1>8 DEF MachineFields
<1> HIDE DEF g
<1>11. FrameOK(g, Len(tree), DOMAIN doc)
  BY <1>5, <1>9, <1>10, Changed, Zenon DEF FrameOK
<1>12. TopOK(g, FALSE)
  <2>1. g.phase = "run" /\ (g.state \in TextStates => g.off >= 0 /\ Len(g.ctx) = 1)
    BY <1>1, <1>4, <1>5, <1>7, <1>9, <1>10, Zenon
  <2> QED
    BY <2>1, Zenon DEF TopOK
<1>13. Keeps(Top, g)
  BY <1>1, <1>5, <1>9, KeptTwice
<1> QED
  BY <1>1, <1>3, <1>11, <1>12, <1>13, Continuing

\* What is left to do after the first item of a list.
LEMMA ThenFirst ==
    ASSUME NEW n \in Nat, NEW D, NEW finish, NEW state \in States \ TextStates,
           NEW node \in 0 .. n, NEW list
    PROVE  LET t == [Then("first", finish) EXCEPT !.state = state, !.node = node, !.list = list]
               u == [Then("first", finish) EXCEPT !.state = state, !.node = node]
           IN  ThenOK(t, n, D) /\ ThenOK(u, n, D)
<1> DEFINE t == [Then("first", finish) EXCEPT !.state = state, !.node = node, !.list = list]
           u == [Then("first", finish) EXCEPT !.state = state, !.node = node]
<1>1. /\ DOMAIN t = ThenFields /\ t.k = "first" /\ t.of = {} /\ t.state = state
      /\ DOMAIN u = ThenFields /\ u.k = "first" /\ u.of = {} /\ u.state = state
  BY DEF Then, ThenFields
<1>2. t.node = node /\ u.node = node
  BY DEF Then
<1>3. t.level = 0 /\ u.level = 0
  BY DEF Then
<1> HIDE DEF t, u
<1>4. t.level \in Int /\ u.level \in Int
  BY <1>3
<1>5. t.k # "section" /\ t.k # "argument" /\ t.of \subseteq D
      /\ u.k # "section" /\ u.k # "argument" /\ u.of \subseteq D
  BY <1>1
<1>6. ThenOK(t, n, D)
  BY <1>1, <1>2, <1>4, <1>5, Zenon DEF ThenOK
<1>7. ThenOK(u, n, D)
  BY <1>1, <1>2, <1>4, <1>5, Zenon DEF ThenOK
<1> QED
  BY <1>1, <1>6, <1>7 DEF t, u

\* A line with a marker is not blank.
LEMMA SeenMarker ==
    ASSUME Stack, NEW S, NEW t, t # "text", t # "blank", Sees(S, {t})
    PROVE  ~Blank(Line)
<1> DEFINE T == {t}
<1>3. Sees(S, T)
  OBVIOUS
<1> HIDE DEF T
<1>4. frames # <<>> /\ Transition \in T
  BY <1>3, Seen, Zenon
<1>1. frames # <<>> /\ Transition = t
  BY <1>4 DEF T
<1>2. Top.only \in {"", "text"}
  BY <1>1, Tops, Zenon DEF FrameOK
<1> QED
  BY <1>1, <1>2, Zenon DEF Transition

\* What is known of the nodes when a line is seen.
LEMMA SeenNode ==
    ASSUME Stack, NEW S, NEW T, Sees(S, T)
    PROVE  /\ Len(tree) \in Nat /\ F.node \in 0 .. Len(tree) /\ TreeOK(tree, DOMAIN doc)
           /\ NextNode = Len(tree) + 1
  BY Seen, Tops, Zenon DEF FrameOK, Stack, NextNode

\* A machine that has read the block at a line.
LEMMA BlockMoved ==
    ASSUME Stack, NEW S, NEW T, Sees(S, T), F.state \notin TextStates,
           NEW mode \in Modes, NEW untilBlank, mode = "known" => ~Blank(Line),
           NEW b, b = IndentedBlock(F.lines, F.off, F.base, mode, untilBlank)
    PROVE  LET f == [F EXCEPT !.off = b.last]
           IN  /\ FrameOK(f, Len(tree), DOMAIN doc) /\ Keeps(Top, f) /\ Keeps(F, f)
               /\ f.phase = "run" /\ f.state = F.state /\ f.state \notin TextStates
               /\ TopOK(f, FALSE)
<1> DEFINE last == b.last
           off == F.off
<1>1. last \in Int /\ last >= off /\ off \in Nat
  BY SeenBlock, SeenAt
<1> HIDE DEF last, off
<1>2. last >= -1
  BY <1>1
<1>3. LET f == [F EXCEPT !.off = last]
      IN  /\ FrameOK(f, Len(tree), DOMAIN doc) /\ Keeps(Top, f) /\ Keeps(F, f)
          /\ f.phase = "run" /\ f.state = F.state /\ f.state \notin TextStates
          /\ TopOK(f, FALSE)
  BY <1>1, <1>2, SeenMoved
<1> QED
  BY <1>3 DEF last

\* A machine whose list has another item.
LEMMA ListedMachine ==
    ASSUME NEW n, NEW D, NEW f, FrameOK(f, n, D), NEW list
    PROVE  /\ FrameOK([f EXCEPT !.list = list], n, D)
           /\ Keeps(f, [f EXCEPT !.list = list])
           /\ [f EXCEPT !.list = list].state = f.state
           /\ [f EXCEPT !.list = list].phase = f.phase
<1> DEFINE g == [f EXCEPT !.list = list]
<1>1. DOMAIN f = MachineFields
  BY Zenon DEF FrameOK
<1>2. /\ DOMAIN g = MachineFields /\ Keeps(f, g) /\ g.eofcheck = f.eofcheck
      /\ g.off = f.off /\ g.state = f.state
      /\ g.phase = f.phase /\ g.ctx = f.ctx /\ g.only = f.only
  BY <1>1 DEF MachineFields, Keeps
<1> HIDE DEF g
<1>3. FrameOK(g, n, D)
  BY <1>2, Changed, Zenon DEF FrameOK
<1> QED
  BY <1>2, <1>3 DEF g

\* The parse fails, or has ended.
LEMMA Failing ==
    ASSUME Stack, frames # <<>>, frames' = <<>>, error' \in {"ParserError", "IndexError"},
           UNCHANGED <<doc, tree, memo, cache, dropped>>
    PROVE  Stack'
<1>1. doc # <<>> /\ Len(tree') = Len(tree) /\ error' # NoError
  BY Tops DEF NoError
<1>2. StackOK(frames', Len(tree'), DOMAIN doc')
  <2>1. IsSeq(<<>>) /\ Len(<<>>) = 0
    BY DEF IsSeq
  <2> QED
    BY <2>1 DEF StackOK
<1> QED
  BY <1>1, <1>2, Zenon DEF Stack

\* EOFError after a step back: the caller looks at the line again.
LEMMA EndingBack ==
    ASSUME Stack, NEW S, NEW T, Sees(S, T), F.state \notin TextStates, NEW nodes,
           Continue(Ended(Moved(F, -1)), nodes), NodesOK(nodes, Len(tree), DOMAIN doc)
    PROVE  Stack'
<1> DEFINE off == F.off + (-1)
           f == [F EXCEPT !.off = off]
<1>1. Continue(Ended(f), nodes) /\ frames # <<>> /\ memo.bubble = FALSE
  BY Seen, Zenon DEF Moved
<1>2. off \in Int /\ off >= -1
  BY SeenAt
<1> HIDE DEF off
<1>3. FrameOK(f, Len(tree), DOMAIN doc) /\ Keeps(Top, f) /\ f.state \notin TextStates
  BY <1>2, SeenMoved
<1> HIDE DEF f
<1> QED
  BY <1>1, <1>3, Ending

\* Lines that a machine has read are lines of the document.
LEMMA SeenNumbers ==
    ASSUME Stack, NEW S, NEW T, Sees(S, T), NEW i \in Nat, NEW j \in Int
    PROVE  /\ Slice(F.lines, i, j) \in LinesOf(DOMAIN doc)
           /\ NumbersOf(Slice(F.lines, i, j)) \in SUBSET (DOMAIN doc)
<1>1. F.lines \in LinesOf(DOMAIN doc)
  BY Seen, Zenon DEF FrameOK
<1>2. Slice(F.lines, i, j) \in LinesOf(DOMAIN doc)
  BY <1>1, SlicePart DEF LinesOf
<1> QED
  BY <1>2, NumbersInFile

-----------------------------------------------------------------------------
(* Explicit constructs. *)

\* The construct ends at a line further on.
LEMMA ConstructAt ==
    ASSUME Stack, NEW S, NEW T, Sees(S, T), F.state \notin TextStates,
           NEW last \in Int, last >= -1, NEW finish, NEW nodes,
           Construct([F EXCEPT !.off = last], finish, nodes),
           NodesOK(nodes, Len(tree), DOMAIN doc),
           UNCHANGED <<doc, memo, cache, error>>, dropped' \subseteq DOMAIN doc
    PROVE  Stack'
<1> DEFINE f == [F EXCEPT !.off = last]
<1>1. /\ FrameOK(f, Len(tree), DOMAIN doc) /\ Keeps(Top, f) /\ f.phase = "run"
      /\ f.state \notin TextStates
  BY SeenMoved
<1>2. Construct(f, finish, nodes)
  OBVIOUS
<1>3. frames # <<>> /\ memo.bubble = FALSE
  BY Seen, Zenon
<1>4. doc' = doc /\ memo' = memo /\ cache' = cache /\ error' = error
  OBVIOUS
<1> HIDE DEF f
<1> QED
  BY <1>1, <1>2, <1>3, <1>4, Constructing

\* The lines of a machine, without the machine.
LEMMA SeenLines ==
    ASSUME Stack, NEW S, NEW T, Sees(S, T)
    PROVE  /\ F.lines \in LinesOf(DOMAIN doc) /\ F.base \in Int
           /\ F.off \in Nat /\ F.off < Len(F.lines)
  BY Seen, SeenAt, Zenon DEF FrameOK

\* A block that is not trimmed.
LEMMA SeenIndented ==
    ASSUME Stack, NEW S, NEW T, Sees(S, T), NEW untilBlank
    PROVE  LET b == GetIndented(F.lines, F.off, "first", untilBlank)
           IN  /\ b.lines \in LinesOf(DOMAIN doc)
               /\ Counted(F) => InStep(b.lines, AbsOffset(F))
               /\ b.last \in Int /\ b.last >= F.off /\ b.last < Len(F.lines)
<1> DEFINE lines == F.lines
           base == F.base
           off == F.off
           mode == "first"
           D == DOMAIN doc
<1>1. lines \in LinesOf(D) /\ base \in Int /\ off \in Nat /\ off < Len(lines)
  BY SeenLines
<1>2. mode \in Modes /\ mode # "known"
  BY DEF Modes
<1> HIDE DEF lines, base, off, mode, D
<1> DEFINE b == GetIndented(lines, off, mode, untilBlank)
<1>3. /\ b.lines \in LinesOf(D)
      /\ Len(b.lines) = 0 \/ off + Len(b.lines) <= Len(lines)
      /\ \A k \in 1 .. Len(b.lines) : b.lines[k].n = lines[off + k].n
      /\ b.last \in Int /\ b.last >= off /\ b.last < Len(lines)
  BY <1>1, <1>2, GetIndentedPart
<1>4. InStep(lines, base) => InStep(b.lines, base + off)
  <2> DEFINE block == b.lines
  <2>1. /\ block \in LinesOf(D)
        /\ Len(block) = 0 \/ off + Len(block) <= Len(lines)
        /\ \A k \in 1 .. Len(block) : block[k].n = lines[off + k].n
    BY <1>3
  <2> HIDE DEF block
  <2>2. DOMAIN block = 1 .. Len(block) /\ DOMAIN lines = 1 .. Len(lines)
        /\ Len(block) \in Nat /\ Len(lines) \in Nat
    BY <1>1, <2>1 DEF LinesOf
  <2>3. ASSUME InStep(lines, base), NEW k \in 1 .. Len(block)
        PROVE  block[k].n = (base + off) + k
    <3>1. off + k \in 1 .. Len(lines)
      BY <1>1, <2>1, <2>2, <2>3
    <3>2. lines[off + k].n = base + (off + k)
      BY <2>2, <2>3, <3>1 DEF InStep
    <3> QED
      BY <1>1, <2>1, <2>2, <2>3, <3>2
  <2> QED
    BY <2>2, <2>3 DEF InStep, block
<1>5. InStep(lines, base) <=> Counted(F)
  BY DEF Counted, lines, base
<1>6. base + off = AbsOffset(F)
  BY DEF AbsOffset, base, off
<1>7. b.lines \in LinesOf(DOMAIN doc)
  BY <1>3 DEF D
<1>8. Counted(F) => InStep(b.lines, AbsOffset(F))
  BY <1>4, <1>5, <1>6, Zenon
<1>9. b.last \in Int /\ b.last >= F.off /\ b.last < Len(F.lines)
  BY <1>3 DEF lines, off
<1>10. b = GetIndented(F.lines, F.off, "first", untilBlank)
  BY DEF lines, off, mode
<1> HIDE DEF b
<1> QED
  BY <1>7, <1>8, <1>9, <1>10, Zenon
-----------------------------------------------------------------------------
(* The body, and lists with markers. *)

\* A blank line in a body.
LEMMA BodyBlankStep ==
    ASSUME Stack, BodyBlank
    PROVE  Stack'
<1>1. Sees({"Body", "SubstitutionDef"}, {"blank"}) /\ Continue(F, <<>>)
  BY DEF BodyBlank
<1>2. /\ frames # <<>> /\ FrameOK(F, Len(tree), DOMAIN doc) /\ Keeps(Top, F)
      /\ F.phase = "run" /\ memo.bubble = FALSE /\ F.state \in {"Body", "SubstitutionDef"}
  BY <1>1, Seen, Zenon
<1>3. TopOK(F, memo.bubble)
  BY <1>2 DEF TopOK, TextStates
<1>4. NodesOK(<<>>, Len(tree), DOMAIN doc)
  BY <1>2, Tops, NoNodes
<1> QED
  BY <1>1, <1>2, <1>3, <1>4, Continuing

\* A line that ends a list.
LEMMA InvalidInputStep ==
    ASSUME Stack, InvalidInput
    PROVE  Stack'
<1> DEFINE S == DOMAIN Members
           T == Transitions \cup {"blank", "indent"}
<1>1. Sees(S, T) /\ Continue(Ended(Moved(F, -1)), <<>>)
  BY DEF InvalidInput
<1>2. S \cap TextStates = {}
  BY DEF Members, TextStates
<1> HIDE DEF S, T
<1>3. F.state \notin TextStates
  BY <1>1, <1>2, Seen, Zenon
<1>4. NodesOK(<<>>, Len(tree), DOMAIN doc)
  BY <1>1, SeenNode, NoNodes
<1> QED
  BY <1>1, <1>3, <1>4, EndingBack

\* A block quote is parsed by a machine over its lines.
LEMMA BlockQuoteStep ==
    ASSUME Stack, BlockQuote
    PROVE  Stack'
<1> DEFINE S == {"Body", "SubstitutionDef"}
           T == {"indent"}
           mode == "unknown"
           b == IndentedBlock(F.lines, F.off, F.base, mode, FALSE)
           f == [F EXCEPT !.off = b.last]
           t == Then("nothing", TRUE)
           one == <<Node("block_quote", F.node, {})>>
           more == IF b.finish THEN <<>> ELSE <<Node("warning", F.node, {})>>
<1>1. /\ Sees(S, T) /\ NestedParse(f, b.lines, b.off, NextNode, FALSE, t)
      /\ tree' = tree \o one \o more /\ UNCHANGED <<doc, memo, error, dropped>>
  BY DEF BlockQuote, Message
<1>2. S \cap TextStates = {}
  BY DEF TextStates
<1>3. mode \in Modes /\ mode # "known"
  BY DEF Modes
<1> HIDE DEF S, T, mode
<1>4. F.state \notin TextStates
  BY <1>1, <1>2, Seen, Zenon
<1>13. b.last \in Int /\ b.last >= -1
  <2> DEFINE last == b.last
             off == F.off
  <2>1. last \in Int /\ last >= off /\ off \in Nat
    BY <1>1, <1>3, SeenBlock, SeenAt
  <2> HIDE DEF last, off
  <2>2. last >= -1
    BY <2>1
  <2> QED
    BY <2>1, <2>2 DEF last
<1>5. /\ FrameOK(f, Len(tree), DOMAIN doc) /\ Keeps(F, f) /\ f.phase = "run"
      /\ f.state \notin TextStates
  <2> DEFINE off == b.last
  <2>1. off \in Int /\ off >= -1
    BY <1>13
  <2> HIDE DEF off
  <2>2. LET g == [F EXCEPT !.off = off]
        IN  FrameOK(g, Len(tree), DOMAIN doc) /\ Keeps(F, g) /\ g.phase = "run"
            /\ g.state \notin TextStates
    BY <1>1, <1>4, <2>1, SeenMoved
  <2> QED
    BY <2>2 DEF off
<1>6. Len(tree) \in Nat /\ F.node \in 0 .. Len(tree) /\ TreeOK(tree, DOMAIN doc)
  BY <1>1, Seen, Tops, Zenon DEF FrameOK, Stack
<1>14. {} \in SUBSET (DOMAIN doc)
  OBVIOUS
<1>7. NodesOK(one, Len(tree), DOMAIN doc) /\ Len(one) = 1
  BY ONLY <1>6, <1>14, OneNode
<1>8. NodesOK(more, Len(tree) + 1, DOMAIN doc)
  <2>1. Len(tree) + 1 \in Nat /\ F.node \in 0 .. Len(tree) + 1
    BY <1>6
  <2> QED
    BY ONLY <1>14, <2>1, MaybeNode
<1> HIDE DEF f, one, more
<1>9. /\ tree' = tree \o (one \o more) /\ NodesOK(one \o more, Len(tree), DOMAIN doc)
      /\ Len(one \o more) = 1 + Len(more) /\ Len(more) \in Nat
  <2>1. NodesOK(more, Len(tree) + Len(one), DOMAIN doc)
    BY <1>7, <1>8
  <2>2. TreeOK(tree, DOMAIN doc) /\ NodesOK(one, Len(tree), DOMAIN doc)
    BY <1>6, <1>7
  <2>3. /\ tree \o one \o more = tree \o (one \o more)
        /\ NodesOK(one \o more, Len(tree), DOMAIN doc)
        /\ Len(one \o more) = Len(one) + Len(more) /\ Len(more) \in Nat
    BY ONLY <2>1, <2>2, JoinedNodes
  <2> QED
    BY <1>1, <1>7, <2>3
<1>10. NextNode \in 0 .. Len(tree) + Len(one \o more) /\ Len(tree) + Len(one \o more) \in Nat
  BY <1>6, <1>9 DEF NextNode
<1>11. /\ ThenOK(t, Len(tree) + Len(one \o more), DOMAIN doc)
       /\ t.k \in {"nothing", "first", "construct"}
  BY <1>10, ThenIsOK
<1> HIDE DEF t
<1>12. Sees(S, T) /\ NestedParse(f, b.lines, b.off, NextNode, FALSE, t)
       /\ UNCHANGED <<doc, memo, error, dropped>>
  BY <1>1
<1> DEFINE nodes == one \o more
<1> HIDE DEF nodes
<1> QED
  BY <1>3, <1>4, <1>5, <1>9, <1>10, <1>11, <1>12, BlockNesting DEF nodes

\* The block of an item, and how it is indented.
LEMMA ItemMode ==
    ASSUME Stack, NEW S, NEW t \in DOMAIN Lists, Sees(S, {t})
    PROVE  \E mode \in Modes : /\ mode = "known" => ~Blank(Line)
                               /\ ItemBlock(F, t) = IndentedBlock(F.lines, F.off, F.base, mode, FALSE)
<1> DEFINE mode == IF t \in {"bullet", "enumerator"} /\ ~Lone(At(F.lines, F.off))
                   THEN "known" ELSE "first"
<1>1. t # "text" /\ t # "blank"
  BY DEF Lists
<1>2. ~Blank(Line)
  BY <1>1, SeenMarker
<1>3. mode \in Modes
  BY DEF Modes
<1> QED
  BY <1>2, <1>3 DEF ItemBlock

\* The first item of a list.
LEMMA FirstItemStep ==
    ASSUME Stack, NEW t \in DOMAIN Lists, FirstItem(t)
    PROVE  Stack'
<1> DEFINE S == {"Body"}
           T == {t}
           b == ItemBlock(F, t)
           f == [F EXCEPT !.off = b.last]
           then == [Then("first", b.finish) EXCEPT
                       !.state = Lists[t].state, !.node = NextNode, !.list = ListOf(Line)]
           start == t = "enumerator" /\ ListOf(Line).last # 1
           two == <<Node(Lists[t].node, F.node, {}), Node(Lists[t].item, NextNode, {})>>
           more == IF start THEN <<Node("info", F.node, {})>> ELSE <<>>
           nodes == two \o more
<1>1. /\ Sees(S, T) /\ NestedParse(f, b.lines, b.off, NextNode + 1, FALSE, then)
      /\ tree' = tree \o two \o more /\ UNCHANGED <<doc, memo, error, dropped>>
  BY Zenon DEF FirstItem, Message
<1>2. S \cap TextStates = {}
  BY DEF TextStates
<1>3. PICK mode \in Modes : /\ mode = "known" => ~Blank(Line)
                            /\ b = IndentedBlock(F.lines, F.off, F.base, mode, FALSE)
  BY <1>1, ItemMode
<1> HIDE DEF S, T, b
<1>4. F.state \notin TextStates
  BY <1>1, <1>2, Seen, Zenon
<1>5. /\ FrameOK(f, Len(tree), DOMAIN doc) /\ Keeps(F, f) /\ f.phase = "run"
      /\ f.state \notin TextStates
  BY <1>1, <1>3, <1>4, BlockMoved
<1>6. /\ Len(tree) \in Nat /\ F.node \in 0 .. Len(tree) /\ TreeOK(tree, DOMAIN doc)
      /\ NextNode = Len(tree) + 1
  BY <1>1, SeenNode
<1>7. /\ tree \o two \o more = tree \o nodes /\ NodesOK(nodes, Len(tree), DOMAIN doc)
      /\ Len(nodes) \in Nat /\ Len(nodes) >= 2
  <2>1. /\ Len(tree) + 2 \in Nat /\ F.node \in 0 .. Len(tree) + 2 /\ NextNode \in 0 .. Len(tree) + 1
        /\ {} \in SUBSET (DOMAIN doc)
    BY <1>6
  <2>2. NodesOK(more, Len(tree) + 2, DOMAIN doc)
    BY <2>1, MaybeNode
  <2> HIDE DEF more
  <2> DEFINE kind == Lists[t].node
             kind2 == Lists[t].item
             up == F.node
             up2 == NextNode
  <2>3. /\ up \in 0 .. Len(tree) /\ up2 \in 0 .. Len(tree) + 1 /\ TreeOK(tree, DOMAIN doc)
        /\ Len(tree) \in Nat
    BY <1>6, <2>1
  <2> HIDE DEF kind, kind2, up, up2
  <2>4. /\ NodesOK(<<Node(kind, up, {}), Node(kind2, up2, {})>>, Len(tree), DOMAIN doc)
        /\ Len(<<Node(kind, up, {}), Node(kind2, up2, {})>>) = 2
    BY <2>1, <2>3, TwoNodes
  <2>5. NodesOK(two, Len(tree), DOMAIN doc) /\ Len(two) = 2
    BY <2>4 DEF kind, kind2, up, up2
  <2> HIDE DEF two
  <2>6. NodesOK(more, Len(tree) + Len(two), DOMAIN doc)
    BY <2>2, <2>5
  <2>7. TreeOK(tree, DOMAIN doc) /\ NodesOK(two, Len(tree), DOMAIN doc)
    BY <2>3, <2>5
  <2>8. /\ tree \o two \o more = tree \o (two \o more)
        /\ NodesOK(two \o more, Len(tree), DOMAIN doc)
        /\ Len(two \o more) = Len(two) + Len(more) /\ Len(more) \in Nat
    BY ONLY <2>6, <2>7, JoinedNodes
  <2> QED
    BY <2>5, <2>8
<1> HIDE DEF f, two, more, nodes
<1>8. /\ NextNode + 1 \in 0 .. Len(tree) + Len(nodes) /\ NextNode \in 0 .. Len(tree) + Len(nodes)
      /\ Len(tree) + Len(nodes) \in Nat
  BY <1>6, <1>7
<1>9. Lists[t].state \in States \ TextStates
  BY DEF Lists, States, Members, TextStates
<1>10. ThenOK(then, Len(tree) + Len(nodes), DOMAIN doc) /\ then.k = "first"
  <2> DEFINE state == Lists[t].state
             list == ListOf(Line)
             finish == b.finish
             node == NextNode
             n == Len(tree) + Len(nodes)
  <2>1. state \in States \ TextStates /\ n \in Nat /\ node \in 0 .. n
    BY <1>8, <1>9
  <2> HIDE DEF state, list, finish, node, n
  <2>2. LET u == [Then("first", finish) EXCEPT !.state = state, !.node = node, !.list = list]
        IN  ThenOK(u, n, DOMAIN doc)
    BY <2>1, ThenFirst, Zenon
  <2>3. then.k = "first"
    BY DEF Then
  <2> QED
    BY <2>2, <2>3 DEF state, list, finish, node, n
<1> HIDE DEF then
<1>11. tree' = tree \o nodes /\ then.k \in {"nothing", "first", "construct"}
  BY <1>1, <1>7, <1>10
<1>12. Sees(S, T) /\ NestedParse(f, b.lines, b.off, NextNode + 1, FALSE, then)
       /\ UNCHANGED <<doc, memo, error, dropped>>
  BY <1>1
<1> QED
  BY <1>3, <1>4, <1>5, <1>7, <1>8, <1>10, <1>11, <1>12, BlockNesting

\* A marker that is text after all.
LEMMA TextAfterAllStep ==
    ASSUME Stack, NEW t \in DOMAIN Lists, TextAfterAll(t)
    PROVE  Stack'
<1> DEFINE S == {"Body"}
           T == {t}
<1>1. Sees(S, T) /\ Continue(Correct(F), <<>>)
  BY Zenon DEF TextAfterAll
<1> HIDE DEF S, T
<1>2. NodesOK(<<>>, Len(tree), DOMAIN doc)
  BY <1>1, SeenNode, NoNodes
<1> QED
  BY <1>1, <1>2, Correcting

\* A malformed Roman numeral ends the parse.
LEMMA EnumeratorFailsStep ==
    ASSUME Stack, EnumeratorFails
    PROVE  Stack'
<1>1. frames # <<>> /\ frames' = <<>> /\ error' \in {"ParserError", "IndexError"}
      /\ UNCHANGED <<doc, tree, memo, cache, dropped>>
  BY Zenon DEF EnumeratorFails, Sees
<1> QED
  BY <1>1, Failing

\* Another item of a list, or the end of the list before it.
LEMMA NextItemStep ==
    ASSUME Stack, NEW t \in DOMAIN Lists, NextItem(t)
    PROVE  Stack'
<1> DEFINE S == {Lists[t].state}
           T == {t}
           b == ItemBlock(F, t)
           f == [F EXCEPT !.off = b.last]
           g == [f EXCEPT !.finish = b.finish]
           list == Advanced(F)
           h == [g EXCEPT !.list = list]
           then == Then("nothing", TRUE)
           kind == Lists[t].item
           nodes == <<Node(kind, F.node, {})>>
<1>1. Sees(S, T)
  BY DEF NextItem
<1>2. S \cap TextStates = {}
  BY DEF TextStates, Lists
<1>3. \/ Continue(Ended(Moved(F, -1)), <<>>)
      \/ Continue(Correct(F), <<>>)
      \/ /\ NestedParse([F EXCEPT !.off = b.last, !.finish = b.finish, !.list = list],
                        b.lines, b.off, NextNode, FALSE, then)
         /\ tree' = Append(tree, Node(kind, F.node, {}))
         /\ UNCHANGED <<doc, memo, error, dropped>>
  BY DEF NextItem
<1>4. PICK mode \in Modes : /\ mode = "known" => ~Blank(Line)
                            /\ b = IndentedBlock(F.lines, F.off, F.base, mode, FALSE)
  BY <1>1, ItemMode
<1>5. [F EXCEPT !.off = b.last, !.finish = b.finish, !.list = list] = h
  OBVIOUS
<1> HIDE DEF S, T, b, list, kind
<1>6. F.state \notin TextStates
  BY <1>1, <1>2, Seen, Zenon
<1>7. /\ Len(tree) \in Nat /\ F.node \in 0 .. Len(tree) /\ TreeOK(tree, DOMAIN doc)
      /\ NextNode = Len(tree) + 1
  BY <1>1, SeenNode
<1>8. NodesOK(<<>>, Len(tree), DOMAIN doc)
  BY <1>7, NoNodes
<1>9. CASE Continue(Ended(Moved(F, -1)), <<>>)
  BY <1>1, <1>6, <1>8, <1>9, EndingBack
<1>10. CASE Continue(Correct(F), <<>>)
  BY <1>1, <1>8, <1>10, Correcting
<1>11. ASSUME NestedParse(h, b.lines, b.off, NextNode, FALSE, then),
              tree' = Append(tree, Node(kind, F.node, {})),
              UNCHANGED <<doc, memo, error, dropped>>
       PROVE  Stack'
  <2>1. /\ FrameOK(f, Len(tree), DOMAIN doc) /\ Keeps(F, f) /\ f.phase = "run"
        /\ f.state \notin TextStates
    BY <1>1, <1>4, <1>6, BlockMoved
  <2> DEFINE finish == b.finish
  <2> HIDE DEF f, finish
  <2>11. FrameOK(f, Len(tree), DOMAIN doc)
    BY <2>1
  <2>2. /\ FrameOK([f EXCEPT !.finish = finish], Len(tree), DOMAIN doc)
        /\ Keeps(f, [f EXCEPT !.finish = finish])
        /\ [f EXCEPT !.finish = finish].phase = f.phase
        /\ [f EXCEPT !.finish = finish].state = f.state
    BY ONLY <2>11, FinishedMachine
  <2>3. FrameOK(g, Len(tree), DOMAIN doc) /\ Keeps(f, g) /\ g.phase = f.phase /\ g.state = f.state
    BY <2>2 DEF finish
  <2> HIDE DEF g
  <2>4. FrameOK(h, Len(tree), DOMAIN doc) /\ Keeps(g, h) /\ h.phase = g.phase /\ h.state = g.state
    BY <2>3, ListedMachine
  <2> HIDE DEF h
  <2>5. /\ FrameOK(h, Len(tree), DOMAIN doc) /\ Keeps(F, h) /\ h.phase = "run"
        /\ h.state \notin TextStates
    BY <2>1, <2>3, <2>4, KeptTwice
  <2>6. {} \in SUBSET (DOMAIN doc)
    OBVIOUS
  <2>7. NodesOK(nodes, Len(tree), DOMAIN doc) /\ Len(nodes) = 1
    BY <1>7, <2>6, OneNode
  <2>8. tree' = tree \o nodes
    BY <1>7, <1>11, AppendedNode DEF TreeOK
  <2> HIDE DEF nodes
  <2>9. NextNode \in 0 .. Len(tree) + Len(nodes) /\ Len(tree) + Len(nodes) \in Nat
    BY <1>7, <2>7
  <2>10. ThenOK(then, Len(tree) + Len(nodes), DOMAIN doc) /\ then.k \in {"nothing", "first", "construct"}
    BY <2>9, ThenIsOK
  <2> HIDE DEF then
  <2> QED
    BY <1>1, <1>4, <1>6, <1>11, <2>5, <2>7, <2>8, <2>9, <2>10, BlockNesting
<1> QED
  BY <1>3, <1>5, <1>9, <1>10, <1>11

-----------------------------------------------------------------------------
(* Line blocks and doctest blocks. *)

\* A doctest block.
LEMMA DoctestStep ==
    ASSUME Stack, Doctest
    PROVE  Stack'
<1> DEFINE S == {"Body"}
           T == {"doctest"}
           end == TextBlockEnd(F.lines, F.off, FALSE)
           off == end - 1
           f == [F EXCEPT !.off = off]
           of == NumbersOf(Slice(F.lines, F.off, end))
           nodes == <<Node("doctest_block", F.node, of)>>
<1>1. Sees(S, T) /\ Continue(f, nodes)
  BY DEF Doctest
<1>2. S \cap TextStates = {}
  BY DEF TextStates
<1> HIDE DEF S, T
<1>3. F.state \notin TextStates /\ frames # <<>> /\ memo.bubble = FALSE
  BY <1>1, <1>2, Seen, Zenon
<1>4. F.lines \in LinesOf(DOMAIN doc)
  BY <1>1, Seen, Zenon DEF FrameOK
<1>5. F.off \in Nat /\ F.off < Len(F.lines)
  BY <1>1, SeenAt
<1>6. end \in Int /\ end >= F.off
  <2>1. Len(F.lines) \in Nat
    BY <1>4 DEF LinesOf
  <2> DEFINE lines == F.lines
             start == F.off
  <2>2. lines \in LinesOf(DOMAIN doc) /\ start \in Int /\ start <= Len(lines)
    BY <1>4, <1>5, <2>1
  <2> HIDE DEF lines, start
  <2>3. /\ TextBlockEnd(lines, start, FALSE) \in Int
        /\ start <= TextBlockEnd(lines, start, FALSE)
    BY <2>2, TextBlockRange
  <2> DEFINE e == TextBlockEnd(lines, start, FALSE)
  <2> HIDE DEF e
  <2>4. e \in Int /\ e >= start
    BY <2>2, <2>3 DEF e
  <2> QED
    BY <2>4 DEF e, lines, start
<1> HIDE DEF end
<1>7. off \in Int /\ off >= -1
  BY <1>5, <1>6
<1>8. of \in SUBSET (DOMAIN doc)
  BY <1>1, <1>5, <1>6, SeenNumbers
<1> HIDE DEF off, of
<1>9. FrameOK(f, Len(tree), DOMAIN doc) /\ Keeps(Top, f) /\ TopOK(f, FALSE)
  BY <1>1, <1>3, <1>7, SeenMoved
<1>10. Len(tree) \in Nat /\ F.node \in 0 .. Len(tree)
  BY <1>1, SeenNode
<1>11. NodesOK(nodes, Len(tree), DOMAIN doc)
  BY <1>8, <1>10, OneNode
<1> HIDE DEF f, nodes
<1> QED
  BY <1>1, <1>3, <1>9, <1>11, Continuing

\* A line of a line block, or its first one.
LEMMA LineBlockLineStep ==
    ASSUME Stack, LineBlockLine
    PROVE  Stack'
<1> DEFINE S == {"Body", "LineBlock"}
           T == {"line_block"}
           mode == "first"
           b == IndentedBlock(F.lines, F.off, F.base, mode, TRUE)
           f == [F EXCEPT !.off = b.last]
           of == NumbersOf(Slice(F.lines, F.off, b.last + 1))
           one == <<Node("line", F.node, of)>>
           two == <<Node("line_block", F.node, {}), Node("line", NextNode, of)>>
           finish == b.finish
           then == Then("list", FALSE)
<1>1. Sees(S, T)
  BY DEF LineBlockLine
<1>2. \/ Continue([f EXCEPT !.finish = finish], one)
      \/ Continue(f, two)
      \/ /\ StartList(f, "LineBlock", NextNode, FALSE, then) /\ tree' = tree \o two
         /\ Same
  BY DEF LineBlockLine, Continue, Goes
<1>3. S \cap TextStates = {} /\ mode \in Modes /\ mode # "known"
  BY DEF TextStates, Modes
<1> HIDE DEF S, T, mode
<1>4. F.state \notin TextStates /\ frames # <<>> /\ memo.bubble = FALSE
  BY <1>1, <1>3, Seen, Zenon
<1>5. b.last \in Int
  BY <1>1, <1>3, SeenBlock
<1>15. F.off \in Nat
  BY <1>1, SeenAt
<1>6. b.last + 1 \in Int
  <2> DEFINE last == b.last
  <2>1. last \in Int
    BY <1>5
  <2> HIDE DEF last
  <2>2. last + 1 \in Int
    BY <2>1
  <2> QED
    BY <2>2 DEF last
<1>7. of \in SUBSET (DOMAIN doc) /\ {} \in SUBSET (DOMAIN doc)
  BY <1>1, <1>6, <1>15, SeenNumbers
<1>8. /\ FrameOK(f, Len(tree), DOMAIN doc) /\ Keeps(Top, f) /\ f.phase = "run"
      /\ f.state \notin TextStates /\ TopOK(f, FALSE)
  BY <1>1, <1>3, <1>4, BlockMoved
<1>9. /\ Len(tree) \in Nat /\ F.node \in 0 .. Len(tree) /\ NextNode = Len(tree) + 1
      /\ NextNode \in 0 .. Len(tree) + 1
  BY <1>1, SeenNode
<1> HIDE DEF b, f, of, finish
<1>10. NodesOK(one, Len(tree), DOMAIN doc)
  BY <1>7, <1>9, OneNode
<1>11. NodesOK(two, Len(tree), DOMAIN doc) /\ Len(two) = 2
  BY <1>7, <1>9, TwoNodes
<1> HIDE DEF one, two
<1>12. CASE Continue([f EXCEPT !.finish = finish], one)
  <2> DEFINE g == [f EXCEPT !.finish = finish]
  <2>1. FrameOK(g, Len(tree), DOMAIN doc) /\ Keeps(f, g) /\ TopOK(g, FALSE)
    BY <1>8, FinishedMachine
  <2>2. Keeps(Top, g) /\ Continue(g, one)
    BY <1>8, <1>12, <2>1, KeptTwice
  <2> HIDE DEF g
  <2> QED
    BY <1>4, <1>10, <2>1, <2>2, Continuing
<1>13. CASE Continue(f, two)
  BY <1>4, <1>8, <1>11, <1>13, Continuing
<1>14. ASSUME StartList(f, "LineBlock", NextNode, FALSE, then), tree' = tree \o two, Same
       PROVE  Stack'
  <2> DEFINE n == Len(tree) + 2
             g == Machine("LineBlock", From(f.lines, f.off + 1), AbsOffset(f) + 1,
                          NextNode, FALSE, then)
  <2>1. frames' = Below \o <<f, g>>
    BY <1>14 DEF StartList
  <2>2. n \in Nat /\ Len(tree) <= n /\ NextNode \in 0 .. n /\ n = Len(tree) + Len(two)
    BY <1>9, <1>11
  <2> HIDE DEF n
  <2>3. ThenOK(then, n, DOMAIN doc) /\ then.k = "list"
    BY <2>2, ThenIsOK
  <2>4. "LineBlock" \in States \ TextStates
    BY DEF States, Members, TextStates
  <2>5. FrameOK(f, n, DOMAIN doc)
    BY <1>8, <1>9, <2>2, MoreNodes
  <2>6. FrameOK(g, n, DOMAIN doc) /\ TopOK(g, FALSE) /\ LinkOK(f, g) /\ ~Pushes(g)
    BY <1>8, <2>2, <2>3, <2>4, <2>5, ListMachine
  <2> HIDE DEF g, then
  <2>7. /\ memo \in MemoType /\ memo.level <= Len(memo.styles) /\ cache \in Seq(BOOLEAN)
        /\ dropped \subseteq DOMAIN doc /\ 0 \in Int
        /\ doc' = doc /\ memo' = memo /\ cache' = cache /\ error' = error /\ dropped' = dropped
    BY <1>14 DEF Stack, Same
  <2>8. FrameOK(g, Len(tree) + Len(two), DOMAIN doc)
    BY <2>2, <2>6
  <2> QED
    BY <1>4, <1>8, <1>11, <1>14, <2>1, <2>6, <2>7, <2>8, Starting
<1> QED
  BY <1>2, <1>12, <1>13, <1>14

-----------------------------------------------------------------------------
(* Explicit markup. *)

\* The block of a construct, at any line of a machine.
LEMMA FirstKnownPart ==
    ASSUME NEW D, NEW f, f.lines \in LinesOf(D), f.base \in Int, f.off \in Nat,
           f.off < Len(f.lines), NEW untilBlank
    PROVE  LET b == FirstKnown(f, untilBlank)
           IN  /\ b.lines \in LinesOf(D)
               /\ b.off \in Int
               /\ Counted(f) => InStep(b.lines, b.off)
               /\ b.last \in Int /\ b.last >= f.off /\ b.last < Len(f.lines)
<1> DEFINE lines == f.lines
           base == f.base
           off == f.off
           mode == "first"
           b == IndentedBlock(lines, off, base, mode, untilBlank)
<1>1. lines \in LinesOf(D) /\ base \in Int /\ off \in Nat /\ off < Len(lines)
  OBVIOUS
<1>2. mode \in Modes /\ mode # "known"
  BY DEF Modes
<1>3. (Counted(f) <=> InStep(lines, base)) /\ FirstKnown(f, untilBlank) = b
  BY DEF Counted, FirstKnown
<1> HIDE DEF lines, base, off, mode
<1>4. /\ b.lines \in LinesOf(D) /\ b.off \in Int
      /\ InStep(lines, base) => InStep(b.lines, b.off)
      /\ b.last \in Int /\ b.last >= off /\ b.last < Len(lines)
  BY <1>1, <1>2, IndentedBlockPart
<1> HIDE DEF b
<1>5. /\ b.lines \in LinesOf(D) /\ b.off \in Int
      /\ Counted(f) => InStep(b.lines, b.off)
      /\ b.last \in Int
  BY <1>3, <1>4, Zenon
<1>6. b.last >= f.off /\ b.last < Len(f.lines)
  BY <1>4 DEF off, lines
<1> QED
  BY <1>3, <1>5, <1>6, Zenon

\* The numbers of the lines from the one at hand to another one.
LEMMA NumbersToPart ==
    ASSUME NEW D, NEW f, f.lines \in LinesOf(D), f.off \in Nat, NEW last \in Int
    PROVE  NumbersTo(f, last) \in SUBSET D
<1> DEFINE s == f.lines
           i == f.off
           j == last + 1
<1>1. s \in LinesOf(D) /\ i \in Nat /\ j \in Int /\ NumbersTo(f, last) = NumbersOf(Slice(s, i, j))
  BY DEF NumbersTo
<1> HIDE DEF s, i, j
<1>2. Slice(s, i, j) \in LinesOf(D)
  BY <1>1, SlicePart DEF LinesOf
<1> QED
  BY <1>1, <1>2, NumbersInFile

\* The line at an offset, and its number.
LEMMA LineAt ==
    ASSUME NEW D, NEW lines \in LinesOf(D), NEW i \in Nat, i < Len(lines)
    PROVE  At(lines, i) \in LineOf(D) /\ At(lines, i).n \in D
<1>1. Len(lines) \in Nat /\ lines \in Seq(LineOf(D))
  BY DEF LinesOf
<1>2. i + 1 \in 1 .. Len(lines)
  BY <1>1
<1>3. lines[i + 1] \in LineOf(D)
  BY <1>1, <1>2, ElementOfSeq
<1> QED
  BY <1>3, LineFields DEF At

\* A comment ends within the lines and holds lines of the file.
LEMMA CommentRange ==
    ASSUME NEW D, NEW f, f.lines \in LinesOf(D), f.base \in Int, f.off \in Nat,
           f.off < Len(f.lines), NEW whole
    PROVE  LET c == CommentAt(f, whole)
           IN  /\ c.last \in Int /\ c.last >= -1
               /\ c.of \in SUBSET D
<1> DEFINE b == FirstKnown(f, FALSE)
           off == f.off
           last == b.last
           some == Lone(At(f.lines, f.off)) /\ ~whole /\ NextLineBlank(f)
           c == CommentAt(f, whole)
<1>1. last \in Int /\ last >= off /\ off \in Nat
  BY FirstKnownPart
<1>2. NumbersTo(f, last) \in SUBSET D
  <2>1. last \in Int
    BY <1>1
  <2> HIDE DEF last
  <2> QED
    BY <2>1, NumbersToPart
<1>3. {At(f.lines, f.off).n} \in SUBSET D
  BY LineAt
<1>4. /\ c.last = IF some THEN off ELSE last
      /\ c.of = IF some THEN {At(f.lines, f.off).n} ELSE NumbersTo(f, last)
  BY Zenon DEF CommentAt
<1> HIDE DEF last, off, c, some
<1>5. c.of \in SUBSET D
  BY <1>2, <1>3, <1>4, Zenon
<1>6. (IF some THEN off ELSE last) \in Int /\ (IF some THEN off ELSE last) >= -1
  BY <1>1
<1>7. c.last \in Int /\ c.last >= -1
  BY <1>4, <1>6, Zenon
<1> QED
  BY <1>5, <1>7, Zenon DEF c

\* Nodes one after the other, none of them inside another of them.
LEMMA MoreJoined ==
    ASSUME NEW n \in Nat, NEW D, NEW a, NodesOK(a, n, D), NEW k \in Nat, NEW b, NodesOK(b, k, D),
           k <= n + Len(a)
    PROVE  /\ NodesOK(a \o b, n, D) /\ Len(a \o b) = Len(a) + Len(b)
           /\ Len(a) \in Nat /\ Len(b) \in Nat
<1>1. Len(a) \in Nat /\ Len(b) \in Nat
  BY LenProperties DEF NodesOK, IsSeq
<1>2. \A j \in 1 .. Len(b) : NodeOK(b[j], D) /\ b[j].up < (n + Len(a)) + j
  <2> TAKE j \in 1 .. Len(b)
  <2>1. NodeOK(b[j], D) /\ b[j].up < k + j /\ b[j].up \in Nat
    BY DEF NodesOK, NodeOK
  <2> DEFINE up == b[j].up
  <2>2. up < k + j /\ up \in Nat
    BY <2>1
  <2> HIDE DEF up
  <2>3. up < (n + Len(a)) + j
    BY <1>1, <2>2
  <2> QED
    BY <2>1, <2>3 DEF up
<1>3. NodesOK(b, n + Len(a), D)
  BY <1>2 DEF NodesOK
<1> QED
  BY <1>1, <1>3, JoinNodes

\* A construct that is a single node.
LEMMA SeenExplicit ==
    ASSUME Stack, NEW cs, SeesExplicit(cs)
    PROVE  /\ Sees({"Body", "Explicit"}, {"explicit_markup"}) /\ F.state \notin TextStates
           /\ Head(Line.m).c \in cs
<1> DEFINE S == {"Body", "Explicit"}
           T == {"explicit_markup"}
<1>1. Sees(S, T) /\ Head(Line.m).c \in cs
  BY DEF SeesExplicit
<1>2. S \cap TextStates = {}
  BY DEF TextStates
<1> HIDE DEF S, T
<1>3. F.state \notin TextStates
  BY <1>1, <1>2, Seen, Zenon
<1> QED
  BY <1>1, <1>3 DEF S, T

\* A comment.
LEMMA CommentStep ==
    ASSUME Stack, Comment
    PROVE  Stack'
<1> DEFINE S == {"Body", "Explicit"}
           T == {"explicit_markup"}
           c == CommentAt(F, FALSE)
           last == c.last
           finish == c.finish
           of == c.of
           nodes == <<Node("comment", F.node, of)>>
<1>1. Sees(S, T) /\ F.state \notin TextStates
  BY SeenExplicit DEF Comment
<1>2. Construct([F EXCEPT !.off = last], finish, nodes) /\ Same
  BY DEF Comment
<1> HIDE DEF S, T
<1>3. last \in Int /\ last >= -1
  BY <1>1, SeenLines, CommentRange
<1>4. of \in SUBSET (DOMAIN doc)
  BY <1>1, SeenLines, CommentRange
<1> HIDE DEF last, finish, of
<1>5. NodesOK(nodes, Len(tree), DOMAIN doc)
  BY <1>1, <1>4, SeenNode, OneNode
<1> HIDE DEF nodes
<1>6. UNCHANGED <<doc, memo, cache, error>> /\ dropped' \subseteq DOMAIN doc
  BY <1>2 DEF Same, Stack
<1> QED
  BY <1>1, <1>2, <1>3, <1>5, <1>6, ConstructAt

\* A footnote or a citation is parsed by a machine over its block.
LEMMA FootnoteOrCitationStep ==
    ASSUME Stack, FootnoteOrCitation
    PROVE  Stack'
<1> DEFINE S == {"Body", "Explicit"}
           T == {"explicit_markup"}
           mode == "first"
           b == IndentedBlock(F.lines, F.off, F.base, mode, FALSE)
           f == [F EXCEPT !.off = b.last]
           finish == b.finish
           then == Then("construct", finish)
           kind == Head(Line.m).c
           nodes == <<Node(kind, F.node, {})>>
<1>1. Sees(S, T) /\ F.state \notin TextStates
  BY SeenExplicit DEF FootnoteOrCitation
<1>2. /\ NestedParse(f, b.lines, b.off, NextNode, FALSE, then)
      /\ tree' = Append(tree, Node(kind, F.node, {}))
      /\ UNCHANGED <<doc, memo, error, dropped>>
  BY DEF FootnoteOrCitation, FirstKnown
<1>3. mode \in Modes /\ mode # "known"
  BY DEF Modes
<1> HIDE DEF S, T, mode, b, kind, finish
<1>4. /\ FrameOK(f, Len(tree), DOMAIN doc) /\ Keeps(F, f) /\ f.phase = "run"
      /\ f.state \notin TextStates
  BY <1>1, <1>3, BlockMoved DEF b
<1>5. /\ Len(tree) \in Nat /\ F.node \in 0 .. Len(tree) /\ TreeOK(tree, DOMAIN doc)
      /\ NextNode = Len(tree) + 1 /\ {} \in SUBSET (DOMAIN doc)
  BY <1>1, SeenNode
<1>6. NodesOK(nodes, Len(tree), DOMAIN doc) /\ Len(nodes) = 1
  BY <1>5, OneNode
<1>7. tree' = tree \o nodes
  BY <1>2, <1>5, AppendedNode DEF TreeOK
<1> HIDE DEF f, nodes
<1>8. NextNode \in 0 .. Len(tree) + Len(nodes) /\ Len(tree) + Len(nodes) \in Nat
  BY <1>5, <1>6
<1>9. ThenOK(then, Len(tree) + Len(nodes), DOMAIN doc) /\ then.k \in {"nothing", "first", "construct"}
  BY <1>8, ThenIsOK
<1> HIDE DEF then
<1> QED
  BY <1>1, <1>2, <1>3, <1>4, <1>6, <1>7, <1>8, <1>9, BlockNesting DEF b

\* A hyperlink target.
LEMMA TargetStep ==
    ASSUME Stack, Target
    PROVE  Stack'
<1> DEFINE b == FirstKnown(F, TRUE)
           last == b.last
           finish == b.finish
           of == NumbersTo(F, last)
           nodes == <<Node("target", F.node, of)>>
<1>1. PICK S, T : Sees(S, T) /\ S \cap TextStates = {}
  <2>1. {"Body", "Explicit"} \cap TextStates = {}
    BY DEF TextStates
  <2>2. CASE SeesExplicit({"target"})
    BY <2>1, <2>2, SeenExplicit
  <2>3. CASE Sees({"Body", "Explicit"}, {"anonymous"})
    BY <2>1, <2>3
  <2> QED
    BY <2>2, <2>3 DEF Target
<1>2. Construct([F EXCEPT !.off = last], finish, nodes) /\ Same
  BY DEF Target
<1>3. F.state \notin TextStates
  BY <1>1, Seen, Zenon
<1>4. last \in Int /\ last >= F.off /\ F.off \in Nat /\ F.lines \in LinesOf(DOMAIN doc)
  BY <1>1, SeenLines, FirstKnownPart
<1> HIDE DEF last, finish
<1>5. of \in SUBSET (DOMAIN doc)
  BY <1>4, NumbersToPart
<1> HIDE DEF of
<1>6. NodesOK(nodes, Len(tree), DOMAIN doc)
  BY <1>1, <1>5, SeenNode, OneNode
<1> HIDE DEF nodes
<1>7. last >= -1
  BY <1>4
<1>8. UNCHANGED <<doc, memo, cache, error>> /\ dropped' \subseteq DOMAIN doc
  BY <1>2 DEF Same, Stack
<1> QED
  BY <1>1, <1>2, <1>3, <1>4, <1>6, <1>7, <1>8, ConstructAt

\* Markup that does not end its name: what is left is a comment.
LEMMA MalformedStep ==
    ASSUME Stack, Malformed
    PROVE  Stack'
<1> DEFINE S == {"Body", "Explicit"}
           T == {"explicit_markup"}
           whole == Head(Line.m).c = "malformed target"
           b == FirstKnown(F, whole)
           back == b.last
           f == [F EXCEPT !.off = back]
           c == CommentAt(f, TRUE)
           last == c.last
           finish == c.finish
           of == IF back = F.off THEN c.of ELSE c.of \ {At(F.lines, back).n}
           nodes == <<Node("comment", F.node, of), Node("warning", F.node, {})>>
           lost == NumbersTo(F, back)
<1>1. Sees(S, T) /\ F.state \notin TextStates
  BY SeenExplicit, Zenon DEF Malformed
<1>2. /\ Construct([F EXCEPT !.off = last], finish, nodes)
      /\ dropped' = dropped \cup (lost \ of)
      /\ UNCHANGED <<doc, memo, cache, error>>
  BY Zenon DEF Malformed, Message
<1> HIDE DEF S, T
<1>3. F.lines \in LinesOf(DOMAIN doc) /\ F.base \in Int /\ F.off \in Nat /\ F.off < Len(F.lines)
  BY <1>1, SeenLines
<1>4. back \in Int /\ back >= F.off /\ back < Len(F.lines)
  BY <1>3, FirstKnownPart, Zenon
<1> HIDE DEF back, whole
<1>5. back \in Nat /\ back >= -1
  BY <1>3, <1>4
<1>6. f.lines = F.lines /\ f.base = F.base /\ f.off = back
  <2>1. DOMAIN F = MachineFields
    BY <1>1, Seen, Zenon DEF FrameOK
  <2> QED
    BY <2>1 DEF MachineFields
<1>7. f.lines \in LinesOf(DOMAIN doc) /\ f.base \in Int /\ f.off \in Nat /\ f.off < Len(f.lines)
  BY <1>3, <1>4, <1>5, <1>6
<1> HIDE DEF f
<1>8. last \in Int /\ last >= -1
  BY <1>7, CommentRange
<1>9. c.of \in SUBSET (DOMAIN doc)
  BY <1>7, CommentRange
<1> HIDE DEF c
<1>10. of \in SUBSET (DOMAIN doc)
  BY <1>9
<1>11. lost \in SUBSET (DOMAIN doc)
  BY <1>3, <1>4, NumbersToPart
<1> HIDE DEF last, finish, of, lost
<1>12. NodesOK(nodes, Len(tree), DOMAIN doc)
  <2>1. /\ Len(tree) \in Nat /\ F.node \in 0 .. Len(tree) /\ F.node \in 0 .. Len(tree) + 1
        /\ {} \in SUBSET (DOMAIN doc)
    BY <1>1, SeenNode
  <2> QED
    BY <1>10, <2>1, TwoNodes
<1> HIDE DEF nodes
<1>13. dropped' \subseteq DOMAIN doc
  BY <1>2, <1>11 DEF Stack
<1> QED
  BY <1>1, <1>2, <1>8, <1>12, <1>13, ConstructAt

\* Either way a directive is seen, it is seen outside a text.
LEMMA SeenDirectiveOrNot ==
    ASSUME NEW cs, NEW not,
           \/ SeesExplicit(cs)
           \/ Sees({"SubstitutionDef"}, {"embedded_directive"}) /\ not
    PROVE  \E S, T : Sees(S, T) /\ S \cap TextStates = {}
<1>1. {"Body", "Explicit"} \cap TextStates = {} /\ {"SubstitutionDef"} \cap TextStates = {}
  BY DEF TextStates
<1>2. CASE SeesExplicit(cs)
  BY <1>1, <1>2 DEF SeesExplicit
<1>3. CASE Sees({"SubstitutionDef"}, {"embedded_directive"})
  BY <1>1, <1>3
<1> QED
  BY <1>2, <1>3

\* A directive of no known name.
LEMMA UnknownDirectiveStep ==
    ASSUME Stack, UnknownDirective
    PROVE  Stack'
<1> DEFINE b == GetIndented(F.lines, F.off, "first", FALSE)
           last == b.last
           finish == b.finish
           of == NumbersTo(F, last)
           nodes == <<Node("error", F.node, of)>>
<1>1. PICK S, T : Sees(S, T) /\ S \cap TextStates = {}
  BY SeenDirectiveOrNot, Zenon DEF UnknownDirective
<1>2. Construct([F EXCEPT !.off = last], finish, nodes) /\ Same
  BY Zenon DEF UnknownDirective, Message
<1>3. F.state \notin TextStates
  BY <1>1, Seen, Zenon
<1>4. last \in Int /\ last >= F.off /\ F.off \in Nat /\ F.lines \in LinesOf(DOMAIN doc)
  BY <1>1, SeenLines, SeenIndented
<1> HIDE DEF last, finish
<1>5. of \in SUBSET (DOMAIN doc)
  BY <1>4, NumbersToPart
<1> HIDE DEF of
<1>6. NodesOK(nodes, Len(tree), DOMAIN doc)
  BY <1>1, <1>5, SeenNode, OneNode
<1> HIDE DEF nodes
<1>7. last >= -1
  BY <1>4
<1>8. UNCHANGED <<doc, memo, cache, error>> /\ dropped' \subseteq DOMAIN doc
  BY <1>2 DEF Same, Stack
<1> QED
  BY <1>1, <1>2, <1>3, <1>4, <1>6, <1>7, <1>8, ConstructAt

\* The lines of a substitution definition, behind its name.
LEMMA SubstitutionBlockPart ==
    ASSUME NEW D, NEW f, f.lines \in LinesOf(D), f.base \in Int, f.off \in Nat,
           f.off < Len(f.lines)
    PROVE  LET b == SubstitutionBlock(f)
           IN  /\ b.lines \in LinesOf(D)
               /\ b.off \in Int
               /\ Counted(f) => InStep(b.lines, b.off)
               /\ b.last \in Int /\ b.last >= f.off /\ b.last < Len(f.lines)
<1> DEFINE lines == f.lines
           base == f.base
           off == f.off
           mode == "first"
           last == GetIndented(lines, off, mode, FALSE).last
           first == Behind(At(lines, off))
           rest == Slice(lines, off + 1, last + 1)
           all == IF Blank(first) THEN rest ELSE <<first>> \o rest
           block == TrimEnd(all)
           from == (base + off) + (IF Blank(first) THEN 1 ELSE 0)
           end == [block EXCEPT ![1].ind = 0]
           got == IF block = <<>> THEN <<>> ELSE end
<1>1. /\ lines \in LinesOf(D) /\ base \in Int /\ off \in Nat /\ off < Len(lines)
      /\ mode \in Modes /\ mode # "known"
  BY DEF Modes
<1>2. /\ SubstitutionBlock(f).lines = got /\ SubstitutionBlock(f).off = from
      /\ SubstitutionBlock(f).last = last
  BY DEF SubstitutionBlock, AbsOffset
<1>3. Counted(f) <=> InStep(lines, base)
  BY DEF Counted
<1> HIDE DEF lines, base, off, mode
<1>4. last \in Int /\ last >= off /\ last < Len(lines)
  BY <1>1, GetIndentedPart
<1> HIDE DEF last
<1>5. At(lines, off) \in LineOf(D) /\ At(lines, off) = lines[off + 1] /\ lines \in Seq(LineOf(D))
  BY <1>1, LineAt DEF At, LinesOf
<1>6. first \in LineOf(D) /\ first.n = lines[off + 1].n
  BY <1>5, BehindLine
<1> HIDE DEF first
<1>7. /\ rest \in LinesOf(D)
      /\ \A k \in 1 .. Len(rest) : rest[k] = lines[k + (off + 1)] /\ k + (off + 1) \in 1 .. Len(lines)
  BY <1>1, <1>4, <1>5, SlicePart DEF LinesOf
<1> HIDE DEF rest
<1>8. /\ all \in LinesOf(D)
      /\ InStep(lines, base) => InStep(all, from)
  <2>1. CASE Blank(first)
    <3>1. all = rest /\ from = base + off + 1
      BY <2>1
    <3>2. ASSUME InStep(lines, base), NEW k \in DOMAIN rest
          PROVE  rest[k].n = (base + off + 1) + k
      <4>1. k \in 1 .. Len(rest) /\ Len(rest) \in Nat /\ DOMAIN lines = 1 .. Len(lines)
        BY <1>5, <1>7, <3>2 DEF LinesOf
      <4>2. lines[k + (off + 1)].n = base + (k + (off + 1))
        BY <1>7, <3>2, <4>1 DEF InStep
      <4>3. rest[k] = lines[k + (off + 1)]
        BY <1>7, <4>1, Zenon
      <4>4. base + (k + (off + 1)) = (base + off + 1) + k
        BY <1>1, <4>1
      <4> QED
        BY <4>2, <4>3, <4>4, Zenon
    <3> QED
      BY <1>7, <3>1, <3>2 DEF InStep
  <2>2. CASE ~Blank(first)
    <3> DEFINE one == <<first>>
    <3>1. all = one \o rest /\ from = base + off
      BY <1>1, <2>2
    <3>2. one \in Seq(LineOf(D)) /\ Len(one) = 1 /\ one[1] = first
      BY <1>6
    <3> HIDE DEF one
    <3>3. rest \in Seq(LineOf(D)) /\ Len(rest) \in Nat
      BY <1>7 DEF LinesOf
    <3>4. /\ one \o rest \in Seq(LineOf(D)) /\ Len(one \o rest) = Len(one) + Len(rest)
          /\ \A i \in 1 .. Len(one) + Len(rest) :
                (one \o rest)[i] = IF i <= Len(one) THEN one[i] ELSE rest[i - Len(one)]
      BY <3>2, <3>3, ConcatProperties
    <3> DEFINE both == one \o rest
    <3>5. /\ both \in Seq(LineOf(D)) /\ Len(both) = 1 + Len(rest)
          /\ \A i \in 1 .. 1 + Len(rest) : both[i] = IF i <= 1 THEN one[i] ELSE rest[i - 1]
      BY <3>2, <3>4
    <3> HIDE DEF both
    <3>6. ASSUME InStep(lines, base), NEW i \in DOMAIN both
          PROVE  both[i].n = (base + off) + i
      <4>1. i \in 1 .. 1 + Len(rest) /\ DOMAIN lines = 1 .. Len(lines) /\ Len(lines) \in Nat
        BY <1>5, <3>5, <3>6
      <4>2. CASE i = 1
        <5>1. both[i] = first /\ off + 1 \in DOMAIN lines
          BY <1>1, <3>2, <3>5, <4>1, <4>2
        <5>2. lines[off + 1].n = base + (off + 1)
          BY <3>6, <5>1 DEF InStep
        <5> QED
          BY <1>1, <1>6, <4>2, <5>1, <5>2
      <4>3. CASE i # 1
        <5>1. i - 1 \in 1 .. Len(rest) /\ both[i] = rest[i - 1] /\ (i - 1) + (off + 1) = off + i
          BY <1>1, <3>3, <3>5, <4>1, <4>3
        <5>2. rest[i - 1] = lines[off + i] /\ off + i \in DOMAIN lines
          BY <1>7, <4>1, <5>1
        <5>3. lines[off + i].n = base + (off + i)
          BY <3>6, <5>2 DEF InStep
        <5> QED
          BY <1>1, <4>1, <5>1, <5>2, <5>3
      <4> QED
        BY <4>2, <4>3
    <3>7. both \in LinesOf(D) /\ (InStep(lines, base) => InStep(both, base + off))
      BY <3>5, <3>6 DEF InStep, LinesOf
    <3> QED
      BY <3>1, <3>7 DEF both
  <2> QED
    BY <2>1, <2>2
<1>9. from \in Int
  BY <1>1
<1> HIDE DEF all, from
<1>10. /\ block \in Seq(LineOf(D)) /\ Len(block) <= Len(all)
       /\ \A k \in 1 .. Len(block) : block[k] = all[k]
  BY <1>8, TrimEndPart DEF LinesOf
<1> HIDE DEF block
<1>11. InStep(all, from) => InStep(block, from)
  BY <1>8, <1>10 DEF InStep, LinesOf
<1>12. /\ got \in LinesOf(D)
       /\ InStep(block, from) => InStep(got, from)
  <2>1. CASE block = <<>>
    <3>1. got = <<>>
      BY <2>1
    <3> QED
      BY <2>1, <3>1 DEF LinesOf, InStep
  <2>2. CASE block # <<>>
    <3>1. 1 \in DOMAIN block /\ block[1] \in LineOf(D) /\ got = end
      BY <1>10, <2>2
    <3>2. /\ [block[1] EXCEPT !.ind = 0] \in LineOf(D)
          /\ [block[1] EXCEPT !.ind = 0].n = block[1].n
      BY <3>1, LineFields DEF LineOf
    <3>3. end = [block EXCEPT ![1] = [block[1] EXCEPT !.ind = 0]]
      OBVIOUS
    <3> DEFINE x == [block[1] EXCEPT !.ind = 0]
    <3>4. x \in LineOf(D) /\ x.n = block[1].n /\ end = [block EXCEPT ![1] = x]
      BY <3>2, <3>3
    <3> HIDE DEF x, end
    <3>5. /\ end \in Seq(LineOf(D)) /\ DOMAIN end = DOMAIN block
          /\ \A k \in DOMAIN block : end[k] = IF k = 1 THEN x ELSE block[k]
      BY <1>10, <3>1, <3>4
    <3>6. \A k \in DOMAIN block : end[k].n = block[k].n
      BY <3>4, <3>5
    <3> QED
      BY <3>1, <3>5, <3>6 DEF InStep, LinesOf
  <2> QED
    BY <2>1, <2>2
<1> HIDE DEF got
<1> DEFINE b == SubstitutionBlock(f)
<1>13. b.lines \in LinesOf(D) /\ (Counted(f) => InStep(b.lines, b.off))
  BY <1>2, <1>3, <1>8, <1>11, <1>12, Zenon
<1>14. b.off \in Int
  BY <1>2, <1>9, Zenon
<1>15. b.last \in Int /\ b.last >= f.off /\ b.last < Len(f.lines)
  BY <1>2, <1>4, Zenon DEF off, lines
<1> QED
  BY <1>13, <1>14, <1>15, Zenon

-----------------------------------------------------------------------------
(* What a directive is given. *)

\* Options that are cut out of the content of a directive (OptionsCut).
Cut(lines, base) ==
    \E gap \in 2 .. Len(lines) :
        /\ Blank(lines[gap])
        /\ lines[gap].n > base + gap
        /\ InStep(SubSeq(lines, 1, gap - 1), base)

\* The blank lines that are cut off at the top of a block are counted.
LEMMA TrimmedInStep ==
    ASSUME NEW D, NEW s \in LinesOf(D), NEW base \in Int
    PROVE  /\ TrimStart(s) \in LinesOf(D)
           /\ base + Len(s) - Len(TrimStart(s)) \in Int
           /\ InStep(s, base) => InStep(TrimStart(s), base + Len(s) - Len(TrimStart(s)))
           /\ s # <<>> /\ ~Blank(s[1]) => TrimStart(s) = s
<1> DEFINE t == TrimStart(s)
<1>1. /\ t \in LinesOf(D) /\ Len(t) <= Len(s)
      /\ \A k \in 1 .. Len(t) : t[k] = s[k + (Len(s) - Len(t))]
      /\ s # <<>> /\ ~Blank(s[1]) => t = s
  BY TrimStartPart DEF LinesOf
<1> HIDE DEF t
<1>2. Len(s) \in Nat /\ Len(t) \in Nat /\ DOMAIN s = 1 .. Len(s) /\ DOMAIN t = 1 .. Len(t)
  BY <1>1 DEF LinesOf
<1>3. base + Len(s) - Len(t) \in Int
  BY <1>2
<1>4. ASSUME InStep(s, base), NEW k \in DOMAIN t
      PROVE  t[k].n = (base + Len(s) - Len(t)) + k
  <2>1. k + (Len(s) - Len(t)) \in 1 .. Len(s) /\ k \in Nat
    BY <1>1, <1>2, <1>4
  <2>2. s[k + (Len(s) - Len(t))].n = base + (k + (Len(s) - Len(t)))
    BY <1>2, <1>4, <2>1 DEF InStep
  <2>3. t[k] = s[k + (Len(s) - Len(t))]
    BY <1>1, <1>2, <1>4
  <2> QED
    BY <1>2, <2>1, <2>2, <2>3
<1>5. InStep(s, base) => InStep(t, base + Len(s) - Len(t))
  BY <1>4 DEF InStep
<1> QED
  BY <1>1, <1>3, <1>5 DEF t

\* Blank lines that are cut off at the end leave the numbers as they are.
LEMMA CutInStep ==
    ASSUME NEW D, NEW s \in LinesOf(D), NEW base \in Int
    PROVE  /\ TrimEnd(s) \in LinesOf(D)
           /\ InStep(s, base) => InStep(TrimEnd(s), base)
<1> DEFINE t == TrimEnd(s)
<1>1. /\ t \in LinesOf(D) /\ Len(t) <= Len(s)
      /\ \A k \in 1 .. Len(t) : t[k] = s[k]
  BY TrimEndPart DEF LinesOf
<1> HIDE DEF t
<1>2. Len(s) \in Nat /\ Len(t) \in Nat /\ DOMAIN s = 1 .. Len(s) /\ DOMAIN t = 1 .. Len(t)
  BY <1>1 DEF LinesOf
<1>3. InStep(s, base) => InStep(t, base)
  BY <1>1, <1>2 DEF InStep
<1> QED
  BY <1>1, <1>3 DEF t

\* The first blank line of a block, if there is one, is at BlankAt.
LEMMA BlankAtPart ==
    ASSUME NEW D, NEW s \in LinesOf(D)
    PROVE  /\ BlankAt(s) \in 0 .. Len(s)
           /\ BlankAt(s) < Len(s) => Blank(s[BlankAt(s) + 1])
           /\ \A k \in 1 .. BlankAt(s) : ~Blank(s[k])
<1> DEFINE S == {k \in 0 .. Len(s) - 1 : Blank(At(s, k))}
           m == Min(S \cup {Len(s)})
<1>1. Len(s) \in Nat
  BY DEF LinesOf
<1>2. BlankAt(s) = m
  BY DEF BlankAt, FirstFrom
<1>3. S \in SUBSET (0 .. Len(s) - 1)
  OBVIOUS
<1> DEFINE T == S
           n == Len(s)
           i == 0
<1>8. n \in Nat /\ i \in Int /\ T \in SUBSET (i .. n - 1)
  BY <1>1, <1>3
<1> HIDE DEF T, n, i
<1>4. /\ Min(T \cup {n}) \in T \cup {n} /\ Min(T \cup {n}) \in Int
      /\ Min(T \cup {n}) <= n /\ (i <= n => i <= Min(T \cup {n}))
      /\ \A k \in T : Min(T \cup {n}) <= k
  BY <1>8, FirstOffset
<1>5. m \in T \cup {Len(s)} /\ m \in 0 .. Len(s) /\ \A k \in T : m <= k
  <2> DEFINE x == Min(T \cup {n})
  <2> HIDE DEF x
  <2>1. x \in T \cup {n} /\ x \in 0 .. n /\ \A k \in T : x <= k
    BY <1>4, <1>8 DEF x, i
  <2> QED
    BY <2>1 DEF x, T, n
<1> HIDE DEF m
<1>6. m < Len(s) => Blank(s[m + 1])
  BY <1>1, <1>5 DEF T, At
<1>7. ASSUME NEW k \in 1 .. m, Blank(s[k])
      PROVE  FALSE
  <2>1. k - 1 \in 0 .. Len(s) - 1 /\ (k - 1) + 1 = k
    BY <1>1, <1>5
  <2>2. k - 1 \in T
    BY <1>7, <2>1 DEF T, At
  <2> QED
    BY <1>5, <2>2
<1> QED
  BY <1>2, <1>5, <1>6, <1>7

\* The options begin within the first block of the directive, or there are none.
LEMMA OptionsAtPart ==
    ASSUME NEW d, NEW D, NEW s \in LinesOf(D)
    PROVE  OptionsAt(d, s) \in 0 .. Len(s)
<1> DEFINE S == {k \in 0 .. Len(s) - 1 : At(s, k).ind = 0 /\ Head(At(s, k).m).t = "field_marker"}
           m == Min(S \cup {Len(s)})
<1>1. Len(s) \in Nat
  BY DEF LinesOf
<1>2. OptionsAt(d, s) = IF d.options = {} THEN Len(s) ELSE m
  BY DEF OptionsAt, FirstFrom
<1>3. S \in SUBSET (0 .. Len(s) - 1)
  OBVIOUS
<1> DEFINE T == S
           n == Len(s)
           i == 0
<1>8. n \in Nat /\ i \in Int /\ T \in SUBSET (i .. n - 1)
  BY <1>1, <1>3
<1> HIDE DEF T, n, i
<1>4. /\ Min(T \cup {n}) \in Int
      /\ Min(T \cup {n}) <= n /\ (i <= n => i <= Min(T \cup {n}))
  BY <1>8, FirstOffset
<1>5. m \in 0 .. Len(s)
  <2> DEFINE x == Min(T \cup {n})
  <2> HIDE DEF x
  <2>1. x \in 0 .. n
    BY <1>4, <1>8 DEF x, i
  <2> QED
    BY <2>1 DEF x, T, n
<1> HIDE DEF m
<1> QED
  BY <1>1, <1>2, <1>5

\* The parts of a directive are lines of the file, and its content is in step or cut.
LEMMA DividedPart ==
    ASSUME NEW d, NEW D, NEW s \in LinesOf(D), NEW start \in Int
    PROVE  LET p == DividedFrom(d, s, start)
           IN  /\ p.args \in LinesOf(D) /\ p.options \in LinesOf(D)
               /\ p.content \in LinesOf(D) /\ p.off \in Int
               /\ InStep(s, start) =>
                     InStep(p.content, p.off) \/ (p.args = <<>> /\ Cut(p.content, p.off))
               /\ d.args = "none" /\ d.options = {} /\ InStep(s, start) =>
                     InStep(p.content, p.off)
<1> DEFINE p == DividedFrom(d, s, start)
           i == BlankAt(s)
           front == Slice(s, 0, i)
           j == OptionsAt(d, front)
           Good(q) == /\ q.args \in LinesOf(D) /\ q.options \in LinesOf(D)
                      /\ q.content \in LinesOf(D) /\ q.off \in Int
           Right(q) == /\ InStep(s, start) =>
                            InStep(q.content, q.off) \/ (q.args = <<>> /\ Cut(q.content, q.off))
                       /\ d.args = "none" /\ d.options = {} /\ InStep(s, start) =>
                            InStep(q.content, q.off)
<1>1. /\ s \in Seq(LineOf(D)) /\ Len(s) \in Nat /\ DOMAIN s = 1 .. Len(s)
      /\ <<>> \in LinesOf(D)
  BY DEF LinesOf
<1>2. /\ i \in 0 .. Len(s) /\ (i < Len(s) => Blank(s[i + 1]))
      /\ \A k \in 1 .. i : ~Blank(s[k])
  BY BlankAtPart
<1> HIDE DEF i
<1>3. front \in LinesOf(D) /\ Len(front) = i
  BY <1>1, <1>2, SlicePart DEF LinesOf
<1> HIDE DEF front
<1>4. j \in 0 .. i
  BY <1>3, OptionsAtPart
<1> HIDE DEF j
<1>5. ASSUME NEW args \in LinesOf(D), NEW options \in LinesOf(D), NEW content \in LinesOf(D),
             NEW from \in Int
      PROVE  /\ Good(Divided(args, options, content, from))
             /\ Divided(args, options, content, from).args = args
             /\ Divided(args, options, content, from).content = TrimStart(content)
             /\ InStep(content, from) =>
                   InStep(Divided(args, options, content, from).content,
                          Divided(args, options, content, from).off)
             /\ content # <<>> /\ ~Blank(content[1]) =>
                   /\ Divided(args, options, content, from).content = content
                   /\ Divided(args, options, content, from).off = from
  <2> DEFINE t == TrimStart(content)
             off == from + Len(content) - Len(t)
             q == Divided(args, options, content, from)
  <2>1. q.args = args /\ q.options = options /\ q.content = t
    BY DEF Divided
  <2>2. q.off = off
    BY DEF Divided
  <2>3. /\ t \in LinesOf(D) /\ off \in Int /\ (InStep(content, from) => InStep(t, off))
        /\ content # <<>> /\ ~Blank(content[1]) => t = content
    BY TrimmedInStep
  <2>4. content # <<>> /\ ~Blank(content[1]) => off = from
    <3>1. Len(content) \in Nat
      BY DEF LinesOf
    <3> QED
      BY <2>3, <3>1
  <2> HIDE DEF q, t, off
  <2>5. q.off \in Int /\ (InStep(content, from) => InStep(q.content, q.off))
    BY <2>1, <2>2, <2>3, Zenon
  <2>6. q.args \in LinesOf(D) /\ q.options \in LinesOf(D) /\ q.content \in LinesOf(D)
    BY <2>1, <2>3
  <2>7. content # <<>> /\ ~Blank(content[1]) => q.content = content /\ q.off = from
    BY <2>1, <2>2, <2>3, <2>4, Zenon
  <2>8. Good(q) /\ q.args = args /\ q.content = t
    BY <2>1, <2>5, <2>6, Zenon
  <2> QED
    BY <2>5, <2>7, <2>8, Zenon DEF q, t
<1>6. CASE s = <<>> \/ (d.args = "none" /\ d.options = {})
  <2>1. p = Divided(<<>>, <<>>, s, start)
    BY <1>6 DEF DividedFrom
  <2>2. Good(p) /\ Right(p)
    BY <1>1, <1>5, <2>1
  <2> QED
    BY <2>2
<1>7. CASE ~(s = <<>> \/ (d.args = "none" /\ d.options = {}))
  <2> DEFINE low == Slice(s, 0, j)
             mid == Slice(s, j, i)
             rest == From(s, i)
             all == low \o rest
  <2>1. p = IF d.args = "none" /\ j > 0 THEN Divided(<<>>, mid, all, start)
            ELSE Divided(low, mid, From(s, i + 1), start + i + 1)
    BY <1>7 DEF DividedFrom, DividedAt, i, j, front
  <2>2. /\ low \in LinesOf(D) /\ Len(low) = j
        /\ \A k \in 1 .. Len(low) : low[k] = s[k + 0]
        /\ mid \in LinesOf(D)
    BY <1>1, <1>2, <1>4, SlicePart DEF LinesOf
  <2>3. rest \in LinesOf(D) /\ Len(rest) = Len(s) - i /\ \A k \in 1 .. Len(rest) : rest[k] = s[k + i]
    BY <1>1, <1>2, FromPart, Zenon DEF LinesOf
  <2> HIDE DEF low, mid, rest
  <2>4. CASE ~(d.args = "none" /\ j > 0)
    <3> DEFINE k == i + 1
               end == From(s, k)
    <3>1. k \in Nat /\ start + i + 1 \in Int /\ start + i + 1 = start + k
      BY <1>2
    <3> HIDE DEF k
    <3>2. end \in LinesOf(D) /\ (InStep(s, start) => InStep(end, start + k))
      BY <1>1, <3>1, FromInStep DEF LinesOf
    <3>3. p = Divided(low, mid, end, start + i + 1)
      BY <2>1, <2>4 DEF k
    <3> HIDE DEF end
    <3>4. InStep(s, start) => InStep(end, start + i + 1)
      BY <3>1, <3>2
    <3> DEFINE from == start + i + 1
    <3>6. from \in Int
      BY <3>1
    <3> HIDE DEF from
    <3> DEFINE q == Divided(low, mid, end, from)
    <3>7. Good(q) /\ (InStep(end, from) => InStep(q.content, q.off))
      BY <1>5, <2>2, <3>2, <3>6
    <3>8. p = q /\ (InStep(s, start) => InStep(end, from))
      BY <3>3, <3>4 DEF from
    <3> HIDE DEF q, p
    <3>5. Good(p) /\ (InStep(s, start) => InStep(p.content, p.off))
      BY <3>7, <3>8, Zenon
    <3> QED
      BY <3>5, Zenon DEF p
  <2>5. CASE d.args = "none" /\ j > 0
    <3>1. p = Divided(<<>>, mid, all, start)
      BY <2>1, <2>5
    <3>2. /\ all \in LinesOf(D) /\ Len(all) = Len(low) + Len(rest)
          /\ \A k \in 1 .. Len(low) + Len(rest) :
                all[k] = IF k <= Len(low) THEN low[k] ELSE rest[k - Len(low)]
      BY <2>2, <2>3, ConcatProperties DEF LinesOf
    <3> HIDE DEF all
    <3>3. /\ Len(all) = j + (Len(s) - i) /\ DOMAIN all = 1 .. Len(all)
          /\ \A k \in 1 .. Len(all) : all[k] = IF k <= j THEN s[k] ELSE s[k - j + i]
      <4>1. DOMAIN all = 1 .. Len(all)
        BY <3>2 DEF LinesOf
      <4>2. Len(all) = j + (Len(s) - i)
        BY <2>2, <2>3, <3>2
      <4>3. ASSUME NEW k \in 1 .. Len(all)
            PROVE  all[k] = IF k <= j THEN s[k] ELSE s[k - j + i]
        <5>1. k \in Nat /\ Len(low) = j /\ j \in Nat /\ k \in 1 .. Len(low) + Len(rest)
              /\ Len(rest) \in Nat
          BY <1>1, <1>2, <1>4, <2>2, <2>3, <3>2
        <5>2. all[k] = IF k <= Len(low) THEN low[k] ELSE rest[k - Len(low)]
          BY <3>2, <5>1
        <5>3. CASE k <= j
          <6>1. k \in 1 .. Len(low) /\ all[k] = low[k] /\ k + 0 = k
            BY <5>1, <5>2, <5>3
          <6>2. low[k] = s[k + 0]
            BY <2>2, <6>1
          <6> QED
            BY <5>3, <6>1, <6>2
        <5>4. CASE ~(k <= j)
          <6>1. k - j \in 1 .. Len(rest) /\ all[k] = rest[k - j]
            BY <5>1, <5>2, <5>4
          <6>2. rest[k - j] = s[k - j + i]
            BY <2>3, <6>1
          <6> QED
            BY <5>4, <6>1, <6>2
        <5> QED
          BY <5>3, <5>4
      <4> QED
        BY <4>1, <4>2, <4>3
    <3>4. CASE j = i
      <4>1. \A k \in 1 .. Len(all) : all[k] = s[k]
        BY <1>1, <1>2, <1>4, <3>3, <3>4
      <4>2. InStep(s, start) => InStep(all, start)
        <5>1. Len(all) = Len(s)
          BY <1>1, <1>2, <3>3, <3>4
        <5>2. DOMAIN all = 1 .. Len(s) /\ DOMAIN s = 1 .. Len(s)
          BY <1>1, <3>3, <5>1
        <5> QED
          BY <4>1, <5>1, <5>2 DEF InStep
      <4>3. Good(p) /\ (InStep(s, start) => InStep(p.content, p.off))
        BY <1>1, <1>5, <2>2, <3>1, <3>2, <4>2
      <4> QED
        BY <4>3
    <3>5. CASE j # i
      <4>1. 1 \in 1 .. i /\ 1 \in 1 .. Len(all) /\ all # <<>>
        BY <1>1, <1>2, <1>4, <2>5, <3>2, <3>3, <3>5
      <4>2. all[1] = s[1] /\ ~Blank(s[1])
        BY <1>2, <1>4, <2>5, <3>3, <4>1
      <4>3. Good(p) /\ p.args = <<>> /\ p.content = all
        BY <1>1, <1>5, <2>2, <3>1, <3>2, <4>1, <4>2
      <4>4. p.off = start
        <5> DEFINE q == Divided(<<>>, mid, all, start)
        <5>3. <<>> \in LinesOf(D) /\ mid \in LinesOf(D) /\ all \in LinesOf(D)
          BY <1>1, <2>2, <3>2
        <5>1. all # <<>> /\ ~Blank(all[1]) => q.off = start
          BY <1>5, <5>3
        <5> HIDE DEF q
        <5>2. p = q /\ ~Blank(all[1])
          BY <3>1, <4>2 DEF q
        <5> QED
          BY <4>1, <5>1, <5>2
      <4>5. ASSUME InStep(s, start)
            PROVE  InStep(all, start) \/ Cut(all, start)
        <5>1. ASSUME NEW k \in 1 .. j
              PROVE  all[k].n = start + k
          <6>1. k \in 1 .. Len(all) /\ k \in DOMAIN s /\ all[k] = s[k]
            BY <1>1, <1>2, <1>4, <3>3, <5>1
          <6> QED
            BY <4>5, <6>1 DEF InStep
        <5>2. CASE i = Len(s)
          BY <1>1, <1>4, <3>3, <5>1, <5>2 DEF InStep
        <5>3. CASE i # Len(s)
          <6> DEFINE gap == j + 1
          <6> DEFINE length == Len(all)
          <6>8. length = j + (Len(s) - i) /\ i \in 0 .. Len(s) /\ j \in 0 .. i /\ j > 0
            BY <1>2, <1>4, <2>5, <3>3
          <6> HIDE DEF length
          <6> DEFINE m == Len(s)
          <6>10. m \in Nat /\ length = j + (m - i) /\ i \in 0 .. m /\ j \in 0 .. i /\ j > 0 /\ i # m
            BY <1>1, <5>3, <6>8, Zenon
          <6> HIDE DEF m
          <6>9. gap \in 2 .. length /\ i + 1 \in 1 .. m /\ i < m
            BY ONLY <6>10
          <6>1. gap \in 2 .. Len(all) /\ i + 1 \in DOMAIN s /\ i < Len(s)
            BY <1>1, <6>9 DEF length, m
          <6>2. all[gap] = s[i + 1]
            <7>1. gap \in 1 .. Len(all) /\ ~(gap <= j) /\ gap - j + i = i + 1
              BY <1>1, <1>2, <1>4, <3>3, <6>1
            <7> QED
              BY <3>3, <7>1
          <6>3. Blank(all[gap]) /\ all[gap].n = start + (i + 1)
            BY <1>2, <4>5, <6>1, <6>2 DEF InStep
          <6>4. all[gap].n > start + gap
            BY <1>2, <1>4, <3>5, <6>3
          <6> DEFINE head == SubSeq(all, 1, gap - 1)
          <6>5. gap - 1 = j /\ all \in Seq(LineOf(D)) /\ Len(all) \in Nat
            BY <1>4, <3>2 DEF LinesOf
          <6>6. Len(head) = j /\ DOMAIN head = 1 .. j /\ \A k \in 1 .. j : head[k] = all[k]
            BY <1>1, <1>2, <1>4, <3>3, <6>5, SubSeqProperties
          <6>7. InStep(head, start)
            BY <5>1, <6>6 DEF InStep
          <6> QED
            BY <6>1, <6>3, <6>4, <6>7 DEF Cut
        <5> QED
          BY <5>2, <5>3
      <4>6. ~(d.args = "none" /\ d.options = {})
        BY <1>7
      <4> QED
        BY <4>3, <4>4, <4>5, <4>6, Zenon
    <3> QED
      BY <3>4, <3>5
  <2> QED
    BY <2>4, <2>5
<1> QED
  BY <1>6, <1>7

\* What a directive is given: its lines are those of the block, numbered as they are.
LEMMA DirectivePart ==
    ASSUME NEW d, NEW D, NEW block \in LinesOf(D), NEW offset \in Int
    PROVE  LET p == DirectiveBlock(d, block, offset)
           IN  /\ p.args \in LinesOf(D) /\ p.options \in LinesOf(D)
               /\ p.content \in LinesOf(D) /\ p.off \in Int
               /\ InStep(block, offset) =>
                     InStep(p.content, p.off) \/ (p.args = <<>> /\ Cut(p.content, p.off))
               /\ d.args = "none" /\ d.options = {} /\ InStep(block, offset) =>
                     InStep(p.content, p.off)
<1> DEFINE first == IF block # <<>> /\ Blank(block[1]) THEN 1 ELSE 0
           lower == From(block, first)
           s == TrimEnd(lower)
           start == offset + first
<1>1. first \in Nat /\ start \in Int
  OBVIOUS
<1>2. DirectiveBlock(d, block, offset) = DividedFrom(d, s, start)
  BY DEF DirectiveBlock
<1> DEFINE k == first
<1>3. k \in Nat /\ start = offset + k
  BY <1>1
<1> HIDE DEF k
<1>4. From(block, k) \in LinesOf(D) /\ (InStep(block, offset) => InStep(From(block, k), offset + k))
  BY <1>3, FromInStep DEF LinesOf
<1>5. lower \in LinesOf(D) /\ (InStep(block, offset) => InStep(lower, start))
  BY <1>3, <1>4 DEF k
<1> HIDE DEF lower, start, first
<1>6. s \in LinesOf(D) /\ (InStep(block, offset) => InStep(s, start))
  BY <1>1, <1>5, CutInStep
<1> HIDE DEF s
<1> DEFINE p == DividedFrom(d, s, start)
<1>7. /\ p.args \in LinesOf(D) /\ p.options \in LinesOf(D)
      /\ p.content \in LinesOf(D) /\ p.off \in Int
      /\ InStep(s, start) =>
            InStep(p.content, p.off) \/ (p.args = <<>> /\ Cut(p.content, p.off))
      /\ d.args = "none" /\ d.options = {} /\ InStep(s, start) => InStep(p.content, p.off)
  BY <1>1, <1>6, DividedPart
<1> HIDE DEF p
<1> QED
  BY <1>2, <1>6, <1>7, Zenon DEF p

\* The first line without its indentation.
LEMMA FlushLines ==
    ASSUME NEW D, NEW lines \in LinesOf(D), lines # <<>>
    PROVE  /\ [lines EXCEPT ![1].ind = 0] \in LinesOf(D)
           /\ [lines EXCEPT ![1].ind = 0] # <<>>
<1> DEFINE end == [lines EXCEPT ![1].ind = 0]
           x == [lines[1] EXCEPT !.ind = 0]
<1>1. lines \in Seq(LineOf(D)) /\ 1 \in DOMAIN lines /\ lines[1] \in LineOf(D)
  BY DEF LinesOf
<1>2. x \in LineOf(D) /\ end = [lines EXCEPT ![1] = x]
  BY <1>1, LineFields DEF LineOf
<1> HIDE DEF x, end
<1>3. end \in Seq(LineOf(D)) /\ DOMAIN end = DOMAIN lines
  BY <1>1, <1>2
<1> QED
  BY <1>1, <1>3 DEF end, LinesOf

-----------------------------------------------------------------------------
(* Substitutions and directives. *)

\* What the caller of a machine goes on with, field by field.
LEMMA ThenParts ==
    ASSUME NEW n, NEW D, NEW t, DOMAIN t = ThenFields, t.node \in 0 .. n, t.of \in SUBSET D,
           t.level \in Int, t.k \notin {"first", "section", "argument"}
    PROVE  ThenOK(t, n, D)
<1>1. t.k # "first" /\ t.k # "section" /\ t.k # "argument" /\ t.of \subseteq D
  OBVIOUS
<1> QED
  BY <1>1, Zenon DEF ThenOK

\* The text of a substitution definition ends its machine.
LEMMA SubstitutionTextStep ==
    ASSUME Stack, SubstitutionText
    PROVE  Stack'
<1> DEFINE S == {"SubstitutionDef"}
           T == {"text"}
           finish == IF HasLine(F, F.off + 1) THEN NextLineBlank(F) ELSE F.finish
           f == [F EXCEPT !.finish = finish]
<1>1. Sees(S, T) /\ Continue(Ended(f), <<>>)
  BY DEF SubstitutionText
<1>2. S \cap TextStates = {}
  BY DEF TextStates
<1> HIDE DEF S, T, finish
<1>3. /\ frames # <<>> /\ memo.bubble = FALSE /\ F.state \notin TextStates
      /\ FrameOK(F, Len(tree), DOMAIN doc) /\ Keeps(Top, F)
  BY <1>1, <1>2, Seen, Zenon
<1>4. FrameOK(f, Len(tree), DOMAIN doc) /\ Keeps(F, f) /\ f.state = F.state
  BY <1>3, FinishedMachine
<1> HIDE DEF f
<1>5. Keeps(Top, f) /\ f.state \notin TextStates
  BY <1>3, <1>4, KeptTwice
<1>6. NodesOK(<<>>, Len(tree), DOMAIN doc)
  BY <1>1, SeenNode, NoNodes
<1> QED
  BY <1>1, <1>3, <1>4, <1>5, <1>6, Ending

\* A substitution definition is read by a machine of its own.
LEMMA SubstitutionDefinitionStep ==
    ASSUME Stack, SubstitutionDefinition
    PROVE  Stack'
<1> DEFINE S == {"Body", "Explicit"}
           T == {"explicit_markup"}
           b == SubstitutionBlock(F)
           lines == b.lines
           base == b.off
           last == b.last
           finish == b.finish
           f == [F EXCEPT !.off = last]
           of == NumbersTo(F, last)
           then == [Then("substitution", finish) EXCEPT !.node = NextNode, !.of = of]
           g == Machine("SubstitutionDef", lines, base, NextNode, FALSE, then)
           none == <<Node("warning", F.node, of)>>
           nodes == <<Node("substitution_definition", F.node, {})>>
           n == Len(tree) + 1
           D == DOMAIN doc
<1>1. Sees(S, T) /\ F.state \notin TextStates
  BY SeenExplicit DEF SubstitutionDefinition
<1>2. /\ \/ Construct(f, finish, none)
         \/ /\ tree' = Append(tree, Node("substitution_definition", F.node, {}))
            /\ frames' = Below \o <<f, g>>
      /\ Same
  BY DEF SubstitutionDefinition, Message
<1> HIDE DEF S, T
<1>3. /\ F.lines \in LinesOf(D) /\ F.base \in Int /\ F.off \in Nat /\ F.off < Len(F.lines)
  BY <1>1, SeenLines
<1>4. last \in Int /\ last >= F.off
  BY <1>3, SubstitutionBlockPart
<1>5. lines \in LinesOf(D) /\ base \in Int /\ (Counted(F) => InStep(lines, base))
  BY <1>3, SubstitutionBlockPart
<1> HIDE DEF b, lines, base, last, finish
<1>6. last >= -1
  BY <1>3, <1>4
<1>7. of \in SUBSET D
  BY <1>3, <1>4, NumbersToPart
<1> HIDE DEF of
<1>8. /\ Len(tree) \in Nat /\ F.node \in 0 .. Len(tree) /\ TreeOK(tree, D)
      /\ NextNode = Len(tree) + 1
  BY <1>1, SeenNode
<1>9. CASE Construct(f, finish, none)
  <2>1. NodesOK(none, Len(tree), DOMAIN doc)
    BY <1>7, <1>8, OneNode
  <2> HIDE DEF none
  <2>2. UNCHANGED <<doc, memo, cache, error>> /\ dropped' \subseteq DOMAIN doc
    BY <1>2 DEF Same, Stack
  <2> QED
    BY <1>1, <1>4, <1>6, <1>9, <2>1, <2>2, ConstructAt
<1>10. ASSUME tree' = Append(tree, Node("substitution_definition", F.node, {})),
              frames' = Below \o <<f, g>>, Same
       PROVE  Stack'
  <2>1. NodesOK(nodes, Len(tree), D) /\ Len(nodes) = 1
    <3>1. {} \in SUBSET D
      OBVIOUS
    <3> QED
      BY <1>8, <3>1, OneNode
  <2>2. tree' = tree \o nodes
    BY <1>8, <1>10, AppendedNode DEF TreeOK
  <2> HIDE DEF nodes, D
  <2>3. n \in Nat /\ NextNode \in 0 .. n /\ n = Len(tree) + Len(nodes) /\ F.node < NextNode
    BY <1>8, <2>1
  <2> HIDE DEF n
  <2>18. DOMAIN then = ThenFields /\ then.k = "substitution" /\ then.of = of
    BY DEF Then, ThenFields
  <2>5. then.node = NextNode
    BY DEF Then
  <2>19. then.level = 0
    BY DEF Then
  <2> HIDE DEF then
  <2>20. then.level \in Int
    BY <2>19
  <2>21. then.k \notin {"first", "section", "argument"} /\ then.of \in SUBSET D
    BY <1>7, <2>18
  <2>22. then.node \in 0 .. n
    BY <2>3, <2>5
  <2>4. ThenOK(then, n, D) /\ then.k = "substitution"
    BY <2>18, <2>20, <2>21, <2>22, ThenParts
  <2>6. "SubstitutionDef" \in States \ TextStates
    BY DEF States, TextStates
  <2>7. FrameOK(g, n, D) /\ TopOK(g, FALSE)
    BY <1>5, <2>3, <2>4, <2>6, NewMachine
  <2>8. g.then = then /\ g.lines = lines
    BY DEF Machine
  <2>9. g.base = base
    BY DEF Machine
  <2> HIDE DEF g
  <2>10. /\ FrameOK(f, Len(tree), D) /\ Keeps(Top, f) /\ Keeps(F, f)
         /\ f.phase = "run" /\ f.state \notin TextStates
    BY <1>1, <1>4, <1>6, SeenMoved DEF D
  <2> HIDE DEF f
  <2>11. Counted(f) => Counted(g)
    BY <1>5, <2>8, <2>9, <2>10 DEF Counted, Keeps
  <2>12. f.node < g.then.node
    BY <2>3, <2>5, <2>8, <2>10 DEF Keeps
  <2>13. LinkOK(f, g)
    BY <2>4, <2>8, <2>10, <2>11, <2>12, Zenon DEF LinkOK
  <2>14. ~Pushes(g)
    BY <2>4, <2>8 DEF Pushes
  <2>15. /\ memo \in MemoType /\ memo.level <= Len(memo.styles) /\ cache \in Seq(BOOLEAN)
         /\ dropped \subseteq DOMAIN doc /\ 0 \in Int
         /\ doc' = doc /\ memo' = memo /\ cache' = cache /\ error' = error /\ dropped' = dropped
    BY <1>10 DEF Stack, Same
  <2>16. frames # <<>> /\ memo.bubble = FALSE
    BY <1>1, Seen, Zenon
  <2>17. FrameOK(g, Len(tree) + Len(nodes), DOMAIN doc)
    BY <2>3, <2>7 DEF D
  <2> QED
    BY <1>10, <2>1, <2>2, <2>7, <2>10, <2>13, <2>14, <2>15, <2>16, <2>17, Starting DEF D
<1> QED
  BY <1>2, <1>9, <1>10

\* What is known when a machine sees a directive.
LEMMA DirectiveSeen ==
    ASSUME Stack, SeesDirective
    PROVE  \E S, T : Sees(S, T) /\ S \cap TextStates = {} /\ F.state \notin TextStates
<1>1. PICK S, T : Sees(S, T) /\ S \cap TextStates = {}
  BY SeenDirectiveOrNot DEF SeesDirective
<1>2. F.state \notin TextStates
  BY <1>1, Seen, Zenon
<1> QED
  BY <1>1, <1>2

\* The lines that are given to the directive.
LEMMA DirectiveLines ==
    ASSUME Stack, SeesDirective
    PROVE  /\ Parsed.args \in LinesOf(DOMAIN doc) /\ Parsed.options \in LinesOf(DOMAIN doc)
           /\ Parsed.content \in LinesOf(DOMAIN doc) /\ Parsed.off \in Int
           /\ Counted(F) => \/ InStep(Parsed.content, Parsed.off)
                            \/ Parsed.args = <<>> /\ Cut(Parsed.content, Parsed.off)
           /\ /\ Directives[Head(Line.m).c].args = "none"
              /\ Directives[Head(Line.m).c].options = {}
              /\ Counted(F)
              => InStep(Parsed.content, Parsed.off)
<1> DEFINE d == Directives[Head(Line.m).c]
           block == Here.lines
           offset == AbsOffset(F)
           p == DirectiveBlock(d, block, offset)
<1>1. PICK S, T : Sees(S, T)
  BY DirectiveSeen
<1>2. block \in LinesOf(DOMAIN doc) /\ (Counted(F) => InStep(block, offset))
  BY <1>1, SeenIndented DEF Here
<1>3. offset \in Int
  BY <1>1, SeenLines DEF AbsOffset
<1>4. Parsed = p
  BY DEF Parsed
<1> HIDE DEF d, block, offset
<1>5. /\ p.args \in LinesOf(DOMAIN doc) /\ p.options \in LinesOf(DOMAIN doc)
      /\ p.content \in LinesOf(DOMAIN doc) /\ p.off \in Int
      /\ InStep(block, offset) =>
            InStep(p.content, p.off) \/ (p.args = <<>> /\ Cut(p.content, p.off))
      /\ d.args = "none" /\ d.options = {} /\ InStep(block, offset) => InStep(p.content, p.off)
  BY <1>2, <1>3, DirectivePart
<1> HIDE DEF p
<1> QED
  BY <1>2, <1>4, <1>5, Zenon DEF d

\* The machine behind the directive.
LEMMA DirectiveEnd ==
    ASSUME Stack, SeesDirective
    PROVE  /\ FrameOK(AtEnd, Len(tree), DOMAIN doc) /\ Keeps(Top, AtEnd) /\ Keeps(F, AtEnd)
           /\ AtEnd.phase = "run" /\ AtEnd.state \notin TextStates
           /\ NumbersTo(F, Here.last) \in SUBSET (DOMAIN doc)
           /\ frames # <<>> /\ memo.bubble = FALSE
<1> DEFINE last == Here.last
           f == [F EXCEPT !.off = last]
<1>1. PICK S, T : Sees(S, T) /\ F.state \notin TextStates
  BY DirectiveSeen
<1>2. last \in Int /\ last >= F.off /\ F.off \in Nat /\ F.lines \in LinesOf(DOMAIN doc)
  BY <1>1, SeenLines, SeenIndented DEF Here
<1>3. AtEnd = f
  BY DEF AtEnd
<1> HIDE DEF last
<1>4. NumbersTo(F, last) \in SUBSET (DOMAIN doc)
  BY <1>2, NumbersToPart
<1>5. last >= -1
  BY <1>2
<1>6. /\ FrameOK(f, Len(tree), DOMAIN doc) /\ Keeps(Top, f) /\ Keeps(F, f)
      /\ f.phase = "run" /\ f.state \notin TextStates
  BY <1>1, <1>2, <1>5, SeenMoved
<1> HIDE DEF f
<1>7. frames # <<>> /\ memo.bubble = FALSE
  BY <1>1, Seen, Zenon
<1> QED
  BY <1>3, <1>4, <1>6, <1>7 DEF last

\* The node of a directive.
LEMMA DirectiveNode0 ==
    ASSUME Stack, SeesDirective, NEW kind, NEW of \in SUBSET (DOMAIN doc)
    PROVE  /\ NodesOK(<<Node(kind, F.node, of)>>, Len(tree), DOMAIN doc)
           /\ Len(<<Node(kind, F.node, of)>>) = 1
           /\ Append(tree, Node(kind, F.node, of)) = tree \o <<Node(kind, F.node, of)>>
           /\ NextNode = Len(tree) + 1 /\ Len(tree) \in Nat /\ F.node < NextNode
<1>1. PICK S, T : Sees(S, T)
  BY DirectiveSeen
<1>2. /\ Len(tree) \in Nat /\ F.node \in 0 .. Len(tree) /\ TreeOK(tree, DOMAIN doc)
      /\ NextNode = Len(tree) + 1
  BY <1>1, SeenNode
<1>3. NodesOK(<<Node(kind, F.node, of)>>, Len(tree), DOMAIN doc)
      /\ Len(<<Node(kind, F.node, of)>>) = 1
  BY <1>2, OneNode
<1>4. Append(tree, Node(kind, F.node, of)) = tree \o <<Node(kind, F.node, of)>>
  BY <1>2, AppendedNode DEF TreeOK
<1>5. F.node < NextNode
  BY <1>2
<1> QED
  BY <1>2, <1>3, <1>4, <1>5

\* A directive whose arguments, options or content are refused.
LEMMA RefuseDirectiveStep ==
    ASSUME Stack, RefuseDirective
    PROVE  Stack'
<1> DEFINE finish == IF Accepted THEN Finishes(AtEnd, Here.finish) ELSE Here.finish
           of == NumbersTo(F, Here.last)
           nodes == <<Node("error", F.node, of)>>
<1>1. SeesDirective /\ Construct(AtEnd, finish, nodes) /\ Same
  BY DEF RefuseDirective, Message
<1> HIDE DEF finish
<1>2. of \in SUBSET (DOMAIN doc)
  BY <1>1, DirectiveEnd
<1> HIDE DEF of
<1>3. NodesOK(nodes, Len(tree), DOMAIN doc)
  BY <1>1, <1>2, DirectiveNode0
<1> HIDE DEF nodes
<1>4. /\ doc' = doc /\ memo' = memo /\ cache' = cache /\ error' = error
      /\ dropped' \subseteq DOMAIN doc
  BY <1>1 DEF Same, Stack
<1> QED
  BY <1>1, <1>3, <1>4, DirectiveEnd, Constructing

\* A directive whose content is the value of its node.
LEMMA CodeDirectiveStep ==
    ASSUME Stack, CodeDirective
    PROVE  Stack'
<1> DEFINE finish == Finishes(AtEnd, Here.finish)
           of == NumbersOf(Parsed.args) \cup NumbersOf(Parsed.options) \cup NumbersOf(Parsed.content)
           nodes == <<Node("code", F.node, of)>>
<1>1. SeesDirective /\ Construct(AtEnd, finish, nodes) /\ Same
  BY DEF CodeDirective
<1> HIDE DEF finish
<1>2. of \in SUBSET (DOMAIN doc)
  BY <1>1, DirectiveLines, NumbersInFile
<1> HIDE DEF of
<1>3. NodesOK(nodes, Len(tree), DOMAIN doc)
  BY <1>1, <1>2, DirectiveNode0
<1> HIDE DEF nodes
<1>4. /\ doc' = doc /\ memo' = memo /\ cache' = cache /\ error' = error
      /\ dropped' \subseteq DOMAIN doc
  BY <1>1 DEF Same, Stack
<1> QED
  BY <1>1, <1>3, <1>4, DirectiveEnd, Constructing

\* A memo with another stack of lowest levels.
LEMMA MinimumOf ==
    ASSUME NEW m \in MemoType, NEW minimum \in Seq(Int)
    PROVE  /\ [m EXCEPT !.minimum = minimum] \in MemoType
           /\ [m EXCEPT !.minimum = minimum].level = m.level
           /\ [m EXCEPT !.minimum = minimum].styles = m.styles
           /\ [m EXCEPT !.minimum = minimum].bubble = m.bubble
           /\ [m EXCEPT !.minimum = minimum].minimum = minimum
<1>1. DOMAIN m = {"styles", "level", "bubble", "minimum"}
  BY DEF MemoType
<1>2. [m EXCEPT !.minimum = minimum] \in MemoType
  BY DEF MemoType
<1>3. [m EXCEPT !.minimum = minimum].level = m.level
  BY <1>1
<1>4. [m EXCEPT !.minimum = minimum].styles = m.styles
  BY <1>1
<1>5. [m EXCEPT !.minimum = minimum].bubble = m.bubble
  BY <1>1
<1>6. [m EXCEPT !.minimum = minimum].minimum = minimum
  BY <1>1
<1> QED
  BY <1>2, <1>3, <1>4, <1>5, <1>6

\* A directive that parses lines.
LEMMA DirectiveNesting ==
    ASSUME Stack, SeesDirective, NEW lines \in LinesOf(DOMAIN doc), NEW base \in Int, NEW titles,
           NEW then, NestedParse(AtEnd, lines, base, NextNode, titles, then),
           ThenOK(then, Len(tree) + 1, DOMAIN doc),
           then.k = "directive" =>
               (Counted(F) => InStep(lines, base) \/ Cut(lines, base)),
           then.k = "argument" => (Counted(F) => InStep(then.next[1], then.level)),
           then.k = "replace" => then.node = NextNode /\ (Counted(F) => InStep(lines, base)),
           then.k \in {"directive", "argument", "replace"},
           NEW kind, NEW of \in SUBSET (DOMAIN doc),
           tree' = Append(tree, Node(kind, F.node, of)),
           memo' = IF then.k = "directive" /\ then.level = 1
                   THEN [memo EXCEPT !.minimum = Append(@, memo.level)] ELSE memo,
           doc' = doc, error' = error, dropped' \subseteq DOMAIN doc
    PROVE  Stack'
<1> DEFINE nodes == <<Node(kind, F.node, of)>>
           g == Machine("Body", lines, base, NextNode, titles, then)
           f == AtEnd
<1>1. /\ NodesOK(nodes, Len(tree), DOMAIN doc) /\ Len(nodes) = 1
      /\ tree' = tree \o nodes
      /\ NextNode = Len(tree) + 1 /\ Len(tree) \in Nat /\ F.node < NextNode
  BY DirectiveNode0
<1>2. /\ FrameOK(f, Len(tree), DOMAIN doc) /\ Keeps(Top, f) /\ Keeps(F, f)
      /\ f.phase = "run" /\ f.state \notin TextStates /\ frames # <<>> /\ memo.bubble = FALSE
  BY DirectiveEnd
<1> HIDE DEF nodes
<1>3. NextNode \in 0 .. Len(tree) + Len(nodes) /\ Len(tree) + Len(nodes) \in Nat
      /\ Len(tree) + 1 = Len(tree) + Len(nodes)
  BY <1>1
<1>4. ThenOK(then, Len(tree) + Len(nodes), DOMAIN doc)
  BY <1>1
<1>5. g.then = then /\ g.lines = lines
  BY DEF Machine
<1>6. g.base = base
  BY DEF Machine
<1>7. NestedParse(f, lines, base, NextNode, titles, then)
  OBVIOUS
<1> HIDE DEF f, g
<1>8. Counted(F) <=> Counted(f)
  BY <1>2 DEF Keeps, Counted
<1>9. Counted(f) => Counted(g) \/ Exempt(g)
  <2>1. CASE then.k = "argument"
    BY <1>5, <2>1 DEF Exempt
  <2>2. CASE then.k = "replace"
    BY <1>5, <1>6, <1>8, <2>2, Zenon DEF Counted
  <2>3. CASE then.k = "directive"
    <3>1. Cut(lines, base) => OptionsCut(g)
      BY <1>5, <1>6, <2>3 DEF Cut, OptionsCut
    <3> QED
      BY <1>5, <1>6, <1>8, <2>3, <3>1, Zenon DEF Counted, Exempt
  <2> QED
    BY <2>1, <2>2, <2>3
<1>10. g.then.k = "argument" /\ Counted(f) => InStep(g.then.next[1], g.then.level)
  BY <1>5, <1>8, Zenon
<1>11. g.then.k = "replace" => f.node < g.then.node
  BY <1>1, <1>2, <1>5, Zenon DEF Keeps
<1>12. LinkOK(f, g)
  <2>1. /\ g.then.k # "root" /\ g.then.k # "section" /\ g.then.k # "list"
        /\ g.then.k # "substitution"
    BY <1>5
  <2>2. /\ g.then.k \notin {"section", "list"}
        /\ g.then.k \in {"replace", "substitution"} => g.then.k = "replace"
    BY <2>1
  <2> QED
    BY <1>2, <1>9, <1>10, <1>11, <2>1, <2>2, Zenon DEF LinkOK
<1>13. memo \in MemoType /\ memo.level <= Len(memo.styles)
  BY DEF Stack
<1>14. memo.level \in Int
  BY <1>13 DEF MemoType
<1>15. /\ memo' \in MemoType /\ memo'.level <= Len(memo'.styles) /\ memo'.bubble = FALSE
       /\ memo'.minimum = IF then.k = "directive" /\ then.level = 1
                          THEN Append(memo.minimum, memo.level) ELSE memo.minimum
  <2> DEFINE m == [memo EXCEPT !.minimum = Append(@, memo.level)]
             pushes == then.k = "directive" /\ then.level = 1
  <2>1. /\ m \in MemoType /\ m.level <= Len(m.styles) /\ m.bubble = FALSE
        /\ m.minimum = Append(memo.minimum, memo.level)
    <3> DEFINE minimum == Append(memo.minimum, memo.level)
    <3>1. minimum \in Seq(Int)
      BY <1>13, <1>14 DEF MemoType
    <3> HIDE DEF minimum
    <3> DEFINE x == [memo EXCEPT !.minimum = minimum]
    <3>2. /\ x \in MemoType /\ x.level = memo.level /\ x.styles = memo.styles
          /\ x.bubble = memo.bubble /\ x.minimum = minimum
      BY <1>13, <3>1, MinimumOf
    <3>3. /\ m \in MemoType /\ m.level = memo.level /\ m.styles = memo.styles
          /\ m.bubble = memo.bubble /\ m.minimum = minimum
      BY <3>2 DEF minimum
    <3> HIDE DEF m
    <3> QED
      BY <1>2, <1>13, <3>3 DEF minimum
  <2>2. memo' = IF pushes THEN m ELSE memo
    OBVIOUS
  <2> HIDE DEF m, pushes
  <2>3. CASE pushes
    BY <2>1, <2>2, <2>3 DEF pushes
  <2>4. CASE ~pushes
    BY <1>2, <1>13, <2>2, <2>4 DEF pushes
  <2> QED
    BY <2>3, <2>4
<1> QED
  BY <1>1, <1>2, <1>3, <1>4, <1>7, <1>12, <1>14, <1>15, Nesting DEF g

\* What is left to do after the content of a directive.
LEMMA ContentThen ==
    ASSUME NEW n \in Nat, NEW D, NEW level \in {0, 1}
    PROVE  ThenOK(Content(level), n, D) /\ Content(level).k = "directive" /\ Content(level).level = level
<1> DEFINE t == Content(level)
<1>1. DOMAIN t = ThenFields /\ t.k = "directive" /\ t.of = {}
  BY DEF Content, Then, ThenFields
<1>2. t.node = 0
  BY DEF Content, Then
<1>3. t.level = level
  BY DEF Content, Then
<1> HIDE DEF t
<1>4. t.node \in 0 .. n
  BY <1>2
<1>5. t.level \in Int
  BY <1>3
<1>6. t.k \notin {"first", "section", "argument"} /\ t.of \in SUBSET D
  BY <1>1
<1>7. ThenOK(t, n, D)
  BY <1>1, <1>4, <1>5, <1>6, ThenParts
<1> QED
  BY <1>1, <1>3, <1>7, Zenon DEF t

\* A directive whose content is parsed, with the level it pushes.
LEMMA BlockDirectiveStep ==
    ASSUME Stack, BlockDirective
    PROVE  Stack'
<1> DEFINE lines == Parsed.content
           base == Parsed.off
           then == Content(1)
           kept == IF BeginsWithColon THEN <<>> ELSE Slice(Parsed.args, 0, 1)
           of == NumbersOf(kept) \cup NumbersOf(Parsed.options)
           kind == "directive"
           D == DOMAIN doc
<1>1. /\ SeesDirective /\ NestedParse(AtEnd, lines, base, NextNode, TRUE, then)
      /\ tree' = Append(tree, Node(kind, F.node, of))
      /\ dropped' = dropped \cup (NumbersOf(Parsed.args) \ NumbersOf(kept))
      /\ memo' = [memo EXCEPT !.minimum = Append(@, memo.level)]
      /\ doc' = doc /\ error' = error
  BY DEF BlockDirective, DirectiveNode
<1>2. Parsed.args \in LinesOf(D) /\ Parsed.options \in LinesOf(D)
  BY <1>1, DirectiveLines
<1>3. kept \in LinesOf(D)
  <2>1. <<>> \in LinesOf(D)
    BY DEF LinesOf
  <2>2. Slice(Parsed.args, 0, 1) \in LinesOf(D)
    BY <1>2, SlicePart DEF LinesOf
  <2> QED
    BY <2>1, <2>2
<1> HIDE DEF kept
<1>4. of \in SUBSET (DOMAIN doc)
  BY <1>2, <1>3, NumbersInFile
<1>5. dropped' \subseteq DOMAIN doc
  BY <1>1, <1>2, NumbersInFile DEF Stack
<1>6. /\ lines \in LinesOf(DOMAIN doc) /\ base \in Int
      /\ Counted(F) => InStep(lines, base) \/ Cut(lines, base)
  BY <1>1, DirectiveLines
<1> HIDE DEF lines, base, of, D, kind
<1>7. Len(tree) + 1 \in Nat
  BY <1>1, DirectiveNode0, <1>4
<1>8. ThenOK(then, Len(tree) + 1, DOMAIN doc) /\ then.k = "directive" /\ then.level = 1
  BY <1>7, ContentThen
<1> HIDE DEF then
<1>9. /\ then.k \in {"directive", "argument", "replace"} /\ then.k # "argument" /\ then.k # "replace"
  BY <1>8
<1>10. memo' = IF then.k = "directive" /\ then.level = 1
               THEN [memo EXCEPT !.minimum = Append(@, memo.level)] ELSE memo
  BY <1>1, <1>8
<1> QED
  BY <1>1, <1>4, <1>5, <1>6, <1>8, <1>9, <1>10, DirectiveNesting

\* A directive whose content is parsed without pushing a level.
LEMMA VersionDirectiveStep ==
    ASSUME Stack, VersionDirective
    PROVE  Stack'
<1> DEFINE lines == Parsed.content
           base == Parsed.off
           then == Content(0)
           of == NumbersOf(Parsed.args) \cup NumbersOf(Parsed.options)
           kind == "directive"
           D == DOMAIN doc
<1>1. /\ SeesDirective /\ NestedParse(AtEnd, lines, base, NextNode, TRUE, then)
      /\ tree' = Append(tree, Node(kind, F.node, of))
      /\ doc' = doc /\ memo' = memo /\ error' = error /\ dropped' = dropped
  BY DEF VersionDirective, DirectiveNode
<1>2. Parsed.args \in LinesOf(D) /\ Parsed.options \in LinesOf(D)
  BY <1>1, DirectiveLines
<1>4. of \in SUBSET (DOMAIN doc)
  BY <1>2, NumbersInFile
<1>5. dropped' \subseteq DOMAIN doc
  BY <1>1 DEF Stack
<1>6. /\ lines \in LinesOf(DOMAIN doc) /\ base \in Int
      /\ Counted(F) => InStep(lines, base) \/ Cut(lines, base)
  BY <1>1, DirectiveLines
<1> HIDE DEF lines, base, of, D, kind
<1>7. Len(tree) + 1 \in Nat
  BY <1>1, DirectiveNode0, <1>4
<1>8. ThenOK(then, Len(tree) + 1, DOMAIN doc) /\ then.k = "directive" /\ then.level = 0
  BY <1>7, ContentThen
<1> HIDE DEF then
<1>9. /\ then.k \in {"directive", "argument", "replace"} /\ then.k # "argument" /\ then.k # "replace"
  BY <1>8
<1>11. then.level # 1
  BY <1>8
<1>10. memo' = IF then.k = "directive" /\ then.level = 1
               THEN [memo EXCEPT !.minimum = Append(@, memo.level)] ELSE memo
  BY <1>1, <1>11
<1> QED
  BY <1>1, <1>4, <1>5, <1>6, <1>8, <1>9, <1>10, DirectiveNesting

\* A replacement text, in an element that is made for it.
LEMMA ReplaceDirectiveStep ==
    ASSUME Stack, ReplaceDirective
    PROVE  Stack'
<1> DEFINE lines == Parsed.content
           base == Parsed.off
           finish == Here.finish
           all == NumbersTo(F, Here.last)
           then == [Then("replace", finish) EXCEPT !.node = NextNode, !.of = all]
           of == {}
           kind == "element"
           c == Head(Line.m).c
<1>1. /\ SeesDirective /\ NestedParse(AtEnd, lines, base, NextNode, FALSE, then)
      /\ tree' = Append(tree, Node(kind, F.node, of))
      /\ doc' = doc /\ memo' = memo /\ error' = error /\ dropped' = dropped
      /\ Directives[c].run = "replace" /\ F.state = "SubstitutionDef"
  BY DEF ReplaceDirective, Handler
<1>2. c \in DOMAIN Directives
  <2>1. CASE SeesExplicit(DOMAIN Directives)
    BY <2>1 DEF SeesExplicit
  <2>2. CASE Sees({"SubstitutionDef"}, {"embedded_directive"}) /\ c \notin NoDirective
    <3>1. Top.only \in {"", "text"} /\ F.state = "SubstitutionDef"
          /\ Transition = "embedded_directive"
      BY <2>2, Tops, Zenon DEF FrameOK, Sees
    <3>2. c \in DOMAIN Directives \cup NoDirective
      BY <3>1, Zenon DEF Transition, TextStates
    <3> QED
      BY <2>2, <3>2
  <2> QED
    BY <1>1, <2>1, <2>2 DEF SeesDirective
<1>3. Directives[c].args = "none" /\ Directives[c].options = {}
  BY <1>1, <1>2, DirectivesAssumption
<1>4. of \in SUBSET (DOMAIN doc) /\ all \in SUBSET (DOMAIN doc)
  BY <1>1, DirectiveEnd
<1>5. dropped' \subseteq DOMAIN doc
  BY <1>1 DEF Stack
<1>6. /\ lines \in LinesOf(DOMAIN doc) /\ base \in Int
      /\ Counted(F) => InStep(lines, base)
  BY <1>1, <1>3, DirectiveLines
<1> HIDE DEF lines, base, of, kind, all, c, finish
<1>7. Len(tree) + 1 \in Nat /\ NextNode \in 0 .. Len(tree) + 1
  <2>1. Len(tree) \in Nat /\ NextNode = Len(tree) + 1
    BY <1>1, <1>4, DirectiveNode0
  <2> QED
    BY <2>1
<1>11. DOMAIN then = ThenFields /\ then.k = "replace" /\ then.of = all
  BY DEF Then, ThenFields
<1>12. then.node = NextNode
  BY DEF Then
<1>13. then.level = 0
  BY DEF Then
<1> HIDE DEF then
<1>14. then.node \in 0 .. Len(tree) + 1 /\ then.of \in SUBSET (DOMAIN doc)
  BY <1>4, <1>7, <1>11, <1>12, Zenon
<1>15. then.level \in Int
  BY <1>13
<1>16. then.k \notin {"first", "section", "argument"}
  BY <1>11
<1>8. ThenOK(then, Len(tree) + 1, DOMAIN doc)
  BY <1>11, <1>14, <1>15, <1>16, ThenParts
<1>9. /\ then.k \in {"directive", "argument", "replace"} /\ then.k # "argument" /\ then.k # "directive"
  BY <1>11
<1>10. memo' = IF then.k = "directive" /\ then.level = 1
               THEN [memo EXCEPT !.minimum = Append(@, memo.level)] ELSE memo
  BY <1>1, <1>9
<1> QED
  BY <1>1, <1>4, <1>5, <1>6, <1>8, <1>9, <1>10, <1>12, DirectiveNesting

\* An argument that is parsed as content, before the content.
LEMMA BlockArgumentStep ==
    ASSUME Stack, BlockArgument
    PROVE  Stack'
<1> DEFINE args == Parsed.args
           lines == [args EXCEPT ![1].ind = 0]
           base == AbsOffset(F) + 1
           finish == Here.finish
           content == Parsed.content
           off == Parsed.off
           then == [Then("argument", finish) EXCEPT
                       !.next = <<content>>, !.level = off, !.node = NextNode]
           of == {}
           kind == "directive"
<1>1. /\ SeesDirective /\ NestedParse(AtEnd, lines, base, NextNode, TRUE, then)
      /\ tree' = Append(tree, Node(kind, F.node, of))
      /\ doc' = doc /\ memo' = memo /\ error' = error /\ dropped' = dropped
      /\ Len(args) > 1
  BY DEF BlockArgument, DirectiveNode, ArgumentIsContent
<1>2. args \in LinesOf(DOMAIN doc) /\ args # <<>>
  BY <1>1, DirectiveLines
<1>3. lines \in LinesOf(DOMAIN doc)
  BY <1>2, FlushLines
<1>4. of \in SUBSET (DOMAIN doc)
  OBVIOUS
<1>5. dropped' \subseteq DOMAIN doc
  BY <1>1 DEF Stack
<1>6. base \in Int
  <2>1. PICK S, T : Sees(S, T)
    BY <1>1, DirectiveSeen
  <2> QED
    BY <2>1, SeenLines DEF AbsOffset
<1>17. content \in LinesOf(DOMAIN doc) /\ off \in Int /\ (Counted(F) => InStep(content, off))
  BY <1>1, <1>2, DirectiveLines
<1> HIDE DEF args, lines, base, of, kind, finish, content, off
<1>7. Len(tree) + 1 \in Nat /\ NextNode \in 0 .. Len(tree) + 1
  <2>1. Len(tree) \in Nat /\ NextNode = Len(tree) + 1
    BY <1>1, <1>4, DirectiveNode0
  <2> QED
    BY <2>1
<1>11. DOMAIN then = ThenFields /\ then.k = "argument" /\ then.of = {}
  BY DEF Then, ThenFields
<1>12. then.node = NextNode
  BY DEF Then
<1>13. then.level = off
  BY DEF Then
<1>18. then.next[1] = content
  BY DEF Then
<1> HIDE DEF then
<1>14. then.node \in 0 .. Len(tree) + 1 /\ then.of \subseteq DOMAIN doc
  BY <1>7, <1>11, <1>12
<1>15. then.level \in Int
  BY <1>13, <1>17
<1>16. then.k # "first" /\ then.k # "section"
  BY <1>11
<1>8. ThenOK(then, Len(tree) + 1, DOMAIN doc)
  BY <1>11, <1>14, <1>15, <1>16, <1>17, <1>18, Zenon DEF ThenOK
<1>9. /\ then.k \in {"directive", "argument", "replace"} /\ then.k # "replace" /\ then.k # "directive"
  BY <1>11
<1>10. memo' = IF then.k = "directive" /\ then.level = 1
               THEN [memo EXCEPT !.minimum = Append(@, memo.level)] ELSE memo
  BY <1>1, <1>9
<1>19. Counted(F) => InStep(then.next[1], then.level)
  BY <1>13, <1>17, <1>18, Zenon
<1> QED
  BY <1>1, <1>3, <1>4, <1>5, <1>6, <1>8, <1>9, <1>10, <1>19, DirectiveNesting

-----------------------------------------------------------------------------
(* Lines of text. *)

\* A line whose text goes on to its end, X numbering the lines of text.
Proper(line, X) ==
    /\ line.n \in X => line.m # <<>> /\ Last(line.m).t = "text"
    /\ \A k \in 1 .. Len(line.m) :
          /\ line.m[k].t \in {"text", "line"} => k = Len(line.m)
          /\ line.m[k].t = "text" => line.m[k].c \notin DOMAIN Directives

\* Lines that are proper, and no two of which have the same number.
Single(s) == \A i, j \in 1 .. Len(s) : s[i].n = s[j].n => i = j
Sound(s, X) == (\A k \in 1 .. Len(s) : Proper(s[k], X)) /\ Single(s)

\* The lines of text from an offset on, or up to another.
Left(s, i, X)    == {x \in X : \E k \in 1 .. Len(s) : i < k /\ s[k].n = x}
Span(s, i, j, X) == {x \in X : \E k \in 1 .. Len(s) : i < k /\ k <= j /\ s[k].n = x}

-----------------------------------------------------------------------------
(* Where lines of text go when lines are cut. *)

\* What is left from an offset on, up to another and from there on.
LEMMA SpanSplit ==
    ASSUME NEW D, NEW s \in LinesOf(D), NEW X, NEW i \in Int, NEW j \in Int, i <= j
    PROVE  /\ Left(s, i, X) = Span(s, i, j, X) \cup Left(s, j, X)
           /\ Single(s) => Span(s, i, j, X) \cap Left(s, j, X) = {}
           /\ Left(s, j, X) \subseteq Left(s, i, X)
<1>1. Len(s) \in Nat
  BY LenProperties DEF LinesOf
<1> QED
  BY <1>1 DEF Left, Span, Single

\* Past the end nothing is left.
LEMMA LeftPast ==
    ASSUME NEW D, NEW s \in LinesOf(D), NEW X, NEW i \in Int, Len(s) <= i
    PROVE  Left(s, i, X) = {}
<1>1. Len(s) \in Nat
  BY LenProperties DEF LinesOf
<1> QED
  BY <1>1 DEF Left

\* Up to the end or further, all is.
LEMMA SpanPast ==
    ASSUME NEW D, NEW s \in LinesOf(D), NEW X, NEW i \in Int, NEW j \in Int, Len(s) <= j
    PROVE  Span(s, i, j, X) = Left(s, i, X)
<1>1. Len(s) \in Nat
  BY LenProperties DEF LinesOf
<1> QED
  BY <1>1 DEF Left, Span

\* One line.
LEMMA SpanOne ==
    ASSUME NEW D, NEW s \in LinesOf(D), NEW X, NEW i \in Nat, i < Len(s)
    PROVE  /\ Left(s, i, X) = ({At(s, i).n} \cap X) \cup Left(s, i + 1, X)
           /\ Span(s, i, i + 1, X) = {At(s, i).n} \cap X
<1>1. Len(s) \in Nat
  BY LenProperties DEF LinesOf
<1>2. i + 1 \in 1 .. Len(s)
  BY <1>1
<1> QED
  BY <1>1, <1>2 DEF Left, Span, At

\* A blank line is no line of text.
LEMMA BlankIsNoText ==
    ASSUME NEW X, NEW line, Proper(line, X), Blank(line)
    PROVE  line.n \notin X
  BY DEF Proper, Blank

\* Lines that are those of others, from an offset on, as far as their numbers go.
Shifted(s, r, d) == \A k \in 1 .. Len(r) : k + d \in 1 .. Len(s) /\ r[k].n = s[k + d].n

\* What is left of them is what those others have there.
LEMMA ShiftedLeft ==
    ASSUME NEW D, NEW s \in LinesOf(D), NEW r \in LinesOf(D), NEW X, NEW d \in Nat,
           Shifted(s, r, d), NEW i \in Nat
    PROVE  Left(r, i, X) = Span(s, d + i, d + Len(r), X)
<1>1. Len(s) \in Nat /\ Len(r) \in Nat
  BY LenProperties DEF LinesOf
<1>2. ASSUME NEW x \in Left(r, i, X) PROVE x \in Span(s, d + i, d + Len(r), X)
  <2>1. PICK k \in 1 .. Len(r) : i < k /\ r[k].n = x
    BY DEF Left
  <2>2. k + d \in 1 .. Len(s) /\ s[k + d].n = x /\ d + i < k + d /\ k + d <= d + Len(r)
    BY <1>1, <2>1 DEF Shifted
  <2> QED
    BY <2>2 DEF Left, Span
<1>3. ASSUME NEW x \in Span(s, d + i, d + Len(r), X) PROVE x \in Left(r, i, X)
  <2>1. PICK k \in 1 .. Len(s) : d + i < k /\ k <= d + Len(r) /\ s[k].n = x
    BY DEF Span
  <2>2. k - d \in 1 .. Len(r) /\ i < k - d /\ (k - d) + d = k
    BY <1>1, <2>1
  <2>3. r[k - d].n = x
    BY <2>1, <2>2 DEF Shifted
  <2> QED
    BY <2>2, <2>3 DEF Left, Span
<1> QED
  BY <1>2, <1>3

\* They have different numbers, if those others have.
LEMMA ShiftedSingle ==
    ASSUME NEW D, NEW s \in LinesOf(D), NEW r \in LinesOf(D), NEW d \in Nat, Shifted(s, r, d),
           Single(s)
    PROVE  Single(r)
<1>1. Len(s) \in Nat /\ Len(r) \in Nat
  BY LenProperties DEF LinesOf
<1> QED
  BY <1>1 DEF Single, Shifted

\* The numbers of lines of text are all numbers of lines that are not blank.
LEMMA NumbersAreLeft ==
    ASSUME NEW D, NEW s \in LinesOf(D), NEW X, Sound(s, X)
    PROVE  NumbersOf(s) \cap X = Left(s, 0, X)
<1>1. DOMAIN s = 1 .. Len(s) /\ Len(s) \in Nat
  BY LenProperties DEF LinesOf
<1>2. \A k \in 1 .. Len(s) : s[k].n \in X => ~Blank(s[k])
  BY BlankIsNoText DEF Sound
<1> QED
  BY <1>1, <1>2 DEF NumbersOf, Left

\* A slice.
LEMMA SliceLeft ==
    ASSUME NEW D, NEW s \in LinesOf(D), NEW X, Sound(s, X), NEW i \in Nat, NEW j \in Int
    PROVE  /\ Slice(s, i, j) \in LinesOf(D)
           /\ Sound(Slice(s, i, j), X)
           /\ Left(Slice(s, i, j), 0, X) = Span(s, i, j, X)
           /\ NumbersOf(Slice(s, i, j)) \cap X = Span(s, i, j, X)
<1> DEFINE r == Slice(s, i, j)
<1>1. Len(s) \in Nat
  BY LenProperties DEF LinesOf
<1>2. /\ r \in LinesOf(D)
      /\ j <= Len(s) /\ i <= j => Len(r) = j - i
      /\ i <= Len(s) /\ Len(s) <= j => Len(r) = Len(s) - i
      /\ j <= i => r = <<>>
      /\ Len(s) <= i => r = <<>>
      /\ \A k \in 1 .. Len(r) : k + i \in 1 .. Len(s) /\ k + i <= j /\ r[k] = s[k + i]
  BY SlicePart DEF LinesOf
<1> HIDE DEF r
<1>3. Len(r) \in Nat /\ (r = <<>> => Len(r) = 0)
  BY <1>2, LenProperties, EmptySeq DEF LinesOf
<1>4. Single(r) /\ Left(r, 0, X) = Span(s, i, i + Len(r), X)
  <2>1. Shifted(s, r, i) /\ r \in LinesOf(D) /\ i + 0 = i
    BY <1>2 DEF Shifted
  <2>2. ASSUME NEW k \in Nat PROVE Left(r, k, X) = Span(s, i + k, i + Len(r), X)
    BY <2>1, ShiftedLeft
  <2>3. Left(r, 0, X) = Span(s, i + 0, i + Len(r), X)
    BY <2>2, 0 \in Nat, Zenon
  <2>4. Single(r)
    BY <2>1, ShiftedSingle DEF Sound
  <2> QED
    BY <2>1, <2>3, <2>4
<1>5. Span(s, i, i + Len(r), X) = Span(s, i, j, X)
  <2>1. CASE j <= i \/ Len(s) <= i
    <3>1. Len(r) = 0
      BY <1>2, <1>3, <2>1
    <3> QED
      BY <1>1, <2>1, <3>1 DEF Span
  <2>2. CASE i < j /\ i < Len(s) /\ j <= Len(s)
    <3>1. i + Len(r) = j
      BY <1>1, <1>2, <2>2
    <3> QED
      BY <3>1
  <2>3. CASE i < Len(s) /\ Len(s) < j
    <3>1. i + Len(r) = Len(s)
      BY <1>1, <1>2, <2>3
    <3> QED
      BY <1>1, <2>3, <3>1 DEF Span
  <2> QED
    BY <1>1, <2>1, <2>2, <2>3
<1>6. Sound(r, X)
  <2>1. \A k \in 1 .. Len(r) : Proper(r[k], X)
    BY <1>2 DEF Sound
  <2> QED
    BY <1>4, <2>1 DEF Sound
<1>7. NumbersOf(r) \cap X = Left(r, 0, X)
  BY <1>2, <1>6, NumbersAreLeft
<1> QED
  BY <1>2, <1>4, <1>5, <1>6, <1>7 DEF r

\* What is left from an offset on, as lines of its own.
LEMMA FromLeft ==
    ASSUME NEW D, NEW s \in LinesOf(D), NEW X, Sound(s, X), NEW i \in Nat
    PROVE  /\ From(s, i) \in LinesOf(D)
           /\ Sound(From(s, i), X)
           /\ Left(From(s, i), 0, X) = Left(s, i, X)
           /\ NumbersOf(From(s, i)) \cap X = Left(s, i, X)
           /\ \A k \in Int : k >= 0 => Left(From(s, i), k, X) = Left(s, i + k, X)
<1>1. Len(s) \in Nat
  BY LenProperties DEF LinesOf
<1>2. Span(s, i, Len(s), X) = Left(s, i, X)
  BY <1>1, SpanPast
<1> DEFINE r == From(s, i)
<1>3. /\ r \in LinesOf(D) /\ Sound(r, X) /\ Left(r, 0, X) = Left(s, i, X)
      /\ NumbersOf(r) \cap X = Left(s, i, X)
  BY <1>1, <1>2, SliceLeft DEF From
<1>4. ASSUME NEW k \in Int, k >= 0 PROVE Left(r, k, X) = Left(s, i + k, X)
  <2>1. \A l \in 1 .. Len(r) : l + i \in 1 .. Len(s) /\ r[l] = s[l + i]
    BY <1>1, SlicePart DEF From, LinesOf
  <2>2. IF i <= Len(s) THEN Len(r) = Len(s) - i ELSE r = <<>>
    BY <1>1, SlicePart DEF From, LinesOf
  <2> HIDE DEF r
  <2>3. Len(r) \in Nat
    BY <1>3, LenProperties DEF LinesOf
  <2>4. Left(r, k, X) = Span(s, i + k, i + Len(r), X)
    <3>1. Shifted(s, r, i) /\ k \in Nat
      BY <1>4, <2>1 DEF Shifted
    <3>2. r \in LinesOf(D)
      BY <1>3
    <3> QED
      BY <3>1, <3>2, ShiftedLeft
  <2>5. CASE i <= Len(s)
    <3>1. i + Len(r) = Len(s)
      BY <1>1, <2>2, <2>5
    <3> QED
      BY <1>1, <2>4, <3>1, SpanPast
  <2>6. CASE i > Len(s)
    <3>1. r = <<>> /\ Len(r) = 0
      BY <1>1, <2>2, <2>6, EmptySeq
    <3> QED
      BY <1>1, <1>4, <2>6, <3>1 DEF Left
  <2> QED
    BY <1>1, <2>5, <2>6
<1> QED
  BY <1>3, <1>4

\* Blank lines at the top or at the bottom are not missed.
LEMMA TrimStartLeft ==
    ASSUME NEW D, NEW s \in LinesOf(D), NEW X, Sound(s, X)
    PROVE  /\ TrimStart(s) \in LinesOf(D)
           /\ Sound(TrimStart(s), X)
           /\ Left(TrimStart(s), 0, X) = Left(s, 0, X)
<1> DEFINE S == {k \in 0 .. Len(s) - 1 : ~Blank(At(s, k))}
           i == Min(S \cup {Len(s)})
<1>1. TrimStart(s) = From(s, i)
  BY DEF TrimStart, FirstFrom
<1>2. Len(s) \in Nat /\ S \in SUBSET (0 .. Len(s) - 1)
  BY LenProperties DEF LinesOf
<1>3. i \in Nat /\ \A k \in S : i <= k
  <2> HIDE DEF S
  <2>1. /\ i \in Int /\ i <= Len(s)
        /\ 0 <= Len(s) => 0 <= i
        /\ \A k \in S : i <= k
    <3>1. 0 \in Int
      OBVIOUS
    <3> QED
      BY ONLY <1>2, <3>1, FirstOffset, Zenon DEF i
  <2> HIDE DEF i
  <2> QED
    BY <1>2, <2>1
<1> HIDE DEF i
<1>4. \A k \in 1 .. Len(s) : k <= i => s[k].n \notin X
  <2> SUFFICES ASSUME NEW k \in 1 .. Len(s), k <= i
               PROVE  s[k].n \notin X
    OBVIOUS
  <2>1. k - 1 \in 0 .. Len(s) - 1 /\ ~(i <= k - 1) /\ (k - 1) + 1 = k
    BY <1>2, <1>3
  <2>2. Blank(At(s, k - 1))
    BY <1>3, <2>1
  <2>3. Blank(s[k])
    BY <2>1, <2>2 DEF At
  <2> QED
    BY <2>3, BlankIsNoText DEF Sound
<1>5. Span(s, 0, i, X) = {}
  BY <1>4 DEF Span
<1>6. Left(s, 0, X) = Span(s, 0, i, X) \cup Left(s, i, X)
  <2>1. 0 \in Int /\ i \in Int /\ 0 <= i
    BY <1>3
  <2> QED
    BY <2>1, SpanSplit
<1> DEFINE u == From(s, i)
<1>7. u \in LinesOf(D) /\ Sound(u, X) /\ Left(u, 0, X) = Left(s, i, X)
  BY <1>3, FromLeft
<1> HIDE DEF u
<1>8. TrimStart(s) = u
  BY <1>1 DEF u
<1> QED
  BY <1>5, <1>6, <1>7, <1>8, Zenon

\* The lines in reverse order.
LEMMA ReverseLeft ==
    ASSUME NEW D, NEW s \in LinesOf(D), NEW X, Sound(s, X)
    PROVE  /\ Reverse(s) \in LinesOf(D)
           /\ Sound(Reverse(s), X)
           /\ Left(Reverse(s), 0, X) = Left(s, 0, X)
<1> DEFINE r == Reverse(s)
<1>1. Len(s) \in Nat
  BY LenProperties DEF LinesOf
<1>2. r \in LinesOf(D) /\ Len(r) = Len(s) /\ \A k \in 1 .. Len(s) : r[k] = s[Len(s) - k + 1]
  BY ReverseProperties DEF LinesOf
<1>3. \A k \in 1 .. Len(s) : Len(s) - k + 1 \in 1 .. Len(s) /\ Len(s) - (Len(s) - k + 1) + 1 = k
  BY <1>1
<1> HIDE DEF r
<1>4. \A k \in 1 .. Len(s) : s[k] = r[Len(s) - k + 1]
  BY <1>2, <1>3
<1>5. Sound(r, X)
  <2>1. \A k \in 1 .. Len(r) : Proper(r[k], X)
    BY <1>2, <1>3 DEF Sound
  <2>2. ASSUME NEW i \in 1 .. Len(r), NEW j \in 1 .. Len(r), r[i].n = r[j].n
        PROVE  i = j
    <3> DEFINE a == Len(s) - i + 1
               c == Len(s) - j + 1
    <3>1. a \in 1 .. Len(s) /\ c \in 1 .. Len(s) /\ r[i] = s[a] /\ r[j] = s[c]
      BY <1>2, <1>3
    <3>2. a = c => i = j
      BY <1>1, <1>2
    <3> HIDE DEF a, c
    <3>3. s[a].n = s[c].n
      BY <2>2, <3>1
    <3>4. a = c
      BY <3>1, <3>3 DEF Sound, Single
    <3> QED
      BY <3>2, <3>4
  <2> QED
    BY <2>1, <2>2 DEF Sound, Single
<1>6. Left(r, 0, X) = Left(s, 0, X)
  <2>1. ASSUME NEW x \in Left(r, 0, X) PROVE x \in Left(s, 0, X)
    BY <1>2, <1>3 DEF Left
  <2>2. ASSUME NEW x \in Left(s, 0, X) PROVE x \in Left(r, 0, X)
    BY <1>2, <1>3, <1>4 DEF Left
  <2> QED
    BY <2>1, <2>2
<1> QED
  BY <1>2, <1>5, <1>6 DEF r

\* So at the bottom.
LEMMA TrimEndLeft ==
    ASSUME NEW D, NEW s \in LinesOf(D), NEW X, Sound(s, X)
    PROVE  /\ TrimEnd(s) \in LinesOf(D)
           /\ Sound(TrimEnd(s), X)
           /\ Left(TrimEnd(s), 0, X) = Left(s, 0, X)
<1> DEFINE r == Reverse(s)
           u == TrimStart(r)
<1>1. r \in LinesOf(D) /\ Sound(r, X) /\ Left(r, 0, X) = Left(s, 0, X)
  BY ReverseLeft
<1> HIDE DEF r
<1>2. u \in LinesOf(D) /\ Sound(u, X) /\ Left(u, 0, X) = Left(r, 0, X)
  BY <1>1, TrimStartLeft
<1> HIDE DEF u
<1>3. Reverse(u) \in LinesOf(D) /\ Sound(Reverse(u), X) /\ Left(Reverse(u), 0, X) = Left(u, 0, X)
  BY <1>2, ReverseLeft
<1> QED
  BY <1>1, <1>2, <1>3 DEF TrimEnd, r, u

\* Indentation is not looked at.
LEMMA SameLeft ==
    ASSUME NEW D, NEW s \in LinesOf(D), NEW r \in LinesOf(D), NEW X, Sound(s, X),
           Len(r) = Len(s), \A k \in 1 .. Len(s) : r[k].n = s[k].n /\ r[k].m = s[k].m
    PROVE  Sound(r, X) /\ \A i \in Int : Left(r, i, X) = Left(s, i, X)
<1>1. \A k \in 1 .. Len(r) : Proper(r[k], X)
  BY DEF Sound, Proper
<1>2. Single(r)
  BY DEF Sound, Single
<1>3. \A i \in Int : Left(r, i, X) = Left(s, i, X)
  BY DEF Left
<1> QED
  BY <1>1, <1>2, <1>3 DEF Sound

\* Lines indented less are the same lines of text.
LEMMA DedentLeft ==
    ASSUME NEW D, NEW s \in LinesOf(D), NEW X, Sound(s, X), NEW by \in Nat
    PROVE  /\ DedentAll(s, by) \in LinesOf(D) /\ Len(DedentAll(s, by)) = Len(s)
           /\ Sound(DedentAll(s, by), X)
           /\ Left(DedentAll(s, by), 0, X) = Left(s, 0, X)
<1>1. DOMAIN s = 1 .. Len(s) /\ Len(s) \in Nat
  BY LenProperties DEF LinesOf
<1>2. \A k \in 1 .. Len(s) : s[k] \in LineOf(D)
  BY <1>1, ElementOfSeq DEF LinesOf
<1>3. DedentAll(s, by) \in LinesOf(D) /\ Len(DedentAll(s, by)) = Len(s)
  BY DedentedLines
<1>4. \A k \in 1 .. Len(s) : DedentAll(s, by)[k].n = s[k].n /\ DedentAll(s, by)[k].m = s[k].m
  BY <1>1, <1>2 DEF DedentAll, Dedent, LineOf
<1> QED
  BY <1>3, <1>4, SameLeft

\* Behind a marker, a line of text is one still.
LEMMA BehindProper ==
    ASSUME NEW D, NEW line \in LineOf(D), NEW X, Proper(line, X),
           line.n \in X => Head(line.m).t # "text"
    PROVE  Proper(Behind(line), X)
<1>1. CASE Blank(line)
  BY <1>1 DEF Behind
<1>2. CASE ~Blank(line)
  <2> DEFINE m == line.m
             u == Tail(m)
  <2>1. m \in Seq(MarkType) /\ m # <<>>
    BY <1>2, LineFields DEF Blank
  <2>2. Behind(line).n = line.n /\ Behind(line).m = u
    BY <1>2, LineFields DEF Behind, LineOf
  <2>3. /\ Len(m) \in Nat /\ Len(m) >= 1 /\ Len(u) = Len(m) - 1
        /\ \A k \in 1 .. Len(u) : u[k] = m[k + 1] /\ k + 1 \in 1 .. Len(m)
        /\ Head(m) = m[1]
    <3>1. Len(m) \in Nat /\ Len(m) # 0
      BY <2>1, EmptySeq, LenProperties
    <3> QED
      BY <2>1, <3>1, HeadTailProperties
  <2> HIDE DEF u, m
  <2>4. ASSUME line.n \in X PROVE u # <<>> /\ Last(u).t = "text"
    <3>1. Last(m).t = "text" /\ Last(m) = m[Len(m)]
      BY <2>1, <2>4 DEF Proper, Last, m
    <3>2. Len(m) # 1
      BY <2>3, <2>4, <3>1 DEF m
    <3>3. Len(u) \in 1 .. Len(u) /\ Len(u) + 1 = Len(m) /\ Len(u) # 0
      BY <2>3, <3>2
    <3>4. u # <<>>
      BY <3>3, EmptySeq
    <3> QED
      BY <2>3, <3>1, <3>3, <3>4 DEF Last
  <2>5. ASSUME NEW k \in 1 .. Len(u)
        PROVE  /\ u[k].t \in {"text", "line"} => k = Len(u)
               /\ u[k].t = "text" => u[k].c \notin DOMAIN Directives
    <3>1. u[k] = m[k + 1] /\ k + 1 \in 1 .. Len(m)
      BY <2>3
    <3>2. /\ m[k + 1].t \in {"text", "line"} => k + 1 = Len(m)
          /\ m[k + 1].t = "text" => m[k + 1].c \notin DOMAIN Directives
      BY <3>1 DEF Proper, m
    <3> QED
      BY <2>3, <3>1, <3>2
  <2> QED
    BY <2>2, <2>4, <2>5 DEF Proper
<1> QED
  BY <1>1, <1>2

-----------------------------------------------------------------------------
(* Where lines of text go when a block is taken. *)

\* Two blocks in a row, of different lines.
LEMMA JoinLeft ==
    ASSUME NEW D, NEW a \in LinesOf(D), NEW b \in LinesOf(D), NEW X, Sound(a, X), Sound(b, X),
           \A i \in 1 .. Len(a), j \in 1 .. Len(b) : a[i].n # b[j].n
    PROVE  /\ a \o b \in LinesOf(D)
           /\ Sound(a \o b, X)
           /\ Left(a \o b, 0, X) = Left(a, 0, X) \cup Left(b, 0, X)
<1> DEFINE c == a \o b
<1>1. Len(a) \in Nat /\ Len(b) \in Nat
  BY LenProperties DEF LinesOf
<1>2. /\ c \in LinesOf(D) /\ Len(c) = Len(a) + Len(b)
      /\ \A k \in 1 .. Len(a) + Len(b) : c[k] = IF k <= Len(a) THEN a[k] ELSE b[k - Len(a)]
  BY ConcatProperties DEF LinesOf
<1> HIDE DEF c
<1>3. /\ \A k \in 1 .. Len(a) : k \in 1 .. Len(c) /\ c[k] = a[k]
      /\ \A k \in 1 .. Len(b) : k + Len(a) \in 1 .. Len(c) /\ c[k + Len(a)] = b[k]
  BY <1>1, <1>2
<1>4. \A k \in 1 .. Len(c) : \/ k \in 1 .. Len(a) /\ c[k] = a[k]
                             \/ k - Len(a) \in 1 .. Len(b) /\ c[k] = b[k - Len(a)]
  BY <1>1, <1>2
<1>5. \A k \in 1 .. Len(c) : Proper(c[k], X)
  BY <1>4 DEF Sound
<1>6. Single(c)
  <2> SUFFICES ASSUME NEW i \in 1 .. Len(c), NEW j \in 1 .. Len(c), c[i].n = c[j].n
               PROVE  i = j
    BY DEF Single
  <2>1. CASE i \in 1 .. Len(a) /\ c[i] = a[i]
    <3>1. j \in 1 .. Len(a) /\ c[j] = a[j]
      BY <1>4, <2>1
    <3> QED
      BY <2>1, <3>1 DEF Sound, Single
  <2>2. CASE i - Len(a) \in 1 .. Len(b) /\ c[i] = b[i - Len(a)]
    <3>1. j - Len(a) \in 1 .. Len(b) /\ c[j] = b[j - Len(a)]
      BY <1>4, <2>2
    <3>2. i - Len(a) = j - Len(a)
      BY <2>2, <3>1 DEF Sound, Single
    <3> QED
      BY <1>1, <1>2, <3>2
  <2> QED
    BY <1>4, <2>1, <2>2
<1>7. Left(c, 0, X) = Left(a, 0, X) \cup Left(b, 0, X)
  <2>1. \A k \in Int : k \in 1 .. Len(a) \/ k \in 1 .. Len(b) \/ k \in 1 .. Len(c) => 0 < k
    OBVIOUS
  <2>2. ASSUME NEW x \in Left(c, 0, X) PROVE x \in Left(a, 0, X) \cup Left(b, 0, X)
    BY <1>4, <2>2 DEF Left
  <2>3. ASSUME NEW x \in Left(a, 0, X) PROVE x \in Left(c, 0, X)
    BY <1>3, <2>3 DEF Left
  <2>4. ASSUME NEW x \in Left(b, 0, X) PROVE x \in Left(c, 0, X)
    <3>1. PICK k \in 1 .. Len(b) : b[k].n = x /\ x \in X
      BY <2>4 DEF Left
    <3>2. k + Len(a) \in 1 .. Len(c) /\ c[k + Len(a)].n = x /\ 0 < k + Len(a)
      BY <1>1, <1>3, <3>1
    <3> QED
      BY <3>1, <3>2 DEF Left
  <2> QED
    BY <2>2, <2>3, <2>4
<1> QED
  BY <1>2, <1>5, <1>6, <1>7 DEF Sound, c

\* One line, as lines.
LEMMA OneLine ==
    ASSUME NEW D, NEW line \in LineOf(D), NEW X, Proper(line, X)
    PROVE  /\ <<line>> \in LinesOf(D) /\ Len(<<line>>) = 1 /\ <<line>>[1] = line
           /\ Sound(<<line>>, X) /\ Left(<<line>>, 0, X) = {line.n} \cap X
<1> DEFINE s == <<line>>
<1>1. s \in LinesOf(D) /\ Len(s) = 1 /\ s[1] = line
  BY DEF LinesOf
<1> HIDE DEF s
<1>2. \A k \in 1 .. Len(s) : k = 1
  BY <1>1
<1>3. Sound(s, X)
  BY <1>1, <1>2 DEF Sound, Single
<1>4. Left(s, 0, X) = {line.n} \cap X
  <2>1. 1 \in 1 .. Len(s) /\ 0 < 1
    BY <1>1
  <2> QED
    BY <1>1, <1>2, <2>1 DEF Left
<1> QED
  BY <1>1, <1>3, <1>4 DEF s

\* The block behind a marker.
LEMMA MarkedLeft ==
    ASSUME NEW D, NEW s \in LinesOf(D), NEW X, Sound(s, X), NEW start \in Nat, NEW end \in Int,
           NEW by \in Nat, start < end, end <= Len(s),
           At(s, start).n \in X => Head(At(s, start).m).t # "text"
    PROVE  /\ Marked(s, start, end, by) \in LinesOf(D)
           /\ Sound(Marked(s, start, end, by), X)
           /\ Left(Marked(s, start, end, by), 0, X) = Span(s, start, end, X)
<1> DEFINE line == At(s, start)
           first == Behind(line)
           part == Slice(s, start + 1, end)
           rest == DedentAll(part, by)
           one == <<first>>
<1>1. Len(s) \in Nat /\ start + 1 \in 1 .. Len(s) /\ line = s[start + 1]
  BY LenProperties DEF LinesOf, At
<1>2. line \in LineOf(D) /\ Proper(line, X)
  BY <1>1, ElementOfSeq DEF LinesOf, Sound
<1>3. first \in LineOf(D) /\ first.n = line.n /\ Proper(first, X)
  <2> HIDE DEF line
  <2>1. line.n \in X => Head(line.m).t # "text"
    BY DEF line
  <2> QED
    BY <1>2, <2>1, BehindLine, BehindProper
<1>4. part \in LinesOf(D) /\ Sound(part, X) /\ Left(part, 0, X) = Span(s, start + 1, end, X)
  BY SliceLeft
<1>5. /\ Len(part) = end - (start + 1)
      /\ \A k \in 1 .. Len(part) : part[k] = s[k + (start + 1)] /\ k + (start + 1) \in 1 .. Len(s)
  <2>1. s \in Seq(LineOf(D)) /\ start + 1 \in Nat /\ start + 1 <= end
    BY DEF LinesOf
  <2>2. Len(Slice(s, start + 1, end)) = end - (start + 1)
    BY <2>1, SlicePart
  <2>3. \A k \in 1 .. Len(Slice(s, start + 1, end)) :
           k + (start + 1) \in 1 .. Len(s) /\ Slice(s, start + 1, end)[k] = s[k + (start + 1)]
    BY <2>1, SlicePart
  <2> QED
    BY <2>2, <2>3
<1> HIDE DEF part
<1>6. /\ rest \in LinesOf(D) /\ Sound(rest, X) /\ Len(rest) = Len(part)
      /\ Left(rest, 0, X) = Left(part, 0, X)
      /\ \A k \in 1 .. Len(part) : rest[k].n = part[k].n
  BY <1>4, DedentLeft, DedentedLines
<1> HIDE DEF first, rest
<1>7. one \in LinesOf(D) /\ Sound(one, X) /\ Left(one, 0, X) = {first.n} \cap X
      /\ Len(one) = 1 /\ one[1] = first
  BY <1>3, OneLine
<1>8. Marked(s, start, end, by) = one \o rest
  BY DEF Marked, first, rest, part
<1> HIDE DEF one
<1>9. ASSUME NEW i \in 1 .. Len(one), NEW j \in 1 .. Len(rest) PROVE one[i].n # rest[j].n
  <2>1. i = 1 /\ one[i].n = s[start + 1].n
    BY <1>1, <1>3, <1>7
  <2>2. rest[j].n = s[j + (start + 1)].n /\ j + (start + 1) \in 1 .. Len(s)
    BY <1>5, <1>6
  <2>3. start + 1 # j + (start + 1)
    OBVIOUS
  <2> QED
    BY <1>1, <2>1, <2>2, <2>3 DEF Sound, Single
<1> DEFINE c == one \o rest
<1>10. c \in LinesOf(D) /\ Sound(c, X) /\ Left(c, 0, X) = Left(one, 0, X) \cup Left(rest, 0, X)
  BY <1>6, <1>7, <1>9, JoinLeft
<1> HIDE DEF c
<1>11. Span(s, start, end, X) = ({line.n} \cap X) \cup Span(s, start + 1, end, X)
  <2> HIDE DEF line
  <2>1. ASSUME NEW x \in Span(s, start, end, X)
        PROVE  x \in ({line.n} \cap X) \cup Span(s, start + 1, end, X)
    <3>1. PICK k \in 1 .. Len(s) : start < k /\ k <= end /\ s[k].n = x
      BY <2>1 DEF Span
    <3>2. k = start + 1 \/ start + 1 < k
      BY <3>1
    <3> QED
      BY <1>1, <2>1, <3>1, <3>2 DEF Span
  <2>2. ASSUME NEW x \in Span(s, start + 1, end, X) PROVE x \in Span(s, start, end, X)
    BY <2>2 DEF Span
  <2>3. line.n \in X => line.n \in Span(s, start, end, X)
    <3>1. start < start + 1 /\ start + 1 <= end
      OBVIOUS
    <3> QED
      BY <1>1, <3>1 DEF Span
  <2> QED
    BY <2>1, <2>2, <2>3
<1> QED
  BY <1>3, <1>4, <1>6, <1>7, <1>8, <1>10, <1>11 DEF c

\* An indented block has the lines of text from its first line to its last.
LEMMA GetIndentedLeft ==
    ASSUME NEW D, NEW s \in LinesOf(D), NEW X, Sound(s, X), NEW start \in Nat,
           NEW mode \in Modes, NEW untilBlank,
           mode # "unknown" =>
               start < Len(s) /\ (At(s, start).n \in X => Head(At(s, start).m).t # "text"),
           mode = "known" => ~Blank(At(s, start)),
           mode = "unknown" =>
               /\ ~untilBlank
               /\ Len(s) <= start \/ Blank(At(s, start)) \/ At(s, start).ind > 0
    PROVE  LET b == GetIndented(s, start, mode, untilBlank)
           IN  /\ b.lines \in LinesOf(D) /\ Sound(b.lines, X)
               /\ Left(b.lines, 0, X) = Span(s, start, b.last + 1, X)
               /\ b.last \in Int /\ b.last >= start
               /\ start < Len(s) => b.last < Len(s)
<1> DEFINE known == IF mode = "known" THEN Head(At(s, start).m).w ELSE 0
           from == IF mode = "unknown" THEN start ELSE start + 1
           S == {k \in from .. Len(s) - 1 : \/ Outside(At(s, k), known)
                                            \/ (untilBlank /\ Blank(At(s, k)))}
           end == Min(S \cup {Len(s)})
           b == IndentedTo(s, start, mode, known, end)
           part == Slice(s, start, end)
           rest == Slice(s, start + 1, end)
<1>1. /\ GetIndented(s, start, mode, untilBlank) = b
      /\ IndentedEnd(s, start, mode, known, untilBlank) = end
  BY DEF GetIndented, IndentedEnd, FirstFrom
<1>2. known \in Nat /\ Len(s) \in Nat
  BY KnownIsNat, LenProperties DEF LinesOf
<1>3. mode = "unknown" /\ start < Len(s) => end # start
  <2> SUFFICES ASSUME mode = "unknown", start < Len(s) PROVE end # start
    OBVIOUS
  <2>1. known = 0 /\ from = start /\ ~untilBlank
    OBVIOUS
  <2>2. start \notin S
    <3>1. Len(s) > start
      BY <1>2
    <3>2. Blank(At(s, start)) \/ At(s, start).ind > 0
      BY <1>2, <3>1
    <3>3. At(s, start).ind > 0 => At(s, start).ind # 0 /\ ~(At(s, start).ind < 0)
      <4>1. start + 1 \in 1 .. Len(s)
        BY <1>2, <3>1
      <4>2. s[start + 1] \in LineOf(D)
        BY <4>1, ElementOfSeq DEF LinesOf
      <4> QED
        BY <4>2, LineFields DEF At
    <3>4. ~Outside(At(s, start), known)
      BY <2>1, <3>2, <3>3 DEF Outside
    <3> QED
      BY <2>1, <3>4
  <2>3. S \in SUBSET (from .. Len(s) - 1) /\ from \in Int
    BY <1>2
  <2> HIDE DEF S
  <2>4. end \in S \cup {Len(s)}
    BY ONLY <1>2, <2>3, FirstOffset, Zenon DEF end
  <2> HIDE DEF end
  <2> QED
    BY <1>2, <2>2, <2>4
<1> HIDE DEF S, known
<1>4. /\ end \in Int /\ end <= Len(s)
      /\ start <= Len(s) => start <= end
      /\ mode # "unknown" => start < end
  BY <1>1, <1>2, IndentedEndRange
<1> HIDE DEF end
<1>5. b.last \in Int /\ b.last >= start /\ (start < Len(s) => b.last < Len(s))
      /\ b.last = IF end > start THEN end - 1 ELSE start
  BY <1>2, <1>4, IndentedToPart
<1>6. Indentation(part) \in Nat /\ Indentation(rest) \in Nat
  <2>1. part \in LinesOf(D) /\ rest \in LinesOf(D)
    BY <1>4, SlicePart DEF LinesOf
  <2> QED
    BY <2>1, IndentationIsNat
<1>7. /\ b.lines \in LinesOf(D) /\ Sound(b.lines, X)
      /\ Left(b.lines, 0, X) = Span(s, start, end, X)
  <2>1. CASE mode = "unknown"
    <3>1. b.lines = DedentAll(part, Indentation(part))
      BY <2>1 DEF IndentedTo
    <3>2. part \in LinesOf(D) /\ Sound(part, X) /\ Left(part, 0, X) = Span(s, start, end, X)
      BY ONLY <1>4, SliceLeft, Sound(s, X), s \in LinesOf(D), start \in Nat
    <3> HIDE DEF b, part
    <3> QED
      BY <1>6, <3>1, <3>2, DedentLeft
  <2>2. CASE mode # "unknown"
    <3>1. PICK by \in Nat : b.lines = Marked(s, start, end, by)
      BY <1>2, <1>6, <2>2 DEF IndentedTo, Modes, Marked
    <3> HIDE DEF b
    <3>2. /\ Marked(s, start, end, by) \in LinesOf(D)
          /\ Sound(Marked(s, start, end, by), X)
          /\ Left(Marked(s, start, end, by), 0, X) = Span(s, start, end, X)
      BY <1>4, <2>2, MarkedLeft
    <3> QED
      BY <3>1, <3>2
  <2> QED
    BY <2>1, <2>2
<1> HIDE DEF b
<1>8. Span(s, start, end, X) = Span(s, start, b.last + 1, X)
  <2>1. CASE end > start
    <3>1. b.last + 1 = end
      BY <1>4, <1>5, <2>1
    <3> QED
      BY <3>1
  <2>2. CASE ~(end > start)
    <3>1. Len(s) <= start
      BY <1>2, <1>3, <1>4, <2>2
    <3> QED
      BY <1>2, <1>4, <1>5, <2>2, <3>1 DEF Span
  <2> QED
    BY <2>1, <2>2
<1> QED
  BY <1>1, <1>5, <1>7, <1>8

\* So has one without the blank lines at its top.
LEMMA IndentedLeft ==
    ASSUME NEW D, NEW s \in LinesOf(D), NEW X, Sound(s, X), NEW start \in Nat, NEW base,
           NEW mode \in Modes, NEW untilBlank,
           mode # "unknown" =>
               start < Len(s) /\ (At(s, start).n \in X => Head(At(s, start).m).t # "text"),
           mode = "known" => ~Blank(At(s, start)),
           mode = "unknown" =>
               /\ ~untilBlank
               /\ Len(s) <= start \/ Blank(At(s, start)) \/ At(s, start).ind > 0
    PROVE  LET b == IndentedBlock(s, start, base, mode, untilBlank)
           IN  /\ b.lines \in LinesOf(D) /\ Sound(b.lines, X)
               /\ Left(b.lines, 0, X) = Span(s, start, b.last + 1, X)
               /\ b.last \in Int /\ b.last >= start
               /\ start < Len(s) => b.last < Len(s)
<1> DEFINE got == GetIndented(s, start, mode, untilBlank)
           b == IndentedBlock(s, start, base, mode, untilBlank)
<1>1. /\ got.lines \in LinesOf(D) /\ Sound(got.lines, X)
      /\ Left(got.lines, 0, X) = Span(s, start, got.last + 1, X)
      /\ got.last \in Int /\ got.last >= start
      /\ start < Len(s) => got.last < Len(s)
  BY GetIndentedLeft
<1>2. b.lines = TrimStart(got.lines) /\ b.last = got.last
  BY DEF IndentedBlock, Trimmed
<1> HIDE DEF b, got
<1>3. /\ TrimStart(got.lines) \in LinesOf(D) /\ Sound(TrimStart(got.lines), X)
      /\ Left(TrimStart(got.lines), 0, X) = Left(got.lines, 0, X)
  BY <1>1, TrimStartLeft
<1> QED
  BY <1>1, <1>2, <1>3 DEF b

\* The lines of a block behind its first are blank or indented.
LEMMA InsideBlock ==
    ASSUME NEW D, NEW s \in LinesOf(D), NEW start \in Nat, start < Len(s)
    PROVE  LET b == GetIndented(s, start, "first", FALSE)
           IN  \A k \in 1 .. Len(s) : start + 1 < k /\ k <= b.last + 1 => Blank(s[k]) \/ s[k].ind > 0
<1> DEFINE from == start + 1
           S == {k \in from .. Len(s) - 1 : Outside(At(s, k), 0)}
           end == Min(S \cup {Len(s)})
           b == IndentedTo(s, start, "first", 0, end)
<1>1. GetIndented(s, start, "first", FALSE) = b
  BY DEF GetIndented, IndentedEnd, FirstFrom
<1>2. Len(s) \in Nat /\ from \in Int /\ S \in SUBSET (from .. Len(s) - 1)
  BY LenProperties DEF LinesOf
<1> DEFINE n == Len(s)
<1>3. end \in Int /\ (\A k \in S : end <= k) /\ end \in S \cup {Len(s)}
  <2>1. n \in Nat /\ from \in Int /\ S \in SUBSET (from .. n - 1)
    BY <1>2
  <2> HIDE DEF S, from, n
  <2>2. Min(S \cup {n}) \in Int /\ (\A k \in S : Min(S \cup {n}) <= k)
        /\ Min(S \cup {n}) \in S \cup {n}
    BY ONLY <2>1, FirstOffset
  <2> QED
    BY <2>2 DEF n
<1>4. end \in S \cup {Len(s)}
  BY <1>3
<1> HIDE DEF S, end, n
<1>5. b.last + 1 = end
  <2>1. b.last = IF end > start THEN end - 1 ELSE start
    BY DEF IndentedTo
  <2>2. end > start
    BY <1>2, <1>4
  <2> QED
    BY <1>3, <2>1, <2>2
<1> HIDE DEF b
<1>6. ASSUME NEW k \in 1 .. Len(s), start + 1 < k, k <= end
      PROVE  Blank(s[k]) \/ s[k].ind > 0
  <2>1. k - 1 \in from .. Len(s) - 1 /\ ~(end <= k - 1) /\ (k - 1) + 1 = k
    BY <1>2, <1>3, <1>6
  <2>2. ~Outside(At(s, k - 1), 0)
    BY <1>3, <2>1 DEF S
  <2>3. Blank(s[k]) \/ s[k].ind # 0
    BY <2>1, <2>2 DEF Outside, At
  <2>4. s[k].ind \in Nat
    BY ElementOfSeq, LineFields DEF LinesOf
  <2> QED
    BY <2>3, <2>4
<1> QED
  BY <1>1, <1>5, <1>6

\* Lines that are all blank or indented make one block.
LEMMA BlockToEnd ==
    ASSUME NEW D, NEW s \in LinesOf(D), NEW start \in Nat, start < Len(s),
           NEW mode \in {"first", "unknown"},
           mode = "unknown" => Blank(At(s, start)) \/ At(s, start).ind > 0,
           \A k \in 2 .. Len(s) : Blank(s[k]) \/ s[k].ind > 0
    PROVE  GetIndented(s, start, mode, FALSE).last = Len(s) - 1
<1> DEFINE from == IF mode = "unknown" THEN start ELSE start + 1
           S == {k \in from .. Len(s) - 1 : Outside(At(s, k), 0)}
           end == Min(S \cup {Len(s)})
           b == IndentedTo(s, start, mode, 0, end)
<1>1. GetIndented(s, start, mode, FALSE) = b
  BY DEF GetIndented, IndentedEnd, FirstFrom
<1>2. Len(s) \in Nat /\ from \in Int /\ from >= start
  BY LenProperties DEF LinesOf
<1>3. ASSUME NEW k \in from .. Len(s) - 1 PROVE ~Outside(At(s, k), 0)
  <2>1. k + 1 \in 1 .. Len(s)
    BY <1>2, <1>3
  <2>2. s[k + 1].ind \in Nat
    BY <2>1, ElementOfSeq, LineFields DEF LinesOf
  <2>3. Blank(s[k + 1]) \/ s[k + 1].ind > 0
    <3>1. k + 1 \in 2 .. Len(s) \/ (k = start /\ mode = "unknown")
      BY <1>2, <1>3
    <3> QED
      BY <3>1 DEF At
  <2> QED
    BY <2>2, <2>3 DEF Outside, At
<1>4. S = {}
  BY <1>3
<1>5. end = Len(s)
  <2>1. {} \in SUBSET (0 .. Len(s) - 1) /\ 0 \in Int
    OBVIOUS
  <2>2. Min({} \cup {Len(s)}) \in {} \cup {Len(s)}
    BY ONLY <1>2, <2>1, FirstOffset, Zenon
  <2> HIDE DEF S
  <2> QED
    BY <1>4, <2>2
<1> HIDE DEF S, end
<1>6. b.last = IF end > start THEN end - 1 ELSE start
  BY DEF IndentedTo
<1> QED
  BY <1>1, <1>2, <1>5, <1>6

\* The lines of a substitution definition, behind its name.
LEMMA SubstitutionLeft ==
    ASSUME NEW D, NEW f, f.lines \in LinesOf(D), f.off \in Nat, f.off < Len(f.lines),
           NEW X, Sound(f.lines, X),
           At(f.lines, f.off).n \in X => Head(At(f.lines, f.off).m).t # "text"
    PROVE  LET b == SubstitutionBlock(f)
           IN  /\ b.lines \in LinesOf(D) /\ Sound(b.lines, X)
               /\ Left(b.lines, 0, X) = Span(f.lines, f.off, b.last + 1, X)
               /\ \A k \in 2 .. Len(b.lines) : Blank(b.lines[k]) \/ b.lines[k].ind > 0
<1> DEFINE s == f.lines
           off == f.off
           last == GetIndented(s, off, "first", FALSE).last
           first == Behind(At(s, off))
           rest == Slice(s, off + 1, last + 1)
           one == <<first>>
           all == IF Blank(first) THEN rest ELSE one \o rest
           block == TrimEnd(all)
           got == IF block = <<>> THEN <<>> ELSE [block EXCEPT ![1].ind = 0]
<1>1. s \in LinesOf(D) /\ off \in Nat /\ off < Len(s) /\ Sound(s, X)
      /\ (At(s, off).n \in X => Head(At(s, off).m).t # "text")
  OBVIOUS
<1>2. SubstitutionBlock(f).lines = got /\ SubstitutionBlock(f).last = last
  BY DEF SubstitutionBlock
<1> HIDE DEF s, off
<1>3. last \in Int /\ last >= off /\ last < Len(s)
  <2>1. "first" \in Modes
    BY DEF Modes
  <2> QED
    BY <1>1, <2>1, GetIndentedPart
<1>4. \A k \in 1 .. Len(s) : off + 1 < k /\ k <= last + 1 => Blank(s[k]) \/ s[k].ind > 0
  BY <1>1, InsideBlock
<1> HIDE DEF last
<1>5. Len(s) \in Nat /\ off + 1 \in 1 .. Len(s) /\ At(s, off) = s[off + 1]
  BY <1>1, LenProperties DEF LinesOf, At
<1>6. At(s, off) \in LineOf(D) /\ Proper(At(s, off), X)
  BY <1>1, <1>5, ElementOfSeq DEF LinesOf, Sound
<1>7. first \in LineOf(D) /\ first.n = At(s, off).n /\ Proper(first, X)
  BY <1>1, <1>6, BehindLine, BehindProper
<1> HIDE DEF first
<1>8. one \in LinesOf(D) /\ Sound(one, X) /\ Left(one, 0, X) = {first.n} \cap X
      /\ Len(one) = 1 /\ one[1] = first
  BY <1>7, OneLine
<1> HIDE DEF one
<1>9. rest \in LinesOf(D) /\ Sound(rest, X) /\ Left(rest, 0, X) = Span(s, off + 1, last + 1, X)
  BY ONLY <1>1, <1>3, SliceLeft, off + 1 \in Nat, last + 1 \in Int
<1> DEFINE from == off + 1
           end == last + 1
<1>10. \A k \in 1 .. Len(rest) : /\ rest[k] = s[k + from] /\ k + from \in 1 .. Len(s)
                                 /\ k + from <= end /\ k \in Nat /\ k > 0
  <2>1. from \in Nat /\ end \in Int /\ rest = Slice(s, from, end)
    BY <1>1, <1>3
  <2>2. s \in Seq(LineOf(D)) /\ \A k \in 1 .. Len(rest) : k \in Nat /\ k > 0
    BY <1>1 DEF LinesOf
  <2> HIDE DEF from, end, rest
  <2> QED
    BY <2>1, <2>2, SlicePart
<1> HIDE DEF rest
<1>11. \A k \in 1 .. Len(rest) : Blank(rest[k]) \/ rest[k].ind > 0
  <2> TAKE k \in 1 .. Len(rest)
  <2>1. off + 1 < k + from
    BY <1>1, <1>10
  <2> QED
    BY <1>4, <1>10, <2>1
<1> HIDE DEF from, end
<1>12. Span(s, off, last + 1, X) = ({first.n} \cap X) \cup Left(rest, 0, X)
  <2>1. Left(s, off, X) = ({At(s, off).n} \cap X) \cup Left(s, off + 1, X)
    BY <1>1, SpanOne
  <2>2. Span(s, off, last + 1, X) = ({s[off + 1].n} \cap X) \cup Span(s, off + 1, last + 1, X)
    <3>1. ASSUME NEW x \in Span(s, off, last + 1, X)
          PROVE  x \in ({s[off + 1].n} \cap X) \cup Span(s, off + 1, last + 1, X)
      <4>1. PICK k \in 1 .. Len(s) : off < k /\ k <= last + 1 /\ s[k].n = x /\ x \in X
        BY <3>1 DEF Span
      <4>2. k = off + 1 \/ off + 1 < k
        BY <1>1, <4>1
      <4> QED
        BY <4>1, <4>2 DEF Span
    <3>2. ASSUME NEW x \in Span(s, off + 1, last + 1, X) PROVE x \in Span(s, off, last + 1, X)
      BY <1>1, <3>2 DEF Span
    <3>3. s[off + 1].n \in X => s[off + 1].n \in Span(s, off, last + 1, X)
      BY <1>1, <1>3, <1>5 DEF Span
    <3> QED
      BY <3>1, <3>2, <3>3
  <2> QED
    BY <1>5, <1>7, <1>9, <2>2
<1>13. ASSUME NEW j \in 1 .. Len(rest) PROVE first.n # rest[j].n
  <2>1. rest[j].n = s[j + (off + 1)].n /\ j + (off + 1) \in 1 .. Len(s) /\ off + 1 # j + (off + 1)
    BY <1>1, <1>10 DEF from
  <2> QED
    BY <1>1, <1>5, <1>7, <2>1 DEF Sound, Single
<1>14. /\ all \in LinesOf(D) /\ Sound(all, X)
       /\ Left(all, 0, X) = ({first.n} \cap X) \cup Left(rest, 0, X)
       /\ \A k \in 2 .. Len(all) : Blank(all[k]) \/ all[k].ind > 0
  <2>1. CASE Blank(first)
    <3>1. first.n \notin X
      BY <1>7, <2>1, BlankIsNoText
    <3>2. all = rest
      BY <2>1
    <3>3. \A k \in 2 .. Len(rest) : k \in 1 .. Len(rest)
      OBVIOUS
    <3> QED
      BY <1>9, <1>11, <3>1, <3>2, <3>3
  <2>2. CASE ~Blank(first)
    <3> DEFINE c == one \o rest
    <3>1. c \in LinesOf(D) /\ Sound(c, X) /\ Left(c, 0, X) = Left(one, 0, X) \cup Left(rest, 0, X)
      <4>1. \A i \in 1 .. Len(one), j \in 1 .. Len(rest) : one[i].n # rest[j].n
        BY <1>8, <1>13
      <4> QED
        BY <1>8, <1>9, <4>1, JoinLeft
    <3>2. Len(c) = 1 + Len(rest) /\ \A k \in 1 .. 1 + Len(rest) : c[k] = IF k <= 1 THEN one[k] ELSE rest[k - 1]
      <4>1. one \in Seq(LineOf(D)) /\ rest \in Seq(LineOf(D))
        BY <1>8, <1>9 DEF LinesOf
      <4>2. /\ Len(c) = Len(one) + Len(rest)
            /\ \A k \in 1 .. Len(one) + Len(rest) :
                  c[k] = IF k <= Len(one) THEN one[k] ELSE rest[k - Len(one)]
        BY ONLY <4>1, ConcatProperties DEF c
      <4> HIDE DEF c
      <4>3. Len(one) = 1
        BY <1>8
      <4> QED
        BY ONLY <4>2, <4>3
    <3> HIDE DEF c
    <3>3. ASSUME NEW k \in 2 .. Len(c) PROVE Blank(c[k]) \/ c[k].ind > 0
      <4>1. Len(rest) \in Nat
        BY <1>9, LenProperties DEF LinesOf
      <4>2. k - 1 \in 1 .. Len(rest) /\ c[k] = rest[k - 1]
        BY <3>2, <4>1
      <4> QED
        BY <1>11, <4>2
    <3>4. all = c
      BY <2>2 DEF c
    <3> QED
      BY <1>8, <3>1, <3>3, <3>4
  <2> QED
    BY <2>1, <2>2
<1> HIDE DEF all
<1>15. block \in LinesOf(D) /\ Sound(block, X) /\ Left(block, 0, X) = Left(all, 0, X)
  BY <1>14, TrimEndLeft
<1>16. Len(block) <= Len(all) /\ \A k \in 1 .. Len(block) : block[k] = all[k]
  BY <1>14, TrimEndPart DEF LinesOf
<1> HIDE DEF block
<1>17. \A k \in 2 .. Len(block) : Blank(block[k]) \/ block[k].ind > 0
  <2> TAKE k \in 2 .. Len(block)
  <2>1. k \in 1 .. Len(block) /\ k \in 2 .. Len(all)
    BY <1>14, <1>15, <1>16, LenProperties DEF LinesOf
  <2> QED
    BY <1>14, <1>16, <2>1
<1>18. /\ got \in LinesOf(D) /\ Sound(got, X) /\ Left(got, 0, X) = Left(block, 0, X)
       /\ \A k \in 2 .. Len(got) : Blank(got[k]) \/ got[k].ind > 0
  <2>1. CASE block = <<>>
    BY <1>15, <1>17, <2>1
  <2>2. CASE block # <<>>
    <3>1. got = [block EXCEPT ![1].ind = 0] /\ got \in LinesOf(D)
      BY <1>15, <2>2, FlushLines
    <3>2. Len(got) = Len(block) /\ \A k \in 1 .. Len(block) : /\ got[k].n = block[k].n
                                                              /\ got[k].m = block[k].m
                                                              /\ k # 1 => got[k] = block[k]
      <4>1. DOMAIN block = 1 .. Len(block) /\ Len(block) \in Nat /\ block \in Seq(LineOf(D))
        BY <1>15, LenProperties DEF LinesOf
      <4>2. \A k \in 1 .. Len(block) : block[k] \in LineOf(D)
        BY <4>1, ElementOfSeq
      <4>3. DOMAIN got = 1 .. Len(block)
        BY <3>1, <4>1
      <4>4. Len(got) = Len(block)
        BY <3>1, <4>1, <4>3 DEF LinesOf
      <4> HIDE DEF got
      <4>5. \A k \in 1 .. Len(block) : got[k] = IF k = 1 THEN [block[1] EXCEPT !.ind = 0] ELSE block[k]
        BY <3>1, <4>1
      <4>6. 1 \in 1 .. Len(block) => /\ [block[1] EXCEPT !.ind = 0].n = block[1].n
                                     /\ [block[1] EXCEPT !.ind = 0].m = block[1].m
        BY <4>2 DEF LineOf
      <4> QED
        BY <4>4, <4>5, <4>6
    <3> HIDE DEF got
    <3>3. Sound(got, X) /\ Left(got, 0, X) = Left(block, 0, X)
      <4>1. Sound(got, X) /\ \A i \in Int : Left(got, i, X) = Left(block, i, X)
        <5>1. /\ got \in LinesOf(D) /\ block \in LinesOf(D) /\ Sound(block, X)
              /\ Len(got) = Len(block)
              /\ \A k \in 1 .. Len(block) : got[k].n = block[k].n /\ got[k].m = block[k].m
          BY <1>15, <3>1, <3>2
        <5> QED
          BY ONLY <5>1, SameLeft
      <4>2. 0 \in Int
        OBVIOUS
      <4> QED
        BY <4>1, <4>2
    <3>4. \A k \in 2 .. Len(got) : k \in 1 .. Len(block) /\ k # 1 /\ k \in 2 .. Len(block)
      BY <1>15, <3>2, LenProperties DEF LinesOf
    <3> QED
      BY <1>17, <3>1, <3>2, <3>3, <3>4
  <2> QED
    BY <2>1, <2>2
<1> HIDE DEF got
<1>19. Left(got, 0, X) = Span(s, off, last + 1, X)
  BY <1>12, <1>14, <1>15, <1>18
<1> QED
  BY <1>2, <1>18, <1>19, Zenon DEF s, off

\* Three parts in a row.
LEMMA ThreeParts ==
    ASSUME NEW D, NEW s \in LinesOf(D), NEW X, Single(s), NEW j \in Nat, NEW i \in Nat, j <= i
    PROVE  /\ Left(s, 0, X) = Span(s, 0, j, X) \cup Span(s, j, i, X) \cup Left(s, i, X)
           /\ Span(s, 0, j, X) \cap Span(s, j, i, X) = {}
           /\ Span(s, 0, j, X) \cap Left(s, i, X) = {}
           /\ Span(s, j, i, X) \cap Left(s, i, X) = {}
<1>1. Len(s) \in Nat
  BY LenProperties DEF LinesOf
<1> QED
  BY <1>1 DEF Left, Span, Single

\* The lines of a block as arguments, options and content.
PartsAre(a, o, c, Y, X) ==
    /\ Sound(a, X) /\ Sound(o, X) /\ Sound(c, X)
    /\ Y = Left(a, 0, X) \cup Left(o, 0, X) \cup Left(c, 0, X)
    /\ Left(a, 0, X) \cap Left(o, 0, X) = {}
    /\ Left(a, 0, X) \cap Left(c, 0, X) = {}
    /\ Left(o, 0, X) \cap Left(c, 0, X) = {}
Parted(p, Y, X) == PartsAre(p.args, p.options, p.content, Y, X)

\* No lines have no text.
LEMMA NoLines ==
    ASSUME NEW D, NEW X
    PROVE  <<>> \in LinesOf(D) /\ Sound(<<>>, X) /\ \A i \in Int : Left(<<>>, i, X) = {}
<1> DEFINE s == <<>>
<1>1. s \in LinesOf(D) /\ Len(s) = 0
  BY DEF LinesOf
<1> HIDE DEF s
<1>2. Sound(s, X) /\ \A i \in Int : Left(s, i, X) = {}
  BY <1>1 DEF Sound, Single, Left
<1> QED
  BY <1>1, <1>2 DEF s

\* A block divided at its first blank line: its parts have its lines of text.
LEMMA DividedLeft ==
    ASSUME NEW d, NEW D, NEW s \in LinesOf(D), NEW X, Sound(s, X), NEW start \in Int
    PROVE  Parted(DividedFrom(d, s, start), Left(s, 0, X), X)
<1> DEFINE i == BlankAt(s)
           front == Slice(s, 0, i)
           j == OptionsAt(d, front)
           a == Slice(s, 0, j)
           o == Slice(s, j, i)
           c == From(s, i)
           e == From(s, i + 1)
<1>1. Len(s) \in Nat /\ i \in 0 .. Len(s) /\ (i < Len(s) => Blank(s[i + 1]))
  BY BlankAtPart, LenProperties DEF LinesOf
<1> HIDE DEF i
<1>2. front \in LinesOf(D) /\ Len(front) = i
  <2>1. 0 \in Nat /\ i \in Int /\ i <= Len(s) /\ 0 <= i
    BY <1>1
  <2>2. front \in LinesOf(D) /\ Len(front) = i - 0
    BY ONLY <2>1, SlicePart, s \in LinesOf(D) DEF LinesOf
  <2> QED
    BY <1>1, <2>2
<1> HIDE DEF front
<1>3. j \in 0 .. i
  BY <1>2, OptionsAtPart
<1> HIDE DEF j
<1>4. j \in Nat /\ i \in Nat /\ j <= i /\ 0 \in Nat /\ i + 1 \in Nat
  BY <1>1, <1>3
<1>5. /\ a \in LinesOf(D) /\ Sound(a, X) /\ Left(a, 0, X) = Span(s, 0, j, X)
      /\ o \in LinesOf(D) /\ Sound(o, X) /\ Left(o, 0, X) = Span(s, j, i, X)
  BY ONLY <1>4, SliceLeft, s \in LinesOf(D), Sound(s, X), j \in Int, i \in Int
<1>6. /\ c \in LinesOf(D) /\ Sound(c, X) /\ Left(c, 0, X) = Left(s, i, X)
      /\ e \in LinesOf(D) /\ Sound(e, X) /\ Left(e, 0, X) = Left(s, i + 1, X)
  BY ONLY <1>4, FromLeft, s \in LinesOf(D), Sound(s, X)
<1>7. Left(s, i, X) = Left(s, i + 1, X)
  <2>1. CASE i < Len(s)
    <3>1. Left(s, i, X) = ({At(s, i).n} \cap X) \cup Left(s, i + 1, X)
      BY <1>4, <2>1, SpanOne
    <3>2. i + 1 \in 1 .. Len(s)
      BY <1>1, <1>4, <2>1
    <3>3. At(s, i).n \notin X
      BY <1>1, <2>1, <3>2, BlankIsNoText DEF Sound, At
    <3> QED
      BY <3>1, <3>3
  <2>2. CASE ~(i < Len(s))
    <3>1. i \in Int /\ i + 1 \in Int /\ Len(s) <= i /\ Len(s) <= i + 1
      BY <1>1, <1>4, <2>2
    <3> QED
      BY <3>1, LeftPast
  <2> QED
    BY <2>1, <2>2
<1>8. /\ Left(s, 0, X) = Span(s, 0, j, X) \cup Span(s, j, i, X) \cup Left(s, i, X)
      /\ Span(s, 0, j, X) \cap Span(s, j, i, X) = {}
      /\ Span(s, 0, j, X) \cap Left(s, i, X) = {}
      /\ Span(s, j, i, X) \cap Left(s, i, X) = {}
  BY <1>4, ThreeParts DEF Sound
<1> DEFINE f == a \o c
<1>9. f \in LinesOf(D) /\ Sound(f, X) /\ Left(f, 0, X) = Left(a, 0, X) \cup Left(c, 0, X)
  <2>1. \A k \in 1 .. Len(a) : k + 0 \in 1 .. Len(s) /\ k + 0 <= j /\ a[k] = s[k + 0]
    BY ONLY <1>4, SlicePart, s \in LinesOf(D), j \in Int DEF LinesOf
  <2>2. \A k \in 1 .. Len(c) : k + i \in 1 .. Len(s) /\ c[k] = s[k + i]
    <3>1. Len(s) \in Int /\ s \in Seq(LineOf(D)) /\ c = Slice(s, i, Len(s))
      BY <1>1 DEF From, LinesOf
    <3> HIDE DEF c
    <3> QED
      BY ONLY <1>4, <3>1, SlicePart
  <2> HIDE DEF a, c
  <2>3. ASSUME NEW k \in 1 .. Len(a), NEW l \in 1 .. Len(c) PROVE a[k].n # c[l].n
    <3>1. k \in 1 .. Len(s) /\ a[k] = s[k] /\ k # l + i
      BY <1>4, <2>1
    <3>2. l + i \in 1 .. Len(s) /\ c[l] = s[l + i]
      BY <2>2
    <3> QED
      BY <3>1, <3>2 DEF Sound, Single
  <2> QED
    BY <1>5, <1>6, <2>3, JoinLeft
<1> HIDE DEF a, o, c, e, f
<1>10. /\ TrimStart(f) \in LinesOf(D) /\ Sound(TrimStart(f), X)
       /\ Left(TrimStart(f), 0, X) = Left(f, 0, X)
  BY <1>9, TrimStartLeft
<1>11. /\ TrimStart(e) \in LinesOf(D) /\ Sound(TrimStart(e), X)
       /\ Left(TrimStart(e), 0, X) = Left(e, 0, X)
  BY <1>6, TrimStartLeft
<1>12. /\ TrimStart(s) \in LinesOf(D) /\ Sound(TrimStart(s), X)
       /\ Left(TrimStart(s), 0, X) = Left(s, 0, X)
  BY TrimStartLeft
<1>13. Sound(<<>>, X) /\ Left(<<>>, 0, X) = {}
  BY NoLines, 0 \in Int
<1> DEFINE p == DividedFrom(d, s, start)
<1>14. \/ p.args = <<>> /\ p.options = <<>> /\ p.content = TrimStart(s)
       \/ p.args = <<>> /\ p.options = o /\ p.content = TrimStart(f)
       \/ p.args = a /\ p.options = o /\ p.content = TrimStart(e)
  <2>1. CASE s = <<>> \/ (d.args = "none" /\ d.options = {})
    BY <2>1 DEF DividedFrom, Divided
  <2>2. CASE ~(s = <<>> \/ (d.args = "none" /\ d.options = {}))
    <3>1. p = DividedAt(d, s, start, i, j)
      BY <2>2 DEF DividedFrom, i, j, front
    <3> QED
      BY <3>1 DEF DividedAt, Divided, a, o, c, e, f
  <2> QED
    BY <2>1, <2>2
<1> HIDE DEF p
<1> DEFINE Y == Left(s, 0, X)
           no == <<>>
           ts == TrimStart(s)
           tf == TrimStart(f)
           te == TrimStart(e)
<1> HIDE DEF no, ts, tf, te, Y
<1>15. PartsAre(no, no, ts, Y, X)
  BY <1>12, <1>13 DEF PartsAre, no, ts, Y
<1>16. PartsAre(no, o, tf, Y, X)
  <2>1. Y = Left(o, 0, X) \cup Left(tf, 0, X) /\ Left(o, 0, X) \cap Left(tf, 0, X) = {}
    BY <1>5, <1>6, <1>8, <1>9, <1>10 DEF Y, tf
  <2> QED
    BY <1>5, <1>10, <1>13, <2>1 DEF PartsAre, no, tf
<1>17. PartsAre(a, o, te, Y, X)
  <2>1. /\ Y = Left(a, 0, X) \cup Left(o, 0, X) \cup Left(te, 0, X)
        /\ Left(a, 0, X) \cap Left(o, 0, X) = {}
        /\ Left(a, 0, X) \cap Left(te, 0, X) = {}
        /\ Left(o, 0, X) \cap Left(te, 0, X) = {}
    BY <1>5, <1>6, <1>7, <1>8, <1>11 DEF Y, te
  <2> QED
    BY <1>5, <1>11, <2>1 DEF PartsAre, te
<1>18. PartsAre(p.args, p.options, p.content, Y, X)
  BY <1>14, <1>15, <1>16, <1>17, Zenon DEF no, ts, tf, te
<1> QED
  BY <1>18, Zenon DEF p, Y, Parted

\* So have the parts of a directive (Body.parse_directive_block).
LEMMA DirectiveLeft ==
    ASSUME NEW d, NEW D, NEW block \in LinesOf(D), NEW X, Sound(block, X), NEW offset \in Int
    PROVE  Parted(DirectiveBlock(d, block, offset), Left(block, 0, X), X)
<1> DEFINE first == IF block # <<>> /\ Blank(block[1]) THEN 1 ELSE 0
           lower == From(block, first)
           s == TrimEnd(lower)
           start == offset + first
<1>1. DirectiveBlock(d, block, offset) = DividedFrom(d, s, start)
  BY DEF DirectiveBlock
<1>2. first \in Nat /\ start \in Int
  OBVIOUS
<1>3. Left(block, first, X) = Left(block, 0, X)
  <2>1. CASE block # <<>> /\ Blank(block[1])
    <3>1. Len(block) \in Nat /\ Len(block) # 0
      BY <2>1, EmptySeq, LenProperties DEF LinesOf
    <3>2. 0 \in Nat /\ 0 < Len(block) /\ 1 \in 1 .. Len(block) /\ 0 + 1 = 1
      BY <3>1
    <3>3. Left(block, 0, X) = ({At(block, 0).n} \cap X) \cup Left(block, 0 + 1, X)
      BY ONLY <3>2, SpanOne, block \in LinesOf(D)
    <3>4. At(block, 0).n \notin X
      BY <2>1, <3>2, BlankIsNoText DEF Sound, At
    <3>5. first = 1
      BY <2>1
    <3> QED
      BY <3>2, <3>3, <3>4, <3>5
  <2>2. CASE ~(block # <<>> /\ Blank(block[1]))
    BY <2>2
  <2> QED
    BY <2>1, <2>2
<1> HIDE DEF first, start
<1>4. lower \in LinesOf(D) /\ Sound(lower, X) /\ Left(lower, 0, X) = Left(block, first, X)
  BY ONLY <1>2, FromLeft, block \in LinesOf(D), Sound(block, X)
<1> HIDE DEF lower
<1>5. s \in LinesOf(D) /\ Sound(s, X) /\ Left(s, 0, X) = Left(lower, 0, X)
  BY <1>4, TrimEndLeft
<1> HIDE DEF s
<1>6. Parted(DividedFrom(d, s, start), Left(s, 0, X), X)
  BY <1>2, <1>5, DividedLeft
<1> QED
  BY <1>1, <1>3, <1>4, <1>5, <1>6, Zenon
=============================================================================
