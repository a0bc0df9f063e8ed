--------------------------- MODULE ProjectProofs ---------------------------
(***************************************************************************)
(* Proofs about Project, for any files, assets, Giza categories, bounds    *)
(* and any text of any page: its types, that the asset graph follows the   *)
(* RST pages, and that between requests every RST page shows the assets    *)
(* it was asked to follow, unless the request has raised.                  *)
(*                                                                         *)
(* The last one is about the time when no call runs; `Current` says what   *)
(* holds while one does: a page that does not show an asset as it is still *)
(* waits for its turn in a call for that asset.  That the call was given   *)
(* every such page to begin with is GraphIsCurrent.  `Nesting` bounds the  *)
(* calls: the only call ever made within another is a YAML file's, so a    *)
(* page can wait behind one call at most.                                  *)
(***************************************************************************)
EXTENDS Project, SequenceTheorems, TLAPS

\* A call made within another is an update of a YAML file.
Nesting(s) ==
    /\ s \in Seq(Frame) /\ Len(s) <= 2
    /\ \A i \in 1..Len(s) : s[i].op # "yaml" => i = Len(s)

LEMMA FrameFields ==
    ASSUME NEW x \in Frame
    PROVE  /\ x.op \in {"asset", "delete", "yaml"}
           /\ x.op \in {"asset", "delete"} =>
                /\ x.file \in Assets /\ x.todo \subseteq Sources
                /\ \A t \in SUBSET Sources : [x EXCEPT !.todo = t] \in Frame
           /\ x.op = "yaml" =>
                /\ x.file \in YamlFiles /\ x.optional \in DiskTexts
                /\ x.todo \subseteq YamlFiles /\ x.path \in YamlFiles
  BY DEF Frame

LEMMA TurnDone ==
    ASSUME NEW x \in Frame, NEW f
    PROVE  LET y == [x EXCEPT !.todo = @ \ {f}] IN
           y \in Frame /\ y.op = x.op /\ y.file = x.file /\ y.todo = x.todo \ {f}
  BY DEF Frame

LEMMA FirstReplaced ==
    ASSUME NEW s, Nesting(s), s # <<>>, NEW x \in Frame, x.op = Head(s).op
    PROVE  /\ Nesting(<<x>> \o Tail(s))
           /\ Len(<<x>> \o Tail(s)) = Len(s)
           /\ (<<x>> \o Tail(s))[1] = x
           /\ \A i \in 2..Len(s) : (<<x>> \o Tail(s))[i] = s[i]
  BY DEF Nesting

LEMMA FirstDropped ==
    ASSUME NEW s, Nesting(s), s # <<>>
    PROVE  /\ Nesting(Tail(s))
           /\ Len(Tail(s)) = Len(s) - 1
           /\ \A i \in 1..(Len(s) - 1) : Tail(s)[i] = s[i + 1]
           /\ Head(s) = s[1] /\ Head(s) \in Frame
  BY DEF Nesting

LEMMA OneCall ==
    ASSUME NEW x \in Frame
    PROVE  <<x>> \o <<>> = <<x>> /\ Nesting(<<x>>) /\ Nesting(<<>>)
  BY DEF Nesting

LEMMA YamlInside ==
    ASSUME NEW s, Nesting(s), s # <<>>, Head(s).op # "yaml"
    PROVE  Len(s) = 1
<1>1. s[1].op # "yaml"
  BY FirstDropped
<1>2. Len(s) \in 1..2
  <2>1. s \in Seq(Frame) /\ Len(s) <= 2
    BY DEF Nesting
  <2>2. Len(s) \in Nat \ {0}
    BY <2>1, EmptySeq
  <2>3. \A k \in Nat \ {0} : k <= 2 => k \in 1..2
    OBVIOUS
  <2> QED
    BY <2>1, <2>2, <2>3, Zenon
<1> QED
  BY <1>1, <1>2 DEF Nesting

LEMMA CallInDeletion ==
    ASSUME NEW s, Nesting(s), s # <<>>, Head(s).op = "delete",
           NEW x \in Frame, x.op = "yaml", NEW y \in Frame
    PROVE  /\ Len(s) = 1 /\ Tail(s) = <<>>
           /\ <<x, y>> \o Tail(s) = <<x, y>>
           /\ Nesting(<<x, y>>)
<1>1. Len(s) = 1 /\ Tail(s) = <<>>
  <2>3. Len(s) = 1
    BY YamlInside
  <2>4. Len(Tail(s)) = 0 /\ Tail(s) \in Seq(Frame)
    BY <2>3, FirstDropped DEF Nesting
  <2> QED
    BY <2>3, <2>4, EmptySeq
<1>2. <<x, y>> \o <<>> = <<x, y>>
  OBVIOUS
<1>3. Nesting(<<x, y>>)
  BY DEF Nesting
<1> QED
  BY <1>1, <1>2, <1>3
-----------------------------------------------------------------------------
\* What setting a page does.

LEMMA SeenType ==
    ASSUME TypeOK, NEW key, NEW text
    PROVE  Seen(key, text) \in [Assets -> DiskTexts]
<1>1. ASSUME NEW S PROVE [a \in Assets |-> IF a \in S THEN disk[a] ELSE 0] \in [Assets -> DiskTexts]
  BY ProjectAssumption DEF ProjectAssumption, TypeOK, Files, DiskTexts
<1> QED
  BY <1>1, Zenon DEF Seen

LEMMA PageType ==
    ASSUME TypeOK, NEW key, NEW text \in Texts
    PROVE  PageFrom(key, text) \in Page
  BY SeenType DEF PageFrom, Page

LEMMA SetPageTypes ==
    ASSUME TypeOK, NEW f \in RstFiles, NEW text \in Texts, PageUpdated(f, text)
    PROVE  /\ parsed' \in Pages /\ changed' \subseteq Keys
           /\ assetNodes' \subseteq Assets /\ assetEdges' \subseteq Sources \X assetNodes'
<1>1. f \in Keys /\ f \in Sources
  BY DEF Keys, Sources
<1>2. Shows[f, text] \subseteq Assets /\ PageFrom(f, text) \in Page
  BY <1>1, PageType, ProjectAssumption DEF ProjectAssumption
<1> QED
  BY <1>1, <1>2 DEF PageUpdated, AssetsOf, TypeOK, Pages

LEMMA SetPageGraph ==
    ASSUME TypeOK, GraphIsCurrent, NEW s \in RstFiles, NEW text \in Texts, PageUpdated(s, text)
    PROVE  GraphIsCurrent'
<1> SUFFICES ASSUME NEW f \in RstFiles, parsed'[f] # None
             PROVE  {e[2] : e \in {x \in assetEdges' : x[1] = f}} = Shows[f, parsed'[f].text]
  BY DEF GraphIsCurrent
<1>1. f \in Keys /\ parsed' = [parsed EXCEPT ![s] = PageFrom(s, text)] /\ parsed \in Pages
  BY DEF Keys, PageUpdated, TypeOK
<1>2. CASE f = s
  <2>1. parsed'[f].text = text
    BY <1>1, <1>2 DEF Pages, PageFrom
  <2>2. {x \in assetEdges' : x[1] = f} = {f} \X Shows[f, text]
    BY <1>2 DEF PageUpdated, AssetsOf
  <2>3. ASSUME NEW S PROVE {e[2] : e \in {f} \X S} = S
    <3>1. \A y \in S : <<f, y>> \in {f} \X S /\ <<f, y>>[2] = y
      OBVIOUS
    <3>2. \A e \in {f} \X S : e[2] \in S
      OBVIOUS
    <3> QED
      BY <3>1, <3>2, Zenon
  <2> QED
    BY <2>1, <2>2, <2>3, Zenon
<1>3. CASE f # s
  <2>1. parsed'[f] = parsed[f]
    BY <1>1, <1>3 DEF Pages
  <2>2. {x \in assetEdges' : x[1] = f} = {x \in assetEdges : x[1] = f}
    BY <1>3 DEF PageUpdated, AssetsOf
  <2> QED
    BY <2>1, <2>2 DEF GraphIsCurrent
<1> QED
  BY <1>2, <1>3
-----------------------------------------------------------------------------
\* What a step does to the pages.

Waits(a, f) ==
    \E i \in 1..Len(stack) :
        stack[i].op # "yaml" /\ stack[i].file = a /\ f \in stack[i].todo

Fresh(a, f) ==
    parsed[f] # None /\ a \in Shows[f, parsed[f].text] => parsed[f].seen[a] = disk[a]

\* A page that does not show an asset as it is waits for its turn in a call for
\* the asset.
Current ==
    \A a \in Assets, f \in RstFiles :
        a \notin failed /\ due[a] # None => Fresh(a, f) \/ Waits(a, f)

Unbuilt ==
    ~built => /\ stack = <<>> /\ disk = [f \in Files |-> 1]
              /\ \A f \in Files : due[f] = None

IInv == TypeOK /\ Nesting(stack) /\ GraphIsCurrent /\ Unbuilt /\ Current

LEMMA RstPageFresh ==
    ASSUME TypeOK, NEW f \in RstFiles, NEW text \in Texts,
           PageUpdated(f, text), disk' = disk
    PROVE  /\ \A a \in Assets : Fresh(a, f)'
           /\ \A a \in Assets, g \in RstFiles : Fresh(a, g) => Fresh(a, g)'
<1>1. f \in Keys /\ parsed' = [parsed EXCEPT ![f] = PageFrom(f, text)] /\ parsed \in Pages
  BY DEF Keys, PageUpdated, TypeOK
<1>2. parsed'[f] = PageFrom(f, text)
  BY <1>1 DEF Pages
<1>3. PageFrom(f, text).text = text /\ PageFrom(f, text).seen = Seen(f, text)
  BY DEF PageFrom
<1>4. \A a \in Assets : Fresh(a, f)'
  <2> SUFFICES ASSUME NEW a \in Assets, a \in Shows[f, text]
               PROVE  Seen(f, text)[a] = disk[a]
    BY <1>2, <1>3 DEF Fresh
  <2> QED
    BY Zenon DEF Seen
<1>5. \A g \in RstFiles \ {f} : parsed'[g] = parsed[g]
  BY <1>1 DEF Pages, Keys
<1> QED
  BY <1>4, <1>5 DEF Fresh

-----------------------------------------------------------------------------
\* What a step does to the stack.

LEMMA WaitsKept ==
    ASSUME Nesting(stack), stack # <<>>, NEW x \in Frame,
           x.op = Head(stack).op, x.file = Head(stack).file,
           stack' = <<x>> \o Tail(stack),
           NEW a, NEW f, Waits(a, f),
           x.op # "yaml" /\ a = x.file /\ f \in Head(stack).todo => f \in x.todo
    PROVE  Waits(a, f)'
<1>1. PICK i \in 1..Len(stack) : stack[i].op # "yaml" /\ stack[i].file = a /\ f \in stack[i].todo
  BY DEF Waits
<1>2. /\ Len(stack') = Len(stack) /\ stack'[1] = x
      /\ \A j \in 2..Len(stack) : stack'[j] = stack[j]
  BY FirstReplaced
<1>3. Head(stack) = stack[1]
  BY FirstDropped
<1>4. CASE i = 1
  BY <1>1, <1>2, <1>3, <1>4 DEF Waits
<1>5. CASE i # 1
  <2>1. i \in 2..Len(stack)
    BY <1>5 DEF Nesting
  <2> QED
    BY <1>1, <1>2, <2>1 DEF Waits
<1> QED
  BY <1>4, <1>5

LEMMA WaitsKeptByReturn ==
    ASSUME Nesting(stack), stack # <<>>, stack' = Tail(stack),
           Head(stack).op # "yaml" => Head(stack).todo = {},
           NEW a, NEW f, Waits(a, f)
    PROVE  Waits(a, f)'
<1>1. PICK i \in 1..Len(stack) : stack[i].op # "yaml" /\ stack[i].file = a /\ f \in stack[i].todo
  BY DEF Waits
<1>2. /\ Len(stack') = Len(stack) - 1 /\ Head(stack) = stack[1]
      /\ \A j \in 1..(Len(stack) - 1) : stack'[j] = stack[j + 1]
  BY FirstDropped
<1>3. i # 1
  BY <1>1, <1>2
<1>4. i - 1 \in 1..(Len(stack) - 1) /\ stack'[i - 1] = stack[i]
  <2>1. Len(stack) \in Nat
    BY LenProperties DEF Nesting
  <2>2. \A n \in Nat : \A k \in 1..n : k # 1 => k - 1 \in 1..(n - 1) /\ (k - 1) + 1 = k
    OBVIOUS
  <2>3. i - 1 \in 1..(Len(stack) - 1) /\ (i - 1) + 1 = i
    BY <1>3, <2>1, <2>2
  <2> QED
    BY <1>2, <2>3, Zenon
<1> QED
  BY <1>1, <1>2, <1>4 DEF Waits

LEMMA NobodyWaits ==
    ASSUME stack = <<>>, NEW a, NEW f
    PROVE  ~Waits(a, f)
  BY DEF Waits

\* Nothing becomes due, and a page that no longer waits is fresh.
LEMMA CurrentKept ==
    ASSUME Current,
           \A a \in Assets : a \notin failed' /\ due'[a] # None => a \notin failed /\ due[a] # None,
           \A a \in Assets, f \in RstFiles :
                /\ a \notin failed' /\ due'[a] # None /\ Fresh(a, f) => Fresh(a, f)'
                /\ a \notin failed' /\ Waits(a, f) => Fresh(a, f)' \/ Waits(a, f)'
    PROVE  Current'
  BY Zenon DEF Current

LEMMA FreshKept ==
    ASSUME parsed' = parsed, disk' = disk, NEW a, NEW f
    PROVE  Fresh(a, f) <=> Fresh(a, f)'
  BY Zenon DEF Fresh

LEMMA GraphKept ==
    ASSUME GraphIsCurrent, parsed' = parsed, assetEdges' = assetEdges
    PROVE  GraphIsCurrent'
  BY Zenon DEF GraphIsCurrent

-----------------------------------------------------------------------------
\* What a request does.

LEMMA CallTypes ==
    ASSUME TypeOK, NEW f \in Files, NEW text \in DiskTexts \cup {None},
           Request(f, text) \/ RequestRaises(f, text)
    PROVE  /\ stack = <<>> /\ built
           /\ disk' = disk /\ built' = built /\ cached' = cached /\ copied' = copied
           /\ requests' \in 0..MaxRequests
           /\ due' \in [Files -> DiskTexts \cup {None}]
           /\ failed' \subseteq Files
           /\ due' = [due EXCEPT ![f] = text]
  BY ProjectAssumption
     DEF ProjectAssumption, TypeOK, Request, RequestRaises, Call, flushVars

LEMMA TakesTypes ==
    ASSUME TypeOK, NEW f \in Files, NEW optional \in OptionalTexts, Takes(optional)
    PROVE  /\ edits' \in 0..MaxEdits /\ optional \in DiskTexts
           /\ TextOf(f, optional) \in DiskTexts
           /\ DueText(f, optional) \in DiskTexts \cup {None}
           /\ TextOf(f, optional) # 0 => TextOf(f, optional) \in Texts
  BY ProjectAssumption
     DEF ProjectAssumption, TypeOK, Takes, OptionalTexts, TextOf, DueText, DiskTexts, Texts

\* Between requests every asset that is due is shown as it is.
LEMMA AllFresh ==
    ASSUME IInv, stack = <<>>, NEW a \in Assets, NEW f \in RstFiles, a \notin failed, due[a] # None
    PROVE  Fresh(a, f)
  BY NobodyWaits, Zenon DEF IInv, Current

\* A request for a source leaves alone which assets are due.
LEMMA SourceCall ==
    ASSUME IInv, NEW f \in Sources, NEW text, Request(f, text) \/ RequestRaises(f, text),
           \A a \in Assets, g \in RstFiles : Fresh(a, g) => Fresh(a, g)'
    PROVE  Current'
<1>1. stack = <<>> /\ due' = [due EXCEPT ![f] = text]
  BY DEF Request, RequestRaises, Call
<1>2. \A a \in Assets : a # f /\ (a \notin failed' => a \notin failed) /\ due'[a] = due[a]
  BY <1>1, ProjectAssumption
     DEF ProjectAssumption, Request, RequestRaises, IInv, TypeOK, Files, Sources
<1> QED
  BY <1>1, <1>2, NobodyWaits, CurrentKept, Zenon DEF IInv

LEMMA UpdateRstStep ==
    ASSUME IInv, NEW f \in RstFiles, NEW optional \in OptionalTexts, UpdateRst(f, optional)
    PROVE  IInv'
<1> DEFINE text == TextOf(f, optional)
<1>1. /\ text # 0 /\ Request(f, text) /\ Takes(optional) /\ PageUpdated(f, text)
      /\ UNCHANGED <<stack, yamlVars>>
  BY DEF UpdateRst, Parses
<1>2. TypeOK /\ f \in Files /\ f \in Sources /\ f \in Keys /\ f \notin Assets
  BY ProjectAssumption DEF IInv, ProjectAssumption, Files, Sources, Keys
<1>3. text \in Texts /\ text \in DiskTexts /\ edits' \in 0..MaxEdits
  BY <1>1, <1>2, TakesTypes
<1> HIDE DEF text
<1>4. TypeOK'
  BY <1>1, <1>2, <1>3, CallTypes, SetPageTypes DEF TypeOK, yamlVars
<1>5. GraphIsCurrent'
  BY <1>1, <1>2, <1>3, SetPageGraph DEF IInv
<1>6. Current'
  <2>1. disk' = disk
    BY <1>1, <1>2, <1>3, CallTypes
  <2> QED
    BY <1>1, <1>2, <1>3, <2>1, RstPageFresh, SourceCall
<1>7. Nesting(stack)' /\ Unbuilt'
  BY <1>1, <1>2, <1>3, CallTypes DEF IInv, Nesting, Unbuilt
<1> QED
  BY <1>4, <1>5, <1>6, <1>7 DEF IInv

LEMMA DeleteRstStep ==
    ASSUME IInv, NEW f \in RstFiles, DeleteRst(f)
    PROVE  IInv'
<1>1. /\ Request(f, 0) /\ parsed' = [parsed EXCEPT ![f] = None] /\ changed' = changed \cup {f}
      /\ UNCHANGED <<edits, stack, graphVars, yamlVars>>
  BY DEF DeleteRst
<1>2. TypeOK /\ f \in Files /\ f \in Sources /\ f \in Keys /\ 0 \in DiskTexts
  BY ProjectAssumption DEF IInv, ProjectAssumption, Files, Sources, Keys, DiskTexts
<1>3. parsed' \in Pages /\ parsed'[f] = None /\ \A g \in RstFiles \ {f} : parsed'[g] = parsed[g]
  BY <1>1, <1>2 DEF TypeOK, Pages, Keys
<1>4. TypeOK'
  BY <1>1, <1>2, <1>3, CallTypes DEF TypeOK, yamlVars, graphVars
<1>5. GraphIsCurrent'
  <2> SUFFICES ASSUME NEW g \in RstFiles, parsed'[g] # None
               PROVE  {e[2] : e \in {x \in assetEdges' : x[1] = g}} = Shows[g, parsed'[g].text]
    BY DEF GraphIsCurrent
  <2>1. parsed'[g] = parsed[g] /\ assetEdges' = assetEdges
    BY <1>1, <1>3 DEF graphVars
  <2> QED
    BY <2>1, Zenon DEF IInv, GraphIsCurrent
<1>6. Current'
  <2>1. disk' = disk
    BY <1>1, <1>2, CallTypes
  <2>2. \A a \in Assets, g \in RstFiles : Fresh(a, g) => Fresh(a, g)'
    BY <1>3, <2>1, Zenon DEF Fresh
  <2> QED
    BY <1>1, <1>2, <2>2, SourceCall
<1>7. Nesting(stack)' /\ Unbuilt'
  BY <1>1, <1>2, CallTypes DEF IInv, Nesting, Unbuilt
<1> QED
  BY <1>4, <1>5, <1>6, <1>7 DEF IInv

LEMMA DeleteYamlStep ==
    ASSUME IInv, NEW f \in YamlFiles, DeleteYaml(f)
    PROVE  IInv'
<1>1. Request(f, 0) /\ UNCHANGED <<edits, stack, pageVars, graphVars>>
  BY DEF DeleteYaml
<1>2. TypeOK /\ f \in Files /\ f \in Sources /\ 0 \in DiskTexts
  BY ProjectAssumption DEF IInv, ProjectAssumption, Files, Sources, DiskTexts
<1>3. registry' \in [YamlFiles -> Entry \cup {None}]
  BY <1>2 DEF TypeOK, DeleteYaml
<1>4. dg' \in [Categories -> Graph] /\ \A c \in Categories : dg'[c].edges \subseteq dg'[c].nodes \X dg'[c].nodes
  <2> SUFFICES ASSUME NEW c \in Categories
               PROVE  dg'[c] \in Graph /\ dg'[c].edges \subseteq dg'[c].nodes \X dg'[c].nodes
    BY DEF DeleteYaml
  <2>1. dg'[c] = [nodes |-> dg[c].nodes \ {f}, edges |-> {e \in dg[c].edges : f \notin {e[1], e[2]}}]
    BY DEF DeleteYaml
  <2> QED
    BY <1>2, <2>1 DEF TypeOK, Graph
<1>5. TypeOK'
  BY <1>1, <1>2, <1>3, <1>4, CallTypes DEF TypeOK, pageVars, graphVars
<1>6. GraphIsCurrent'
  BY <1>1, GraphKept DEF IInv, pageVars, graphVars
<1>7. Current'
  BY <1>1, <1>2, CallTypes, FreshKept, SourceCall DEF pageVars
<1>8. Nesting(stack)' /\ Unbuilt'
  BY <1>1, <1>2, CallTypes DEF IInv, Nesting, Unbuilt
<1> QED
  BY <1>5, <1>6, <1>7, <1>8 DEF IInv

LEMMA RaisingCallStep ==
    ASSUME IInv, NEW f \in Files, NEW text \in DiskTexts \cup {None}, RequestRaises(f, text),
           edits' \in 0..MaxEdits
    PROVE  IInv'
<1>1. TypeOK /\ UNCHANGED <<stack, pageVars, graphVars, yamlVars>>
  BY DEF IInv, RequestRaises
<1>2. TypeOK'
  BY <1>1, CallTypes DEF TypeOK, pageVars, graphVars, yamlVars
<1>3. GraphIsCurrent'
  BY <1>1, GraphKept DEF IInv, pageVars, graphVars
<1>4. Current'
  <2>1. \A a \in Assets : a \notin failed' => a # f /\ a \notin failed
    BY DEF RequestRaises
  <2>2. \A a \in Assets : a \notin failed' => a \notin failed /\ due'[a] = due[a]
    BY <1>1, <2>1, CallTypes DEF TypeOK, Files
  <2>3. stack = <<>> /\ disk' = disk
    BY <1>1, CallTypes
  <2> QED
    BY <1>1, <2>2, <2>3, FreshKept, NobodyWaits, CurrentKept, Zenon DEF IInv, pageVars
<1>5. Nesting(stack)' /\ Unbuilt'
  BY <1>1, CallTypes DEF IInv, Nesting, Unbuilt
<1> QED
  BY <1>2, <1>3, <1>4, <1>5 DEF IInv

LEMMA AssetCallStep ==
    ASSUME IInv, NEW a \in Assets, UpdateAsset(a) \/ DeleteAsset(a)
    PROVE  IInv'
<1>1. PICK op \in {"asset", "delete"} :
        /\ Request(a, disk[a])
        /\ stack' = <<[op |-> op, file |-> a, todo |-> Dependents(a)]>> \o stack
        /\ UNCHANGED <<edits, pageVars, graphVars, yamlVars>>
  BY DEF UpdateAsset, DeleteAsset, Push
<1> DEFINE x == [op |-> op, file |-> a, todo |-> Dependents(a)]
<1>2. TypeOK /\ a \in Files /\ disk[a] \in DiskTexts /\ stack = <<>> /\ disk' = disk /\ built /\ built'
  BY <1>1, CallTypes DEF IInv, TypeOK, Files
<1>3. Dependents(a) \subseteq Sources
  BY <1>2 DEF Dependents, TypeOK
<1>4. x \in Frame
  BY <1>3 DEF Frame
<1>5. stack' = <<x>> /\ Nesting(stack')
  BY <1>1, <1>2, <1>4, OneCall
<1>6. TypeOK'
  BY <1>1, <1>2, <1>5, CallTypes DEF TypeOK, Nesting, pageVars, graphVars, yamlVars
<1>7. GraphIsCurrent'
  BY <1>1, GraphKept DEF IInv, pageVars, graphVars
<1>8. \A f \in RstFiles : Fresh(a, f) \/ f \in Dependents(a)
  <2> SUFFICES ASSUME NEW f \in RstFiles, parsed[f] # None, a \in Shows[f, parsed[f].text]
               PROVE  f \in Dependents(a)
    BY Zenon DEF Fresh
  <2>1. PICK e \in assetEdges : e[1] = f /\ e[2] = a
    <3>1. {e[2] : e \in {y \in assetEdges : y[1] = f}} = Shows[f, parsed[f].text]
      BY Zenon DEF IInv, GraphIsCurrent
    <3>2. a \in {e[2] : e \in {y \in assetEdges : y[1] = f}}
      BY <3>1, Zenon
    <3> HIDE DEF x
    <3> QED
      BY <3>2
  <2> QED
    BY <2>1 DEF Dependents
<1>9. Current'
  <2> SUFFICES ASSUME NEW b \in Assets, NEW f \in RstFiles, b \notin failed', due'[b] # None
               PROVE  Fresh(b, f)' \/ Waits(b, f)'
    BY DEF Current
  <2>1. CASE b = a
    <3>1. f \in Dependents(a) => Waits(b, f)'
      BY <1>5, <2>1 DEF Waits
    <3> QED
      BY <1>1, <1>2, <1>8, <2>1, <3>1, FreshKept, Zenon DEF pageVars
  <2>2. CASE b # a
    <3>1. b \notin failed /\ due[b] # None
      BY <1>1, <1>2, <2>2 DEF Request, Call, TypeOK, Files
    <3> QED
      BY <1>1, <1>2, <3>1, AllFresh, FreshKept, Zenon DEF pageVars
  <2> QED
    BY <2>1, <2>2
<1>10. Unbuilt'
  BY <1>2 DEF Unbuilt
<1> QED
  BY <1>5, <1>6, <1>7, <1>9, <1>10 DEF IInv

-----------------------------------------------------------------------------
\* What the steps of a call do.

LEMMA TopType ==
    ASSUME IInv, stack # <<>>
    PROVE  Nesting(stack) /\ Top \in Frame /\ Top = stack[1] /\ TypeOK
  BY FirstDropped DEF IInv, Top

\* What calls leave alone.
LEMMA InternalKept ==
    ASSUME IInv, Internal, built
    PROVE  Unbuilt'
  BY DEF Internal, Unbuilt

LEMMA CallsAfterBuild ==
    ASSUME IInv, stack # <<>>
    PROVE  built
  BY DEF IInv, Unbuilt

\* The pages of a call for an asset, but for the one that takes its turn.
LEMMA DoneKeeps ==
    ASSUME IInv, stack # <<>>, Top.op \in {"asset", "delete"}, NEW f, Become(Done(f))
    PROVE  /\ Nesting(stack')
           /\ \A a, g : g # f /\ Waits(a, g) => Waits(a, g)'
<1>1. Done(f) \in Frame /\ Done(f).op = Top.op /\ Done(f).file = Top.file
        /\ Done(f).todo = Top.todo \ {f}
  BY TopType, TurnDone, Zenon DEF Done
<1>2. stack' = <<Done(f)>> \o Tail(stack)
  BY DEF Become
<1>3. Nesting(stack')
  BY <1>1, <1>2, FirstReplaced, TopType DEF Top
<1>4. ASSUME NEW a, NEW g, g # f, Waits(a, g) PROVE Waits(a, g)'
  <2>1. g \in Head(stack).todo => g \in Done(f).todo
    BY <1>1, <1>4 DEF Top
  <2> QED
    BY <1>1, <1>2, <1>4, <2>1, WaitsKept, TopType DEF Top
<1> QED
  BY <1>3, <1>4

LEMMA ReparseTypes ==
    ASSUME IInv, NEW f, Reparse(f), Internal
    PROVE  /\ f \in RstFiles /\ disk' = disk
           /\ PageUpdated(f, disk[f]) /\ disk[f] \in Texts
           /\ parsed' \in Pages /\ changed' \subseteq Keys
           /\ assetNodes' \subseteq Assets /\ assetEdges' \subseteq Sources \X assetNodes'
           /\ GraphIsCurrent'
<1>1. f \in RstFiles /\ disk[f] # 0 /\ PageUpdated(f, disk[f])
  BY DEF Reparse, Parses
<1>2. TypeOK /\ f \in Files /\ f \in Sources /\ f \in Keys /\ f \notin YamlFiles
  BY <1>1, ProjectAssumption DEF IInv, ProjectAssumption, Files, Sources, Keys
<1>3. disk[f] \in Texts
  BY <1>1, <1>2, ProjectAssumption DEF TypeOK, DiskTexts, Texts, ProjectAssumption
<1>4. GraphIsCurrent'
  BY <1>1, <1>2, <1>3, SetPageGraph DEF IInv
<1> QED
  BY <1>1, <1>2, <1>3, <1>4, SetPageTypes DEF Internal

LEMMA ReparseStep ==
    ASSUME IInv, NEW f, UpdateDependent(f) \/ DeleteDependent(f)
    PROVE  IInv'
<1>1. /\ stack # <<>> /\ Top.op \in {"asset", "delete"}
      /\ Reparse(f) /\ Become(Done(f)) /\ Internal /\ UNCHANGED <<yamlVars, failed>>
  BY DEF UpdateDependent, DeleteDependent, Runs
<1>2. TypeOK'
  BY <1>1, ReparseTypes, DoneKeeps DEF IInv, TypeOK, Nesting, Internal, yamlVars, flushVars
<1>3. Current'
  <2>1. \A a \in Assets : Fresh(a, f)' /\ \A g \in RstFiles : Fresh(a, g) => Fresh(a, g)'
    BY <1>1, ReparseTypes, RstPageFresh DEF IInv
  <2>2. failed' = failed /\ due' = due
    BY <1>1 DEF Internal
  <2>3. \A a \in Assets, g \in RstFiles : Waits(a, g) => Fresh(a, g)' \/ Waits(a, g)'
    <3> SUFFICES ASSUME NEW a \in Assets, NEW g \in RstFiles, Waits(a, g), ~Waits(a, g)'
                 PROVE  Fresh(a, g)'
      OBVIOUS
    <3>1. g = f
      BY <1>1, DoneKeeps
    <3> QED
      BY <2>1, <3>1, Zenon
  <2> QED
    BY <2>1, <2>2, <2>3, CurrentKept, Zenon DEF IInv
<1> QED
  BY <1>1, <1>2, <1>3, ReparseTypes, DoneKeeps, InternalKept, CallsAfterBuild DEF IInv

LEMMA ReparseRaisesStep ==
    ASSUME IInv, NEW f, DeleteDependentRaises(f)
    PROVE  IInv'
<1>1. /\ stack # <<>> /\ Top.op = "delete" /\ Reparse(f) /\ stack' = <<>>
      /\ failed' = failed \cup {Top.file} /\ Internal /\ UNCHANGED yamlVars
  BY DEF DeleteDependentRaises, Runs
<1>2. Top.file \in Assets /\ \A a, g : Waits(a, g) => a = Top.file
  <2>1. Nesting(stack) /\ Top = stack[1] /\ Top \in Frame
    BY <1>1, TopType
  <2>2. Len(stack) = 1
    BY <1>1, <2>1, YamlInside DEF Top
  <2> QED
    BY <1>1, <2>1, <2>2, FrameFields DEF Waits
<1>3. TypeOK'
  BY <1>1, <1>2, ReparseTypes DEF IInv, TypeOK, Internal, yamlVars, flushVars, Files
<1>4. Current'
  <2>1. \A a \in Assets, g \in RstFiles : Fresh(a, g) => Fresh(a, g)'
    BY <1>1, ReparseTypes, RstPageFresh DEF IInv
  <2>2. \A a \in Assets : a \notin failed' => a \notin failed /\ a # Top.file
    BY <1>1
  <2>3. due' = due
    BY <1>1 DEF Internal
  <2> QED
    BY <1>2, <2>1, <2>2, <2>3, CurrentKept, Zenon DEF IInv
<1>5. Nesting(stack)'
  BY <1>1 DEF Nesting
<1> QED
  BY <1>1, <1>3, <1>4, <1>5, ReparseTypes, InternalKept, CallsAfterBuild DEF IInv

\* An exception leaves every call, and every asset that was asked for is failed.
LEMMA AbandonStep ==
    ASSUME IInv, stack # <<>>, Abandon,
           registry' \in [YamlFiles -> Entry \cup {None}], dg' \in [Categories -> Graph],
           \A c \in Categories : dg'[c].edges \subseteq dg'[c].nodes \X dg'[c].nodes
    PROVE  IInv'
<1>1. /\ stack' = <<>> /\ failed' = failed \cup {stack[i].file : i \in DOMAIN stack}
      /\ Internal /\ UNCHANGED <<pageVars, graphVars>>
  BY DEF Abandon
<1>2. /\ stack \in Seq(Frame) /\ DOMAIN stack = 1..Len(stack)
      /\ \A i \in 1..Len(stack) : stack[i] \in Frame
  BY LenProperties, ElementOfSeq DEF IInv, TypeOK
<1>3. \A i \in DOMAIN stack : stack[i].file \in Files
  BY <1>2, FrameFields DEF Files, Sources
<1>4. TypeOK'
  BY <1>1, <1>3 DEF IInv, TypeOK, Internal, pageVars, graphVars, flushVars
<1>5. GraphIsCurrent'
  BY <1>1, GraphKept DEF IInv, pageVars, graphVars
<1>6. Current'
  <2>1. \A a, g : Waits(a, g) => a \in failed'
    BY <1>1, <1>2 DEF Waits
  <2>2. due' = due /\ disk' = disk /\ parsed' = parsed
    BY <1>1 DEF Internal, pageVars
  <2>3. \A a \in Assets : a \notin failed' => a \notin failed
    BY <1>1
  <2> QED
    BY <2>1, <2>2, <2>3, FreshKept, CurrentKept, Zenon DEF IInv
<1> QED
  BY <1>1, <1>4, <1>5, <1>6, InternalKept, CallsAfterBuild DEF IInv, Nesting

LEMMA RaiseStep ==
    ASSUME IInv, stack # <<>>, Raise
    PROVE  IInv'
  BY AbandonStep DEF Raise, IInv, TypeOK, yamlVars

LEMMA ReturnStep ==
    ASSUME IInv, DependentsDone \/ DeleteDone \/ YamlDone
    PROVE  IInv'
<1>1. /\ stack # <<>> /\ (Top.op # "yaml" => Top.todo = {}) /\ stack' = Tail(stack)
      /\ Internal /\ UNCHANGED <<pageVars, graphVars, yamlVars, failed>>
  BY DEF DependentsDone, DeleteDone, YamlDone, Runs, Return
<1>2. Nesting(stack')
  BY <1>1, FirstDropped DEF IInv
<1>3. TypeOK'
  BY <1>1, <1>2 DEF IInv, TypeOK, Internal, Nesting, pageVars, graphVars, yamlVars, flushVars
<1>4. GraphIsCurrent'
  BY <1>1, GraphKept DEF IInv, pageVars, graphVars
<1>5. Current'
  <2>1. \A a, g : Waits(a, g) => Waits(a, g)'
    BY <1>1, WaitsKeptByReturn DEF IInv, Top
  <2>2. due' = due /\ disk' = disk /\ parsed' = parsed /\ failed' = failed
    BY <1>1 DEF Internal, pageVars
  <2> QED
    BY <2>1, <2>2, FreshKept, CurrentKept, Zenon DEF IInv
<1> QED
  BY <1>1, <1>2, <1>3, <1>4, <1>5, InternalKept, CallsAfterBuild DEF IInv

-----------------------------------------------------------------------------
\* What the steps of a call for a YAML file do.

LEMMA YamlFrameType ==
    ASSUME TypeOK, NEW f \in YamlFiles, NEW optional \in DiskTexts
    PROVE  YamlFrame(f, optional) \in Frame /\ YamlFrame(f, optional).op = "yaml"
<1>1. Inheriting(f) \subseteq YamlFiles
  BY DEF Inheriting, TypeOK, Graph
<1> QED
  BY <1>1 DEF YamlFrame, Frame

LEMMA UpdateYamlStep ==
    ASSUME IInv, NEW f \in YamlFiles, NEW optional \in OptionalTexts, UpdateYaml(f, optional)
    PROVE  IInv'
<1>1. /\ Request(f, DueText(f, optional)) /\ Takes(optional)
      /\ stack' = <<YamlFrame(f, optional)>> \o stack
      /\ UNCHANGED <<pageVars, graphVars, yamlVars>>
  BY DEF UpdateYaml, Push
<1>2. TypeOK /\ f \in Files /\ f \in Sources
  BY DEF IInv, Files, Sources
<1>3. /\ DueText(f, optional) \in DiskTexts \cup {None} /\ optional \in DiskTexts
      /\ edits' \in 0..MaxEdits
  BY <1>1, <1>2, TakesTypes
<1>4. stack = <<>> /\ disk' = disk /\ built /\ built'
  BY <1>1, <1>2, <1>3, CallTypes
<1>5. Nesting(stack')
  BY <1>1, <1>2, <1>3, <1>4, YamlFrameType, OneCall
<1>6. TypeOK'
  BY <1>1, <1>2, <1>3, <1>5, CallTypes DEF TypeOK, Nesting, pageVars, graphVars, yamlVars
<1>7. GraphIsCurrent'
  BY <1>1, GraphKept DEF IInv, pageVars, graphVars
<1>8. Current'
  BY <1>1, <1>2, <1>4, FreshKept, SourceCall DEF pageVars
<1> QED
  BY <1>4, <1>5, <1>6, <1>7, <1>8 DEF IInv, Unbuilt

LEMMA DeleteDependentYamlStep ==
    ASSUME IInv, NEW f \in YamlFiles, DeleteDependentYaml(f)
    PROVE  IInv'
<1>1. /\ stack # <<>> /\ Top.op = "delete"
      /\ stack' = <<YamlFrame(f, 0), Done(f)>> \o Tail(stack)
      /\ Internal /\ UNCHANGED <<pageVars, graphVars, yamlVars, failed>>
  BY DEF DeleteDependentYaml, Runs
<1>2. /\ Done(f) \in Frame /\ Done(f).op = "delete" /\ Done(f).file = Top.file
      /\ Done(f).todo = Top.todo \ {f}
  BY <1>1, TopType, TurnDone, Zenon DEF Done
<1>3. YamlFrame(f, 0) \in Frame /\ YamlFrame(f, 0).op = "yaml"
  BY YamlFrameType, ProjectAssumption DEF IInv, ProjectAssumption, DiskTexts
<1>4. Len(stack) = 1 /\ Top = stack[1] /\ stack' = <<YamlFrame(f, 0), Done(f)>> /\ Nesting(stack')
  <2>1. Nesting(stack) /\ Head(stack).op = "delete" /\ Top = stack[1]
    BY <1>1, TopType DEF Top
  <2>2. /\ Len(stack) = 1
        /\ <<YamlFrame(f, 0), Done(f)>> \o Tail(stack) = <<YamlFrame(f, 0), Done(f)>>
        /\ Nesting(<<YamlFrame(f, 0), Done(f)>>)
    BY <1>1, <1>2, <1>3, <2>1, CallInDeletion, Zenon
  <2> QED
    BY <1>1, <2>1, <2>2, Zenon
<1>5. TypeOK'
  BY <1>1, <1>4 DEF IInv, TypeOK, Nesting, Internal, pageVars, graphVars, yamlVars, flushVars
<1>6. GraphIsCurrent'
  BY <1>1, GraphKept DEF IInv, pageVars, graphVars
<1>7. Current'
  <2>1. ASSUME NEW a, NEW g \in RstFiles, Waits(a, g) PROVE Waits(a, g)'
    <3>1. Top.file = a /\ g \in Top.todo
      BY <1>4, <2>1 DEF Waits
    <3>2. g # f
      BY ProjectAssumption DEF ProjectAssumption
    <3>3. Done(f).op # "yaml" /\ Done(f).file = a /\ g \in Done(f).todo
      BY <1>2, <3>1, <3>2
    <3>4. Len(stack') = 2 /\ stack'[2] = Done(f)
      BY <1>4
    <3> QED
      BY <3>3, <3>4 DEF Waits
  <2>2. due' = due /\ disk' = disk /\ parsed' = parsed /\ failed' = failed
    BY <1>1 DEF Internal, pageVars
  <2> QED
    BY <2>1, <2>2, FreshKept, CurrentKept, Zenon DEF IInv
<1> QED
  BY <1>1, <1>4, <1>5, <1>6, <1>7, InternalKept, CallsAfterBuild DEF IInv

LEMMA YamlTop ==
    ASSUME IInv, Runs("yaml")
    PROVE  /\ stack # <<>> /\ Top \in Frame /\ Top.op = "yaml"
           /\ Top.file \in YamlFiles /\ Top.path \in YamlFiles /\ Top.optional \in DiskTexts
           /\ Top.todo \subseteq YamlFiles
  BY TopType, FrameFields DEF Runs

\* A turn of a call for a YAML file that does not raise.
LEMMA YamlTurn ==
    ASSUME IInv, Runs("yaml"), NEW x \in Frame, x.op = "yaml", x.file = Top.file, Become(x),
           Internal, UNCHANGED <<pageVars, graphVars, failed>>,
           registry' \in [YamlFiles -> Entry \cup {None}], dg' \in [Categories -> Graph],
           \A c \in Categories : dg'[c].edges \subseteq dg'[c].nodes \X dg'[c].nodes
    PROVE  IInv'
<1>1. Nesting(stack) /\ stack # <<>> /\ Top.op = "yaml" /\ stack' = <<x>> \o Tail(stack)
  BY YamlTop DEF IInv, Become
<1>2. Nesting(stack')
  BY <1>1, FirstReplaced DEF Top
<1>3. TypeOK'
  BY <1>2 DEF IInv, TypeOK, Nesting, Internal, pageVars, graphVars, flushVars
<1>4. GraphIsCurrent'
  BY GraphKept DEF IInv, pageVars, graphVars
<1>5. Current'
  <2>1. \A a, g : Waits(a, g) => Waits(a, g)'
    BY <1>1, WaitsKept DEF Top
  <2>2. due' = due /\ disk' = disk /\ parsed' = parsed /\ failed' = failed
    BY DEF Internal, pageVars
  <2> QED
    BY <2>1, <2>2, FreshKept, CurrentKept, Zenon DEF IInv
<1> QED
  BY <1>1, <1>2, <1>3, <1>4, <1>5, InternalKept, CallsAfterBuild DEF IInv

LEMMA SkipFileStep ==
    ASSUME IInv, NEW f \in YamlFiles, SkipFile(f)
    PROVE  IInv'
<1>1. /\ Runs("yaml") /\ Become(Done(f)) /\ Internal
      /\ UNCHANGED <<pageVars, graphVars, yamlVars, failed>>
  BY DEF SkipFile
<1>2. Done(f) \in Frame /\ Done(f).op = "yaml" /\ Done(f).file = Top.file
  BY <1>1, YamlTop, TurnDone, Zenon DEF Done
<1> QED
  BY <1>1, <1>2, YamlTurn DEF IInv, TypeOK, yamlVars

\* What is added to the registry and the graph.
LEMMA AddedTypes ==
    ASSUME IInv, NEW f \in YamlFiles, ParseAndAdd(f)
    PROVE  /\ registry' \in [YamlFiles -> Entry \cup {None}] /\ dg' \in [Categories -> Graph]
           /\ \A k \in Categories : dg'[k].edges \subseteq dg'[k].nodes \X dg'[k].nodes
<1> DEFINE text == TextOf(Top.path, Top.optional)
           of == IF Top.optional # 0 THEN Top.file ELSE Top.path
           c == Category[Top.file]
<1>1. /\ Runs("yaml") /\ text # 0
      /\ registry' = [registry EXCEPT ![Top.path] = [of |-> of, text |-> text]]
      /\ dg' = [dg EXCEPT ![c] = AddTo(@, Top.path, of)]
  BY DEF ParseAndAdd
<1>2. /\ Top.file \in YamlFiles /\ Top.path \in YamlFiles /\ Top.optional \in DiskTexts
  BY <1>1, YamlTop
<1>3. of \in YamlFiles /\ text \in Texts
  <2>1. of \in YamlFiles
    BY <1>2
  <2>2. disk[Top.path] \in DiskTexts
    BY <1>2 DEF IInv, TypeOK, Files, Sources
  <2>3. text \in DiskTexts /\ text # 0
    BY <1>1, <1>2, <2>2 DEF TextOf
  <2> HIDE DEF of, text
  <2> QED
    BY <2>1, <2>3 DEF DiskTexts, Texts
<1>4. registry' \in [YamlFiles -> Entry \cup {None}]
  BY <1>1, <1>2, <1>3 DEF IInv, TypeOK, Entry
<1>5. ASSUME NEW g \in Graph, g.edges \subseteq g.nodes \X g.nodes
      PROVE  /\ AddTo(g, Top.path, of) \in Graph
             /\ AddTo(g, Top.path, of).edges \subseteq AddTo(g, Top.path, of).nodes \X AddTo(g, Top.path, of).nodes
  <2> HIDE DEF of
  <2>1. Parent[of] # None => Parent[of] \in YamlFiles
    BY <1>3, ProjectAssumption DEF ProjectAssumption
  <2> QED
    BY <1>2, <1>5, <2>1 DEF AddTo, Graph
<1>6. /\ dg' \in [Categories -> Graph]
      /\ \A k \in Categories : dg'[k].edges \subseteq dg'[k].nodes \X dg'[k].nodes
  <2> HIDE DEF of, c
  <2>1. dg \in [Categories -> Graph] /\ \A k \in Categories : dg[k].edges \subseteq dg[k].nodes \X dg[k].nodes
    BY DEF IInv, TypeOK
  <2>2. DOMAIN dg' = Categories /\ \A k \in Categories : dg'[k] = IF k = c THEN AddTo(dg[k], Top.path, of) ELSE dg[k]
    BY <1>1, <2>1
  <2>3. dg' = [k \in Categories |-> IF k = c THEN AddTo(dg[k], Top.path, of) ELSE dg[k]]
    BY <1>1, <2>1
  <2> QED
    BY <1>5, <2>1, <2>2, <2>3
<1> QED
  BY <1>4, <1>6

LEMMA RebuildFileStep ==
    ASSUME IInv, NEW f \in YamlFiles, RebuildFile(f)
    PROVE  IInv'
<1> DEFINE x == [Done(f) EXCEPT !.path = f]
<1>1. /\ Runs("yaml") /\ ParseAndAdd(f)
      /\ Become(x) /\ Internal /\ UNCHANGED <<pageVars, graphVars, failed>>
  BY DEF RebuildFile, ParseAndAdd
<1>2. Done(f) \in Frame /\ Done(f).op = "yaml" /\ Done(f).file = Top.file
  BY <1>1, YamlTop, TurnDone, Zenon DEF Done
<1>3. x \in Frame /\ x.op = "yaml" /\ x.file = Top.file
  BY <1>2 DEF Frame
<1> QED
  BY <1>1, <1>3, AddedTypes, YamlTurn

LEMMA CreatePageRaisesStep ==
    ASSUME IInv, NEW f \in YamlFiles, CreatePageRaises(f)
    PROVE  IInv'
<1>1. stack # <<>> /\ ParseAndAdd(f) /\ Abandon
  BY DEF CreatePageRaises, ParseAndAdd, Runs
<1> QED
  BY <1>1, AddedTypes, AbandonStep

-----------------------------------------------------------------------------
\* What happens beside the calls.

LEMMA EditStep ==
    ASSUME IInv, NEW f \in Files, NEW text \in DiskTexts, Edit(f, text)
    PROVE  IInv'
<1>1. /\ built /\ edits < MaxEdits /\ edits' = edits + 1
      /\ disk' = [disk EXCEPT ![f] = text] /\ due' = [due EXCEPT ![f] = None]
      /\ UNCHANGED <<requests, built, stack, pageVars, flushVars, graphVars, yamlVars, failed>>
  BY DEF Edit
<1>2. TypeOK'
  BY <1>1, ProjectAssumption
     DEF ProjectAssumption, IInv, TypeOK, pageVars, flushVars, graphVars, yamlVars
<1>3. GraphIsCurrent'
  BY <1>1, GraphKept DEF IInv, pageVars, graphVars
<1>4. Current'
  <2>1. \A a \in Assets : due'[a] # None => due[a] # None /\ disk'[a] = disk[a]
    BY <1>1 DEF IInv, TypeOK, Files
  <2>2. parsed' = parsed /\ failed' = failed
    BY <1>1 DEF pageVars
  <2>3. \A a \in Assets, g \in RstFiles : due'[a] # None /\ Fresh(a, g) => Fresh(a, g)'
    BY <2>1, <2>2, Zenon DEF Fresh
  <2>4. \A a, g : Waits(a, g) => Waits(a, g)'
    BY <1>1 DEF Waits
  <2> QED
    BY <2>1, <2>2, <2>3, <2>4, CurrentKept, Zenon DEF IInv
<1>5. Nesting(stack)' /\ Unbuilt'
  BY <1>1 DEF IInv, Nesting, Unbuilt
<1> QED
  BY <1>2, <1>3, <1>4, <1>5 DEF IInv

LEMMA PostprocessorStep ==
    ASSUME IInv, Copy \/ Commit \/ Cancelled
    PROVE  IInv'
<1>1. /\ UNCHANGED <<disk, edits, requests, built, stack, parsed, graphVars, yamlVars, due, failed>>
      /\ changed' \subseteq changed
  BY DEF Copy, Commit, Cancelled, pageVars
<1>2. cached' \in Pages /\ copied' \in Pages \cup {None}
  <2>1. parsed \in Pages /\ cached \in Pages /\ copied \in Pages \cup {None}
    BY DEF IInv, TypeOK
  <2>2. CASE Copy
    BY <2>1, <2>2, Zenon DEF Copy
  <2>3. CASE Commit
    BY <2>1, <2>3 DEF Commit
  <2>4. CASE Cancelled
    BY <2>1, <2>4, Zenon DEF Cancelled
  <2> QED
    BY <2>2, <2>3, <2>4
<1>3. TypeOK'
  <2>1. changed' \subseteq Keys
    BY <1>1 DEF IInv, TypeOK
  <2> QED
    BY <1>1, <1>2, <2>1 DEF IInv, TypeOK, graphVars, yamlVars
<1>4. GraphIsCurrent'
  BY <1>1, GraphKept DEF IInv, graphVars
<1>5. Current'
  <2>1. \A a, g : Waits(a, g) => Waits(a, g)'
    BY <1>1 DEF Waits
  <2> QED
    BY <1>1, <2>1, FreshKept, CurrentKept, Zenon DEF IInv
<1>6. Nesting(stack)' /\ Unbuilt'
  BY <1>1 DEF IInv, Nesting, Unbuilt
<1> QED
  BY <1>3, <1>4, <1>5, <1>6 DEF IInv

LEMMA SourceIsSource ==
    ASSUME NEW k \in Keys
    PROVE  /\ SourceOf(k) \in Sources
           /\ k \in RstFiles => SourceOf(k) = k
           /\ k \notin RstFiles => SourceOf(k) \in YamlFiles
<1>1. CASE k \in RstFiles
  BY <1>1 DEF SourceOf, Sources
<1>2. CASE k \notin RstFiles
  <2>1. \E f \in YamlFiles : \E i \in DOMAIN Outputs[f, 1] : Outputs[f, 1][i] = k
    BY <1>2 DEF Keys, YamlPages
  <2>2. SourceOf(k) \in YamlFiles
    BY <1>2, <2>1, Zenon DEF SourceOf
  <2> QED
    BY <1>2, <2>2 DEF Sources
<1> QED
  BY <1>1, <1>2

LEMMA BuildStep ==
    ASSUME IInv, Build
    PROVE  IInv'
<1>1. /\ stack = <<>> /\ disk = [f \in Files |-> 1] /\ TypeOK
      /\ UNCHANGED <<disk, edits, requests, stack, flushVars, failed>> /\ built' = TRUE
      /\ changed' = Keys /\ due' = disk
  BY DEF Build, IInv, Unbuilt
<1>2. 1 \in Texts /\ 1 \in DiskTexts /\ 0 \in DiskTexts
  BY ProjectAssumption DEF ProjectAssumption, Texts, DiskTexts
<1>3. \A k \in Keys : PageFrom(k, 1) \in Page
  BY <1>1, <1>2, PageType
<1>4. parsed' \in Pages /\ parsed' = [k \in Keys |-> PageFrom(k, 1)]
  BY <1>3 DEF Build, Pages
<1>5. RstFiles \subseteq LastPages /\ LastPages \subseteq Keys
  <2>1. ASSUME NEW f \in YamlFiles, Outputs[f, 1] # <<>> PROVE Outputs[f, 1][Len(Outputs[f, 1])] \in YamlPages
    <3>1. Outputs[f, 1] \in Seq(YamlPages)
      BY OutputsAssumption DEF OutputsAssumption
    <3>2. Len(Outputs[f, 1]) \in Nat \ {0}
      BY <2>1, <3>1, EmptySeq
    <3>3. \A n \in Nat \ {0} : n \in 1..n
      OBVIOUS
    <3>4. Len(Outputs[f, 1]) \in 1..Len(Outputs[f, 1])
      BY <3>2, <3>3, Zenon
    <3> QED
      BY <3>1, <3>4, ElementOfSeq, Zenon
  <2> QED
    BY <2>1, Zenon DEF LastPages, Keys
<1>6. \A k \in Keys : Shows[k, 1] \subseteq Assets
  BY <1>2, ProjectAssumption DEF ProjectAssumption
<1>7. assetNodes' = UNION {Shows[k, 1] : k \in Keys}
      /\ assetEdges' = UNION {{SourceOf(k)} \X Shows[k, 1] : k \in LastPages}
  BY DEF Build
<1>8. assetNodes' \subseteq Assets
  BY <1>6, <1>7, Zenon
<1>9. ASSUME NEW e \in assetEdges'
      PROVE  \E k \in LastPages : e \in {SourceOf(k)} \X Shows[k, 1]
  BY <1>7, <1>9, Zenon
<1>10. assetEdges' \subseteq Sources \X assetNodes'
  <2> SUFFICES ASSUME NEW e \in assetEdges' PROVE e \in Sources \X assetNodes'
    OBVIOUS
  <2>1. PICK k \in LastPages : e \in {SourceOf(k)} \X Shows[k, 1]
    BY <1>9
  <2>2. k \in Keys /\ SourceOf(k) \in Sources
    BY <1>5, SourceIsSource
  <2>3. Shows[k, 1] \subseteq assetNodes'
    BY <1>7, <2>2, Zenon
  <2> QED
    BY <2>1, <2>2, <2>3
<1>11. registry' \in [YamlFiles -> Entry \cup {None}]
  BY <1>2 DEF Build, Entry
<1>12. dg' \in [Categories -> Graph] /\ \A c \in Categories : dg'[c].edges \subseteq dg'[c].nodes \X dg'[c].nodes
  <2>1. ASSUME NEW c \in Categories
        PROVE  BuiltGraph(c) \in Graph /\ BuiltGraph(c).edges \subseteq BuiltGraph(c).nodes \X BuiltGraph(c).nodes
    <3> DEFINE heirs == {f \in YamlFiles : Category[f] = c /\ Parent[f] # None}
    <3>1. \A f \in heirs : f \in YamlFiles /\ Parent[f] \in YamlFiles
      BY ProjectAssumption DEF ProjectAssumption
    <3>2. BuiltGraph(c) = [nodes |-> heirs \cup {Parent[f] : f \in heirs}, edges |-> {<<f, Parent[f]>> : f \in heirs}]
      BY Zenon DEF BuiltGraph
    <3> HIDE DEF heirs
    <3> QED
      BY <3>1, <3>2 DEF Graph
  <2> QED
    BY <2>1 DEF Build
<1>13. TypeOK'
  BY <1>1, <1>4, <1>8, <1>10, <1>11, <1>12 DEF TypeOK, flushVars
<1>14. ASSUME NEW f \in RstFiles
       PROVE  /\ parsed'[f].text = 1 /\ parsed'[f].seen = Seen(f, 1)
              /\ {e[2] : e \in {x \in assetEdges' : x[1] = f}} = Shows[f, 1]
  <2>1. f \in Keys /\ SourceOf(f) = f /\ f \in LastPages /\ f \notin YamlFiles
    BY <1>5, SourceIsSource, ProjectAssumption DEF ProjectAssumption, Keys
  <2>2. parsed'[f].text = 1 /\ parsed'[f].seen = Seen(f, 1)
    BY <1>4, <2>1 DEF PageFrom
  <2>3. ASSUME NEW a \in Shows[f, 1] PROVE <<f, a>> \in assetEdges'
    <3>1. <<f, a>> \in {SourceOf(f)} \X Shows[f, 1]
      BY <2>1, <2>3
    <3> QED
      BY <1>7, <2>1, <3>1, Zenon
  <2>4. ASSUME NEW e \in assetEdges', e[1] = f PROVE e[2] \in Shows[f, 1]
    <3>1. PICK k \in LastPages : e \in {SourceOf(k)} \X Shows[k, 1]
      BY <1>9
    <3>2. SourceOf(k) = f /\ e[2] \in Shows[k, 1]
      BY <2>4, <3>1
    <3>3. k = f
      BY <1>5, <2>1, <3>2, SourceIsSource
    <3> QED
      BY <3>2, <3>3
  <2> DEFINE shown == {e[2] : e \in {x \in assetEdges' : x[1] = f}}
  <2>5. shown \subseteq Shows[f, 1]
    BY <2>4, Zenon
  <2>6. Shows[f, 1] \subseteq shown
    <3> SUFFICES ASSUME NEW a \in Shows[f, 1] PROVE a \in shown
      OBVIOUS
    <3> DEFINE edge == <<f, a>>
    <3>1. edge \in assetEdges' /\ edge[1] = f /\ edge[2] = a
      BY <2>3
    <3> HIDE DEF edge
    <3> QED
      BY <3>1, Zenon
  <2> HIDE DEF shown
  <2>7. shown = Shows[f, 1]
    BY <2>5, <2>6
  <2> QED
    BY <2>2, <2>7, Zenon DEF shown
<1>15. GraphIsCurrent'
  BY <1>14, Zenon DEF GraphIsCurrent
<1>16. Current'
  <2> SUFFICES ASSUME NEW a \in Assets, NEW f \in RstFiles PROVE Fresh(a, f)'
    BY DEF Current
  <2> SUFFICES ASSUME a \in Shows[f, 1] PROVE parsed'[f].seen[a] = disk'[a]
    BY <1>14, Zenon DEF Fresh
  <2>1. Seen(f, 1)[a] = disk[a]
    BY Zenon DEF Seen
  <2> QED
    BY <1>1, <1>14, <2>1
<1>17. Nesting(stack)' /\ Unbuilt'
  BY <1>1 DEF IInv, Nesting, Unbuilt
<1> QED
  BY <1>13, <1>15, <1>16, <1>17 DEF IInv

-----------------------------------------------------------------------------
\* The invariant.

LEMMA InitInv == Init => IInv
<1> SUFFICES ASSUME Init PROVE IInv
  OBVIOUS
<1>1. stack = <<>> /\ Nesting(stack)
  BY DEF Init, Nesting
<1>2. TypeOK
  <2>1. <<>> \in Seq(Frame) /\ Len(<<>>) = 0
    BY EmptySeq
  <2>2. EmptyGraph \in Graph /\ EmptyGraph.edges = {}
    BY DEF EmptyGraph, Graph
  <2>3. dg \in [Categories -> Graph] /\ \A c \in Categories : dg[c].edges = {}
    BY <2>2 DEF Init
  <2>4. disk \in [Files -> DiskTexts] /\ due \in [Files -> DiskTexts \cup {None}]
    BY ProjectAssumption DEF ProjectAssumption, Init, DiskTexts
  <2>5. parsed \in Pages /\ cached \in Pages /\ copied = None
    BY DEF Init, Pages
  <2>6. edits \in 0..MaxEdits /\ requests \in 0..MaxRequests
    BY ProjectAssumption DEF ProjectAssumption, Init
  <2>7. /\ built \in BOOLEAN /\ stack = <<>> /\ changed = {} /\ failed = {}
        /\ assetNodes = {} /\ assetEdges = {} /\ registry \in [YamlFiles -> Entry \cup {None}]
    BY DEF Init
  <2> QED
    BY <2>1, <2>3, <2>4, <2>5, <2>6, <2>7 DEF TypeOK
<1>3. \A f \in RstFiles : parsed[f] = None
  BY DEF Init, Keys
<1>4. GraphIsCurrent /\ Current
  BY <1>3, Zenon DEF GraphIsCurrent, Current, Fresh
<1>5. Unbuilt
  BY DEF Init, Unbuilt
<1> QED
  BY <1>1, <1>2, <1>4, <1>5 DEF IInv

LEMMA RaisesInv ==
    ASSUME IInv
    PROVE  /\ \A f \in RstFiles, text \in OptionalTexts : UpdateRstRaises(f, text) => IInv'
           /\ \A a \in Assets : UpdateAssetRaises(a) \/ DeleteAssetRaises(a) => IInv'
           /\ \A f \in YamlFiles, text \in OptionalTexts : UpdateYamlRaises(f, text) => IInv'
<1>1. TypeOK
  BY DEF IInv
<1>2. ASSUME NEW f \in RstFiles, NEW text \in OptionalTexts, UpdateRstRaises(f, text) PROVE IInv'
  <2>1. RequestRaises(f, DueText(f, text)) /\ Takes(text) /\ f \in Files
    BY <1>2 DEF UpdateRstRaises, Files, Sources
  <2>2. DueText(f, text) \in DiskTexts \cup {None} /\ edits' \in 0..MaxEdits
    BY <1>1, <2>1, TakesTypes
  <2> QED
    BY <2>1, <2>2, RaisingCallStep
<1>3. ASSUME NEW a \in Assets, UpdateAssetRaises(a) \/ DeleteAssetRaises(a) PROVE IInv'
  <2>1. /\ RequestRaises(a, disk[a]) /\ edits' \in 0..MaxEdits /\ a \in Files
        /\ disk[a] \in DiskTexts
    BY <1>1, <1>3 DEF UpdateAssetRaises, DeleteAssetRaises, TypeOK, Files
  <2> QED
    BY <2>1, RaisingCallStep
<1>4. ASSUME NEW f \in YamlFiles, NEW text \in OptionalTexts, UpdateYamlRaises(f, text) PROVE IInv'
  <2>1. RequestRaises(f, DueText(f, text)) /\ Takes(text) /\ f \in Files
    BY <1>4 DEF UpdateYamlRaises, Files, Sources
  <2>2. DueText(f, text) \in DiskTexts \cup {None} /\ edits' \in 0..MaxEdits
    BY <1>1, <2>1, TakesTypes
  <2> QED
    BY <2>1, <2>2, RaisingCallStep
<1> QED
  BY <1>2, <1>3, <1>4

LEMMA NextInv == IInv /\ [Next]_vars => IInv'
<1> SUFFICES ASSUME IInv, [Next]_vars PROVE IInv'
  OBVIOUS
<1>1. CASE Build
  BY <1>1, BuildStep
<1>2. ASSUME NEW f \in Files, NEW text \in DiskTexts, Edit(f, text) PROVE IInv'
  BY <1>2, EditStep
<1>3. ASSUME NEW f \in RstFiles, RstStep(f) PROVE IInv'
  BY <1>3, UpdateRstStep, RaisesInv, DeleteRstStep DEF RstStep
<1>4. ASSUME NEW a \in Assets, AssetStep(a) PROVE IInv'
  BY <1>4, AssetCallStep, RaisesInv DEF AssetStep
<1>5. ASSUME NEW f \in YamlFiles, YamlStep(f) PROVE IInv'
  BY <1>5, UpdateYamlStep, RaisesInv, DeleteYamlStep DEF YamlStep
<1>6. ASSUME NEW f \in YamlFiles, YamlLoopStep(f) PROVE IInv'
  <2>1. CASE RebuildRaises(f)
    BY <2>1, RaiseStep DEF RebuildRaises, Runs
  <2> QED
    BY <1>6, <2>1, SkipFileStep, RebuildFileStep, CreatePageRaisesStep, DeleteDependentYamlStep
    DEF YamlLoopStep
<1>7. ASSUME NEW f \in Sources, DependentStep(f) PROVE IInv'
  <2>1. CASE DependentRaises(f) \/ DeleteDependentFails(f)
    BY <2>1, RaiseStep DEF DependentRaises, DeleteDependentFails, Runs
  <2> QED
    BY <1>7, <2>1, ReparseStep, ReparseRaisesStep DEF DependentStep
<1>8. CASE DependentsDone \/ DeleteDone \/ YamlDone
  BY <1>8, ReturnStep
<1>9. CASE Copy \/ Commit \/ Cancelled
  BY <1>9, PostprocessorStep
<1>10. CASE UNCHANGED vars
  <2>1. UNCHANGED <<disk, edits, requests, built, stack, parsed, changed, cached, copied,
                    assetNodes, assetEdges, registry, dg, due, failed>>
    BY <1>10 DEF vars, pageVars, flushVars, graphVars, yamlVars
  <2>2. TypeOK'
    BY <2>1 DEF IInv, TypeOK
  <2>3. GraphIsCurrent'
    BY <2>1, GraphKept DEF IInv
  <2>4. Nesting(stack)' /\ Unbuilt'
    BY <2>1 DEF IInv, Nesting, Unbuilt
  <2>5. Current'
    <3>1. \A a, g : Waits(a, g) => Waits(a, g)'
      BY <2>1 DEF Waits
    <3> QED
      BY <2>1, <3>1, FreshKept, CurrentKept, Zenon DEF IInv
  <2> QED
    BY <2>2, <2>3, <2>4, <2>5 DEF IInv
<1> QED
  BY <1>1, <1>2, <1>3, <1>4, <1>5, <1>6, <1>7, <1>8, <1>9, <1>10, Zenon DEF Next

THEOREM Invariant == Spec => []IInv
<1> QED
  BY InitInv, NextInv, PTL DEF Spec

\* Every variable of a project keeps its type; in particular no more than one
\* call is ever made within another, and the graphs have no edge to a file that
\* is not in them.
THEOREM TypeCorrect == Spec => []TypeOK
<1>1. IInv => TypeOK
  BY DEF IInv
<1> QED
  BY <1>1, Invariant, PTL

\* For any files, updates, deletions and exceptions, the asset graph has for
\* each RST page the assets it shows (parser.py:2237-2248).
THEOREM AssetGraphFollows == Spec => []GraphIsCurrent
<1>1. IInv => GraphIsCurrent
  BY DEF IInv
<1> QED
  BY <1>1, Invariant, PTL

\* Between requests, every RST page shows the assets that were last asked for as
\* they are, unless the request has raised (parser.py:2042-2044, 2259-2262).
THEOREM AssetsFollowed == Spec => []AssetsShownUnlessRaised
<1>1. IInv => AssetsShownUnlessRaised
  <2> SUFFICES ASSUME IInv, stack = <<>>, NEW a \in Assets \ failed, due[a] # None,
                      NEW f \in RstFiles
               PROVE  Fresh(a, f)
    BY Zenon DEF AssetsShownUnlessRaised, IsShown, Fresh
  <2> QED
    BY AllFresh
<1> QED
  BY <1>1, Invariant, PTL
=============================================================================
