-------------------------- MODULE CachedBuildProofs --------------------------
(***************************************************************************)
(* Proofs about CachedBuild, for any files, references, categories and     *)
(* configurations, and any number of edits, builds and crashes: what a     *)
(* build takes from the cache is what it would make.                       *)
(*                                                                         *)
(* A cache file is read long after it was written, so the invariants say   *)
(* what holds of the entries whatever has become of the files since: that  *)
(* they belong together.  The comparisons of Hit and Valid, which see the  *)
(* files as they are, do the rest.                                         *)
(***************************************************************************)
EXTENDS CachedBuild, TLAPS

USE BuildAssumption DEF BuildAssumption, outside, results

Types == TypeOK /\ cacheFile \in [Configs -> CacheData \cup {None, Partial}]
-----------------------------------------------------------------------------
\* What parsing gives has the type of a page.

LEMMA ParsedIsPage ==
    ASSUME TypeOK, NEW f \in Sources, disk[f] # 0
    PROVE  Parsed(f) \in Page
<1>1. /\ disk[f] \in Texts /\ 0 \in DiskTexts
      /\ \A a \in Assets : disk[a] \in DiskTexts
      /\ f \in YamlFiles /\ Parent[f] # None => disk[Parent[f]] \in DiskTexts
  BY DEF TypeOK, Texts, DiskTexts, Files, Sources
<1>2. (IF Inherits(f) THEN disk[Parent[f]] ELSE 0) \in DiskTexts
  BY <1>1 DEF Inherits
<1>3. [a \in Assets |-> IF a \in Uses(f, Directives) /\ (f \in RstFiles \/ Loads(f)) THEN disk[a] ELSE 0]
        \in [Assets -> DiskTexts]
  BY <1>1
<1>4. config \in Configs
  BY DEF TypeOK
<1> QED
  BY <1>1, <1>2, <1>3, <1>4 DEF Parsed, Page

LEMMA ParsedFields ==
    ASSUME NEW f
    PROVE  /\ Parsed(f).config = config /\ Parsed(f).text = disk[f]
           /\ Parsed(f).parent = IF Inherits(f) THEN disk[Parent[f]] ELSE 0
           /\ \A a \in Assets : f \in RstFiles /\ a \in Uses(f, Directives) => Parsed(f).seen[a] = disk[a]
  BY DEF Parsed

LEMMA EntryFields ==
    ASSUME NEW e \in GizaFiles
    PROVE  /\ e.file \in YamlFiles /\ e.text \in Texts
           /\ e.kept \subseteq Files /\ e.page \in Page \cup {None}
  BY DEF GizaFiles, GizaFile

LEMMA DataFields ==
    ASSUME NEW d \in CacheData
    PROVE  /\ \A f \in RstFiles : d.pages[f] \in Page \cup {None}
           /\ \A c \in Categories : d.yaml[c] \subseteq GizaFiles
  BY DEF CacheData

LEMMA NoDataIsData ==
    NoData \in CacheData /\ (\A f \in RstFiles : NoData.pages[f] = None)
    /\ \A c \in Categories : NoData.yaml[c] = {}
<1>1. [f \in RstFiles |-> None] \in [RstFiles -> Page \cup {None}]
  OBVIOUS
<1>2. [c \in Categories |-> {}] \in [Categories -> SUBSET GizaFiles]
  OBVIOUS
<1> QED
  BY <1>1, <1>2 DEF NoData, CacheData

LEMMA NewDataIsData ==
    ASSUME TypeOK
    PROVE  NewData \in CacheData
<1>1. [f \in RstFiles |-> pages[f]] \in [RstFiles -> Page \cup {None}]
  BY DEF TypeOK, Sources
<1> QED
  BY <1>1 DEF TypeOK, NewData, CacheData

\* The entries that GenerateCategory makes.
Generated(c) ==
    {[file |-> f, text |-> disk[f], kept |-> Kept(f),
      page |-> IF HasPage(f) THEN Parsed(f) ELSE None] : f \in Present(c)}

LEMMA PresentFiles ==
    ASSUME TypeOK, NEW c
    PROVE  \A f \in Present(c) : /\ f \in YamlFiles /\ f \in Sources /\ f \in Files
                                 /\ Category[f] = c /\ disk[f] \in Texts /\ disk[f] # 0
  BY DEF Present, Members, Sources, Files, TypeOK, Texts, DiskTexts

LEMMA KeptFiles ==
    ASSUME NEW f \in YamlFiles
    PROVE  Kept(f) \subseteq Files /\ Finishing(f) \subseteq Files
  BY DEF Kept, Finishing, Missing, Uses, Files, Sources

LEMMA GeneratedEntries ==
    ASSUME TypeOK, NEW c \in Categories
    PROVE  Generated(c) \subseteq GizaFiles
<1> SUFFICES ASSUME NEW f \in Present(c)
             PROVE  [file |-> f, text |-> disk[f], kept |-> Kept(f),
                     page |-> IF HasPage(f) THEN Parsed(f) ELSE None] \in GizaFiles
  BY DEF Generated
<1>1. f \in YamlFiles /\ f \in Sources /\ disk[f] \in Texts /\ disk[f] # 0
  BY PresentFiles
<1>2. Parsed(f) \in Page /\ Kept(f) \in SUBSET Files
  BY <1>1, ParsedIsPage, KeptFiles
<1>3. [file |-> f, text |-> disk[f], kept |-> Kept(f),
       page |-> IF HasPage(f) THEN Parsed(f) ELSE None] \in GizaFile(f)
  BY <1>1, <1>2 DEF GizaFile
<1> QED
  BY <1>1, <1>3 DEF GizaFiles
-----------------------------------------------------------------------------
LEMMA InitTypes == Init => Types
<1> SUFFICES ASSUME Init PROVE Types
  OBVIOUS
<1>1. disk \in [Files -> DiskTexts]
  BY DEF Init, DiskTexts
<1>2. cacheFile \in [Configs -> CacheData \cup {None, Partial}]
  BY DEF Init
<1>3. 0 \in DiskTexts /\ 0 \in 0..MaxEdits /\ 0 \in 0..MaxBuilds
  BY DEF DiskTexts
<1> QED
  BY <1>1, <1>2, <1>3, NoDataIsData DEF Init, Types, TypeOK

\* The variables of the process after it has ended.
LEMMA ExitTypes ==
    ASSUME Exit
    PROVE  /\ phase' = "idle" /\ cache' \in CacheData /\ todo' \subseteq RstFiles \cup Categories
           /\ pages' \in [Sources -> Page \cup {None}] /\ shared' \subseteq Assets
           /\ registry' \in [YamlFiles -> DiskTexts] /\ reified' \in [Categories -> SUBSET GizaFiles]
           /\ reported' \in [YamlFiles -> SUBSET Files] /\ parsedAnew' \subseteq RstFiles
<1>1. 0 \in DiskTexts
  BY DEF DiskTexts
<1> QED
  BY <1>1, NoDataIsData DEF Exit

LEMMA TypeStep ==
    ASSUME Types, [Next]_vars
    PROVE  Types'
<1> USE DEF Types
<1>1. ASSUME NEW f \in Files, NEW text \in DiskTexts, Edit(f, text) PROVE Types'
  BY <1>1 DEF Edit, TypeOK
<1>2. ASSUME NEW c \in Configs, SwitchConfig(c) PROVE Types'
  BY <1>2 DEF SwitchConfig, TypeOK
<1>3. ASSUME NEW caching \in BOOLEAN, Start(caching) PROVE Types'
  <2>1. cache' \in CacheData
    BY <1>3, NoDataIsData DEF Start, Loadable, TypeOK
  <2> QED
    BY <1>3, <2>1 DEF Start, TypeOK
<1>4. ASSUME NEW f \in RstFiles, FromCache(f) PROVE Types'
  BY <1>4, DataFields DEF FromCache, Do, TypeOK, Sources
<1>5. ASSUME NEW f \in RstFiles, ParseRst(f) PROVE Types'
  <2>1. Parsed(f) \in Page
    BY <1>5, ParsedIsPage DEF ParseRst, Sources
  <2>2. Uses(f, {"sharedinclude"}) \subseteq Assets
    BY DEF Uses
  <2> QED
    BY <1>5, <2>1, <2>2 DEF ParseRst, Do, TypeOK, Sources
<1>6. ASSUME NEW f \in RstFiles, NotThere(f) PROVE Types'
  BY <1>6 DEF NotThere, Do, TypeOK
<1>7. ASSUME NEW c \in Categories, DoCategory(c)
      PROVE  /\ UNCHANGED <<disk, config, cacheFile, edits, builds, phase, cache, shared, parsedAnew>>
             /\ todo' \subseteq RstFiles \cup Categories
             /\ registry' \in [YamlFiles -> DiskTexts]
  BY <1>7 DEF DoCategory, Do, TypeOK, Files, Sources
<1>8. ASSUME NEW c \in Categories, CategoryFromCache(c) PROVE Types'
  <2> DEFINE Cached(f) == {e \in cache.yaml[c] : e.file = f}
  <2>1. \A e \in cache.yaml[c] : e \in GizaFiles
    BY DataFields DEF TypeOK
  <2>2. \A f \in Sources : Cached(f) # {} => (CHOOSE e \in Cached(f) : TRUE) \in Cached(f)
    OBVIOUS
  <2>3. \A f \in Sources : Cached(f) # {} => (CHOOSE e \in Cached(f) : TRUE).page \in Page \cup {None}
    BY <2>1, <2>2, EntryFields
  <2>4. pages' \in [Sources -> Page \cup {None}]
    BY <1>8, <2>3 DEF CategoryFromCache, TypeOK
  <2>5. \A f \in YamlFiles : UNION {e.kept : e \in {x \in Cached(f) : x.page # None}} \subseteq Files
    BY <2>1, EntryFields
  <2>6. reported' \in [YamlFiles -> SUBSET Files]
    BY <1>8, <2>5 DEF CategoryFromCache, TypeOK
  <2> QED
    BY <1>7, <1>8, <2>4, <2>6 DEF CategoryFromCache, TypeOK
<1>9. ASSUME NEW c \in Categories, GenerateCategory(c) PROVE Types'
  <2>1. \A f \in Present(c) : Parsed(f) \in Page
    BY PresentFiles, ParsedIsPage
  <2>2. pages' \in [Sources -> Page \cup {None}]
    BY <1>9, <2>1 DEF GenerateCategory, TypeOK
  <2>3. reported' \in [YamlFiles -> SUBSET Files]
    BY <1>9, KeptFiles DEF GenerateCategory, TypeOK
  <2>4. reified' = [reified EXCEPT ![c] = Generated(c)]
    BY <1>9 DEF GenerateCategory, Generated
  <2>5. reified' \in [Categories -> SUBSET GizaFiles]
    BY <2>4, GeneratedEntries DEF TypeOK
  <2> QED
    BY <1>7, <1>9, <2>2, <2>3, <2>5 DEF GenerateCategory, TypeOK
<1>10. CASE EndBuild
  BY <1>10, ExitTypes DEF EndBuild, TypeOK
<1>11. CASE ReplaceCacheFile
  BY <1>11, NewDataIsData DEF ReplaceCacheFile, TypeOK
<1>12. CASE CloseCacheFile
  BY <1>12, ExitTypes, NewDataIsData DEF CloseCacheFile, TypeOK
<1>13. CASE Crash
  BY <1>13, ExitTypes DEF Crash, TypeOK
<1>14. CASE UNCHANGED vars
  BY <1>14 DEF vars, TypeOK
<1> QED
  BY <1>1, <1>2, <1>3, <1>4, <1>5, <1>6, <1>8, <1>9, <1>10, <1>11, <1>12, <1>13, <1>14 DEF Next

\* The types of all that builds keep and write (TypeOK), after any edits and crashes.
THEOREM TypesHold == Spec => []TypeOK
<1>1. Types => TypeOK
  BY DEF Types
<1> QED
  BY <1>1, InitTypes, TypeStep, PTL DEF Spec
-----------------------------------------------------------------------------
\* What is kept of a category belongs together, whatever the files have become: a page has the text
\* of its own entry and that of the entry it inherits from, and the entry has what was wrong.

SoundEntry(c, S, e) ==
    /\ e.page.config = c /\ e.page.text = e.text
    /\ e.text \notin BadTexts => \A p \in S : p.file = Parent[e.file] /\ p.text \notin BadTexts => e.page.parent = p.text
    /\ \/ Parent[e.file] = None
       \/ e.text \in BadTexts
       \/ \A p \in S : p.file = Parent[e.file] => p.text \in BadTexts
       => e.page.parent = 0
    /\ e.text \in BadTexts => e.file \in e.kept
    /\ e.text \notin BadTexts /\ Parent[e.file] # None /\ e.page.parent = 0 => Parent[e.file] \in e.kept

SoundEntries(c, S) == \A e \in S : e.page # None => SoundEntry(c, S, e)

SoundPages(c, p) == \A f \in RstFiles : p[f] # None => p[f].config = c

SoundData(c, d) == SoundPages(c, d.pages) /\ \A k \in Categories : SoundEntries(c, d.yaml[k])

Ended ==
    /\ cache = NoData
    /\ \A f \in Sources : pages[f] = None
    /\ \A k \in Categories : reified[k] = {}

Together ==
    /\ \A c \in Configs : cacheFile[c] \notin {None, Partial} => SoundData(c, cacheFile[c])
    /\ SoundData(config, cache)
    /\ SoundPages(config, pages)
    /\ \A k \in Categories : SoundEntries(config, reified[k])
    /\ phase = "idle" => Ended

LEMMA NoDataIsSound == ASSUME NEW c PROVE SoundData(c, NoData)
  BY NoDataIsData DEF SoundData, SoundPages, SoundEntries

LEMMA EndedIsSound ==
    ASSUME Ended, NEW c
    PROVE  SoundData(c, cache) /\ SoundPages(c, pages) /\ \A k \in Categories : SoundEntries(c, reified[k])
  BY NoDataIsSound DEF Ended, SoundPages, SoundEntries, Sources

LEMMA GeneratedIsSound ==
    ASSUME TypeOK, NEW c \in Categories
    PROVE  SoundEntries(config, Generated(c))
<1> SUFFICES ASSUME NEW e \in Generated(c), e.page # None
             PROVE  SoundEntry(config, Generated(c), e)
  BY DEF SoundEntries
<1>1. PICK f \in Present(c) :
         e = [file |-> f, text |-> disk[f], kept |-> Kept(f),
              page |-> IF HasPage(f) THEN Parsed(f) ELSE None]
  BY DEF Generated
<1>2. /\ f \in YamlFiles /\ Category[f] = c /\ disk[f] # 0
      /\ e.file = f /\ e.text = disk[f] /\ e.kept = Kept(f) /\ e.page = Parsed(f)
  BY <1>1, PresentFiles
<1>3. \A p \in Generated(c) : p.text = disk[p.file] /\ p.file \in Present(c)
  BY DEF Generated
<1>4. Loads(f) <=> disk[f] \notin BadTexts
  BY <1>2 DEF Loads
<1>5. ASSUME Parent[f] # None, disk[Parent[f]] # 0
      PROVE  \E p \in Generated(c) : p.file = Parent[f] /\ p.text = disk[Parent[f]]
  <2>1. Parent[f] \in Present(c)
    BY <1>2, <1>5 DEF Present, Members
  <2> DEFINE p == [file |-> Parent[f], text |-> disk[Parent[f]], kept |-> Kept(Parent[f]),
                   page |-> IF HasPage(Parent[f]) THEN Parsed(Parent[f]) ELSE None]
  <2>2. p \in Generated(c) /\ p.file = Parent[f] /\ p.text = disk[Parent[f]]
    BY <2>1 DEF Generated
  <2> QED
    BY <2>2
<1>6. Parent[f] # None => (Loads(Parent[f]) <=>
         disk[Parent[f]] # 0 /\ disk[Parent[f]] \notin BadTexts)
  BY DEF Loads
<1>7. Parsed(f).config = config /\ Parsed(f).text = disk[f]
      /\ Parsed(f).parent = IF Inherits(f) THEN disk[Parent[f]] ELSE 0
  BY ParsedFields
<1>8. ASSUME disk[f] \notin BadTexts, NEW p \in Generated(c), p.file = Parent[f], p.text \notin BadTexts
      PROVE  Parsed(f).parent = p.text
  <2>1. p.text = disk[Parent[f]] /\ disk[Parent[f]] # 0 /\ Parent[f] \in YamlFiles
    BY <1>3, <1>8, PresentFiles
  <2>2. Parent[f] # None
    BY <2>1 DEF Files, Sources
  <2> QED
    BY <1>2, <1>4, <1>6, <1>7, <1>8, <2>1, <2>2 DEF Inherits
<1>9. ASSUME \/ Parent[f] = None
             \/ disk[f] \in BadTexts
             \/ \A p \in Generated(c) : p.file = Parent[f] => p.text \in BadTexts
      PROVE  Parsed(f).parent = 0
  BY <1>4, <1>5, <1>6, <1>7, <1>9 DEF Inherits
<1>10. disk[f] \in BadTexts => f \in Kept(f)
  BY <1>4 DEF Kept
<1>11. ASSUME disk[f] \notin BadTexts, Parent[f] # None, Parsed(f).parent = 0 PROVE Parent[f] \in Kept(f)
  BY <1>2, <1>4, <1>6, <1>7, <1>11 DEF Kept, Inherits
<1> QED
  BY <1>2, <1>7, <1>8, <1>9, <1>10, <1>11 DEF SoundEntry

LEMMA ExitEnds == ASSUME Exit PROVE Ended' /\ phase' = "idle"
  BY DEF Exit, Ended

LEMMA TogetherStep ==
    ASSUME Types, Together, [Next]_vars
    PROVE  Together'
<1> USE DEF Types
<1>1. ASSUME NEW f \in Files, NEW text \in DiskTexts, Edit(f, text) PROVE Together'
  BY <1>1 DEF Edit, Together, Ended
<1>2. ASSUME NEW c \in Configs, SwitchConfig(c) PROVE Together'
  <2>1. Ended /\ UNCHANGED <<cacheFile, cache, pages, reified, phase>> /\ config' = c
    BY <1>2 DEF SwitchConfig, Together
  <2>2. SoundData(c, cache) /\ SoundPages(c, pages) /\ \A k \in Categories : SoundEntries(c, reified[k])
    BY <2>1, EndedIsSound
  <2> QED
    BY <2>1, <2>2 DEF Together, Ended
<1>3. ASSUME NEW caching \in BOOLEAN, Start(caching) PROVE Together'
  <2>1. SoundData(config, cache')
    BY <1>3, NoDataIsSound DEF Start, Loadable, Together, TypeOK
  <2>2. UNCHANGED <<cacheFile, config, pages, reified>> /\ phase' # "idle"
    BY <1>3 DEF Start
  <2> QED
    BY <2>1, <2>2 DEF Together
<1>4. ASSUME NEW f \in RstFiles, FromCache(f) \/ ParseRst(f) \/ NotThere(f) PROVE Together'
  <2>1. UNCHANGED <<cacheFile, config, cache, reified, phase>> /\ phase # "idle"
    BY <1>4 DEF FromCache, ParseRst, NotThere, Do
  <2>2. SoundPages(config, pages')
    <3>1. pages' = pages \/ pages' = [pages EXCEPT ![f] = cache.pages[f]] \/ pages' = [pages EXCEPT ![f] = Parsed(f)]
      BY <1>4 DEF FromCache, ParseRst, NotThere
    <3> QED
      BY <3>1, ParsedFields DEF SoundPages, SoundData, Together, TypeOK, Sources
  <2> QED
    BY <2>1, <2>2 DEF Together
<1>5. ASSUME NEW c \in Categories, CategoryFromCache(c) \/ GenerateCategory(c) PROVE Together'
  <2>1. UNCHANGED <<cacheFile, config, cache, phase>> /\ phase # "idle"
    BY <1>5 DEF CategoryFromCache, GenerateCategory, DoCategory, Do
  <2>2. \A f \in RstFiles : pages'[f] = pages[f]
    <3>1. \A e \in cache.yaml[c] : e.file \in YamlFiles
      BY DataFields, EntryFields DEF TypeOK
    <3>2. \A f \in Present(c) : f \in YamlFiles
      BY PresentFiles
    <3>3. CASE CategoryFromCache(c)
      <4>1. \A f \in RstFiles : {e \in cache.yaml[c] : e.file = f} = {}
        BY <3>1
      <4> QED
        BY <3>3, <4>1 DEF CategoryFromCache, Sources
    <3>4. CASE GenerateCategory(c)
      BY <3>2, <3>4 DEF GenerateCategory, Sources
    <3> QED
      BY <1>5, <3>3, <3>4
  <2>3. reified' = reified \/ reified' = [reified EXCEPT ![c] = Generated(c)]
    BY <1>5 DEF CategoryFromCache, GenerateCategory, Generated
  <2>4. \A k \in Categories : SoundEntries(config, reified'[k])
    BY <2>3, GeneratedIsSound DEF Together, TypeOK
  <2> QED
    BY <2>1, <2>2, <2>4 DEF Together, SoundPages
<1>6. SoundData(config, NewData)
  BY DEF Together, SoundData, NewData, SoundPages
<1>7. CASE ReplaceCacheFile
  <2>1. UNCHANGED <<config, cache, pages, reified>> /\ phase' # "idle"
        /\ \E file \in {Partial, NewData} : cacheFile' = [cacheFile EXCEPT ![config] = file]
    BY <1>7 DEF ReplaceCacheFile
  <2>2. \A c \in Configs : (cacheFile'[c] \in {Partial, NewData} /\ c = config) \/ cacheFile'[c] = cacheFile[c]
    BY <2>1
  <2> QED
    BY <1>6, <2>1, <2>2 DEF Together
<1>8. CASE CloseCacheFile
  <2>1. config' = config /\ cacheFile' = [cacheFile EXCEPT ![config] = NewData] /\ Ended' /\ phase' = "idle"
    BY <1>8, ExitEnds DEF CloseCacheFile
  <2>2. (SoundData(config, cache) /\ SoundPages(config, pages) /\ \A k \in Categories : SoundEntries(config, reified[k]))'
    BY <2>1, NoDataIsSound DEF Ended, SoundPages, SoundEntries, Sources
  <2>3. \A c \in Configs : (cacheFile'[c] = NewData /\ c = config) \/ cacheFile'[c] = cacheFile[c]
    BY <2>1
  <2> QED
    BY <1>6, <2>1, <2>2, <2>3 DEF Together
<1>9. CASE EndBuild \/ Crash
  <2>1. UNCHANGED <<config, cacheFile>> /\ Ended' /\ phase' = "idle"
    BY <1>9, ExitEnds DEF EndBuild, Crash
  <2>2. (SoundData(config, cache) /\ SoundPages(config, pages) /\ \A k \in Categories : SoundEntries(config, reified[k]))'
    BY <2>1, NoDataIsSound DEF Ended, SoundPages, SoundEntries, Sources
  <2> QED
    BY <2>1, <2>2 DEF Together
<1>10. CASE UNCHANGED vars
  BY <1>10 DEF vars, Together, Ended
<1> QED
  BY <1>1, <1>2, <1>3, <1>4, <1>5, <1>7, <1>8, <1>9, <1>10 DEF Next

LEMMA InitTogether == Init => Together
<1> SUFFICES ASSUME Init PROVE Together
  OBVIOUS
<1>1. Ended
  BY DEF Init, Ended
<1> QED
  BY <1>1, EndedIsSound DEF Init, Together

LEMMA ValidEntries ==
    ASSUME NEW c, Valid(c)
    PROVE  /\ \A e \in cache.yaml[c] : e.file \in Present(c) /\ e.text = disk[e.file]
           /\ \A f \in Present(c) : \E e \in cache.yaml[c] : e.file = f /\ e.text = disk[f]
<1>1. ASSUME NEW e \in cache.yaml[c] PROVE e.file \in Present(c) /\ e.text = disk[e.file]
  <2>1. <<e.file, e.text>> \in {<<f, disk[f]>> : f \in Present(c)}
    BY DEF Valid
  <2> QED
    BY <2>1
<1>2. ASSUME NEW f \in Present(c) PROVE \E e \in cache.yaml[c] : e.file = f /\ e.text = disk[f]
  <2>1. <<f, disk[f]>> \in {<<e.file, e.text>> : e \in cache.yaml[c]}
    BY DEF Valid
  <2> QED
    BY <2>1
<1> QED
  BY <1>1, <1>2

LEMMA WhoMakesPages ==
    ASSUME Types, Next, NEW f \in Sources, GetsPage(f)
    PROVE  /\ f \in RstFiles => FromCache(f) \/ ParseRst(f)
           /\ f \in YamlFiles => CategoryFromCache(Category[f]) \/ GenerateCategory(Category[f])
<1>1. ASSUME NEW g \in RstFiles, FromCache(g) \/ ParseRst(g) PROVE f = g
  BY <1>1 DEF FromCache, ParseRst, GetsPage, Types, TypeOK
<1>2. ASSUME NEW c \in Categories, CategoryFromCache(c) PROVE f \in YamlFiles /\ Category[f] = c
  <2>1. \E e \in cache.yaml[c] : e.file = f
    BY <1>2 DEF CategoryFromCache, GetsPage
  <2>2. f \in YamlFiles
    BY <2>1, DataFields, EntryFields DEF Types, TypeOK
  <2>3. f \in Present(c)
    BY <1>2, <2>1, ValidEntries DEF CategoryFromCache
  <2> QED
    BY <2>2, <2>3 DEF Present, Members
<1>3. ASSUME NEW c \in Categories, GenerateCategory(c) PROVE f \in YamlFiles /\ Category[f] = c
  <2>1. f \in Present(c)
    BY <1>3 DEF GenerateCategory, GetsPage
  <2> QED
    BY <2>1 DEF Present, Members
<1>4. ASSUME Exit PROVE FALSE
  BY <1>4 DEF Exit, GetsPage
<1>5. pages' # pages
  BY DEF GetsPage
<1> QED
  BY <1>1, <1>2, <1>3, <1>4, <1>5
  DEF Next, Edit, SwitchConfig, Start, NotThere, EndBuild, ReplaceCacheFile, CloseCacheFile, Crash, vars

\* The page a build makes of an RST file, from the cache or not, is current (RstPagesAreCurrent): the
\* hashes that Hit compares and the specifier in the cache file's name leave nothing else.
THEOREM RstPagesCurrent == Spec => RstPagesAreCurrent
<1> DEFINE Current == \A f \in RstFiles : GetsPage(f) =>
          LET page == pages'[f] IN
          /\ page.config = config /\ page.text = disk[f]
          /\ \A a \in Uses(f, Directives) :
                page.seen[a] = disk[a] \/ Unnoticed(f, a, page)
<1>1. Types /\ Together /\ [Next]_vars => [Current]_vars
  <2> SUFFICES ASSUME Types, Together, Next, NEW f \in RstFiles, GetsPage(f)
               PROVE  /\ pages'[f].config = config /\ pages'[f].text = disk[f]
                      /\ \A a \in Uses(f, Directives) :
                            pages'[f].seen[a] = disk[a] \/ Unnoticed(f, a, pages'[f])
    OBVIOUS
  <2> USE DEF Types
  <2>1. FromCache(f) \/ ParseRst(f)
    BY WhoMakesPages DEF Sources
  <2>2. CASE ParseRst(f)
    <3>1. pages'[f] = Parsed(f)
      BY <2>2 DEF ParseRst, TypeOK, Sources
    <3>2. Uses(f, Directives) \subseteq Assets
      BY DEF Uses
    <3> QED
      BY <3>1, <3>2, ParsedFields
  <2>3. CASE FromCache(f)
    <3> DEFINE page == pages'[f]
    <3>1. page = cache.pages[f] /\ Hit(f) /\ page # None
      BY <2>3 DEF FromCache, TypeOK, Sources, Hit
    <3>2. page.config = config /\ page.text = disk[f]
      BY <3>1 DEF Together, SoundData, SoundPages, Hit
    <3>3. ASSUME NEW a \in Uses(f, Directives), ~Unnoticed(f, a, page) PROVE page.seen[a] = disk[a]
      <4>1. a \in Assets /\ a \notin Uses(f, {"sharedinclude"})
        BY <3>3 DEF Unnoticed, Uses
      <4>2. PICK d \in Directives \ {"sharedinclude"} : <<a, d>> \in Refs[f]
        BY <3>3, <4>1 DEF Uses
      <4>3. a \in Recorded(f, page) \/ (a \in Uses(f, {"remote"}) /\ page.seen[a] # 0)
        <5>1. CASE d = "literalinclude"
          <6>1. a \in Uses(f, {"literalinclude"})
            BY <4>1, <4>2, <5>1 DEF Uses
          <6> QED
            BY <6>1 DEF Recorded
        <5>2. CASE d \in {"image", "openapi", "remote"}
          <6>1. page.seen[a] # 0
            BY <3>3, <4>1, <4>2, <5>2 DEF Unnoticed, Uses
          <6> QED
            BY <4>1, <4>2, <5>2, <6>1 DEF Recorded, Uses
        <5> QED
          BY <4>2, <5>1, <5>2 DEF Directives
      <4>4. a \in Recorded(f, page)
        BY <3>1, <4>3 DEF Hit, Uncacheable
      <4>5. disk[a] # 0 /\ Dependency(f, a, page) = Hash(disk[a])
        BY <3>1, <4>4 DEF Hit
      <4>6. page.seen[a] # 0 => \/ a \in Uses(f, {"image"}) /\ Dependency(f, a, page) = Checksum(page.seen[a])
                                \/ Dependency(f, a, page) = Hash(page.seen[a])
        BY DEF Dependency
      <4>7. disk[a] \in DiskTexts /\ Hash(disk[a]) # None
        BY <4>1, PageAssumption DEF TypeOK, Files, Hash
      <4>8. page.seen[a] # 0
        BY <4>5, <4>7 DEF Dependency
      <4> QED
        BY <4>5, <4>6, <4>8 DEF Hash, Checksum
    <3> QED
      BY <3>2, <3>3
  <2> QED
    BY <2>1, <2>2, <2>3
<1> QED
  BY <1>1, InitTypes, TypeStep, InitTogether, TogetherStep, PTL DEF Spec, RstPagesAreCurrent
-----------------------------------------------------------------------------
\* The page of an entry that its category's files still match is what parsing would give.
LEMMA ValidPages ==
    ASSUME Types, Together, NEW c \in Categories, Valid(c), NEW e \in cache.yaml[c], e.page # None
    PROVE  /\ e.file \in YamlFiles /\ Category[e.file] = c /\ e.text = disk[e.file] /\ disk[e.file] # 0
           /\ e.page.config = config /\ e.page.text = disk[e.file]
           /\ e.page.parent = IF Inherits(e.file) THEN disk[Parent[e.file]] ELSE 0
           /\ e.text \in BadTexts => e.file \in e.kept
           /\ e.text \notin BadTexts /\ Parent[e.file] # None /\ e.page.parent = 0 => Parent[e.file] \in e.kept
<1> DEFINE S == cache.yaml[c]
           f == e.file
<1>1. SoundEntry(config, S, e)
  BY DEF Together, SoundData, SoundEntries
<1>2. /\ \A p \in S : p.file \in Present(c) /\ p.text = disk[p.file]
      /\ \A g \in Present(c) : \E p \in S : p.file = g /\ p.text = disk[g]
  BY ValidEntries
<1>3. f \in YamlFiles /\ Category[f] = c /\ disk[f] # 0 /\ e.text = disk[f]
  BY <1>2, PresentFiles DEF Types
<1>4. Loads(f) <=> e.text \notin BadTexts
  BY <1>3 DEF Loads
<1>5. CASE Inherits(f)
  <2>1. /\ e.text \notin BadTexts /\ Parent[f] \in YamlFiles /\ Category[Parent[f]] = c
        /\ disk[Parent[f]] # 0 /\ disk[Parent[f]] \notin BadTexts
    BY <1>3, <1>4, <1>5 DEF Inherits, Loads
  <2>2. PICK p \in S : p.file = Parent[f] /\ p.text = disk[Parent[f]]
    BY <1>2, <2>1 DEF Present, Members
  <2>3. e.page.parent = p.text
    BY <1>1, <2>1, <2>2 DEF SoundEntry
  <2> QED
    BY <1>1, <1>3, <1>5, <2>2, <2>3 DEF SoundEntry
<1>6. CASE ~Inherits(f)
  <2>1. ASSUME Parent[f] # None, e.text \notin BadTexts, NEW p \in S, p.file = Parent[f] PROVE p.text \in BadTexts
    <3>1. ~Loads(Parent[f]) /\ p.text = disk[Parent[f]] /\ disk[Parent[f]] # 0
      BY <1>2, <1>3, <1>4, <1>6, <2>1, PresentFiles DEF Inherits, Types
    <3> QED
      BY <3>1 DEF Loads
  <2>2. e.page.parent = 0
    BY <1>1, <2>1 DEF SoundEntry
  <2> QED
    BY <1>1, <1>3, <1>6, <2>2 DEF SoundEntry
<1> QED
  BY <1>5, <1>6

\* What the two ways of doing a category do to a file of it.
LEMMA CachedCategory ==
    ASSUME Types, Together, NEW c \in Categories, CategoryFromCache(c), NEW f \in YamlFiles
    PROVE  \/ /\ pages'[f] = pages[f]
              /\ f \notin Present(c)
           \/ \E e \in cache.yaml[c] : /\ e.file = f /\ pages'[f] = e.page
                                       /\ e.page # None => e.kept \subseteq reported'[f]
<1> DEFINE Cached == {e \in cache.yaml[c] : e.file = f}
<1>1. Valid(c) /\ f \in Sources
  BY DEF CategoryFromCache, Sources
<1>2. CASE Cached = {}
  <2>1. f \notin Present(c)
    BY <1>1, <1>2, ValidEntries
  <2> QED
    BY <1>1, <1>2, <2>1 DEF CategoryFromCache
<1>3. CASE Cached # {}
  <2>1. PICK e \in Cached : e = CHOOSE x \in Cached : TRUE
    BY <1>3
  <2>2. pages'[f] = e.page
    BY <1>1, <1>3, <2>1 DEF CategoryFromCache
  <2>3. reported'[f] = reported[f] \cup UNION {x.kept : x \in {y \in Cached : y.page # None}}
    BY DEF CategoryFromCache
  <2>4. e.page # None => e.kept \subseteq reported'[f]
    BY <2>3
  <2> QED
    BY <2>2, <2>4
<1> QED
  BY <1>2, <1>3

LEMMA GeneratedCategory ==
    ASSUME Types, NEW c \in Categories, GenerateCategory(c), NEW f \in YamlFiles
    PROVE  \/ pages'[f] = pages[f] /\ (f \notin Present(c) \/ ~HasPage(f))
           \/ f \in Present(c) /\ pages'[f] = Parsed(f)
  BY DEF GenerateCategory, Sources

\* The page a build makes of a YAML file is current (YamlPagesAreCurrent): what a category has in the
\* cache belongs together, and Valid compares every file of it.
THEOREM YamlPagesCurrent == Spec => YamlPagesAreCurrent
<1> DEFINE Current == \A f \in YamlFiles : GetsPage(f) =>
          LET page == pages'[f] IN
          /\ page.config = config /\ page.text = disk[f]
          /\ page.parent = IF Inherits(f) THEN disk[Parent[f]] ELSE 0
<1>1. Types /\ Together /\ [Next]_vars => [Current]_vars
  <2> SUFFICES ASSUME Types, Together, Next, NEW f \in YamlFiles, GetsPage(f)
               PROVE  /\ pages'[f].config = config /\ pages'[f].text = disk[f]
                      /\ pages'[f].parent = IF Inherits(f) THEN disk[Parent[f]] ELSE 0
    OBVIOUS
  <2> DEFINE c == Category[f]
  <2>1. CategoryFromCache(c) \/ GenerateCategory(c)
    BY WhoMakesPages DEF Sources
  <2>2. c \in Categories /\ pages'[f] # pages[f] /\ pages'[f] # None
    BY DEF GetsPage
  <2>3. CASE GenerateCategory(c)
    BY <2>2, <2>3, GeneratedCategory, ParsedFields
  <2>4. CASE CategoryFromCache(c)
    <3>1. PICK e \in cache.yaml[c] : e.file = f /\ pages'[f] = e.page
      BY <2>2, <2>4, CachedCategory
    <3>2. Valid(c)
      BY <2>4 DEF CategoryFromCache
    <3> QED
      BY <2>2, <3>1, <3>2, ValidPages
  <2> QED
    BY <2>1, <2>3, <2>4
<1> QED
  BY <1>1, InitTypes, TypeStep, InitTogether, TogetherStep, PTL DEF Spec, YamlPagesAreCurrent

\* Nothing but a page with an image is parsed anew although it has not changed (ReusedUnlessImages).
THEOREM Reused == Spec => ReusedUnlessImages
<1> DEFINE Justified == \A f \in parsedAnew' \ parsedAnew :
          Uses(f, {"image"}) \ Missing(f, {"image"}) # {} \/ ~Reusable(f)
<1>1. Types /\ [Next]_vars => [Justified]_vars
  <2> SUFFICES ASSUME Types, Next, NEW f \in parsedAnew' \ parsedAnew, Reusable(f)
               PROVE  Uses(f, {"image"}) \ Missing(f, {"image"}) # {}
    OBVIOUS
  <2>1. f \in RstFiles /\ ParseRst(f)
    BY DEF Next, Edit, SwitchConfig, Start, FromCache, ParseRst, NotThere, CategoryFromCache, GenerateCategory, DoCategory, EndBuild, ReplaceCacheFile, CloseCacheFile, Crash, Exit, vars
  <2> DEFINE page == cache.pages[f]
  <2>2. /\ page = Parsed(f) /\ page # None /\ page.text = disk[f]
        /\ ~Uncacheable(f, page)
        /\ \A a \in Assets : a \in Uses(f, Directives) => page.seen[a] = disk[a]
    BY <2>1, ParsedIsPage, ParsedFields, PageAssumption DEF Reusable, ParseRst, Types, Sources
  <2>3. PICK a \in Recorded(f, page) : ~(disk[a] # 0 /\ Dependency(f, a, page) = Hash(disk[a]))
    BY <2>1, <2>2 DEF ParseRst, Hit
  <2>4. a \in Assets /\ a \in Uses(f, Directives) /\ page.seen[a] = disk[a]
    BY <2>2, <2>3 DEF Recorded, Uses, Directives
  <2>5. disk[a] # 0
    <3>1. CASE a \in Uses(f, {"literalinclude"})
      BY <3>1 DEF Reusable, Missing
    <3>2. CASE page.seen[a] # 0
      BY <2>4, <3>2
    <3> QED
      BY <2>3, <3>1, <3>2 DEF Recorded
  <2>6. a \in Uses(f, {"image"})
    BY <2>3, <2>4, <2>5 DEF Dependency
  <2> QED
    BY <2>5, <2>6 DEF Missing
<1> QED
  BY <1>1, InitTypes, TypeStep, PTL DEF Spec, ReusedUnlessImages
-----------------------------------------------------------------------------
\* A category that is still to do has given no pages.
ToDo == \A f \in YamlFiles : Category[f] \in todo => pages[f] = None

Raised(f) ==
    pages[f] # None =>
        /\ registry[f] \in BadTexts => f \in reported[f]
        /\ registry[f] \notin BadTexts /\ Parent[f] # None /\ pages[f].parent = 0
              => Parent[f] \in reported[f]

LEMMA RaisedStep ==
    ASSUME Types, Together, ToDo, \A f \in YamlFiles : Raised(f), [Next]_vars
    PROVE  ToDo' /\ \A f \in YamlFiles : Raised(f)'
<1>1. CASE UNCHANGED <<todo, pages, registry, reported>>
  BY <1>1 DEF ToDo, Raised
<1>2. ASSUME NEW caching \in BOOLEAN, Start(caching) PROVE ToDo' /\ \A f \in YamlFiles : Raised(f)'
  BY <1>2 DEF Start, Together, Ended, ToDo, Raised, Sources
<1>3. ASSUME NEW g \in RstFiles, FromCache(g) \/ ParseRst(g) \/ NotThere(g)
      PROVE  ToDo' /\ \A f \in YamlFiles : Raised(f)'
  <2>1. todo' \subseteq todo /\ UNCHANGED <<registry, reported>> /\ \A f \in YamlFiles : pages'[f] = pages[f]
    BY <1>3 DEF FromCache, ParseRst, NotThere, Do, Types, TypeOK, Sources
  <2> QED
    BY <2>1 DEF ToDo, Raised
<1>4. ASSUME NEW c \in Categories, CategoryFromCache(c) \/ GenerateCategory(c), NEW f \in YamlFiles
      PROVE  (Category[f] \in todo' => pages'[f] = None) /\ Raised(f)'
  <2>1. /\ c \in todo /\ todo' = todo \ {c}
        /\ registry'[f] = IF f \in Members(c) THEN disk[f] ELSE registry[f]
    BY <1>4 DEF CategoryFromCache, GenerateCategory, DoCategory, Do
  <2>2. CASE Category[f] # c
    <3>1. f \notin Members(c) /\ f \notin Present(c)
      BY <2>2 DEF Members, Present
    <3>2. pages'[f] = pages[f]
      <4>1. CASE CategoryFromCache(c)
        <5>1. \A e \in cache.yaml[c] : e.file # f
          BY <3>1, <4>1, ValidEntries DEF CategoryFromCache
        <5> QED
          BY <4>1, <5>1, CachedCategory
      <4> QED
        BY <1>4, <3>1, <4>1, GeneratedCategory
    <3>3. reported[f] \subseteq reported'[f]
      BY <1>4, <3>1 DEF CategoryFromCache, GenerateCategory
    <3> QED
      BY <2>1, <3>1, <3>2, <3>3 DEF ToDo, Raised
  <2>3. CASE Category[f] = c
    <3>1. pages[f] = None /\ Category[f] \notin todo' /\ registry'[f] = disk[f]
      BY <2>1, <2>3 DEF ToDo, Members
    <3>2. CASE pages'[f] = pages[f]
      BY <3>1, <3>2 DEF Raised
    <3>3. CASE CategoryFromCache(c) /\ pages'[f] # pages[f]
      <4>1. PICK e \in cache.yaml[c] : e.file = f /\ pages'[f] = e.page /\ (e.page # None => e.kept \subseteq reported'[f])
        BY <3>3, CachedCategory
      <4>2. Valid(c) /\ e.page # None
        BY <3>1, <3>3, <4>1 DEF CategoryFromCache
      <4> QED
        BY <3>1, <4>1, <4>2, ValidPages DEF Raised
    <3>4. CASE GenerateCategory(c) /\ pages'[f] # pages[f]
      <4>1. f \in Present(c) /\ pages'[f] = Parsed(f) /\ disk[f] # 0
        BY <3>4, GeneratedCategory, PresentFiles DEF Types
      <4>2. reported'[f] = Kept(f) \cup Finishing(f)
        BY <3>4, <4>1 DEF GenerateCategory
      <4>3. disk[f] \in BadTexts => f \in Kept(f)
        BY DEF Kept, Loads
      <4>4. ASSUME disk[f] \notin BadTexts, Parent[f] # None, Parsed(f).parent = 0 PROVE Parent[f] \in Kept(f)
        <5>1. Loads(f)
          BY <4>1, <4>4 DEF Loads
        <5>2. ~Loads(Parent[f])
          BY <4>4, <5>1, ParsedFields DEF Inherits, Loads
        <5> QED
          BY <4>4, <5>1, <5>2 DEF Kept
      <4> QED
        BY <3>1, <4>1, <4>2, <4>3, <4>4 DEF Raised
    <3> QED
      BY <1>4, <3>2, <3>3, <3>4
  <2> QED
    BY <2>1, <2>2, <2>3
<1>5. CASE Exit
  BY <1>5 DEF Exit, ToDo, Raised, Sources
<1>6. ASSUME NEW c \in Categories, CategoryFromCache(c) \/ GenerateCategory(c) PROVE ToDo' /\ \A f \in YamlFiles : Raised(f)'
  BY <1>4, <1>6 DEF ToDo
<1> QED
  BY <1>1, <1>2, <1>3, <1>5, <1>6
  DEF Next, Edit, SwitchConfig, EndBuild, ReplaceCacheFile, CloseCacheFile, Crash, vars

\* A YAML file with a page and something wrong in it or in what it inherits from has a diagnostic
\* (ErrorsOfPagesRaised), from the cache or not.
THEOREM ErrorsRaised == Spec => []ErrorsOfPagesRaised
<1>1. Init => ToDo /\ \A f \in YamlFiles : Raised(f)
  BY DEF Init, ToDo, Raised, Sources
<1>2. Types /\ Together /\ (ToDo /\ \A f \in YamlFiles : Raised(f)) /\ [Next]_vars
      => (ToDo /\ \A f \in YamlFiles : Raised(f))'
  BY RaisedStep
<1>3. (\A f \in YamlFiles : Raised(f)) => ErrorsOfPagesRaised
  BY DEF Raised, ErrorsOfPagesRaised
<1> QED
  BY <1>1, <1>2, <1>3, InitTypes, TypeStep, InitTogether, TogetherStep, PTL DEF Spec
=============================================================================
