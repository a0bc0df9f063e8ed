----------------------------- MODULE CachedBuild -----------------------------
(***************************************************************************)
(* Builds of a project with the parse cache: `snooty build` and `snooty    *)
(* create-cache` (src/snooty/main.py) over _Project.build, the Giza        *)
(* domain's load_and_generate and parse_cache.  Each build is a process of *)
(* its own, in which files are read one after another while they may be    *)
(* edited, and which may be killed at any point.                           *)
(*                                                                         *)
(* Data.  A file is one of the numbers 1..MaxText, 0 when it is not there. *)
(* What is parsed from a source is the record of everything it was made    *)
(* from: the configuration, the source's text, the text of the Giza file   *)
(* it inherits from, and each file it refers to.  A diagnostic is the file *)
(* at fault.  What a source refers to is fixed (Refs): a text that refers  *)
(* to other files has another hash.                                        *)
(***************************************************************************)
EXTENDS Naturals, FiniteSets

CONSTANTS RstFiles, YamlFiles,
          Assets,           \* what sources refer to, files and URLs
          Refs,             \* what each source refers to, and by what directive
          Categories,       \* the Giza categories
          Category,         \* the category of each YAML file
          Parent,           \* the file each YAML file inherits from, or None
          OnePageEach,      \* categories that make a page of every file: "steps"
          Configs,          \* snooty.toml, rstspec and version: the specifier
          None,
          Partial,          \* a file replaced before all of its data was written
          MaxText,
          BadTexts,         \* YAML that does not parse or has the wrong type
          MaxEdits, MaxBuilds

\* How a source refers to a file: literalinclude, input and output; figure,
\* image and cards; openapi by path; openapi by URL; sharedinclude.
Directives == {"literalinclude", "image", "openapi", "remote", "sharedinclude"}

Sources == RstFiles \cup YamlFiles
Files == Sources \cup Assets
Members(c) == {f \in YamlFiles : Category[f] = c}

ASSUME BuildAssumption ==
    /\ RstFiles \cap YamlFiles = {} /\ Sources \cap Assets = {} /\ None \notin Files
    /\ Partial # None
    /\ Refs \in [Sources -> SUBSET (Assets \X Directives)]
    /\ Category \in [YamlFiles -> Categories]
    /\ Parent \in [YamlFiles -> YamlFiles \cup {None}]
    /\ \A f \in YamlFiles : Parent[f] # None => Category[Parent[f]] = Category[f]
    /\ OnePageEach \subseteq Categories /\ Categories \cap RstFiles = {}
    /\ MaxText \in Nat \ {0} /\ {MaxEdits, MaxBuilds} \subseteq Nat
    /\ BadTexts \subseteq 1..MaxText

VARIABLES
    \* outside of the process
    disk,           \* the text of each file, 0 if there is none
    config,
    cacheFile,      \* the cache file of each configuration
    edits, builds,  \* how many there have been
    \* the process
    phase,          \* "idle", "build", or "write" in atomic_write
    cache,          \* the CacheData that load_cache has read
    todo,           \* RST files and Giza categories still to do
    pages,          \* the page made of each source, or None
    shared,         \* shared includes that have been made into pages
    registry,       \* the texts of the files in the Giza categories
    reified,        \* reified_nodes of each category
    reported,       \* the diagnostics reported for each YAML file
    parsedAnew      \* RST files that were not taken from the cache

outside == <<disk, config, cacheFile, edits, builds>>
results == <<pages, shared, registry, reified, reported, parsedAnew>>
vars == <<outside, phase, cache, todo, results>>

Texts == 1..MaxText
DiskTexts == 0..MaxText

Page == [config : Configs, text : Texts, parent : DiskTexts, seen : [Assets -> DiskTexts]]

\* No hash is None either.
ASSUME PageAssumption == None \notin Page \cup [size : {32, 64}, text : DiskTexts]

\* A pickled GizaFile: the text it was read from, the diagnostics it keeps and
\* the page made of it.
GizaFile(f) == [file : {f}, text : Texts, kept : SUBSET Files, page : Page \cup {None}]
GizaFiles == UNION {GizaFile(f) : f \in YamlFiles}

CacheData == [pages : [RstFiles -> Page \cup {None}], yaml : [Categories -> SUBSET GizaFiles]]
NoData == [pages |-> [f \in RstFiles |-> None], yaml |-> [c \in Categories |-> {}]]

-----------------------------------------------------------------------------
\* What parsing gives, now.

Uses(f, directives) == {a \in Assets : \E d \in directives : <<a, d>> \in Refs[f]}
Missing(f, directives) == {a \in Uses(f, directives) : disk[a] = 0}

\* The YAML file has Giza nodes; its parent has the node it inherits from.
Loads(f) == disk[f] \notin BadTexts \cup {0}
Inherits(f) == f \in YamlFiles /\ Parent[f] # None /\ Loads(f) /\ Loads(Parent[f])

Parsed(f) ==
    [config |-> config,
     text |-> disk[f],
     parent |-> IF Inherits(f) THEN disk[Parent[f]] ELSE 0,
     seen |-> [a \in Assets |->
                  IF a \in Uses(f, Directives) /\ (f \in RstFiles \/ Loads(f))
                  THEN disk[a] ELSE 0]]

\* A file without nodes still has a page in some categories, an empty one.
HasPage(f) == Loads(f) \/ Category[f] \in OnePageEach

\* GizaFile.diagnostics: of the YAML, of the inheritance and of the RST in it.
Kept(f) ==
    IF Loads(f)
    THEN (IF Parent[f] # None /\ ~Loads(Parent[f]) THEN {Parent[f]} ELSE {})
         \cup Missing(f, Directives \ {"image"})
    ELSE {f}

\* What Page.finish adds: a figure's file is first opened in the main process.
Finishing(f) == IF Loads(f) THEN Missing(f, {"image"}) ELSE {}

\* Page.dependencies of an RST page.  A literalinclude is recorded before its
\* file is opened, images and OpenAPI files only once they have been read, and
\* shared includes never; a URL that could be read makes the page uncacheable.
Recorded(f, page) ==
    Uses(f, {"literalinclude"})
        \cup {a \in Uses(f, {"image", "openapi"}) : page.seen[a] # 0}
Uncacheable(f, page) == \E a \in Uses(f, {"remote"}) : page.seen[a] # 0

\* Two files have the same hash if they have the same text, and the digests the
\* same size.  An asset's checksum is shorter than the hash check_cache is given.
Hash(text) == [size |-> 64, text |-> text]
Checksum(text) == [size |-> 32, text |-> text]

\* The hash that is recorded.  Images come last, when the page is finished.
Dependency(f, a, page) ==
    IF page.seen[a] = 0 THEN None
    ELSE IF a \in Uses(f, {"image"}) THEN Checksum(page.seen[a])
    ELSE Hash(page.seen[a])

-----------------------------------------------------------------------------
Init ==
    /\ disk \in {d \in [Files -> {0, 1}] : \A f \in Sources : d[f] = 1}
    /\ config \in Configs
    /\ cacheFile = [c \in Configs |-> None]
    /\ edits = 0 /\ builds = 0
    /\ phase = "idle"
    /\ cache = NoData
    /\ todo = {}
    /\ pages = [f \in Sources |-> None]
    /\ shared = {}
    /\ registry = [f \in YamlFiles |-> 0]
    /\ reified = [c \in Categories |-> {}]
    /\ reported = [f \in YamlFiles |-> {}]
    /\ parsedAnew = {}

\* A file is written or removed, at any time.
Edit(f, text) ==
    /\ edits < MaxEdits /\ edits' = edits + 1
    /\ disk' = [disk EXCEPT ![f] = text]
    /\ UNCHANGED <<config, cacheFile, builds, phase, cache, todo, results>>

\* Between builds: a build reads its configuration once, when it starts.
SwitchConfig(c) ==
    /\ phase = "idle"
    /\ edits < MaxEdits /\ edits' = edits + 1
    /\ config' = c
    /\ UNCHANGED <<disk, cacheFile, builds, phase, cache, todo, results>>

\* Faulty variant of Loadable: the file's format is not checked.
LoadableUnchecked(file) == IF file = None THEN NoData ELSE file

\* ParseCache.read: a file that is not there or cannot be unpickled is an empty
\* cache.  Its name and its first field have the specifier.
Loadable(file) == IF file \in {None, Partial} THEN NoData ELSE file

\* With --no-caching the cache is not loaded.
Start(caching) ==
    /\ phase = "idle"
    /\ builds < MaxBuilds /\ builds' = builds + 1
    /\ phase' = "build"
    /\ cache' = IF caching THEN Loadable(cacheFile[config]) ELSE NoData
    /\ todo' = RstFiles \cup Categories
    /\ UNCHANGED <<disk, config, cacheFile, edits, results>>

-----------------------------------------------------------------------------
\* parse_rst_files.

\* Faulty variant of Hit: the files that a page depends on are not compared.
HitByText(f) == cache.pages[f] # None /\ cache.pages[f].text = disk[f]

\* Faulty variant of Hit: the hash of a literally included file is not filled in.
HitUnlessLiteral(f) ==
    LET page == cache.pages[f] IN
    /\ page # None
    /\ page.text = disk[f]
    /\ ~Uncacheable(f, page)
    /\ Recorded(f, page) \cap Uses(f, {"literalinclude"}) = {}
    /\ \A a \in Recorded(f, page) : disk[a] # 0 /\ Dependency(f, a, page) = Hash(disk[a])

\* CacheData.get finds the page under the file's name and hash, and check_cache
\* the same hash for every file that is recorded.  Files that were not there
\* have None for a hash, and those that are not there now cannot be opened.
Hit(f) ==
    LET page == cache.pages[f] IN
    /\ page # None
    /\ page.text = disk[f]
    /\ ~Uncacheable(f, page)
    /\ \A a \in Recorded(f, page) : disk[a] # 0 /\ Dependency(f, a, page) = Hash(disk[a])

Do(f) ==
    /\ phase = "build"
    /\ f \in todo
    /\ todo' = todo \ {f}
    /\ UNCHANGED <<outside, phase, cache>>

FromCache(f) ==
    /\ Do(f)
    /\ disk[f] # 0 /\ Hit(f)
    /\ pages' = [pages EXCEPT ![f] = cache.pages[f]]
    /\ UNCHANGED <<shared, registry, reified, reported, parsedAnew>>

\* Shared includes are pages of their own, made with the page that has them.
ParseRst(f) ==
    /\ Do(f)
    /\ disk[f] # 0 /\ ~Hit(f)
    /\ pages' = [pages EXCEPT ![f] = Parsed(f)]
    /\ shared' = shared \cup (Uses(f, {"sharedinclude"}) \ Missing(f, {"sharedinclude"}))
    /\ parsedAnew' = parsedAnew \cup {f}
    /\ UNCHANGED <<registry, reified, reported>>

NotThere(f) ==
    /\ Do(f)
    /\ disk[f] = 0
    /\ UNCHANGED results

-----------------------------------------------------------------------------
\* load_and_generate, after the RST files.

Present(c) == {f \in Members(c) : disk[f] # 0}

\* Faulty variant of Valid: the hashes are not compared.
ValidByName(c) == {e.file : e \in cache.yaml[c]} = Present(c)

\* validate_cache: the same files with the same texts.
Valid(c) ==
    {<<e.file, e.text>> : e \in cache.yaml[c]} = {<<f, disk[f]>> : f \in Present(c)}

DoCategory(c) ==
    /\ todo \cap RstFiles = {}
    /\ Do(c)
    /\ registry' = [f \in YamlFiles |-> IF f \in Members(c) THEN disk[f] ELSE registry[f]]
    /\ UNCHANGED <<shared, parsedAnew>>

\* Faulty variant of CategoryFromCache: pages come without their diagnostics.
CategoryFromCacheQuiet(c) ==
    /\ DoCategory(c)
    /\ Valid(c)
    /\ pages' = [f \in Sources |->
                    IF \E e \in cache.yaml[c] : e.file = f
                    THEN (CHOOSE e \in cache.yaml[c] : e.file = f).page
                    ELSE pages[f]]
    /\ UNCHANGED <<reported, reified>>

\* The registry is filled, but nothing is reified and nothing is reported of a
\* file without pages.
CategoryFromCache(c) ==
    LET Cached(f) == {e \in cache.yaml[c] : e.file = f} IN
    /\ DoCategory(c)
    /\ Valid(c)
    /\ pages' = [f \in Sources |->
                    IF Cached(f) = {} THEN pages[f] ELSE (CHOOSE e \in Cached(f) : TRUE).page]
    /\ reported' = [f \in YamlFiles |->
                       reported[f] \cup UNION {e.kept : e \in {x \in Cached(f) : x.page # None}}]
    /\ UNCHANGED reified

\* Every file of the category is parsed, reified and made into pages; what has
\* no page is reported as an orphan.
GenerateCategory(c) ==
    /\ DoCategory(c)
    /\ ~Valid(c)
    /\ pages' = [f \in Sources |->
                    IF f \in Present(c) /\ HasPage(f) THEN Parsed(f) ELSE pages[f]]
    /\ reported' = [f \in YamlFiles |->
                       IF f \in Present(c) THEN Kept(f) \cup Finishing(f) ELSE reported[f]]
    /\ reified' = [reified EXCEPT ![c] =
                      {[file |-> f, text |-> disk[f], kept |-> Kept(f),
                        page |-> IF HasPage(f) THEN Parsed(f) ELSE None] : f \in Present(c)}]

-----------------------------------------------------------------------------
\* The end of a process.

Built == phase = "build" /\ todo = {}

Exit ==
    /\ phase' = "idle"
    /\ cache' = NoData
    /\ todo' = {}
    /\ pages' = [f \in Sources |-> None]
    /\ shared' = {}
    /\ registry' = [f \in YamlFiles |-> 0]
    /\ reified' = [c \in Categories |-> {}]
    /\ reported' = [f \in YamlFiles |-> {}]
    /\ parsedAnew' = {}

\* `snooty build`.
EndBuild ==
    /\ Built
    /\ Exit
    /\ UNCHANGED outside

\* update_cache: a new CacheData of the pages and of the reified nodes.
NewData == [pages |-> [f \in RstFiles |-> pages[f]], yaml |-> reified]

\* atomic_write does not flush before it replaces the file, so what is in the
\* buffer is not in the file until it is closed.
ReplaceCacheFile ==
    /\ Built
    /\ phase' = "write"
    /\ \E file \in {Partial, NewData} : cacheFile' = [cacheFile EXCEPT ![config] = file]
    /\ UNCHANGED <<disk, config, edits, builds, cache, todo, results>>

CloseCacheFile ==
    /\ phase = "write"
    /\ cacheFile' = [cacheFile EXCEPT ![config] = NewData]
    /\ Exit
    /\ UNCHANGED <<disk, config, edits, builds>>

\* The process is killed, or an exception ends it.
Crash ==
    /\ phase # "idle"
    /\ Exit
    /\ UNCHANGED outside

-----------------------------------------------------------------------------
Next ==
    \/ \E f \in Files, text \in DiskTexts : Edit(f, text)
    \/ \E c \in Configs : SwitchConfig(c)
    \/ \E caching \in BOOLEAN : Start(caching)
    \/ \E f \in RstFiles : FromCache(f) \/ ParseRst(f) \/ NotThere(f)
    \/ \E c \in Categories : CategoryFromCache(c) \/ GenerateCategory(c)
    \/ EndBuild \/ ReplaceCacheFile \/ CloseCacheFile \/ Crash
    \/ phase = "idle" /\ builds = MaxBuilds /\ UNCHANGED vars

Spec == Init /\ [][Next]_vars

-----------------------------------------------------------------------------
TypeOK ==
    /\ disk \in [Files -> DiskTexts]
    /\ config \in Configs
    /\ \A c \in Configs : cacheFile[c] \in CacheData \cup {None, Partial}
    /\ edits \in 0..MaxEdits /\ builds \in 0..MaxBuilds
    /\ phase \in {"idle", "build", "write"}
    /\ cache \in CacheData
    /\ todo \subseteq RstFiles \cup Categories
    /\ pages \in [Sources -> Page \cup {None}]
    /\ shared \subseteq Assets
    /\ registry \in [YamlFiles -> DiskTexts]
    /\ reified \in [Categories -> SUBSET GizaFiles]
    /\ reported \in [YamlFiles -> SUBSET Files]
    /\ parsedAnew \subseteq RstFiles

\* A step gives the source f a page.
GetsPage(f) == pages'[f] # pages[f] /\ pages'[f] # None

\* A reference whose later changes nothing can notice: a shared include, or
\* another file that was not there when the page was parsed.
Unnoticed(f, a, page) ==
    \/ a \in Uses(f, {"sharedinclude"})
    \/ a \in Uses(f, {"image", "openapi", "remote"}) /\ page.seen[a] = 0

\* The page a build makes of an RST file, from the cache or not, shows the
\* file, the configuration and every file referred to as they are, after any
\* edits, crashes and changes of configuration; the only exceptions are
\* references nobody recorded (parse_cache.py:82-117, parser.py:1107-1179).
RstPagesAreCurrent ==
    [][\A f \in RstFiles : GetsPage(f) =>
          LET page == pages'[f] IN
          /\ page.config = config /\ page.text = disk[f]
          /\ \A a \in Uses(f, Directives) :
                page.seen[a] = disk[a] \/ Unnoticed(f, a, page)]_vars

\* The page a build makes of a YAML file shows its text and that of the file it
\* inherits from as they are: files added to a category or removed from it
\* invalidate what is cached of it (gizaparser/domain.py:35-48).
YamlPagesAreCurrent ==
    [][\A f \in YamlFiles : GetsPage(f) =>
          LET page == pages'[f] IN
          /\ page.config = config /\ page.text = disk[f]
          /\ page.parent = IF Inherits(f) THEN disk[Parent[f]] ELSE 0]_vars

\* A page that is in the cache, that parsing would give once more, that shows no URL and that
\* literally includes no missing file: those are what the cache cannot keep track of.
Reusable(f) ==
    /\ cache.pages[f] = Parsed(f)
    /\ Missing(f, {"literalinclude"}) = {}
    /\ ~Uncacheable(f, Parsed(f))

\* "Get a specific page from the cached data with the specified blake2b hash.
\* Raises KeyError if the page is not found or the checksum does not match"
\* (parse_cache.py:83-84), and what test_project.py:306-340 expects of a second
\* build: what has not changed is not parsed anew, but for pages with images,
\* whose hashes are recorded and compared in different sizes (types.py:112,
\* parse_cache.py:105-110).
ReusedUnlessImages ==
    [][\A f \in parsedAnew' \ parsedAnew :
          Uses(f, {"image"}) \ Missing(f, {"image"}) # {} \/ ~Reusable(f)]_vars

\* Whether its category comes from the cache or not, a YAML file with a page
\* and something wrong in the YAML or its inheritance has a diagnostic
\* (gizaparser/domain.py:104-111, 150-153).
ErrorsOfPagesRaised ==
    \A f \in YamlFiles : pages[f] # None =>
        /\ registry[f] \in BadTexts => f \in reported[f]
        /\ registry[f] \notin BadTexts /\ Parent[f] # None /\ pages[f].parent = 0
              => Parent[f] \in reported[f]
=============================================================================
