------------------------------- MODULE WarmStart -------------------------------
(***************************************************************************)
(* The index cache over a sequence of sessions (internal/workspace/cache.go *)
(* and BuildWithCache of index.go): a start hashes the workspace, loads the *)
(* cache, analyzes what is stale or new, and saves the index again; the     *)
(* files change at any time, and the process may die at any step.           *)
(*                                                                         *)
(* A file is its place in the order of the walk.  An analysis is known by   *)
(* the content it was made of and by the version of the server that made    *)
(* it.  The hash of a content is the content: SHA-256 is taken to be        *)
(* injective, and no file to hold nothing but its own path.  The index of a *)
(* session that is up (module ServerSync) is never saved, so a session is   *)
(* over, for the cache, when its build is.                                  *)
(***************************************************************************)
EXTENDS Integers, FiniteSetsExt

CONSTANTS
  Files,      \* the files there may be, numbered in path order
  Contents,   \* what a file may hold
  TooLarge,   \* contents longer than workspace.max_file_size
  Panicking,  \* contents on which the analyzer panics, or fails
  Diagnosed,  \* contents the analyzer has diagnostics about
  Absent,     \* no file
  Locked,     \* a file that is there but cannot be read
  Versions,   \* cache format versions of the servers that are started
  MaxStarts,  \* bound: sessions
  MaxWrites   \* bound: changes of the disk

ASSUME WarmAssumption ==
  /\ IsFiniteSet(Files) /\ Files \subseteq Nat
  /\ TooLarge \subseteq Contents
  /\ Panicking \subseteq Contents
  /\ Diagnosed \subseteq Contents
  /\ Absent \notin Contents /\ Locked \notin Contents /\ Absent # Locked
  /\ "path" \notin Contents
  /\ "none" \notin Versions
  /\ MaxStarts \in Nat /\ MaxWrites \in Nat

VARIABLES
  disk,      \* the workspace's files
  cache,     \* the cache file
  step,      \* where the build of the session is; "down" between sessions
  version,   \* cacheFormatVersion of the session's server
  files,     \* the files the walk found
  todo,      \* the files the current loop of the build has yet to visit
  hashes,    \* currentHashes
  index,     \* the analyses of the index
  stale,     \* staleMap
  widths,    \* the line-width tables, by the content they were built from
  analyzed,  \* analyzedAny
  draft,     \* the entries saveIndex has put together
  astray,    \* history: why the entry of a file may not be its content's
  disturbed, \* history: the disk changed during the session's build
  inStep,    \* history: the version whose cache is in step with the disk
  starts,    \* bound: sessions so far
  writes     \* bound: changes of the disk so far

history == <<astray, disturbed, inStep>>
bounds  == <<starts, writes>>
session == <<version, files, hashes, index, stale, widths, analyzed, draft>>
vars == <<disk, cache, step, todo, session, history, bounds>>

Nothing == [p \in {} |-> {}]

Put(f, p, value) == [q \in DOMAIN f \cup {p} |-> IF q = p THEN value ELSE f[q]]

Readable(p) == disk[p] \in Contents

-------------------------------------------------------------------------------
(***************************************************************************)
(* What an analysis, a cache entry and a cache are.                        *)
(***************************************************************************)
Unknown == "unknown"

NoVersion == "none"

\* What the extraction gives: the objects of the content, or those of none
\* when the analyzer panicked.
ExtractOf(c) == IF c \in Panicking THEN Unknown ELSE c

Analyze(c) ==
  [by |-> version, extract |-> ExtractOf(c),
   diagnostics |-> c \in Diagnosed \ Panicking]

\* The hash of a file that cannot be read is that of its path.
UnreadHash == "path"

Hash(p) == IF Readable(p) THEN disk[p] ELSE UnreadHash

\* A bug Entry could have: the hash taken when the build began.
EntryWithFirstHash(p) ==
  [by |-> index[p].by, extract |-> index[p].extract,
   hash |-> IF p \in DOMAIN hashes THEN hashes[p] ELSE UnreadHash,
   astray |-> astray[p]]

\* An entry is saved without the diagnostics, and with the hash its file has
\* when it is saved.
Entry(p) ==
  [by |-> index[p].by, extract |-> index[p].extract, hash |-> Hash(p),
   astray |-> astray[p]]

FromCache(entry) ==
  [by |-> entry.by, extract |-> entry.extract, diagnostics |-> FALSE]

\* No file; one that does not decode (also a file half written); entries.
Missing == [form |-> "missing"]

Broken == [form |-> "broken"]

Saved(v, entries) == [form |-> "saved", version |-> v, entries |-> entries]

-------------------------------------------------------------------------------
(***************************************************************************)
(* One build.                                                              *)
(***************************************************************************)

\* The walk lists the files there are, or fails the build.
Start(v) ==
  /\ step = "down" /\ starts < MaxStarts
  /\ version' = v
  /\ files' = {p \in Files : disk[p] # Absent}
  /\ todo' = files'
  /\ step' = "hash"
  /\ hashes' = Nothing
  /\ index' = Nothing
  /\ stale' = {}
  /\ widths' = Nothing
  /\ analyzed' = FALSE
  /\ draft' = Nothing
  /\ astray' = [p \in Files |-> "no"]
  /\ disturbed' = FALSE
  /\ starts' = starts + 1
  /\ UNCHANGED <<disk, cache, inStep, writes>>

\* One file of currentHashes; a file that cannot be read is left out.
HashFile ==
  /\ step = "hash" /\ todo # {}
  /\ LET p == Min(todo)
     IN  /\ todo' = todo \ {p}
         /\ hashes' = IF Readable(p) THEN Put(hashes, p, disk[p]) ELSE hashes
  /\ UNCHANGED <<disk, cache, step, version, files, index, stale, widths,
                 analyzed, draft, history, bounds>>

\* The entries whose hash is no longer that of their file.  One whose file was
\* not hashed is not stale.
StaleEntries(entries) ==
  {p \in DOMAIN entries \cap DOMAIN hashes : entries[p].hash # hashes[p]}

\* A bug Usable could have: any cache will do that decodes.
AnyVersionUsable == cache.form = "saved"

\* Only a cache of the session's own version is of use.
Usable == cache.form = "saved" /\ cache.version = version

\* A bug Load could have: the entries of a cache of another version are dropped,
\* and still held to be stale.
LoadStaleOnly ==
  /\ step = "hash" /\ todo = {}
  /\ index' = IF Usable THEN [p \in DOMAIN cache.entries |->
                                FromCache(cache.entries[p])]
                        ELSE Nothing
  /\ stale' = CASE Usable -> StaleEntries(cache.entries)
                [] ~Usable /\ cache.form = "saved" -> DOMAIN cache.entries
                [] OTHER -> {}
  /\ todo' = files
  /\ step' = "scan"
  /\ UNCHANGED <<disk, cache, version, files, hashes, widths, analyzed, draft,
                 history, bounds>>

\* The cache, read at once: every entry goes into the index, also that of a
\* file that is gone.  Missing, broken and of another version are alike.
Load ==
  /\ step = "hash" /\ todo = {}
  /\ index' = IF Usable THEN [p \in DOMAIN cache.entries |->
                                FromCache(cache.entries[p])]
                        ELSE Nothing
  /\ stale' = IF Usable THEN StaleEntries(cache.entries) ELSE {}
  /\ astray' = [p \in Files |->
                  IF astray[p] = "no" /\ Usable /\ p \in DOMAIN cache.entries
                    THEN cache.entries[p].astray ELSE astray[p]]
  /\ todo' = files
  /\ step' = "scan"
  /\ UNCHANGED <<disk, cache, version, files, hashes, widths, analyzed, draft,
                 disturbed, inStep, bounds>>

\* A bug ScanFile could have: a file that cannot be read is tried again.
ScanRetry ==
  /\ step = "scan" /\ todo # {}
  /\ LET p == Min(todo)
     IN  /\ todo' = IF disk[p] \in Contents THEN todo \ {p} ELSE todo
         /\ IF (p \in stale \/ p \notin DOMAIN index) /\ Readable(p)
              THEN /\ index' = Put(index, p, Analyze(disk[p]))
                   /\ widths' = Put(widths, p, disk[p])
                   /\ analyzed' = TRUE
              ELSE UNCHANGED <<index, widths, analyzed>>
  /\ UNCHANGED <<disk, cache, step, version, files, hashes, stale, draft,
                 history, bounds>>

\* One file of the scan.  What is in the index and not stale is not read; what
\* cannot be read, or is too large, keeps the entry it has.
ScanFile ==
  /\ step = "scan" /\ todo # {}
  /\ LET p == Min(todo)
     IN  /\ todo' = todo \ {p}
         /\ CASE p \in DOMAIN index \ stale ->
                   UNCHANGED <<index, widths, analyzed, astray>>
              [] p \notin DOMAIN index \ stale
                   /\ disk[p] \in Contents \ TooLarge ->
                   /\ index' = Put(index, p, Analyze(disk[p]))
                   /\ widths' = Put(widths, p, disk[p])
                   /\ analyzed' = TRUE
                   /\ astray' = [astray EXCEPT ![p] = "no"]
              [] OTHER ->
                   /\ astray' = IF p \in stale
                                  THEN [astray EXCEPT ![p] = "skipped"]
                                  ELSE astray
                   /\ UNCHANGED <<index, widths, analyzed>>
  /\ UNCHANGED <<disk, cache, step, version, files, hashes, stale, draft,
                 disturbed, inStep, bounds>>

ScanEnds ==
  /\ step = "scan" /\ todo = {}
  /\ todo' = (files \cap DOMAIN index) \ DOMAIN widths
  /\ step' = "widths"
  /\ UNCHANGED <<disk, cache, session, history, bounds>>

\* ensureLineWidths: one file that came from the cache.
WidenFile ==
  /\ step = "widths" /\ todo # {}
  /\ LET p == Min(todo)
     IN  /\ todo' = todo \ {p}
         /\ widths' = IF Readable(p) THEN Put(widths, p, disk[p]) ELSE widths
  /\ UNCHANGED <<disk, cache, step, version, files, hashes, index, stale,
                 analyzed, draft, history, bounds>>

\* A bug NeedsSave could have: a cache that is there is left as it is.
NeedsFirstSave == cache = Missing

NeedsSave == analyzed \/ cache = Missing

\* How the history goes on from a build that leaves the cache as it should be.
BuildInStep == inStep' = IF disturbed THEN NoVersion ELSE version

\* The index is saved unless the cache already holds it.
WidthsEnd ==
  /\ step = "widths" /\ todo = {}
  /\ IF NeedsSave
       THEN step' = "save" /\ todo' = DOMAIN index /\ UNCHANGED inStep
       ELSE step' = "built" /\ UNCHANGED todo /\ BuildInStep
  /\ UNCHANGED <<disk, cache, session, astray, disturbed, bounds>>

\* saveIndex reads every file once more, in the order of a Go map.
SaveEntry ==
  /\ step = "save"
  /\ \E p \in todo :
       /\ todo' = todo \ {p}
       /\ draft' = Put(draft, p, Entry(p))
  /\ UNCHANGED <<disk, cache, step, version, files, hashes, index, stale,
                 widths, analyzed, history, bounds>>

\* os.WriteFile truncates the file ...
WriteBegins ==
  /\ step = "save" /\ todo = {}
  /\ cache' = Broken
  /\ step' = "write"
  /\ inStep' = NoVersion
  /\ UNCHANGED <<disk, todo, session, astray, disturbed, bounds>>

\* ... and fills it; only then is the cache a cache again, unless it was
\* deleted meanwhile.
WriteEnds ==
  /\ step = "write"
  /\ cache' = IF cache = Missing THEN Missing ELSE Saved(version, draft)
  /\ step' = "built"
  /\ BuildInStep
  /\ UNCHANGED <<disk, todo, session, astray, disturbed, bounds>>

\* Neither a directory nor a file that cannot be written stops the build.
WriteFails ==
  /\ \/ step = "save" /\ todo = {}
     \/ step = "write"
  /\ step' = "built"
  /\ UNCHANGED <<disk, cache, todo, session, history, bounds>>

\* The walk fails, the context is cancelled, the session ends, or the process
\* dies: at any step, the file of a write that was under way broken.
Stop ==
  /\ step # "down"
  /\ step' = "down"
  /\ UNCHANGED <<disk, cache, todo, session, history, bounds>>

-------------------------------------------------------------------------------
(***************************************************************************)
(* Everything else that touches the files.                                 *)
(***************************************************************************)

\* No build has looked at p yet.
StillToRead(p) ==
  \/ step = "down"
  \/ step = "hash" /\ p \in todo

WriteFile(p, c) ==
  /\ writes < MaxWrites
  /\ c # disk[p]
  /\ disk' = [disk EXCEPT ![p] = c]
  /\ astray' = IF StillToRead(p) THEN astray
                                 ELSE [astray EXCEPT ![p] = "raced"]
  /\ disturbed' = TRUE
  /\ inStep' = NoVersion
  /\ writes' = writes + 1
  /\ UNCHANGED <<cache, step, todo, session, starts>>

\* A cache is safe to delete at any time (FR-40), and may be damaged.
LoseCache(form) ==
  /\ writes < MaxWrites
  /\ cache.form # form.form
  /\ cache' = form
  /\ inStep' = NoVersion
  /\ disturbed' = TRUE
  /\ writes' = writes + 1
  /\ UNCHANGED <<disk, step, todo, session, astray, starts>>

-------------------------------------------------------------------------------
Init ==
  /\ disk \in [Files -> Contents \cup {Absent, Locked}]
  /\ cache = Missing
  /\ step = "down"
  /\ version = NoVersion
  /\ files = {}
  /\ todo = {}
  /\ hashes = Nothing
  /\ index = Nothing
  /\ stale = {}
  /\ widths = Nothing
  /\ analyzed = FALSE
  /\ draft = Nothing
  /\ astray = [p \in Files |-> "no"]
  /\ disturbed = FALSE
  /\ inStep = NoVersion
  /\ starts = 0
  /\ writes = 0

BuildStep ==
  \/ HashFile \/ Load \/ ScanFile \/ ScanEnds \/ WidenFile \/ WidthsEnd
  \/ SaveEntry \/ WriteBegins \/ WriteEnds \/ WriteFails

WorldStep ==
  \/ Stop
  \/ \E v \in Versions : Start(v)
  \/ \E p \in Files, c \in Contents \cup {Absent, Locked} : WriteFile(p, c)
  \/ \E form \in {Missing, Broken} : LoseCache(form)

Next == BuildStep \/ WorldStep

\* The build waits on nothing but its own reads and writes.
Spec == Init /\ [][Next]_vars /\ WF_vars(BuildStep)

-------------------------------------------------------------------------------
(***************************************************************************)
(* Properties.                                                             *)
(***************************************************************************)
Steps == {"down", "hash", "scan", "widths", "save", "write", "built"}

AstrayReasons == {"no", "raced", "skipped"}

Extracts == Contents \cup {Unknown}

Entries == [by : Versions, extract : Extracts,
            hash : Contents \cup {UnreadHash}, astray : AstrayReasons]

DiskOK == disk \in [Files -> Contents \cup {Absent, Locked}]

EntriesOK(entries) ==
  /\ DOMAIN entries \subseteq Files
  /\ \A p \in DOMAIN entries : entries[p] \in Entries

CacheOK ==
  \/ cache \in {Missing, Broken}
  \/ /\ cache = Saved(cache.version, cache.entries)
     /\ cache.version \in Versions
     /\ EntriesOK(cache.entries)

SessionOK ==
  /\ step \in Steps
  /\ version \in Versions \cup {NoVersion}
  /\ files \subseteq Files /\ todo \subseteq Files
  /\ step \in {"hash", "scan"} => todo \subseteq files
  /\ analyzed \in BOOLEAN

HashesOK ==
  /\ DOMAIN hashes \subseteq files
  /\ \A p \in DOMAIN hashes : hashes[p] \in Contents

IndexOK ==
  /\ DOMAIN index \subseteq Files
  /\ \A p \in DOMAIN index :
       index[p].by \in Versions /\ index[p].extract \in Extracts
  /\ stale \subseteq DOMAIN index \cap files
  /\ DOMAIN widths \subseteq DOMAIN index
  /\ step = "hash" => widths = Nothing
  /\ step \in {"widths", "save"} => todo \subseteq DOMAIN index

HistoryOK ==
  /\ astray \in [Files -> AstrayReasons]
  /\ disturbed \in BOOLEAN
  /\ inStep \in Versions \cup {NoVersion}
  /\ starts \in 0 .. MaxStarts
  /\ writes \in 0 .. MaxWrites

\* The shape of the state; in particular what is stale is in the index, and
\* only what is in the index has line widths.
TypeOK ==
  /\ DiskOK
  /\ CacheOK
  /\ SessionOK
  /\ HashesOK
  /\ IndexOK
  /\ EntriesOK(draft)
  /\ HistoryOK

\* Honest entries: the extraction is that of the content the hash is of.
Honest(entries) ==
  \A p \in DOMAIN entries :
    entries[p].astray = "no" /\ entries[p].hash \in Contents
      => entries[p].extract = ExtractOf(entries[p].hash)

\* The hash and the analysis saved for a file are of one content, although
\* they come from reads at different times, unless the file was written
\* between them or could not be analyzed again; and all entries are of the
\* version that saved them.
CacheHonest ==
  cache.form = "saved" =>
    /\ Honest(cache.entries)
    /\ \A p \in DOMAIN cache.entries : cache.entries[p].by = cache.version

\* A session that starts from a cache, whatever crashes, changes and servers
\* of other versions were there before, has the index a build from scratch
\* would have, up to the diagnostics (FR-38, FR-39, NFR-8): for every file
\* nothing was wrong with, and with analyses of its own version alone.
WarmEqualsCold ==
  step = "built" =>
    /\ \A p \in DOMAIN index : index[p].by = version
    /\ \A p \in files : astray[p] = "no" /\ Readable(p) =>
         IF disk[p] \in TooLarge
           THEN p \notin DOMAIN index
           ELSE /\ p \in DOMAIN index
                /\ index[p].extract = ExtractOf(disk[p])
                /\ widths[p] = disk[p]

\* A start on a workspace its cache is in step with analyzes nothing (NFR-2,
\* FR-37), whatever could not be indexed the last time.
WarmStartIsFree ==
  step \in {"scan", "widths", "save"} /\ inStep = version => ~analyzed

\* The build ends, or the session does.
BuildEnds == step = "hash" ~> step \in {"built", "down"}

-------------------------------------------------------------------------------
(***************************************************************************)
(* Claims of the source that the code does not keep.                       *)
(***************************************************************************)

\* natural-lsp-prd.md:364 (NFR-8): the cache never serves stale results for
\* changed content.
NeverStale ==
  step = "built" /\ ~disturbed =>
    \A p \in files \cap DOMAIN index :
      Readable(p) => index[p].extract = ExtractOf(disk[p])
===============================================================================
