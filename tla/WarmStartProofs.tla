---------------------------- MODULE WarmStartProofs ----------------------------
(***************************************************************************)
(* Theorems of WarmStart, for any files, contents, versions and bounds.     *)
(*                                                                         *)
(* That a saved entry is honest is not inductive: the hash is read long     *)
(* after the analysis.  What carries it is that, from the load of the cache *)
(* on, the index is exact for every file nothing was wrong with (IndexExact *)
(* below), which rests on the hashes being exact when the cache is loaded   *)
(* (HashesExact) and on the cache being honest when it was saved.           *)
(*                                                                         *)
(* That a start in step with its cache analyzes nothing needs the reverse:  *)
(* that the cache lacks nothing (FreeInv, at the end).                      *)
(***************************************************************************)
EXTENDS WarmStart, TLAPS, WellFoundedInduction

EntryHonest(entry) ==
  entry.astray = "no" /\ entry.hash \in Contents =>
    /\ entry.extract = ExtractOf(entry.hash)
    /\ entry.hash \notin TooLarge

CacheInv ==
  cache.form = "saved" =>
    \A p \in DOMAIN cache.entries :
      EntryHonest(cache.entries[p]) /\ cache.entries[p].by = cache.version

DraftInv ==
  \A p \in DOMAIN draft : EntryHonest(draft[p]) /\ draft[p].by = version

Running == step # "down" => version \in Versions

\* While the files are hashed: one that was not there is not there yet, and
\* what was read of the others still holds, unless a write raced it.
HashExact(p) ==
  /\ astray[p] \in {"no", "raced"}
  /\ p \in todo => p \notin DOMAIN hashes
  /\ astray[p] = "no" /\ p \notin files => disk[p] = Absent
  /\ astray[p] = "no" /\ p \in files \ todo =>
       IF Readable(p) THEN p \in DOMAIN hashes /\ hashes[p] = disk[p]
                      ELSE p \notin DOMAIN hashes

HashesExact == step = "hash" => \A p \in Files : HashExact(p)

Loaded == step \in {"scan", "widths", "save", "write", "built"}

Fine(p) == astray[p] = "no" /\ Readable(p)

\* The scan has yet to look at p.
Awaited(p) == step = "scan" /\ p \in todo

IndexExact ==
  Loaded => \A p \in DOMAIN index :
    Fine(p) /\ ~(Awaited(p) /\ p \in stale) =>
      /\ index[p].extract = ExtractOf(disk[p])
      /\ disk[p] \notin TooLarge

IndexOfVersion == \A p \in DOMAIN index : index[p].by = version

IndexComplete ==
  Loaded => \A p \in Files :
    Fine(p) =>
      /\ p \in files
      /\ disk[p] \notin TooLarge /\ ~Awaited(p) => p \in DOMAIN index

WidthsExact ==
  Loaded => \A p \in DOMAIN widths : Fine(p) => widths[p] = disk[p]

WidthsComplete ==
  step \in {"widths", "save", "write", "built"} =>
    \A p \in files \cap DOMAIN index :
      Fine(p) => \/ p \in DOMAIN widths
                 \/ step = "widths" /\ p \in todo

IInv ==
  /\ TypeOK
  /\ Running
  /\ CacheInv
  /\ DraftInv
  /\ HashesExact
  /\ IndexExact
  /\ IndexOfVersion
  /\ IndexComplete
  /\ WidthsExact
  /\ WidthsComplete

\* The next file of a loop is one of those it has yet to visit.
LEMMA MinOfTodo ==
  ASSUME IInv, todo # {}
  PROVE  Min(todo) \in todo /\ Min(todo) \in Files
<1> SUFFICES Min(todo) \in todo
  BY DEF IInv, TypeOK, SessionOK
<1> DEFINE R == OpToRel(<, Nat)
<1>1. IsWellFoundedOn(R, Nat)
  BY NatLessThanWellFounded
<1>2. \A x, y \in Nat : x < y => <<x, y>> \in R
  BY Zenon DEF OpToRel
<1> HIDE DEF R
<1>3. todo \subseteq Nat
  BY WarmAssumption DEF IInv, TypeOK, SessionOK
<1>4. PICK x \in todo : \A y \in todo : ~ (<<y, x>> \in R)
  BY <1>1, <1>3, WFMin
<1>5. ASSUME NEW y \in todo PROVE x <= y
  <2>1. x \in Nat /\ y \in Nat
    BY <1>3
  <2>2. ~ (y < x)
    BY <1>2, <1>4, <2>1
  <2> QED
    BY <2>1, <2>2
<1> QED
  BY <1>5 DEF Min

\* A start forgets all of the session before it.
LEMMA StartKeeps ==
  ASSUME IInv, NEW v \in Versions, Start(v)
  PROVE  IInv'
<1>1. (DiskOK /\ SessionOK /\ CacheOK /\ HashesOK
       /\ IndexOK /\ EntriesOK(draft))'
  BY DEF IInv, TypeOK, SessionOK, IndexOK, HashesOK, Nothing, Start, Steps,
     CacheOK, EntriesOK, DiskOK
<1>2. HistoryOK'
  <2>1. starts' \in 0 .. MaxStarts
    BY WarmAssumption DEF IInv, TypeOK, HistoryOK, Start
  <2> QED
    BY <2>1 DEF IInv, TypeOK, HistoryOK, AstrayReasons, Start
<1>3. (Running /\ CacheInv /\ DraftInv)'
  BY DEF IInv, Nothing, Start, Running, CacheInv, DraftInv
<1>4. (HashesExact /\ IndexOfVersion)'
  BY DEF IInv, Nothing, Start, HashesExact, HashExact, IndexOfVersion
<1>5. (IndexExact /\ IndexComplete)'
  BY DEF IInv, Start, IndexExact, Loaded, IndexComplete
<1>6. (WidthsExact /\ WidthsComplete)'
  BY DEF IInv, Start, WidthsExact, Loaded, WidthsComplete
<1> QED
  BY <1>1, <1>2, <1>3, <1>4, <1>5, <1>6 DEF IInv, TypeOK

\* The next file is hashed as it is on disk.
LEMMA HashFileKeeps ==
  ASSUME IInv, HashFile
  PROVE  IInv'
<1>1. (DiskOK /\ SessionOK /\ CacheOK /\ IndexOK
       /\ EntriesOK(draft) /\ HistoryOK)'
  BY DEF IInv, TypeOK, HashFile, SessionOK, CacheOK, IndexOK, HistoryOK,
     history, bounds, DiskOK
<1>2. HashesOK'
  <2>1. Min(todo) \in files
    BY MinOfTodo DEF IInv, TypeOK, SessionOK, HashFile
  <2> QED
    BY <2>1 DEF IInv, TypeOK, HashesOK, HashFile, Put, Readable
<1>3. (Running /\ CacheInv /\ DraftInv)'
  BY DEF IInv, HashFile, Running, CacheInv, DraftInv
<1>4. (HashesExact /\ IndexOfVersion)'
  BY DEF IInv, history, Put, HashFile, HashesExact, HashExact, Readable,
     IndexOfVersion
<1>5. (IndexExact /\ IndexComplete)'
  BY DEF IInv, HashFile, IndexExact, Loaded, IndexComplete
<1>6. (WidthsExact /\ WidthsComplete)'
  BY DEF IInv, HashFile, WidthsExact, Loaded, WidthsComplete
<1> QED
  BY <1>1, <1>2, <1>3, <1>4, <1>5, <1>6 DEF IInv, TypeOK

\* What an honest cache has of a file that is as it was hashed is exact.
LEMMA LoadKeeps ==
  ASSUME IInv, Load
  PROVE  IInv'
<1>1. (DiskOK /\ SessionOK /\ CacheOK /\ HashesOK /\ EntriesOK(draft))'
  BY DEF IInv, TypeOK, Load, SessionOK, Steps, CacheOK, HashesOK, DiskOK
<1>2. IndexOK'
  <2>1. CASE ~Usable
    BY <2>1 DEF IInv, TypeOK, IndexOK, Load, Nothing
  <2>2. CASE Usable
    <3>1. EntriesOK(cache.entries)
      BY <2>2 DEF IInv, TypeOK, CacheOK, Usable, Missing, Broken
    <3>2. DOMAIN index' = DOMAIN cache.entries
      BY <2>2 DEF Load
    <3>3. stale' \subseteq DOMAIN index' \cap files
      BY <2>2, <3>2 DEF IInv, TypeOK, HashesOK, Load, StaleEntries
    <3>4. \A p \in DOMAIN index' :
            index'[p].by \in Versions /\ index'[p].extract \in Extracts
      BY <2>2, <3>1 DEF EntriesOK, Entries, Load, FromCache
    <3> QED
      BY <3>1, <3>2, <3>3, <3>4 DEF IInv, TypeOK, IndexOK, EntriesOK, Load,
         Nothing
  <2> QED
    BY <2>1, <2>2
<1>3. HistoryOK'
  <2>1. ASSUME Usable PROVE EntriesOK(cache.entries)
    BY <2>1 DEF IInv, TypeOK, CacheOK, Usable, Missing, Broken
  <2>2. \A p \in Files : astray'[p] \in AstrayReasons
    BY <2>1 DEF IInv, TypeOK, HistoryOK, EntriesOK, Entries, Load
  <2> QED
    BY <2>2 DEF IInv, TypeOK, HistoryOK, Load, bounds
<1>4. (Running /\ CacheInv /\ DraftInv)'
  BY DEF IInv, Load, Running, CacheInv, DraftInv
<1>5. HashesExact'
  BY DEF IInv, Load, HashesExact
<1>6. IndexOfVersion'
  BY DEF IInv, IndexOfVersion, CacheInv, Load, Usable, FromCache, Nothing
<1>7. IndexExact'
  <2> SUFFICES ASSUME NEW p \in DOMAIN index', Fine(p)',
                      ~(Awaited(p) /\ p \in stale)'
               PROVE  /\ index'[p].extract = ExtractOf(disk[p])
                      /\ disk[p] \notin TooLarge
    BY DEF IndexExact, Load
  <2>1. Usable /\ p \in DOMAIN cache.entries
    BY DEF Load, Nothing
  <2>2. p \in Files
    BY <2>1 DEF IInv, TypeOK, CacheOK, EntriesOK, Usable, Missing, Broken
  <2>3. astray[p] = "no" /\ cache.entries[p].astray = "no" /\ Readable(p)
    BY <2>1, <2>2 DEF Load, Fine, Readable
  <2>4. p \in files /\ p \in DOMAIN hashes /\ hashes[p] = disk[p]
    BY <2>2, <2>3, WarmAssumption DEF IInv, HashesExact, HashExact, Load,
       Readable
  <2>5. cache.entries[p].hash = disk[p]
    BY <2>1, <2>4 DEF Load, StaleEntries, Awaited
  <2> QED
    BY <2>1, <2>3, <2>5 DEF IInv, CacheInv, EntryHonest, Usable, Load,
       FromCache, Readable
<1>8. IndexComplete'
  <2>1. ASSUME NEW p \in Files, Fine(p)' PROVE p \in files
    <3>1. astray[p] = "no" /\ Readable(p)
      BY <2>1 DEF Fine, Load, Readable
    <3> QED
      BY <3>1, WarmAssumption DEF IInv, HashesExact, HashExact, Load, Readable
  <2> QED
    BY <2>1 DEF IndexComplete, Awaited, Load
<1>9. WidthsExact'
  BY DEF IInv, TypeOK, IndexOK, WidthsExact, Load, Nothing
<1>10. WidthsComplete'
  BY DEF IInv, Load, WidthsComplete
<1> QED
  BY <1>1, <1>2, <1>3, <1>4, <1>5, <1>6, <1>7, <1>8, <1>9, <1>10 DEF IInv, TypeOK

\* A file that is read is exact; one that is not was exact, or is astray.
LEMMA ScanFileKeeps ==
  ASSUME IInv, ScanFile
  PROVE  IInv'
<1>1. (DiskOK /\ SessionOK /\ CacheOK /\ HashesOK
       /\ EntriesOK(draft) /\ HistoryOK)'
  BY DEF IInv, TypeOK, SessionOK, HistoryOK, HashesOK, bounds, ScanFile,
     CacheOK, AstrayReasons, DiskOK
<1>2. IndexOK'
  <2> DEFINE p == Min(todo)
             new == Analyze(disk[p])
  <2>1. CASE UNCHANGED <<index, widths>>
    BY <2>1 DEF IInv, TypeOK, IndexOK, ScanFile
  <2>2. CASE /\ disk[p] \in Contents
             /\ index' = Put(index, p, new) /\ widths' = Put(widths, p, disk[p])
    <3>1. new.by \in Versions /\ new.extract \in Extracts
      BY <2>2 DEF IInv, Running, ScanFile, Analyze, ExtractOf, Extracts
    <3> HIDE DEF new
    <3> QED
      BY <2>2, <3>1, MinOfTodo DEF IInv, TypeOK, IndexOK, Put, ScanFile
  <2> QED
    BY <2>1, <2>2 DEF ScanFile
<1>3. (Running /\ CacheInv /\ DraftInv)'
  BY DEF IInv, ScanFile, Running, CacheInv, DraftInv
<1>4. (HashesExact /\ IndexOfVersion)'
  BY DEF IInv, Put, ScanFile, Analyze, HashesExact, IndexOfVersion
<1>5. IndexExact'
  BY DEF IInv, TypeOK, HistoryOK, IndexOK, Put, ScanFile, Analyze, IndexExact,
     Loaded, Fine, Awaited, Readable
<1>6. IndexComplete'
  <2> SUFFICES ASSUME NEW p \in Files, Fine(p)'
               PROVE  /\ p \in files
                      /\ disk[p] \notin TooLarge /\ ~Awaited(p)'
                           => p \in DOMAIN index'
    BY DEF IndexComplete, ScanFile
  <2>1. CASE p = Min(todo)
    BY <2>1, MinOfTodo DEF IInv, TypeOK, HistoryOK, SessionOK, IndexOK,
       IndexComplete, Loaded, ScanFile, Fine, Readable, Put
  <2>2. CASE p # Min(todo)
    BY <2>2 DEF IInv, TypeOK, HistoryOK, IndexComplete, Loaded, Awaited,
       ScanFile, Fine, Readable, Put
  <2> QED
    BY <2>1, <2>2
<1>7. (WidthsExact /\ WidthsComplete)'
  BY DEF IInv, TypeOK, HistoryOK, IndexOK, Put, ScanFile, WidthsExact, Loaded,
     Fine, Readable, WidthsComplete
<1> QED
  BY <1>1, <1>2, <1>3, <1>4, <1>5, <1>6, <1>7 DEF IInv, TypeOK

LEMMA ScanEndsKeeps ==
  ASSUME IInv, ScanEnds
  PROVE  IInv'
<1>1. (DiskOK /\ SessionOK /\ CacheOK /\ HashesOK
       /\ IndexOK /\ EntriesOK(draft) /\ HistoryOK)'
  BY DEF IInv, TypeOK, ScanEnds, SessionOK, Steps, CacheOK, HashesOK, IndexOK,
     HistoryOK, session, history, bounds, DiskOK
<1>2. (Running /\ CacheInv /\ DraftInv)'
  BY DEF IInv, ScanEnds, Running, CacheInv, DraftInv, session
<1>3. (HashesExact /\ IndexOfVersion)'
  BY DEF IInv, ScanEnds, HashesExact, IndexOfVersion, session
<1>4. (IndexExact /\ IndexComplete)'
  BY DEF IInv, ScanEnds, IndexExact, Loaded, Fine, Awaited, Readable,
     IndexComplete, session, history
<1>5. (WidthsExact /\ WidthsComplete)'
  BY DEF IInv, ScanEnds, WidthsExact, Loaded, Fine, Readable, WidthsComplete,
     session, history
<1> QED
  BY <1>1, <1>2, <1>3, <1>4, <1>5 DEF IInv, TypeOK

LEMMA WidenFileKeeps ==
  ASSUME IInv, WidenFile
  PROVE  IInv'
<1>1. (DiskOK /\ SessionOK /\ CacheOK /\ HashesOK
       /\ EntriesOK(draft) /\ HistoryOK)'
  BY DEF IInv, TypeOK, WidenFile, SessionOK, CacheOK, HashesOK, HistoryOK,
     history, bounds, DiskOK
<1>2. IndexOK'
  <2>1. Min(todo) \in DOMAIN index
    BY MinOfTodo DEF IInv, TypeOK, IndexOK, WidenFile
  <2> QED
    BY <2>1 DEF IInv, TypeOK, IndexOK, Extracts, WidenFile, Put
<1>3. (Running /\ CacheInv /\ DraftInv)'
  BY DEF IInv, WidenFile, Running, CacheInv, DraftInv
<1>4. (HashesExact /\ IndexOfVersion)'
  BY DEF IInv, WidenFile, HashesExact, IndexOfVersion
<1>5. (IndexExact /\ IndexComplete)'
  BY DEF IInv, WidenFile, IndexExact, Loaded, Fine, Awaited, Readable,
     IndexComplete, history
<1>6. (WidthsExact /\ WidthsComplete)'
  BY DEF IInv, history, Put, WidenFile, WidthsExact, Loaded, Fine, Readable,
     WidthsComplete
<1> QED
  BY <1>1, <1>2, <1>3, <1>4, <1>5, <1>6 DEF IInv, TypeOK

LEMMA WidthsEndKeeps ==
  ASSUME IInv, WidthsEnd
  PROVE  IInv'
<1>1. (DiskOK /\ SessionOK /\ CacheOK /\ HashesOK
       /\ IndexOK /\ EntriesOK(draft) /\ HistoryOK)'
  BY DEF IInv, TypeOK, WidthsEnd, BuildInStep, SessionOK, Steps, CacheOK,
     HashesOK, IndexOK, HistoryOK, session, bounds, DiskOK
<1>2. (Running /\ CacheInv /\ DraftInv)'
  BY DEF IInv, WidthsEnd, Running, CacheInv, DraftInv, session
<1>3. (HashesExact /\ IndexOfVersion)'
  BY DEF IInv, WidthsEnd, HashesExact, IndexOfVersion, session
<1>4. (IndexExact /\ IndexComplete)'
  BY DEF IInv, WidthsEnd, IndexExact, Loaded, Fine, Awaited, Readable,
     IndexComplete, session
<1>5. (WidthsExact /\ WidthsComplete)'
  BY DEF IInv, WidthsEnd, WidthsExact, Loaded, Fine, Readable, WidthsComplete,
     session
<1> QED
  BY <1>1, <1>2, <1>3, <1>4, <1>5 DEF IInv, TypeOK

\* The index is exact, so the hash of the moment is that of the analysis.
LEMMA SaveEntryKeeps ==
  ASSUME IInv, SaveEntry
  PROVE  IInv'
<1>1. (DiskOK /\ SessionOK /\ CacheOK /\ HashesOK /\ IndexOK /\ HistoryOK)'
  BY DEF IInv, TypeOK, SaveEntry, SessionOK, CacheOK, HashesOK, IndexOK,
     HistoryOK, history, bounds, DiskOK
<1>2. EntriesOK(draft)'
  <2> PICK p \in todo : draft' = Put(draft, p, Entry(p))
    BY DEF SaveEntry
  <2>1. Entry(p) \in Entries
    BY DEF IInv, TypeOK, SessionOK, IndexOK, HistoryOK, SaveEntry, Entry,
       Entries, Hash, Readable
  <2> QED
    BY <2>1 DEF IInv, TypeOK, SessionOK, EntriesOK, Put, SaveEntry
<1>3. (Running /\ CacheInv)'
  BY DEF IInv, SaveEntry, Running, CacheInv
<1>4. DraftInv'
  <2> PICK p \in todo : draft' = Put(draft, p, Entry(p))
    BY DEF SaveEntry
  <2>1. p \in DOMAIN index
    BY DEF IInv, TypeOK, IndexOK, SaveEntry
  <2>2. EntryHonest(Entry(p))
    BY <2>1, WarmAssumption DEF IInv, IndexExact, Loaded, Fine, Awaited,
       EntryHonest, Entry, Hash, UnreadHash, Readable, SaveEntry
  <2>3. Entry(p).by = version
    BY <2>1 DEF IInv, IndexOfVersion, Entry
  <2> QED
    BY <2>2, <2>3 DEF IInv, DraftInv, Put, SaveEntry, EntryHonest
<1>5. (HashesExact /\ IndexOfVersion)'
  BY DEF IInv, SaveEntry, HashesExact, IndexOfVersion
<1>6. (IndexExact /\ IndexComplete)'
  BY DEF IInv, SaveEntry, IndexExact, Loaded, Fine, Awaited, Readable,
     IndexComplete, history
<1>7. (WidthsExact /\ WidthsComplete)'
  BY DEF IInv, SaveEntry, WidthsExact, Loaded, Fine, Readable, WidthsComplete,
     history
<1> QED
  BY <1>1, <1>2, <1>3, <1>4, <1>5, <1>6, <1>7 DEF IInv, TypeOK

LEMMA WriteBeginsKeeps ==
  ASSUME IInv, WriteBegins
  PROVE  IInv'
<1>1. (DiskOK /\ SessionOK /\ CacheOK /\ HashesOK
       /\ IndexOK /\ EntriesOK(draft) /\ HistoryOK)'
  BY DEF IInv, TypeOK, WriteBegins, SessionOK, Steps, CacheOK, HashesOK,
     IndexOK, HistoryOK, session, bounds, DiskOK
<1>2. (Running /\ CacheInv /\ DraftInv)'
  BY DEF IInv, WriteBegins, Broken, Running, CacheInv, DraftInv, session
<1>3. (HashesExact /\ IndexOfVersion)'
  BY DEF IInv, WriteBegins, HashesExact, IndexOfVersion, session
<1>4. (IndexExact /\ IndexComplete)'
  BY DEF IInv, WriteBegins, IndexExact, Loaded, Fine, Awaited, Readable,
     IndexComplete, session
<1>5. (WidthsExact /\ WidthsComplete)'
  BY DEF IInv, WriteBegins, WidthsExact, Loaded, Fine, Readable,
     WidthsComplete, session
<1> QED
  BY <1>1, <1>2, <1>3, <1>4, <1>5 DEF IInv, TypeOK

\* The draft is honest, so is the cache.
LEMMA WriteEndsKeeps ==
  ASSUME IInv, WriteEnds
  PROVE  IInv'
<1>1. (DiskOK /\ SessionOK /\ HashesOK /\ IndexOK
       /\ EntriesOK(draft) /\ HistoryOK)'
  BY DEF IInv, TypeOK, WriteEnds, BuildInStep, SessionOK, Steps, HashesOK,
     IndexOK, HistoryOK, session, bounds, DiskOK
<1>2. CacheOK'
  <2>1. CASE cache = Missing
    BY <2>1 DEF WriteEnds, CacheOK
  <2>2. CASE cache # Missing
    <3>1. version \in Versions
      BY DEF IInv, Running, WriteEnds
    <3> QED
      BY <2>2, <3>1 DEF IInv, TypeOK, WriteEnds, CacheOK, Saved
  <2> QED
    BY <2>1, <2>2
<1>3. (Running /\ DraftInv)'
  BY DEF IInv, WriteEnds, Running, DraftInv, session
<1>4. CacheInv'
  <2>1. CASE cache = Missing
    BY <2>1 DEF IInv, WriteEnds, CacheInv, EntryHonest, Missing
  <2>2. CASE cache # Missing
    BY <2>2 DEF IInv, WriteEnds, CacheInv, DraftInv, EntryHonest, Saved
  <2> QED
    BY <2>1, <2>2
<1>5. (HashesExact /\ IndexOfVersion)'
  BY DEF IInv, WriteEnds, HashesExact, IndexOfVersion, session
<1>6. (IndexExact /\ IndexComplete)'
  BY DEF IInv, WriteEnds, IndexExact, Loaded, Fine, Awaited, Readable,
     IndexComplete, session
<1>7. (WidthsExact /\ WidthsComplete)'
  BY DEF IInv, WriteEnds, WidthsExact, Loaded, Fine, Readable, WidthsComplete,
     session
<1> QED
  BY <1>1, <1>2, <1>3, <1>4, <1>5, <1>6, <1>7 DEF IInv, TypeOK

LEMMA WriteFailsKeeps ==
  ASSUME IInv, WriteFails
  PROVE  IInv'
<1>1. (DiskOK /\ SessionOK /\ CacheOK /\ HashesOK
       /\ IndexOK /\ EntriesOK(draft) /\ HistoryOK)'
  BY DEF IInv, TypeOK, WriteFails, SessionOK, Steps, CacheOK, HashesOK,
     IndexOK, HistoryOK, session, history, bounds, DiskOK
<1>2. (Running /\ CacheInv /\ DraftInv)'
  BY DEF IInv, WriteFails, Running, CacheInv, DraftInv, session
<1>3. (HashesExact /\ IndexOfVersion)'
  BY DEF IInv, WriteFails, HashesExact, IndexOfVersion, session
<1>4. (IndexExact /\ IndexComplete)'
  BY DEF IInv, WriteFails, IndexExact, Loaded, Fine, Awaited, Readable,
     IndexComplete, session, history
<1>5. (WidthsExact /\ WidthsComplete)'
  BY DEF IInv, WriteFails, WidthsExact, Loaded, Fine, Readable, WidthsComplete,
     session, history
<1> QED
  BY <1>1, <1>2, <1>3, <1>4, <1>5 DEF IInv, TypeOK

LEMMA StopKeeps ==
  ASSUME IInv, Stop
  PROVE  IInv'
<1>1. (DiskOK /\ SessionOK /\ CacheOK /\ HashesOK
       /\ IndexOK /\ EntriesOK(draft) /\ HistoryOK)'
  BY DEF IInv, TypeOK, Stop, SessionOK, Steps, CacheOK, HashesOK, IndexOK,
     HistoryOK, session, history, bounds, DiskOK
<1>2. (Running /\ CacheInv /\ DraftInv)'
  BY DEF IInv, Stop, Running, CacheInv, DraftInv, session
<1>3. (HashesExact /\ IndexOfVersion)'
  BY DEF IInv, Stop, HashesExact, IndexOfVersion, session
<1>4. (IndexExact /\ IndexComplete)'
  BY DEF IInv, Stop, IndexExact, Loaded, IndexComplete
<1>5. (WidthsExact /\ WidthsComplete)'
  BY DEF IInv, Stop, WidthsExact, Loaded, WidthsComplete
<1> QED
  BY <1>1, <1>2, <1>3, <1>4, <1>5 DEF IInv, TypeOK

\* A write makes a file that was looked at astray.
LEMMA WriteFileKeeps ==
  ASSUME IInv, NEW p \in Files, NEW c \in Contents \cup {Absent, Locked},
         WriteFile(p, c)
  PROVE  IInv'
<1>1. (DiskOK /\ SessionOK /\ CacheOK /\ HashesOK
       /\ IndexOK /\ EntriesOK(draft))'
  BY DEF IInv, TypeOK, WriteFile, SessionOK, CacheOK, HashesOK, IndexOK,
     session, DiskOK
<1>2. HistoryOK'
  <2>1. writes' \in 0 .. MaxWrites
    BY WarmAssumption DEF IInv, TypeOK, HistoryOK, WriteFile
  <2> QED
    BY <2>1 DEF IInv, TypeOK, HistoryOK, AstrayReasons, WriteFile
<1>3. (Running /\ CacheInv /\ DraftInv)'
  BY DEF IInv, WriteFile, Running, CacheInv, DraftInv, session
<1>4. HashesExact'
  <2> SUFFICES ASSUME step = "hash", NEW q \in Files
               PROVE  HashExact(q)'
    BY DEF HashesExact, WriteFile
  <2>1. HashExact(q)
    BY DEF IInv, HashesExact
  <2>2. CASE q = p
    BY <2>1, <2>2 DEF IInv, TypeOK, HistoryOK, SessionOK, HashExact, WriteFile,
       StillToRead, Readable, session
  <2>3. CASE q # p
    BY <2>1, <2>3 DEF IInv, TypeOK, HistoryOK, HashExact, WriteFile, Readable,
       session
  <2> QED
    BY <2>2, <2>3
<1>5. IndexOfVersion'
  BY DEF IInv, WriteFile, IndexOfVersion, session
<1>6. (IndexExact /\ IndexComplete)'
  BY DEF IInv, TypeOK, HistoryOK, session, WriteFile, StillToRead, IndexExact,
     Loaded, Fine, Awaited, Readable, IndexComplete
<1>7. (WidthsExact /\ WidthsComplete)'
  BY DEF IInv, TypeOK, HistoryOK, session, WriteFile, StillToRead, WidthsExact,
     Loaded, Fine, Readable, WidthsComplete
<1> QED
  BY <1>1, <1>2, <1>3, <1>4, <1>5, <1>6, <1>7 DEF IInv, TypeOK

LEMMA LoseCacheKeeps ==
  ASSUME IInv, NEW form \in {Missing, Broken}, LoseCache(form)
  PROVE  IInv'
<1>1. (DiskOK /\ SessionOK /\ CacheOK /\ HashesOK
       /\ IndexOK /\ EntriesOK(draft))'
  BY DEF IInv, TypeOK, LoseCache, SessionOK, CacheOK, HashesOK, IndexOK,
     session, DiskOK
<1>2. HistoryOK'
  <2>1. writes' \in 0 .. MaxWrites
    BY WarmAssumption DEF IInv, TypeOK, HistoryOK, LoseCache
  <2> QED
    BY <2>1 DEF IInv, TypeOK, HistoryOK, LoseCache
<1>3. (Running /\ CacheInv /\ DraftInv)'
  BY DEF IInv, LoseCache, Missing, Broken, Running, CacheInv, DraftInv, session
<1>4. (HashesExact /\ IndexOfVersion)'
  BY DEF IInv, LoseCache, HashesExact, HashExact, Readable, IndexOfVersion,
     session
<1>5. (IndexExact /\ IndexComplete)'
  BY DEF IInv, LoseCache, IndexExact, Loaded, Fine, Awaited, Readable,
     IndexComplete, session
<1>6. (WidthsExact /\ WidthsComplete)'
  BY DEF IInv, LoseCache, WidthsExact, Loaded, Fine, Readable, WidthsComplete,
     session
<1> QED
  BY <1>1, <1>2, <1>3, <1>4, <1>5, <1>6 DEF IInv, TypeOK

-------------------------------------------------------------------------------
LEMMA InitHolds == Init => IInv
<1> SUFFICES ASSUME Init PROVE IInv
  OBVIOUS
<1>1. TypeOK
  <2>1. DiskOK /\ CacheOK /\ SessionOK
    BY DEF Init, DiskOK, CacheOK, SessionOK, Steps
  <2>2. HashesOK /\ IndexOK /\ EntriesOK(draft)
    BY DEF Init, HashesOK, IndexOK, EntriesOK, Nothing
  <2>3. HistoryOK
    <3>1. starts \in 0 .. MaxStarts /\ writes \in 0 .. MaxWrites
      BY WarmAssumption DEF Init
    <3>2. astray \in [Files -> AstrayReasons]
      BY DEF Init, AstrayReasons
    <3> QED
      BY <3>1, <3>2 DEF Init, HistoryOK
  <2> QED
    BY <2>1, <2>2, <2>3 DEF TypeOK
<1> QED
  BY <1>1 DEF Init, IInv, Running, CacheInv, DraftInv, HashesExact, IndexExact,
     IndexOfVersion, IndexComplete, WidthsExact, WidthsComplete, Loaded,
     Missing, Nothing

LEMMA StutterKeeps ==
  ASSUME IInv, UNCHANGED vars
  PROVE  IInv'
<1>1. TypeOK'
  BY DEF IInv, vars, session, history, bounds, TypeOK, DiskOK, CacheOK,
     SessionOK, HashesOK, IndexOK, EntriesOK, HistoryOK
<1>2. (Running /\ CacheInv /\ DraftInv)'
  BY DEF IInv, vars, session, Running, CacheInv, DraftInv
<1>3. (HashesExact /\ IndexOfVersion)'
  BY DEF IInv, vars, session, history, HashesExact, HashExact, Readable,
     IndexOfVersion
<1>4. (IndexExact /\ IndexComplete)'
  BY DEF IInv, vars, session, history, IndexExact, IndexComplete, Loaded, Fine,
     Awaited, Readable
<1>5. (WidthsExact /\ WidthsComplete)'
  BY DEF IInv, vars, session, history, WidthsExact, WidthsComplete, Loaded,
     Fine, Readable
<1> QED
  BY <1>1, <1>2, <1>3, <1>4, <1>5 DEF IInv

LEMMA StepHolds == IInv /\ [Next]_vars => IInv'
<1> SUFFICES ASSUME IInv, [Next]_vars PROVE IInv'
  OBVIOUS
<1>1. CASE BuildStep
  BY <1>1, HashFileKeeps, LoadKeeps, ScanFileKeeps, ScanEndsKeeps,
     WidenFileKeeps, WidthsEndKeeps, SaveEntryKeeps, WriteBeginsKeeps,
     WriteEndsKeeps, WriteFailsKeeps DEF BuildStep
<1>2. CASE WorldStep
  BY <1>2, StopKeeps, StartKeeps, WriteFileKeeps, LoseCacheKeeps DEF WorldStep
<1>3. CASE UNCHANGED vars
  BY <1>3, StutterKeeps
<1> QED
  BY <1>1, <1>2, <1>3 DEF Next

LEMMA InvHolds == Spec => []IInv
BY InitHolds, StepHolds, PTL DEF Spec

\* Every state has its shape; in particular every entry of the cache file is of
\* a file and of a version there is.
THEOREM ShapeHolds == Spec => []TypeOK
<1>1. IInv => TypeOK
  BY DEF IInv
<1> QED
  BY <1>1, InvHolds, PTL

\* Whatever is written when, and however often the cache is loaded and saved
\* again, a saved entry has the analysis of the content its hash is of, unless
\* the file was written in between or could not be read (saveIndex).
THEOREM CacheStaysHonest == Spec => []CacheHonest
<1>1. IInv => CacheHonest
  BY DEF IInv, CacheInv, EntryHonest, CacheHonest, Honest
<1> QED
  BY <1>1, InvHolds, PTL

\* After any sessions, crashes and changes, a build that is over has the
\* index and the line widths of a build without a cache (BuildWithCache).
THEOREM WarmStartIsCold == Spec => []WarmEqualsCold
<1>1. ASSUME IInv PROVE WarmEqualsCold
  <2> SUFFICES ASSUME step = "built" PROVE WarmEqualsCold
    BY DEF WarmEqualsCold
  <2>1. \A p \in DOMAIN index : index[p].by = version
    BY <1>1 DEF IInv, IndexOfVersion
  <2>2. ASSUME NEW p \in files, Fine(p), disk[p] \in TooLarge
        PROVE  p \notin DOMAIN index
    BY <1>1, <2>2 DEF IInv, IndexExact, Loaded, Awaited
  <2>3. ASSUME NEW p \in files, Fine(p), disk[p] \notin TooLarge
        PROVE  /\ p \in DOMAIN index
               /\ index[p].extract = ExtractOf(disk[p])
               /\ widths[p] = disk[p]
    <3>1. p \in DOMAIN index
      BY <1>1, <2>3 DEF IInv, TypeOK, SessionOK, IndexComplete, Loaded, Awaited
    <3>2. index[p].extract = ExtractOf(disk[p])
      BY <1>1, <2>3, <3>1 DEF IInv, IndexExact, Loaded, Awaited
    <3>3. widths[p] = disk[p]
      BY <1>1, <2>3, <3>1 DEF IInv, WidthsExact, WidthsComplete, Loaded
    <3> QED
      BY <3>1, <3>2, <3>3
  <2> QED
    BY <2>1, <2>2, <2>3 DEF WarmEqualsCold, Fine
<1> QED
  BY <1>1, InvHolds, PTL

-------------------------------------------------------------------------------
(***************************************************************************)
(* A start in step with its cache analyzes nothing.  The history variable  *)
(* inStep is about builds that are over; what it says of the cache and of  *)
(* the build under way is the invariant here.                              *)
(***************************************************************************)

\* A file that is indexed whenever a build comes to it.
Wanted(p) == disk[p] \in Contents \ TooLarge

\* The cache of the version has the content the file has.
Held(p, v) ==
  /\ cache.form = "saved"
  /\ cache.version = v
  /\ p \in DOMAIN cache.entries
  /\ cache.entries[p].hash = disk[p]

\* In step with the files, the cache holds all that are wanted.  It may be of
\* another version, or broken, when there is none.
InStepHolds ==
  inStep # NoVersion =>
    /\ step # "down" => ~disturbed
    /\ \A p \in Files : Wanted(p) => Held(p, inStep)

Calm == step # "down" /\ ~disturbed

CalmHashes ==
  Calm => \A p \in Files :
    /\ Wanted(p) => p \in files
    /\ p \in DOMAIN hashes => hashes[p] = disk[p]
    /\ Wanted(p) /\ ~(step = "hash" /\ p \in todo) => p \in DOMAIN hashes

\* Until something is analyzed, the index is what the cache holds.
CalmIndex ==
  Calm /\ step \in {"scan", "widths"} => \A p \in Files :
    /\ Wanted(p) /\ ~analyzed /\ p \in DOMAIN index \ stale =>
         Held(p, version)
    /\ Wanted(p) /\ ~Awaited(p) =>
         p \in DOMAIN index /\ (analyzed \/ p \notin stale)

CalmDraft ==
  /\ Calm /\ step \in {"save", "write"} => \A p \in Files :
       Wanted(p) => \/ step = "save" /\ p \in todo
                    \/ p \in DOMAIN draft /\ draft[p].hash = disk[p]
  /\ Calm /\ step = "write" => cache = Broken

WarmIsFree ==
  /\ step = "hash" => ~analyzed
  /\ WarmStartIsFree
  /\ step = "scan" /\ inStep = version =>
       \A p \in Files : Wanted(p) => p \in DOMAIN index \ stale

Free ==
  /\ InStepHolds
  /\ CalmHashes
  /\ CalmIndex
  /\ CalmDraft
  /\ WarmIsFree

FreeInv == IInv /\ Free

\* A start finds the cache and the files as they are: in step, if they were.
LEMMA StartIsFree ==
  ASSUME FreeInv, NEW v \in Versions, Start(v)
  PROVE  Free'
<1>1. \A p \in Files : Wanted(p)' <=> Wanted(p)
  BY DEF Start, Wanted
<1>2. InStepHolds'
  BY DEF FreeInv, Free, InStepHolds, Start, Wanted, Held
<1>3. CalmHashes'
  BY WarmAssumption DEF CalmHashes, Start, Wanted, Nothing
<1>4. (CalmIndex /\ CalmDraft)'
  BY DEF CalmIndex, CalmDraft, Start
<1>5. WarmIsFree'
  BY DEF WarmIsFree, WarmStartIsFree, Start
<1> QED
  BY <1>2, <1>3, <1>4, <1>5 DEF Free

\* What is hashed is what the file holds.
LEMMA HashFileIsFree ==
  ASSUME FreeInv, HashFile
  PROVE  Free'
<1>1. InStepHolds'
  BY DEF FreeInv, Free, InStepHolds, HashFile, history, Wanted, Held
<1>2. CalmHashes'
  BY DEF FreeInv, Free, CalmHashes, Calm, HashFile, history, Wanted, Put,
     Readable
<1>3. (CalmIndex /\ CalmDraft)'
  BY DEF CalmIndex, CalmDraft, HashFile
<1>4. WarmIsFree'
  BY DEF FreeInv, Free, WarmIsFree, WarmStartIsFree, HashFile
<1> QED
  BY <1>1, <1>2, <1>3, <1>4 DEF Free

\* The cache of the session's own version, when it is in step with the files,
\* is of use and has no entry that is stale and wanted.
LEMMA LoadIsFree ==
  ASSUME FreeInv, Load
  PROVE  Free'
<1>1. InStepHolds'
  BY DEF FreeInv, Free, InStepHolds, Load, Wanted, Held
<1>2. CalmHashes'
  BY DEF FreeInv, Free, CalmHashes, Calm, Load, Wanted
<1>3. CalmIndex'
  <2> SUFFICES ASSUME Calm, NEW p \in Files, Wanted(p)
               PROVE  /\ p \in DOMAIN index' \ stale' => Held(p, version)
                      /\ p \in todo'
    BY DEF FreeInv, Free, WarmIsFree, CalmIndex, Calm, Load, Wanted, Held,
       Awaited
  <2>1. p \in files /\ p \in DOMAIN hashes /\ hashes[p] = disk[p]
    BY DEF FreeInv, Free, CalmHashes, Load
  <2>2. ASSUME p \in DOMAIN index' \ stale'
        PROVE  Held(p, version)
    BY <2>1, <2>2 DEF Load, Nothing, Usable, StaleEntries, Held
  <2> QED
    BY <2>1, <2>2 DEF Load
<1>4. CalmDraft'
  BY DEF CalmDraft, Load
<1>5. WarmIsFree'
  <2>1. ~ analyzed'
    BY DEF FreeInv, Free, WarmIsFree, Load
  <2>2. ASSUME inStep = version, NEW p \in Files, Wanted(p)
        PROVE  p \in DOMAIN index' \ stale'
    <3>1. version \in Versions /\ version # NoVersion
      BY WarmAssumption DEF FreeInv, IInv, Running, Load, NoVersion
    <3>2. Calm /\ Held(p, version)
      BY <2>2, <3>1 DEF FreeInv, Free, InStepHolds, Calm, Load
    <3>3. p \in DOMAIN hashes /\ hashes[p] = disk[p]
      BY <2>2, <3>2 DEF FreeInv, Free, CalmHashes, Load
    <3> QED
      BY <3>2, <3>3 DEF Load, Usable, StaleEntries, Held
  <2> QED
    BY <2>1, <2>2 DEF WarmIsFree, WarmStartIsFree, Load, Wanted
<1> QED
  BY <1>1, <1>2, <1>3, <1>4, <1>5 DEF Free

\* A scan that finds a file wanted and not held is not one in step.
LEMMA ScanFileIsFree ==
  ASSUME FreeInv, ScanFile
  PROVE  Free'
<1> DEFINE f == Min(todo)
           read == /\ f \notin DOMAIN index \ stale
                   /\ disk[f] \in Contents \ TooLarge
<1>1. /\ read => /\ index' = Put(index, f, Analyze(disk[f]))
                 /\ analyzed'
      /\ ~ read => UNCHANGED <<index, analyzed>>
  BY DEF ScanFile
<1>2. f \in todo /\ f \in Files /\ todo' = todo \ {f}
  BY MinOfTodo DEF FreeInv, ScanFile
<1>3. UNCHANGED <<disk, cache, step, version, files, hashes, stale, draft,
                  disturbed, inStep>> /\ step = "scan"
  BY DEF ScanFile
<1> HIDE DEF f
<1>4. InStepHolds'
  BY <1>3 DEF FreeInv, Free, InStepHolds, Wanted, Held
<1>5. CalmHashes'
  BY <1>3 DEF FreeInv, Free, CalmHashes, Calm, Wanted
<1>6. CalmIndex'
  <2> SUFFICES ASSUME Calm, NEW p \in Files, Wanted(p)
               PROVE  /\ ~analyzed' /\ p \in DOMAIN index' \ stale =>
                           Held(p, version)
                      /\ ~Awaited(p)' =>
                           /\ p \in DOMAIN index'
                           /\ analyzed' \/ p \notin stale
    BY <1>3 DEF CalmIndex, Calm, Wanted, Held, Awaited
  <2>1. /\ ~analyzed /\ p \in DOMAIN index \ stale => Held(p, version)
        /\ ~Awaited(p) => p \in DOMAIN index /\ (analyzed \/ p \notin stale)
    BY <1>3 DEF FreeInv, Free, CalmIndex
  <2>2. CASE read
    BY <1>1, <1>2, <1>3, <2>1, <2>2 DEF Put, Awaited
  <2>3. CASE ~ read
    <3>1. UNCHANGED <<index, analyzed>>
      BY <1>1, <2>3
    <3>2. p = f => p \in DOMAIN index \ stale
      BY <2>3 DEF Wanted
    <3> QED
      BY <1>2, <1>3, <2>1, <3>1, <3>2 DEF Awaited
  <2> QED
    BY <2>2, <2>3
<1>7. CalmDraft'
  BY <1>3 DEF CalmDraft
<1>8. WarmIsFree'
  <2>1. inStep = version => ~ read /\ ~ analyzed
    BY <1>2, <1>3 DEF FreeInv, Free, WarmIsFree, WarmStartIsFree, Wanted
  <2> QED
    BY <1>1, <1>3, <2>1 DEF FreeInv, Free, WarmIsFree, WarmStartIsFree, Wanted
<1> QED
  BY <1>4, <1>5, <1>6, <1>7, <1>8 DEF Free

LEMMA ScanEndsIsFree ==
  ASSUME FreeInv, ScanEnds
  PROVE  Free'
<1>1. InStepHolds'
  BY DEF FreeInv, Free, InStepHolds, ScanEnds, history, Wanted, Held
<1>2. CalmHashes'
  BY DEF FreeInv, Free, CalmHashes, Calm, ScanEnds, session, history, Wanted
<1>3. CalmIndex'
  BY DEF FreeInv, Free, CalmIndex, Calm, ScanEnds, session, history, Wanted,
     Held, Awaited
<1>4. CalmDraft'
  BY DEF CalmDraft, ScanEnds
<1>5. WarmIsFree'
  BY DEF FreeInv, Free, WarmIsFree, WarmStartIsFree, ScanEnds, session, history
<1> QED
  BY <1>1, <1>2, <1>3, <1>4, <1>5 DEF Free

LEMMA WidenFileIsFree ==
  ASSUME FreeInv, WidenFile
  PROVE  Free'
<1>1. InStepHolds'
  BY DEF FreeInv, Free, InStepHolds, WidenFile, history, Wanted, Held
<1>2. CalmHashes'
  BY DEF FreeInv, Free, CalmHashes, Calm, WidenFile, history, Wanted
<1>3. CalmIndex'
  BY DEF FreeInv, Free, CalmIndex, Calm, WidenFile, history, Wanted, Held,
     Awaited
<1>4. CalmDraft'
  BY DEF CalmDraft, WidenFile
<1>5. WarmIsFree'
  BY DEF FreeInv, Free, WarmIsFree, WarmStartIsFree, WidenFile, history
<1> QED
  BY <1>1, <1>2, <1>3, <1>4, <1>5 DEF Free

\* A build that analyzed nothing found in the cache all there is.
LEMMA WidthsEndIsFree ==
  ASSUME FreeInv, WidthsEnd
  PROVE  Free'
<1>0. /\ UNCHANGED <<disk, cache, version, files, hashes, index, stale,
                     analyzed, draft, disturbed>>
      /\ step = "widths" /\ todo = {}
  BY DEF WidthsEnd, session
<1>1. CASE NeedsSave
  <2>1. step' = "save" /\ todo' = DOMAIN index /\ inStep' = inStep
    BY <1>1 DEF WidthsEnd
  <2>2. InStepHolds'
    BY <1>0, <2>1 DEF FreeInv, Free, InStepHolds, Wanted, Held
  <2>3. (CalmHashes /\ CalmIndex)'
    BY <1>0, <2>1 DEF FreeInv, Free, CalmHashes, CalmIndex, Calm, Wanted
  <2>4. CalmDraft'
    BY <1>0, <2>1 DEF FreeInv, Free, CalmDraft, CalmIndex, Calm, Wanted, Awaited
  <2>5. WarmIsFree'
    BY <1>0, <2>1 DEF FreeInv, Free, WarmIsFree, WarmStartIsFree
  <2> QED
    BY <2>2, <2>3, <2>4, <2>5 DEF Free
<1>2. CASE ~ NeedsSave
  <2>1. /\ step' = "built" /\ todo' = todo /\ ~ analyzed
        /\ inStep' = IF disturbed THEN NoVersion ELSE version
    BY <1>2 DEF WidthsEnd, NeedsSave, BuildInStep
  <2>2. InStepHolds'
    <3> SUFFICES ASSUME ~ disturbed, NEW p \in Files, Wanted(p)
                 PROVE  Held(p, version)
      BY <1>0, <2>1 DEF InStepHolds, Wanted, Held
    <3> QED
      BY <1>0, <2>1 DEF FreeInv, Free, CalmIndex, Calm, Awaited
  <2>3. (CalmHashes /\ CalmIndex /\ CalmDraft)'
    BY <1>0, <2>1 DEF FreeInv, Free, CalmHashes, CalmIndex, CalmDraft, Calm,
       Wanted
  <2>4. WarmIsFree'
    BY <2>1 DEF WarmIsFree, WarmStartIsFree
  <2> QED
    BY <2>2, <2>3, <2>4 DEF Free
<1> QED
  BY <1>1, <1>2

\* The hash that is saved is that of the content there is.
LEMMA SaveEntryIsFree ==
  ASSUME FreeInv, SaveEntry
  PROVE  Free'
<1>1. InStepHolds'
  BY DEF FreeInv, Free, InStepHolds, SaveEntry, history, Wanted, Held
<1>2. (CalmHashes /\ CalmIndex)'
  BY DEF FreeInv, Free, CalmHashes, CalmIndex, Calm, SaveEntry, history, Wanted
<1>3. CalmDraft'
  <2> PICK f \in todo : todo' = todo \ {f} /\ draft' = Put(draft, f, Entry(f))
    BY DEF SaveEntry
  <2>1. Wanted(f) => Entry(f).hash = disk[f]
    BY DEF Wanted, Entry, Hash, Readable
  <2> QED
    BY <2>1 DEF FreeInv, Free, CalmDraft, Calm, SaveEntry, history, Wanted, Put
<1>4. WarmIsFree'
  BY DEF FreeInv, Free, WarmIsFree, WarmStartIsFree, SaveEntry, history
<1> QED
  BY <1>1, <1>2, <1>3, <1>4 DEF Free

LEMMA WriteBeginsIsFree ==
  ASSUME FreeInv, WriteBegins
  PROVE  Free'
<1>1. InStepHolds'
  BY DEF InStepHolds, WriteBegins
<1>2. (CalmHashes /\ CalmIndex)'
  BY DEF FreeInv, Free, CalmHashes, CalmIndex, Calm, WriteBegins, session,
     Wanted
<1>3. CalmDraft'
  BY DEF FreeInv, Free, CalmDraft, Calm, WriteBegins, session, Wanted
<1>4. WarmIsFree'
  BY DEF WarmIsFree, WarmStartIsFree, WriteBegins
<1> QED
  BY <1>1, <1>2, <1>3, <1>4 DEF Free

\* The cache that is written has every file that is wanted.
LEMMA WriteEndsIsFree ==
  ASSUME FreeInv, WriteEnds
  PROVE  Free'
<1>1. InStepHolds'
  <2> SUFFICES ASSUME ~ disturbed, NEW p \in Files, Wanted(p)
               PROVE  Held(p, version)'
    BY DEF InStepHolds, WriteEnds, BuildInStep, session, Wanted, Held
  <2>1. Calm /\ cache = Broken
    BY DEF FreeInv, Free, CalmDraft, Calm, WriteEnds
  <2>2. p \in DOMAIN draft /\ draft[p].hash = disk[p]
    BY <2>1 DEF FreeInv, Free, CalmDraft, WriteEnds
  <2>3. cache' = Saved(version, draft)
    BY <2>1 DEF WriteEnds, Missing, Broken
  <2> QED
    BY <2>2, <2>3 DEF Held, Saved, WriteEnds, session
<1>2. (CalmHashes /\ CalmIndex /\ CalmDraft)'
  BY DEF FreeInv, Free, CalmHashes, CalmIndex, CalmDraft, Calm, WriteEnds,
     session, Wanted
<1>3. WarmIsFree'
  BY DEF WarmIsFree, WarmStartIsFree, WriteEnds
<1> QED
  BY <1>1, <1>2, <1>3 DEF Free

LEMMA WriteFailsIsFree ==
  ASSUME FreeInv, WriteFails
  PROVE  Free'
<1>1. InStepHolds'
  BY DEF FreeInv, Free, InStepHolds, WriteFails, history, Wanted, Held
<1>2. (CalmHashes /\ CalmIndex /\ CalmDraft)'
  BY DEF FreeInv, Free, CalmHashes, CalmIndex, CalmDraft, Calm, WriteFails,
     session, history, Wanted
<1>3. WarmIsFree'
  BY DEF WarmIsFree, WarmStartIsFree, WriteFails
<1> QED
  BY <1>1, <1>2, <1>3 DEF Free

LEMMA StopIsFree ==
  ASSUME FreeInv, Stop
  PROVE  Free'
<1>1. InStepHolds'
  BY DEF FreeInv, Free, InStepHolds, Stop, history, Wanted, Held
<1>2. (CalmHashes /\ CalmIndex /\ CalmDraft /\ WarmIsFree)'
  BY DEF CalmHashes, CalmIndex, CalmDraft, WarmIsFree, WarmStartIsFree, Calm,
     Stop
<1> QED
  BY <1>1, <1>2 DEF Free

\* Any change of the disk ends what was in step with it.
LEMMA DisturbedIsFree ==
  ASSUME FreeInv, disturbed', inStep' = NoVersion,
         UNCHANGED <<step, version, analyzed>>
  PROVE  Free'
<1>1. (InStepHolds /\ CalmHashes /\ CalmIndex /\ CalmDraft)'
  BY DEF InStepHolds, CalmHashes, CalmIndex, CalmDraft, Calm
<1>2. step # "down" => version # NoVersion
  BY WarmAssumption DEF FreeInv, IInv, Running, NoVersion
<1>3. WarmIsFree'
  BY <1>2 DEF FreeInv, Free, WarmIsFree, WarmStartIsFree
<1> QED
  BY <1>1, <1>3 DEF Free

LEMMA StutterIsFree ==
  ASSUME FreeInv, UNCHANGED vars
  PROVE  Free'
<1>1. InStepHolds'
  BY DEF FreeInv, Free, InStepHolds, vars, history, Wanted, Held
<1>2. (CalmHashes /\ CalmIndex)'
  BY DEF FreeInv, Free, CalmHashes, CalmIndex, Calm, vars, session, history,
     Wanted, Held, Awaited
<1>3. (CalmDraft /\ WarmIsFree)'
  BY DEF FreeInv, Free, CalmDraft, WarmIsFree, WarmStartIsFree, Calm, vars,
     session, history, Wanted
<1> QED
  BY <1>1, <1>2, <1>3 DEF Free

LEMMA FreeStep == FreeInv /\ [Next]_vars => FreeInv'
<1> SUFFICES ASSUME FreeInv, [Next]_vars PROVE Free'
  BY StepHolds DEF FreeInv
<1>1. CASE BuildStep
  BY <1>1, HashFileIsFree, LoadIsFree, ScanFileIsFree, ScanEndsIsFree,
     WidenFileIsFree, WidthsEndIsFree, SaveEntryIsFree, WriteBeginsIsFree,
     WriteEndsIsFree, WriteFailsIsFree DEF BuildStep
<1>2. CASE WorldStep
  <2>1. ASSUME NEW p, NEW c, WriteFile(p, c) PROVE Free'
    BY <2>1, DisturbedIsFree DEF WriteFile, session
  <2>2. ASSUME NEW form, LoseCache(form) PROVE Free'
    BY <2>2, DisturbedIsFree DEF LoseCache, session
  <2> QED
    BY <1>2, <2>1, <2>2, StopIsFree, StartIsFree DEF WorldStep
<1>3. CASE UNCHANGED vars
  BY <1>3, StutterIsFree
<1> QED
  BY <1>1, <1>2, <1>3 DEF Next

LEMMA FreeInit == Init => FreeInv
<1> SUFFICES ASSUME Init PROVE Free
  BY InitHolds DEF FreeInv
<1> QED
  BY DEF Init, Free, InStepHolds, CalmHashes, CalmIndex, CalmDraft, Calm,
     WarmIsFree, WarmStartIsFree

\* BuildWithCache: a start on a workspace the cache is in step with reads no
\* file but to hash it and to widen its lines, whatever was skipped, failed
\* or interrupted in the sessions before it.
THEOREM WarmStartAnalyzesNothing == Spec => []WarmStartIsFree
<1>1. FreeInv => WarmStartIsFree
  BY DEF FreeInv, Free, WarmIsFree
<1> QED
  BY <1>1, FreeInit, FreeStep, PTL DEF Spec
===============================================================================
