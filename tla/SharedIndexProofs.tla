-------------------------- MODULE SharedIndexProofs ---------------------------
(***************************************************************************)
(* That the shared index keeps its atomic promise, for every number of     *)
(* threads, files, configurations and calls.  The invariant says what each *)
(* thread knows at its point of a call; the mutex itself needs no          *)
(* invariant: a writer acts when nobody is reading, and a sweep that has   *)
(* seen something is reading.                                              *)
(***************************************************************************)
EXTENDS SharedIndex, TLAPS

Sighting == Analyses \cup {Absent} \cup (Analyses \X (Contents \cup {Absent}))

Nowhere == [p \in Paths |-> Absent]

AnyCall == QueryCalls \cup UpdateCalls \cup {Idle}

Shapes ==
  /\ entries \in [Paths -> Analyses \cup {Absent}]
  /\ lineWidths \in [Paths -> Contents \cup {Absent}]
  /\ call \in [Threads -> AnyCall]
  /\ pc = [t \in Threads |-> pc[t]]
  /\ seen \in [Threads -> [Paths -> Sighting]]
  /\ answer = [t \in Threads |-> answer[t]]

\* The points of an update that hold idxResMu.
Gated == {"add", "adding", "put", "putting", "resolve", "resolving", "publish"}

\* What the call of a thread is, at each point.
PointOK(t) ==
  /\ pc[t] = "idle" => call[t] = Idle
  /\ pc[t] = "rlock" => call[t].kind \in Queries
  /\ pc[t] \in Queries => call[t].kind = pc[t]
  /\ pc[t] \in {"lock", "build"} => call[t].kind = "lookup"
  /\ pc[t] \in {"gate", "add", "adding"} => call[t].kind = "update" /\ call[t].rest # <<>>
  /\ pc[t] \in {"put", "putting"} => call[t].kind = "table" /\ call[t].rest # <<>>
  /\ pc[t] \in {"resolve", "resolving", "publish"} =>
       call[t].kind = "update" /\ call[t].rest = <<>>
  /\ pc[t] = "return" <=> answer[t] # NoAnswer
  /\ pc[t] \in Gated => gate = t

\* What a thread has collected.
SeenOK(t) ==
  /\ pc[t] \notin {"sweep", "publish"} => seen[t] = Nowhere
  /\ pc[t] = "sweep" =>
       \/ seen[t] = Nowhere
       \/ Reading(t) /\ \A p \in Paths : seen[t][p] \in {Absent, Seen(entries, lineWidths, p)}
  /\ pc[t] = "publish" => seen[t] = entries

\* The cached name map is the one of the entries as they are.
NamesOK == nameIndex # Absent => nameIndex = Candidates(entries, nameIndexCfg)

IInv ==
  /\ Shapes
  /\ \A t \in Threads : PointOK(t)
  /\ \A t \in Threads : SeenOK(t)
  /\ NamesOK
  /\ ResolvedFollowsEntries

-------------------------------------------------------------------------------
\* IndexCalls: a sweep that has met every indexed file has the sweep's answer.
LEMMA SweepAnswer ==
  ASSUME NEW s \in [Paths -> Sighting], NEW e, NEW w,
         \A p \in Paths : s[p] \in {Absent, Seen(e, w, p)},
         \A p \in Indexed(e) : s[p] # Absent
  PROVE  s = [p \in Paths |-> Seen(e, w, p)]
<1>1. \A p \in Paths : s[p] = Seen(e, w, p)
  BY DEF Indexed, Seen
<1>2. QED
  BY <1>1

\* The index starts with nothing indexed, and nobody calling.
LEMMA InitOK == Init => IInv
<1> SUFFICES ASSUME Init PROVE IInv
  OBVIOUS
<1>1. Shapes
  <2>1. entries \in [Paths -> Analyses \cup {Absent}] /\ lineWidths \in [Paths -> Contents \cup {Absent}]
    BY DEF Init
  <2>2. call \in [Threads -> AnyCall]
    BY DEF Init, AnyCall
  <2>3. pc = [t \in Threads |-> pc[t]]
    BY DEF Init
  <2>4. seen \in [Threads -> [Paths -> Sighting]]
    BY DEF Init, Sighting
  <2>5. answer = [t \in Threads |-> answer[t]]
    BY DEF Init
  <2>6. QED
    BY <2>1, <2>2, <2>3, <2>4, <2>5 DEF Shapes
<1>2. \A t \in Threads : PointOK(t)
  BY DEF Init, PointOK, Queries, Gated
<1>3. \A t \in Threads : SeenOK(t)
  BY DEF Init, SeenOK, Nowhere
<1>4. NamesOK
  BY DEF Init, NamesOK
<1>5. ResolvedFollowsEntries
  BY DEF Init, ResolvedFollowsEntries, Candidates, Indexed
<1>6. QED
  BY <1>1, <1>2, <1>3, <1>4, <1>5 DEF IInv

\* A call that begins is a query or an update with something to store.
LEMMA CallKinds ==
  ASSUME NEW t \in Threads, NEW c \in CallsOf[t]
  PROVE  /\ c \in AnyCall
         /\ c.kind = "update" => c.rest # <<>>
         /\ c.kind # "update" => c.kind \in Queries
<1>1. CallsOf[t] \in SUBSET (QueryCalls \cup UpdateCalls)
  BY CallsAssumption
<1>2. c \in QueryCalls \cup UpdateCalls
  BY <1>1
<1>3. c.kind \notin Queries => c.kind = "update" /\ c.rest # <<>>
  BY CallsAssumption
<1>4. "update" \notin Queries
  BY DEF Queries
<1>5. QED
  BY <1>2, <1>3, <1>4 DEF AnyCall

\* The changes an update has left to store.
LEMMA RestOfUpdate ==
  ASSUME NEW c \in AnyCall, c.kind \in {"update", "table"}
  PROVE  c.rest \in Seq(Changes)
<1>1. c \in UpdateCalls
  BY DEF AnyCall, QueryCalls, LookupCalls, PathCalls, SweepCalls, Idle
<1>2. QED
  BY <1>1 DEF UpdateCalls

LEMMA UpdateShapes ==
  ASSUME NEW rest \in Seq(Changes)
  PROVE  /\ UpdateOf(rest) \in AnyCall
         /\ TableOf(rest) \in AnyCall
         /\ UpdateOf(rest).kind = "update" /\ UpdateOf(rest).rest = rest
         /\ TableOf(rest).kind = "table" /\ TableOf(rest).rest = rest
         /\ rest # <<>> => Tail(rest) \in Seq(Changes) /\ Head(rest) \in Changes
BY DEF UpdateOf, TableOf, AnyCall, UpdateCalls

-------------------------------------------------------------------------------
\* What a step of thread t leaves of the others.
OthersKeep(t) ==
  \A u \in Threads \ {t} :
    /\ pc'[u] = pc[u] /\ call'[u] = call[u]
    /\ seen'[u] = seen[u] /\ answer'[u] = answer[u]
    /\ Reading(u) => Reading(u)'

\* A step that stores nothing need only be right for its own thread.
LEMMA QuietStep ==
  ASSUME IInv, NEW t \in Threads, UNCHANGED <<dataVars, nameVars, resolved, gate>>,
         OthersKeep(t), Shapes', PointOK(t)', SeenOK(t)'
  PROVE  IInv'
<1>1. ASSUME NEW u \in Threads, u # t PROVE PointOK(u)'
  BY <1>1 DEF IInv, PointOK, OthersKeep
<1>2. ASSUME NEW u \in Threads, u # t PROVE SeenOK(u)'
  <2>1. /\ pc'[u] = pc[u] /\ seen'[u] = seen[u] /\ entries' = entries
        /\ lineWidths' = lineWidths /\ (Reading(u) => Reading(u)')
    BY <1>2 DEF OthersKeep, dataVars
  <2>2. SeenOK(u)
    BY DEF IInv
  <2>3. QED
    BY <2>1, <2>2 DEF SeenOK, Seen
<1>3. NamesOK'
  BY DEF IInv, NamesOK, dataVars, nameVars, Candidates, Candidate, Indexed
<1>4. ResolvedFollowsEntries'
  BY DEF IInv, ResolvedFollowsEntries, dataVars, Candidates, Candidate, Indexed
<1>5. QED
  BY <1>1, <1>2, <1>3, <1>4 DEF IInv

\* A call begins.
LEMMA StartOK ==
  ASSUME IInv, NEW t \in Threads, NEW c \in CallsOf[t], Start(t, c)
  PROVE  IInv'
<1>1. UNCHANGED <<dataVars, nameVars, resolved, gate>>
  BY DEF Start
<1>2. OthersKeep(t)
  BY DEF IInv, Shapes, Start, OthersKeep, Reading, Goto
<1>3. Shapes'
  BY CallKinds, <1>1 DEF IInv, Shapes, Start, dataVars, Nowhere, AnyCall, Sighting, Goto
<1>4. PointOK(t)'
  BY CallKinds, <1>1 DEF IInv, Shapes, PointOK, Start, Queries, Gated, Idle, NoAnswer, Goto
<1>5. SeenOK(t)'
  BY <1>1 DEF IInv, Shapes, PointOK, SeenOK, Start, dataVars, Reading, Nowhere, Queries, Goto
<1>6. QED
  BY <1>1, <1>2, <1>3, <1>4, <1>5, QuietStep

\* TakeReadLock: a call takes the read lock, or queues.
LEMMA TakeReadLockOK ==
  ASSUME IInv, NEW t \in Threads, TakeReadLock(t)
  PROVE  IInv'
<1>1. UNCHANGED <<dataVars, nameVars, resolved, gate>>
  BY DEF TakeReadLock
<1>2. OthersKeep(t)
  BY DEF IInv, Shapes, TakeReadLock, OthersKeep, Reading, Goto, RLock
<1>3. Shapes'
  BY <1>1 DEF IInv, Shapes, TakeReadLock, dataVars, Nowhere, AnyCall, Sighting, Goto, RLock
<1>4. PointOK(t)'
  BY <1>1 DEF IInv, Shapes, PointOK, TakeReadLock, Queries, Gated, Idle, NoAnswer, Goto, RLock
<1>5. SeenOK(t)'
  BY <1>1 DEF IInv, Shapes, PointOK, SeenOK, TakeReadLock, dataVars, Reading, Nowhere, Queries, Goto, RLock
<1>6. QED
  BY <1>1, <1>2, <1>3, <1>4, <1>5, QuietStep

\* Return.
LEMMA ReturnOK ==
  ASSUME IInv, NEW t \in Threads, Return(t)
  PROVE  IInv'
<1>1. UNCHANGED <<dataVars, nameVars, resolved, gate>>
  BY DEF Return
<1>2. OthersKeep(t)
  BY DEF IInv, Shapes, Return, OthersKeep, Reading, Goto
<1>3. Shapes'
  BY <1>1 DEF IInv, Shapes, Return, dataVars, Nowhere, AnyCall, Sighting, Goto
<1>4. PointOK(t)'
  BY <1>1 DEF IInv, Shapes, PointOK, Return, Queries, Gated, Idle, NoAnswer, Goto
<1>5. SeenOK(t)'
  BY <1>1 DEF IInv, Shapes, PointOK, SeenOK, Return, dataVars, Reading, Nowhere, Queries, Goto
<1>6. QED
  BY <1>1, <1>2, <1>3, <1>4, <1>5, QuietStep

\* Get.
LEMMA GetOK ==
  ASSUME IInv, NEW t \in Threads, Get(t)
  PROVE  IInv'
<1>1. UNCHANGED <<dataVars, nameVars, resolved, gate>>
  BY DEF Get
<1>2. OthersKeep(t)
  BY DEF IInv, Shapes, Get, OthersKeep, Reading, Goto, Reply, RUnlock, Answered
<1>3. Shapes'
  BY <1>1 DEF IInv, Shapes, Get, dataVars, Nowhere, AnyCall, Sighting, Goto, Reply, RUnlock, Answered
<1>4. PointOK(t)'
  BY <1>1 DEF IInv, Shapes, PointOK, Get, Queries, Gated, Idle, NoAnswer, Goto, Reply, RUnlock, Answered
<1>5. SeenOK(t)'
  BY <1>1 DEF IInv, Shapes, PointOK, SeenOK, Get, dataVars, Reading, Nowhere, Queries, Goto, Reply, RUnlock, Answered
<1>6. QED
  BY <1>1, <1>2, <1>3, <1>4, <1>5, QuietStep

\* ProtocolRange.
LEMMA ProtocolRangeOK ==
  ASSUME IInv, NEW t \in Threads, ProtocolRange(t)
  PROVE  IInv'
<1>1. UNCHANGED <<dataVars, nameVars, resolved, gate>>
  BY DEF ProtocolRange
<1>2. OthersKeep(t)
  BY DEF IInv, Shapes, ProtocolRange, OthersKeep, Reading, Goto, Reply, RUnlock, Answered
<1>3. Shapes'
  BY <1>1 DEF IInv, Shapes, ProtocolRange, dataVars, Nowhere, AnyCall, Sighting, Goto, Reply, RUnlock, Answered
<1>4. PointOK(t)'
  BY <1>1 DEF IInv, Shapes, PointOK, ProtocolRange, Queries, Gated, Idle, NoAnswer, Goto, Reply, RUnlock, Answered
<1>5. SeenOK(t)'
  BY <1>1 DEF IInv, Shapes, PointOK, SeenOK, ProtocolRange, dataVars, Reading, Nowhere, Queries, Goto, Reply, RUnlock, Answered
<1>6. QED
  BY <1>1, <1>2, <1>3, <1>4, <1>5, QuietStep

\* ForEachWithRange returns.
LEMMA SweepEndsOK ==
  ASSUME IInv, NEW t \in Threads, SweepEnds(t)
  PROVE  IInv'
<1>1. UNCHANGED <<dataVars, nameVars, resolved, gate>>
  BY DEF SweepEnds
<1>2. OthersKeep(t)
  BY DEF IInv, Shapes, SweepEnds, OthersKeep, Reading, Goto, Reply, RUnlock, Answered
<1>3. Shapes'
  BY <1>1 DEF IInv, Shapes, SweepEnds, dataVars, Nowhere, AnyCall, Sighting, Goto, Reply, RUnlock, Answered
<1>4. PointOK(t)'
  BY <1>1 DEF IInv, Shapes, PointOK, SweepEnds, Queries, Gated, Idle, NoAnswer, Goto, Reply, RUnlock, Answered
<1>5. SeenOK(t)'
  BY <1>1 DEF IInv, Shapes, PointOK, SeenOK, SweepEnds, dataVars, Reading, Nowhere, Queries, Goto, Reply, RUnlock, Answered
<1>6. QED
  BY <1>1, <1>2, <1>3, <1>4, <1>5, QuietStep

\* ForEachWithRange meets a file.
LEMMA VisitEntryOK ==
  ASSUME IInv, NEW t \in Threads, NEW p \in Paths, VisitEntry(t, p)
  PROVE  IInv'
<1>1. UNCHANGED <<dataVars, nameVars, resolved, gate>>
  BY DEF VisitEntry
<1>2. OthersKeep(t)
  BY DEF IInv, Shapes, VisitEntry, OthersKeep, Reading
<1>3. Shapes'
  <2>1. Seen(entries, lineWidths, p) \in Sighting
    BY DEF IInv, Shapes, Seen, Sighting
  <2>2. seen' \in [Threads -> [Paths -> Sighting]]
    BY <2>1 DEF IInv, Shapes, VisitEntry
  <2>3. QED
    BY <1>1, <2>2 DEF IInv, Shapes, VisitEntry, dataVars
<1>4. PointOK(t)'
  BY <1>1 DEF IInv, Shapes, PointOK, VisitEntry, Queries, Gated, Idle, NoAnswer
<1>5. SeenOK(t)'
  BY <1>1 DEF IInv, Shapes, PointOK, SeenOK, VisitEntry, dataVars, Reading, Nowhere, Queries
<1>6. QED
  BY <1>1, <1>2, <1>3, <1>4, <1>5, QuietStep

\* The fast path of a lookup.
LEMMA LookupHitOK ==
  ASSUME IInv, NEW t \in Threads, LookupHit(t)
  PROVE  IInv'
<1>1. UNCHANGED <<dataVars, nameVars, resolved, gate>>
  BY DEF LookupHit
<1>2. OthersKeep(t)
  BY DEF IInv, Shapes, LookupHit, OthersKeep, Reading, Goto, Reply, RUnlock, Answered
<1>3. Shapes'
  BY <1>1 DEF IInv, Shapes, LookupHit, dataVars, Nowhere, AnyCall, Sighting, Goto, Reply, RUnlock, Answered
<1>4. PointOK(t)'
  BY <1>1 DEF IInv, Shapes, PointOK, LookupHit, Queries, Gated, Idle, NoAnswer, Goto, Reply, RUnlock, Answered
<1>5. SeenOK(t)'
  BY <1>1 DEF IInv, Shapes, PointOK, SeenOK, LookupHit, dataVars, Reading, Nowhere, Queries, Goto, Reply, RUnlock, Answered
<1>6. QED
  BY <1>1, <1>2, <1>3, <1>4, <1>5, QuietStep

\* The read lock is released before the write lock is taken.
LEMMA LookupMissOK ==
  ASSUME IInv, NEW t \in Threads, LookupMiss(t)
  PROVE  IInv'
<1>1. UNCHANGED <<dataVars, nameVars, resolved, gate>>
  BY DEF LookupMiss
<1>2. OthersKeep(t)
  BY DEF IInv, Shapes, LookupMiss, OthersKeep, Reading, Goto, RUnlock
<1>3. Shapes'
  BY <1>1 DEF IInv, Shapes, LookupMiss, dataVars, Nowhere, AnyCall, Sighting, Goto, RUnlock
<1>4. PointOK(t)'
  BY <1>1 DEF IInv, Shapes, PointOK, LookupMiss, Queries, Gated, Idle, NoAnswer, Goto, RUnlock
<1>5. SeenOK(t)'
  BY <1>1 DEF IInv, Shapes, PointOK, SeenOK, LookupMiss, dataVars, Reading, Nowhere, Queries, Goto, RUnlock
<1>6. QED
  BY <1>1, <1>2, <1>3, <1>4, <1>5, QuietStep

\* TakeWriteLock: a writer announces itself.
LEMMA TakeWriteLockOK ==
  ASSUME IInv, NEW t \in Threads, TakeWriteLock(t)
  PROVE  IInv'
<1>1. UNCHANGED <<dataVars, nameVars, resolved, gate>>
  BY DEF TakeWriteLock
<1>2. OthersKeep(t)
  BY DEF IInv, Shapes, TakeWriteLock, OthersKeep, Reading, Goto, Lock
<1>3. Shapes'
  BY <1>1 DEF IInv, Shapes, TakeWriteLock, dataVars, Nowhere, AnyCall, Sighting, Goto, Lock
<1>4. PointOK(t)'
  BY <1>1 DEF IInv, Shapes, PointOK, TakeWriteLock, Queries, Gated, Idle, NoAnswer, Goto, Lock
<1>5. SeenOK(t)'
  BY <1>1 DEF IInv, Shapes, PointOK, SeenOK, TakeWriteLock, dataVars, Reading, Nowhere, Queries, Goto, Lock
<1>6. QED
  BY <1>1, <1>2, <1>3, <1>4, <1>5, QuietStep

\* buildNameIndex takes its snapshot.
LEMMA SnapshotEntriesOK ==
  ASSUME IInv, NEW t \in Threads, SnapshotEntries(t)
  PROVE  IInv'
<1>1. UNCHANGED <<dataVars, nameVars, resolved, gate>>
  BY DEF SnapshotEntries
<1>2. OthersKeep(t)
  BY DEF IInv, Shapes, SnapshotEntries, OthersKeep, Reading, Goto, RUnlock
<1>3. Shapes'
  BY <1>1 DEF IInv, Shapes, SnapshotEntries, dataVars, Nowhere, AnyCall, Sighting, Goto, RUnlock
<1>4. PointOK(t)'
  BY <1>1 DEF IInv, Shapes, PointOK, SnapshotEntries, Queries, Gated, Idle, NoAnswer, Goto, RUnlock
<1>5. SeenOK(t)'
  BY <1>1 DEF IInv, Shapes, PointOK, SeenOK, SnapshotEntries, dataVars, Reading, Nowhere, Queries, Goto, RUnlock
<1>6. QED
  BY <1>1, <1>2, <1>3, <1>4, <1>5, QuietStep

\* The slow path of a lookup publishes the map of the entries as they are.
LEMMA LookupBuildOK ==
  ASSUME IInv, NEW t \in Threads, LookupBuild(t)
  PROVE  IInv'
<1>1. UNCHANGED <<dataVars, resolved, gate>> /\ UNCHANGED <<call, seen>>
  BY DEF LookupBuild
<1>2. OthersKeep(t)
  BY DEF IInv, Shapes, LookupBuild, OthersKeep, Reading, Writing, Goto, Reply
<1>3. Shapes'
  BY <1>1 DEF IInv, Shapes, LookupBuild, dataVars, Goto, Reply, Answered
<1>4. ASSUME NEW u \in Threads PROVE PointOK(u)'
  <2>1. CASE u = t
    BY <1>1, <2>1 DEF IInv, Shapes, PointOK, LookupBuild, Queries, Gated, NoAnswer,
                      Goto, Reply, Answered
  <2>2. CASE u # t
    BY <1>1, <1>2, <2>2 DEF IInv, PointOK, OthersKeep
  <2>3. QED
    BY <2>1, <2>2
<1>5. ASSUME NEW u \in Threads PROVE SeenOK(u)'
  <2>1. CASE u = t
    BY <1>1, <2>1 DEF IInv, Shapes, SeenOK, LookupBuild, Goto, Reply
  <2>2. CASE u # t
    BY <1>1, <1>2, <2>2 DEF IInv, SeenOK, OthersKeep, dataVars
  <2>3. QED
    BY <2>1, <2>2
<1>6. NamesOK'
  BY DEF IInv, NamesOK, LookupBuild, Cached, dataVars
<1>7. ResolvedFollowsEntries'
  BY <1>1 DEF IInv, ResolvedFollowsEntries, dataVars
<1>8. QED
  BY <1>3, <1>4, <1>5, <1>6, <1>7 DEF IInv

\* An update begins when no other is in progress.
LEMMA TakeGateOK ==
  ASSUME IInv, NEW t \in Threads, TakeGate(t)
  PROVE  IInv'
<1>1. UNCHANGED <<dataVars, nameVars, resolved, mu, call, seen, answer>>
  BY DEF TakeGate
<1>2. OthersKeep(t)
  BY <1>1 DEF IInv, Shapes, TakeGate, OthersKeep, Reading, Goto
<1>3. Shapes'
  BY <1>1 DEF IInv, Shapes, TakeGate, dataVars, Goto
<1>4. ASSUME NEW u \in Threads PROVE PointOK(u)'
  <2>1. CASE u = t
    BY <1>1, <2>1 DEF IInv, Shapes, PointOK, TakeGate, Queries, Gated, Goto
  <2>2. CASE u # t
    <3>1. pc[u] \notin Gated
      BY CallsAssumption DEF IInv, PointOK, TakeGate
    <3>2. QED
      BY <1>1, <1>2, <2>2, <3>1 DEF IInv, PointOK, OthersKeep
  <2>3. QED
    BY <2>1, <2>2
<1>5. ASSUME NEW u \in Threads PROVE SeenOK(u)'
  <2>1. CASE u = t
    BY <1>1, <2>1 DEF IInv, Shapes, SeenOK, TakeGate, Goto
  <2>2. CASE u # t
    BY <1>1, <1>2, <2>2 DEF IInv, SeenOK, OthersKeep, dataVars
  <2>3. QED
    BY <2>1, <2>2
<1>6. NamesOK' /\ ResolvedFollowsEntries'
  BY <1>1, CallsAssumption DEF IInv, NamesOK, ResolvedFollowsEntries, TakeGate, dataVars, nameVars
<1>7. QED
  BY <1>3, <1>4, <1>5, <1>6 DEF IInv

\* Add stores an entry when nobody reads, and drops the cached names.
LEMMA AddOK ==
  ASSUME IInv, NEW t \in Threads, Add(t)
  PROVE  IInv'
<1> DEFINE rest == call[t].rest
<1>1. /\ pc[t] = "adding" /\ gate = t /\ call[t].rest # <<>>
      /\ call[t].kind \in {"update", "table"}
  BY DEF IInv, PointOK, Add, Gated
<1>2. /\ rest \in Seq(Changes) /\ Tail(rest) \in Seq(Changes) /\ Head(rest) \in Changes
  BY <1>1, RestOfUpdate, UpdateShapes DEF IInv, Shapes
<1>3. \A u \in Threads : ~Reading(u)
  BY DEF Add, Reading, Writing
<1>4. OthersKeep(t)
  BY <1>3 DEF IInv, Shapes, Add, OthersKeep, Goto, NextChange
<1>5. call' \in [Threads -> AnyCall]
  BY <1>2, UpdateShapes, ZenonT(40) DEF IInv, Shapes, Add, Goto, NextChange
<1>6. Shapes'
  <2>1. Head(rest).path \in Paths /\ Head(rest).analysis \in Analyses
        /\ Head(rest).content \in Contents \cup {Absent}
    BY <1>2 DEF Changes
  <2>2. entries' \in [Paths -> Analyses \cup {Absent}]
    BY <2>1 DEF IInv, Shapes, Add
  <2>3. lineWidths' \in [Paths -> Contents \cup {Absent}]
    BY <2>1 DEF IInv, Shapes, Add
  <2>4. pc' = [u \in Threads |-> pc'[u]]
    BY DEF IInv, Shapes, Add, Goto, NextChange
  <2>5. QED
    BY <1>5, <2>2, <2>3, <2>4 DEF IInv, Shapes, Add
<1>7. ASSUME NEW u \in Threads PROVE PointOK(u)'
  <2>1. CASE u = t
    <3>1. \/ pc'[t] = "resolve" /\ call'[t] = UpdateOf(Tail(rest)) /\ Tail(rest) = <<>>
          \/ pc'[t] = "add" /\ call'[t] = UpdateOf(Tail(rest)) /\ Tail(rest) # <<>>
          \/ pc'[t] = "put" /\ call'[t] = TableOf(rest)
      BY DEF IInv, Shapes, Add, Goto, NextChange
    <3>2. answer'[t] = NoAnswer /\ gate' = t
      BY <1>1 DEF IInv, PointOK, Add
    <3>3. pc'[t] \in {"resolve", "add", "put"}
      BY <3>1
    <3>4. /\ UpdateOf(Tail(rest)).kind = "update" /\ UpdateOf(Tail(rest)).rest = Tail(rest)
          /\ TableOf(rest).kind = "table" /\ TableOf(rest).rest = rest
      BY <1>2, UpdateShapes
    <3>5. QED
      BY <1>1, <2>1, <3>1, <3>2, <3>3, <3>4 DEF PointOK, Queries, Gated
  <2>2. CASE u # t
    BY <1>4, <2>2 DEF IInv, PointOK, OthersKeep, Add
  <2>3. QED
    BY <2>1, <2>2
<1>8. ASSUME NEW u \in Threads PROVE SeenOK(u)'
  <2>1. seen[u] = Nowhere /\ seen'[u] = Nowhere /\ pc[u] # "publish"
    <3>1. pc[u] # "publish"
      BY <1>1 DEF IInv, PointOK, Gated
    <3>2. QED
      BY <1>3, <3>1 DEF IInv, SeenOK, Add
  <2>2. pc'[u] # "publish"
    BY <1>4, <2>1 DEF IInv, Shapes, OthersKeep, Add, Goto, NextChange
  <2>3. QED
    BY <2>1, <2>2 DEF SeenOK
<1>9. NamesOK'
  BY DEF IInv, NamesOK, Add, nameVars
<1>10. ResolvedFollowsEntries'
  BY <1>1, CallsAssumption DEF ResolvedFollowsEntries, Add
<1>11. QED
  BY <1>6, <1>7, <1>8, <1>9, <1>10 DEF IInv

\* PutContent stores a table when nobody reads.
LEMMA PutContentOK ==
  ASSUME IInv, NEW t \in Threads, PutContent(t)
  PROVE  IInv'
<1> DEFINE rest == call[t].rest
<1>1. /\ pc[t] = "putting" /\ gate = t /\ call[t].rest # <<>>
      /\ call[t].kind \in {"update", "table"}
  BY DEF IInv, PointOK, PutContent, Gated
<1>2. /\ rest \in Seq(Changes) /\ Tail(rest) \in Seq(Changes) /\ Head(rest) \in Changes
  BY <1>1, RestOfUpdate, UpdateShapes DEF IInv, Shapes
<1>3. \A u \in Threads : ~Reading(u)
  BY DEF PutContent, Reading, Writing
<1>4. OthersKeep(t)
  BY <1>3 DEF IInv, Shapes, PutContent, OthersKeep, Goto, NextChange
<1>5. call' \in [Threads -> AnyCall]
  BY <1>2, UpdateShapes DEF IInv, Shapes, PutContent, Goto, NextChange
<1>6. Shapes'
  <2>1. Head(rest).path \in Paths /\ Head(rest).analysis \in Analyses
        /\ Head(rest).content \in Contents \cup {Absent}
    BY <1>2 DEF Changes
  <2>2. entries' \in [Paths -> Analyses \cup {Absent}]
    BY <2>1 DEF IInv, Shapes, PutContent
  <2>3. lineWidths' \in [Paths -> Contents \cup {Absent}]
    BY <2>1 DEF IInv, Shapes, PutContent
  <2>4. pc' = [u \in Threads |-> pc'[u]]
    BY DEF IInv, Shapes, PutContent, Goto, NextChange
  <2>5. QED
    BY <1>5, <2>2, <2>3, <2>4 DEF IInv, Shapes, PutContent
<1>7. ASSUME NEW u \in Threads PROVE PointOK(u)'
  <2>1. CASE u = t
    <3>1. \/ pc'[t] = "resolve" /\ call'[t] = UpdateOf(Tail(rest)) /\ Tail(rest) = <<>>
          \/ pc'[t] = "add" /\ call'[t] = UpdateOf(Tail(rest)) /\ Tail(rest) # <<>>
      BY DEF IInv, Shapes, PutContent, Goto, NextChange
    <3>2. answer'[t] = NoAnswer /\ gate' = t
      BY <1>1 DEF IInv, PointOK, PutContent
    <3>3. pc'[t] \in {"resolve", "add", "put"}
      BY <3>1
    <3>4. /\ UpdateOf(Tail(rest)).kind = "update" /\ UpdateOf(Tail(rest)).rest = Tail(rest)
          /\ TableOf(rest).kind = "table" /\ TableOf(rest).rest = rest
      BY <1>2, UpdateShapes
    <3>5. QED
      BY <1>1, <2>1, <3>1, <3>2, <3>3, <3>4 DEF PointOK, Queries, Gated
  <2>2. CASE u # t
    BY <1>4, <2>2 DEF IInv, PointOK, OthersKeep, PutContent
  <2>3. QED
    BY <2>1, <2>2
<1>8. ASSUME NEW u \in Threads PROVE SeenOK(u)'
  <2>1. seen[u] = Nowhere /\ seen'[u] = Nowhere /\ pc[u] # "publish"
    <3>1. pc[u] # "publish"
      BY <1>1 DEF IInv, PointOK, Gated
    <3>2. QED
      BY <1>3, <3>1 DEF IInv, SeenOK, PutContent
  <2>2. pc'[u] # "publish"
    BY <1>4, <2>1 DEF IInv, Shapes, OthersKeep, PutContent, Goto, NextChange
  <2>3. QED
    BY <2>1, <2>2 DEF SeenOK
<1>9. NamesOK'
  BY DEF IInv, NamesOK, PutContent, nameVars, Candidates, Candidate, Indexed
<1>10. ResolvedFollowsEntries'
  BY <1>1, CallsAssumption DEF ResolvedFollowsEntries, PutContent
<1>11. QED
  BY <1>6, <1>7, <1>8, <1>9, <1>10 DEF IInv

\* An update publishes what it resolved against the entries as they are.
LEMMA PublishOK ==
  ASSUME IInv, NEW t \in Threads, Publish(t)
  PROVE  IInv'
<1>1. UNCHANGED <<dataVars, nameVars, mu, answer>> /\ gate = t /\ seen[t] = entries
  BY DEF IInv, PointOK, SeenOK, Gated, Publish
<1>2. OthersKeep(t)
  BY <1>1 DEF IInv, Shapes, Publish, OthersKeep, Reading, Goto
<1>3. Shapes'
  BY <1>1 DEF IInv, Shapes, Publish, dataVars, Goto, AnyCall, Sighting
<1>4. ASSUME NEW u \in Threads PROVE PointOK(u)'
  <2>1. CASE u = t
    BY <1>1, <2>1 DEF IInv, Shapes, PointOK, Publish, Queries, Gated, Goto
  <2>2. CASE u # t
    <3>1. pc[u] \notin Gated
      BY <1>1, <2>2 DEF IInv, PointOK
    <3>2. QED
      BY <1>1, <1>2, <2>2, <3>1 DEF IInv, PointOK, OthersKeep
  <2>3. QED
    BY <2>1, <2>2
<1>5. ASSUME NEW u \in Threads PROVE SeenOK(u)'
  <2>1. CASE u = t
    BY <1>1, <2>1 DEF IInv, Shapes, SeenOK, Publish, Goto, Nowhere
  <2>2. CASE u # t
    BY <1>1, <1>2, <2>2 DEF IInv, SeenOK, OthersKeep, dataVars
  <2>3. QED
    BY <2>1, <2>2
<1>6. NamesOK'
  BY <1>1 DEF IInv, NamesOK, dataVars, nameVars, Candidates, Candidate, Indexed
<1>7. ResolvedFollowsEntries'
  BY <1>1 DEF ResolvedFollowsEntries, Publish, dataVars
<1>8. QED
  BY <1>3, <1>4, <1>5, <1>6, <1>7 DEF IInv

\* IInv is inductive: one lemma for each action.
LEMMA StepOK ==
  ASSUME IInv, [Next]_vars
  PROVE  IInv'
<1>1. CASE UNCHANGED vars
  <2>1. /\ UNCHANGED <<entries, lineWidths, nameIndex, nameIndexCfg, resolved, gate, mu>>
        /\ UNCHANGED <<call, pc, seen, answer>>
    BY <1>1 DEF vars, dataVars, nameVars, threadVars
  <2>2. Shapes' /\ NamesOK' /\ ResolvedFollowsEntries'
    BY <2>1 DEF IInv, Shapes, NamesOK, ResolvedFollowsEntries, Candidates, Candidate, Indexed
  <2>3. ASSUME NEW u \in Threads PROVE PointOK(u)' /\ SeenOK(u)'
    BY <2>1 DEF IInv, PointOK, SeenOK, Reading, Seen
  <2>4. QED
    BY <2>2, <2>3 DEF IInv
<1>2. ASSUME NEW t \in Threads, NEW c \in CallsOf[t], Start(t, c) PROVE IInv'
  BY <1>2, StartOK
<1>3. ASSUME NEW t \in Threads, Step(t) PROVE IInv'
  <2>1. CASE TakeGate(t) \/ TakeReadLock(t) \/ TakeWriteLock(t) \/ Return(t)
    BY <2>1, TakeGateOK, TakeReadLockOK, TakeWriteLockOK, ReturnOK
  <2>2. CASE Get(t) \/ ProtocolRange(t) \/ SweepEnds(t) \/ \E p \in Paths : VisitEntry(t, p)
    BY <2>2, GetOK, ProtocolRangeOK, SweepEndsOK, VisitEntryOK
  <2>3. CASE LookupHit(t) \/ LookupMiss(t) \/ LookupBuild(t)
    BY <2>3, LookupHitOK, LookupMissOK, LookupBuildOK
  <2>4. CASE Add(t) \/ PutContent(t) \/ SnapshotEntries(t) \/ Publish(t)
    BY <2>4, AddOK, PutContentOK, SnapshotEntriesOK, PublishOK
  <2>5. QED
    BY <1>3, <2>1, <2>2, <2>3, <2>4 DEF Step
<1>4. QED
  BY <1>1, <1>2, <1>3 DEF Next

\* What each thread knows at its point of a call always holds.
THEOREM Invariant == Spec => []IInv
<1>1. QED
  BY InitOK, StepOK, PTL DEF Spec

\* Between two updates the resolution set was computed from the entries as they
\* are: applyDocumentChange and replayOpenBuffers never interleave.
THEOREM ResolvedFollowsEntriesAlways == Spec => []ResolvedFollowsEntries
<1>1. IInv => ResolvedFollowsEntries
  BY DEF IInv
<1>2. QED
  BY <1>1, Invariant, PTL

-------------------------------------------------------------------------------
\* The four ways a query is answered are one step of the promise.
LEMMA Responds ==
  ASSUME IInv, NEW t \in Threads,
         Get(t) \/ ProtocolRange(t) \/ SweepEnds(t) \/ LookupHit(t) \/ LookupBuild(t)
  PROVE  Promise!Respond(t)
<1>1. /\ call[t].kind \in Queries /\ answer[t] = NoAnswer
      /\ UNCHANGED <<entries, lineWidths, resolved, gate, call>>
  BY DEF IInv, PointOK, Get, ProtocolRange, SweepEnds, LookupHit, LookupBuild, Queries, dataVars
<1>2. answer' = [answer EXCEPT ![t] = Answered(Answer(entries, lineWidths, call[t]))]
  <2>1. CASE Get(t)
    <3>1. call[t].kind = "get"
      BY <2>1 DEF IInv, PointOK, Get, Queries
    <3>2. QED
      BY <2>1, <3>1 DEF Get, Reply, Answer
  <2>2. CASE ProtocolRange(t)
    <3>1. call[t].kind = "range"
      BY <2>2 DEF IInv, PointOK, ProtocolRange, Queries
    <3>2. QED
      BY <2>2, <3>1 DEF ProtocolRange, Reply, Answer
  <2>3. CASE SweepEnds(t)
    <3>1. call[t].kind = "sweep" /\ seen[t] \in [Paths -> Sighting]
      BY <2>3 DEF IInv, Shapes, PointOK, SweepEnds, Queries
    <3>2. \A p \in Paths : seen[t][p] \in {Absent, Seen(entries, lineWidths, p)}
      BY <2>3 DEF IInv, SeenOK, SweepEnds, Nowhere
    <3>3. \A p \in Indexed(entries) : seen[t][p] # Absent
      BY <2>3 DEF SweepEnds
    <3>4. seen[t] = [p \in Paths |-> Seen(entries, lineWidths, p)]
      BY <3>1, <3>2, <3>3, SweepAnswer
    <3>5. QED
      BY <2>3, <3>1, <3>4 DEF SweepEnds, Reply, Answer
  <2>4. CASE LookupHit(t)
    <3>1. call[t].kind = "lookup" /\ nameIndex = Candidates(entries, call[t].cfg)
      BY <2>4 DEF IInv, PointOK, NamesOK, LookupHit, Cached, Queries
    <3>2. QED
      BY <2>4, <3>1 DEF LookupHit, Reply, Answer
  <2>5. CASE LookupBuild(t)
    <3>1. call[t].kind = "lookup"
      BY <2>5 DEF IInv, PointOK, LookupBuild
    <3>2. Cached(call[t].cfg) => nameIndex = Candidates(entries, call[t].cfg)
      BY DEF IInv, NamesOK, Cached
    <3>3. QED
      BY <2>5, <3>1, <3>2 DEF LookupBuild, Reply, Answer
  <2>6. QED
    BY <2>1, <2>2, <2>3, <2>4, <2>5
<1>3. QED
  BY <1>1, <1>2
     DEF Promise!Respond, Promise!Queries, Queries, Promise!NoAnswer, NoAnswer,
         Promise!Answered, Answered, Promise!Answer, Answer, Promise!Bucket, Bucket,
         Promise!Candidates, Candidates, Promise!Candidate, Candidate,
         Promise!Indexed, Indexed, Promise!Seen, Seen

\* A step of an update is a step of the promised update, or none.
LEMMA Updates ==
  ASSUME IInv, NEW t \in Threads
  PROVE  /\ TakeGate(t) => Promise!Begin(t)
         /\ Add(t) => Promise!StoreAnalysis(t)
         /\ PutContent(t) => Promise!StoreTable(t)
         /\ Publish(t) => Promise!Resolve(t)
<1>1. TakeGate(t) => Promise!Begin(t)
  BY DEF IInv, PointOK, TakeGate, dataVars, Promise!Begin
<1>2. Add(t) => Promise!StoreAnalysis(t)
  <2> SUFFICES ASSUME Add(t) PROVE Promise!StoreAnalysis(t)
    OBVIOUS
  <2>1. gate = t /\ call[t].kind = "update" /\ call[t].rest # <<>>
    BY DEF IInv, PointOK, Add, Gated
  <2>2. call' = [call EXCEPT ![t] = IF Head(call[t].rest).content = Absent
                                      THEN UpdateOf(Tail(call[t].rest))
                                      ELSE TableOf(call[t].rest)]
    BY DEF Add, NextChange
  <2>3. QED
    BY <2>1, <2>2 DEF Add, Promise!StoreAnalysis, Promise!UpdateOf, UpdateOf, Promise!TableOf, TableOf
<1>3. PutContent(t) => Promise!StoreTable(t)
  <2> SUFFICES ASSUME PutContent(t) PROVE Promise!StoreTable(t)
    OBVIOUS
  <2>1. gate = t /\ call[t].kind = "table"
    BY DEF IInv, PointOK, PutContent, Gated
  <2>2. QED
    BY <2>1 DEF PutContent, NextChange, Promise!StoreTable, Promise!UpdateOf, UpdateOf
<1>4. Publish(t) => Promise!Resolve(t)
  <2> SUFFICES ASSUME Publish(t) PROVE Promise!Resolve(t)
    OBVIOUS
  <2>1. gate = t /\ call[t].kind = "update" /\ call[t].rest = <<>> /\ seen[t] = entries
    BY DEF IInv, PointOK, SeenOK, Publish, Gated
  <2>2. QED
    BY <2>1 DEF Publish, dataVars, Promise!Resolve, Promise!Idle, Idle, Promise!Candidates,
                  Candidates, Promise!Candidate, Candidate, Promise!Indexed, Indexed
<1>5. QED
  BY <1>1, <1>2, <1>3, <1>4

\* Every other step changes nothing the promise speaks of.
LEMMA Stutters ==
  ASSUME NEW t \in Threads,
         \/ TakeReadLock(t) \/ TakeWriteLock(t) \/ LookupMiss(t) \/ SnapshotEntries(t)
         \/ \E p \in Paths : VisitEntry(t, p)
  PROVE  UNCHANGED Promise!vars
BY DEF TakeReadLock, TakeWriteLock, LookupMiss, SnapshotEntries, VisitEntry, dataVars, Promise!vars

\* The shared index implements its atomic promise: the cached name map, the
\* double check of a lookup and the sweeps under one read lock are invisible to
\* the threads that share it.
THEOREM Refinement == Spec => Implements
<1>1. Init => Promise!Init
  BY DEF Init, Promise!Init, Promise!Idle, Idle, Promise!NoAnswer, NoAnswer
<1>2. IInv /\ [Next]_vars => [Promise!Next]_Promise!vars
  <2> SUFFICES ASSUME IInv, [Next]_vars PROVE [Promise!Next]_Promise!vars
    OBVIOUS
  <2>1. CASE UNCHANGED vars
    BY <2>1 DEF vars, dataVars, threadVars, Promise!vars
  <2>2. ASSUME NEW t \in Threads, NEW c \in CallsOf[t], Start(t, c)
        PROVE  Promise!Start(t, c)
    BY <2>2 DEF IInv, PointOK, Start, dataVars, Promise!Start, Promise!Idle, Idle
  <2>3. ASSUME NEW t \in Threads, Step(t)
        PROVE  [Promise!Next]_Promise!vars
    <3>1. CASE Get(t) \/ ProtocolRange(t) \/ SweepEnds(t) \/ LookupHit(t) \/ LookupBuild(t)
      BY <3>1, Responds DEF Promise!Next
    <3>2. CASE TakeGate(t) \/ Add(t) \/ PutContent(t) \/ Publish(t)
      BY <3>2, Updates DEF Promise!Next
    <3>3. CASE Return(t)
      <4>1. Promise!Return(t)
        BY <3>3 DEF IInv, PointOK, Return, dataVars, Promise!Return,
                        Promise!Idle, Idle, Promise!NoAnswer, NoAnswer
      <4>2. QED
        BY <4>1 DEF Promise!Next
    <3>4. CASE \/ TakeReadLock(t) \/ TakeWriteLock(t) \/ LookupMiss(t) \/ SnapshotEntries(t)
               \/ \E p \in Paths : VisitEntry(t, p)
      BY <3>4, Stutters
    <3>5. QED
      BY <2>3, <3>1, <3>2, <3>3, <3>4 DEF Step
  <2>4. QED
    BY <2>1, <2>2, <2>3 DEF Next, Promise!Next
<1>3. QED
  BY <1>1, <1>2, Invariant, PTL DEF Spec, Implements, Promise!Spec

===============================================================================
