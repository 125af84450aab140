----------------------------- MODULE SharedIndex ------------------------------
(***************************************************************************)
(* The one workspace.Index, shared by the dispatch loop, the background    *)
(* build and whoever else holds it: its read-write mutex, its entries and  *)
(* line-width tables, and the name index it caches between mutations       *)
(* (internal/workspace/index.go).  A step is what a goroutine does between *)
(* two operations on a lock.  The server's updates run one at a time, each *)
(* under the write lock of idxResMu (internal/server/server.go); queries   *)
(* run without it, on the index they have picked up under it.              *)
(***************************************************************************)
EXTENDS IndexCalls, FiniteSets

VARIABLES
  entries,       \* the analysis of each path
  lineWidths,    \* the content each path's table was built from
  nameIndex,     \* the cached name map, or Absent
  nameIndexCfg,  \* the configuration it was built for, or Absent
  resolved,      \* the name map the resolution set in force was computed from
  gate,          \* who holds the write lock of idxResMu
  mu,            \* the index's mutex
  call,          \* the call of each thread, with what is left of it
  pc,            \* where in it the thread is
  seen,          \* what it has collected under the lock it holds
  answer         \* what it has returned

dataVars == <<entries, lineWidths>>
nameVars == <<nameIndex, nameIndexCfg>>
threadVars == <<call, pc, seen, answer>>
vars == <<dataVars, nameVars, resolved, gate, mu, threadVars>>

-------------------------------------------------------------------------------
(***************************************************************************)
(* sync.RWMutex.  A writer first becomes the only one and announces        *)
(* itself: from then on readers queue, and it holds the lock when those    *)
(* before it have left.  Its Unlock lets the queued readers in.            *)
(***************************************************************************)
Unlocked == [writer |-> NoThread, readers |-> {}, queued |-> {}]

RLock(t) ==
  mu' = IF mu.writer = NoThread THEN [mu EXCEPT !.readers = @ \cup {t}]
                                ELSE [mu EXCEPT !.queued = @ \cup {t}]

RUnlock(t) == mu' = [mu EXCEPT !.readers = @ \ {t}]

Lock(t) == mu.writer = NoThread /\ mu' = [mu EXCEPT !.writer = t]

Unlock(t) == mu' = [Unlocked EXCEPT !.readers = mu.queued]

Reading(t) == t \in mu.readers
Writing(t) == mu.writer = t /\ mu.readers = {}

-------------------------------------------------------------------------------
Goto(t, next) == pc' = [pc EXCEPT ![t] = next]

\* A call begins.
Start(t, c) ==
  /\ pc[t] = "idle"
  /\ call' = [call EXCEPT ![t] = c]
  /\ Goto(t, IF c.kind = "update" THEN "gate" ELSE "rlock")
  /\ UNCHANGED <<dataVars, nameVars, resolved, gate, mu, seen, answer>>

\* A call takes the read lock, or queues for it.
TakeReadLock(t) ==
  /\ pc[t] \in {"rlock", "resolve"}
  /\ RLock(t)
  /\ Goto(t, IF pc[t] = "rlock" THEN call[t].kind ELSE "resolving")
  /\ UNCHANGED <<dataVars, nameVars, resolved, gate, call, seen, answer>>

Reply(t, x) ==
  /\ answer' = [answer EXCEPT ![t] = Answered(x)]
  /\ Goto(t, "return")

Return(t) ==
  /\ pc[t] = "return"
  /\ answer' = [answer EXCEPT ![t] = NoAnswer]
  /\ call' = [call EXCEPT ![t] = Idle]
  /\ Goto(t, "idle")
  /\ UNCHANGED <<dataVars, nameVars, resolved, gate, mu, seen>>

\* Get.
Get(t) ==
  /\ pc[t] = "get"
  /\ Reading(t)
  /\ Reply(t, entries[call[t].path])
  /\ RUnlock(t)
  /\ UNCHANGED <<dataVars, nameVars, resolved, gate, call, seen>>

\* ProtocolRange: the table is picked up under the lock, and never changes.
ProtocolRange(t) ==
  /\ pc[t] = "range"
  /\ Reading(t)
  /\ Reply(t, lineWidths[call[t].path])
  /\ RUnlock(t)
  /\ UNCHANGED <<dataVars, nameVars, resolved, gate, call, seen>>

\* ForEachWithRange: the callback is called with one file after another.
VisitEntry(t, p) ==
  /\ pc[t] = "sweep"
  /\ Reading(t)
  /\ entries[p] # Absent
  /\ seen[t][p] = Absent
  /\ seen' = [seen EXCEPT ![t][p] = Seen(entries, lineWidths, p)]
  /\ UNCHANGED <<dataVars, nameVars, resolved, gate, mu, call, pc, answer>>

SweepEnds(t) ==
  /\ pc[t] = "sweep"
  /\ Reading(t)
  /\ \A p \in Indexed(entries) : seen[t][p] # Absent
  /\ Reply(t, seen[t])
  /\ seen' = [seen EXCEPT ![t] = [p \in Paths |-> Absent]]
  /\ RUnlock(t)
  /\ UNCHANGED <<dataVars, nameVars, resolved, gate, call>>

-------------------------------------------------------------------------------
(***************************************************************************)
(* LookupByName, through the cached name index.                            *)
(***************************************************************************)
Cached(cfg) == nameIndex # Absent /\ nameIndexCfg = cfg

\* The fast path.
LookupHit(t) ==
  /\ pc[t] = "lookup"
  /\ Reading(t)
  /\ Cached(call[t].cfg)
  /\ Reply(t, Bucket(nameIndex, call[t]))
  /\ RUnlock(t)
  /\ UNCHANGED <<dataVars, nameVars, resolved, gate, call, seen>>

\* No map, or one of another configuration: the read lock is released.
LookupMiss(t) ==
  /\ pc[t] = "lookup"
  /\ Reading(t)
  /\ ~Cached(call[t].cfg)
  /\ RUnlock(t)
  /\ Goto(t, "lock")
  /\ UNCHANGED <<dataVars, nameVars, resolved, gate, call, seen, answer>>

\* The slow path checks again, and builds from the entries as they are now.
LookupBuild(t) ==
  /\ pc[t] = "build"
  /\ Writing(t)
  /\ LET cfg == call[t].cfg
         map == IF Cached(cfg) THEN nameIndex ELSE Candidates(entries, cfg)
     IN  /\ nameIndex' = map
         /\ nameIndexCfg' = cfg
         /\ Reply(t, Bucket(map, call[t]))
  /\ Unlock(t)
  /\ UNCHANGED <<dataVars, resolved, gate, call, seen>>

-------------------------------------------------------------------------------
(***************************************************************************)
(* The updates: applyDocumentChange, with one change, and                  *)
(* replayOpenBuffers, with one for each open buffer.                       *)
(***************************************************************************)
\* A bug TakeGate could have: an update does not wait for the one before it.
TakeGateUnguarded(t) ==
  /\ pc[t] = "gate"
  /\ gate' = t
  /\ Goto(t, "add")
  /\ UNCHANGED <<dataVars, nameVars, resolved, mu, call, seen, answer>>

TakeGate(t) ==
  /\ pc[t] = "gate"
  /\ gate = NoThread
  /\ gate' = t
  /\ Goto(t, "add")
  /\ UNCHANGED <<dataVars, nameVars, resolved, mu, call, seen, answer>>

\* A writer announces itself.
TakeWriteLock(t) ==
  /\ pc[t] \in {"lock", "add", "put"}
  /\ Lock(t)
  /\ Goto(t, CASE pc[t] = "lock" -> "build"
               [] pc[t] = "add"  -> "adding"
               [] pc[t] = "put"  -> "putting")
  /\ UNCHANGED <<dataVars, nameVars, resolved, gate, call, seen, answer>>

\* Where an update goes on when a change is stored.
NextChange(t, rest) ==
  /\ call' = [call EXCEPT ![t] = UpdateOf(rest)]
  /\ Goto(t, IF rest = <<>> THEN "resolve" ELSE "add")

\* A bug Add could have: the cached name index is kept.
AddKeepingNames(t) ==
  /\ pc[t] = "adding"
  /\ Writing(t)
  /\ LET change == Head(call[t].rest)
     IN  /\ entries' = [entries EXCEPT ![change.path] = change.analysis]
         /\ IF change.content = Absent
              THEN NextChange(t, Tail(call[t].rest))
              ELSE /\ call' = [call EXCEPT ![t] = TableOf(call[t].rest)]
                   /\ Goto(t, "put")
  /\ Unlock(t)
  /\ UNCHANGED <<lineWidths, nameVars, resolved, gate, seen, answer>>

\* Add: the entry, and the cached name index is dropped.  PutContent follows
\* if there is content.
Add(t) ==
  /\ pc[t] = "adding"
  /\ Writing(t)
  /\ LET change == Head(call[t].rest)
     IN  /\ entries' = [entries EXCEPT ![change.path] = change.analysis]
         /\ IF change.content = Absent
              THEN NextChange(t, Tail(call[t].rest))
              ELSE /\ call' = [call EXCEPT ![t] = TableOf(call[t].rest)]
                   /\ Goto(t, "put")
  /\ nameIndex' = Absent
  /\ nameIndexCfg' = Absent
  /\ Unlock(t)
  /\ UNCHANGED <<lineWidths, resolved, gate, seen, answer>>

PutContent(t) ==
  /\ pc[t] = "putting"
  /\ Writing(t)
  /\ LET change == Head(call[t].rest)
     IN  lineWidths' = [lineWidths EXCEPT ![change.path] = change.content]
  /\ NextChange(t, Tail(call[t].rest))
  /\ Unlock(t)
  /\ UNCHANGED <<entries, nameVars, resolved, gate, seen, answer>>

\* ResolveInto's buildNameIndex: a snapshot under the read lock, from which the
\* name map is built after it.
SnapshotEntries(t) ==
  /\ pc[t] = "resolving"
  /\ Reading(t)
  /\ seen' = [seen EXCEPT ![t] = entries]
  /\ RUnlock(t)
  /\ Goto(t, "publish")
  /\ UNCHANGED <<dataVars, nameVars, resolved, gate, call, answer>>

\* A bug Publish could have: idxResMu is not released.
PublishHolding(t) ==
  /\ pc[t] = "publish"
  /\ resolved' = Candidates(seen[t], ServerConfig)
  /\ seen' = [seen EXCEPT ![t] = [p \in Paths |-> Absent]]
  /\ call' = [call EXCEPT ![t] = Idle]
  /\ Goto(t, "idle")
  /\ UNCHANGED <<dataVars, nameVars, gate, mu, answer>>

\* The resolution set is swapped, and idxResMu released.
Publish(t) ==
  /\ pc[t] = "publish"
  /\ resolved' = Candidates(seen[t], ServerConfig)
  /\ seen' = [seen EXCEPT ![t] = [p \in Paths |-> Absent]]
  /\ gate' = NoThread
  /\ call' = [call EXCEPT ![t] = Idle]
  /\ Goto(t, "idle")
  /\ UNCHANGED <<dataVars, nameVars, mu, answer>>

-------------------------------------------------------------------------------
Init ==
  /\ entries = [p \in Paths |-> Absent]
  /\ lineWidths = [p \in Paths |-> Absent]
  /\ nameIndex = Absent
  /\ nameIndexCfg = Absent
  /\ resolved = {}
  /\ gate = NoThread
  /\ mu = Unlocked
  /\ call = [t \in Threads |-> Idle]
  /\ pc = [t \in Threads |-> "idle"]
  /\ seen = [t \in Threads |-> [p \in Paths |-> Absent]]
  /\ answer = [t \in Threads |-> NoAnswer]

\* What a thread does within a call.
Step(t) ==
  \/ TakeGate(t) \/ TakeReadLock(t) \/ TakeWriteLock(t) \/ Return(t)
  \/ Get(t) \/ ProtocolRange(t)
  \/ SweepEnds(t) \/ \E p \in Paths : VisitEntry(t, p)
  \/ LookupHit(t) \/ LookupMiss(t) \/ LookupBuild(t)
  \/ Add(t) \/ PutContent(t) \/ SnapshotEntries(t) \/ Publish(t)

Next == \E t \in Threads : Step(t) \/ \E c \in CallsOf[t] : Start(t, c)

\* A goroutine that can run runs.  It can for as long as it has not, but where
\* it competes for a lock with other writers: there sync.Mutex hands over to
\* the one that has waited longest.
Fairness == \A t \in Threads : SF_vars(Step(t))

Spec == Init /\ [][Next]_vars /\ Fairness

-------------------------------------------------------------------------------
Promise == INSTANCE AtomicIndex WITH updater <- gate

\* Every method looks to every thread as if it took effect in one step, though
\* a lookup may answer from a map built long before it was called and a sweep
\* meets the files one at a time: no answer mixes two states of the index, and
\* no cached map outlives the entries or the configuration it was built from.
Implements == Promise!Spec

\* Between two updates the resolution set in force was computed from the
\* entries as they are.  Every update resolves outside the index's own lock.
ResolvedFollowsEntries ==
  gate = NoThread => resolved = Candidates(entries, ServerConfig)

\* A call that begins returns: no goroutine waits for a lock it holds, no two
\* wait for each other, and readers and writers do not starve one another.
CallsReturn == \A t \in Threads : pc[t] # "idle" ~> pc[t] = "idle"

===============================================================================
