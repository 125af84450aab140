--------------------------- MODULE ServerSyncProofs ---------------------------
(***************************************************************************)
(* The published pair agrees, every state has its shape, a request after   *)
(* the replay reads one pair, what is shown of a document is what its      *)
(* buffer says, the index follows the buffers and the disk, and the        *)
(* published pair implements IndexUpdates: whatever the workspace, the     *)
(* client and the interleaving.                                            *)
(***************************************************************************)
EXTENDS ServerSync, ResolutionProofs, FiniteSetTheorems, SequenceTheorems

-------------------------------------------------------------------------------
\* Until the index is published only the build writes it.
Unpublished == {"none", "walk", "scan", "guard", "publish"}

\* The pair agrees from the moment the build has resolved its index: its own
\* steps up to the publication leave it alone, and those of the handlers need
\* a published index.
PairInv ==
  /\ state = "preInit" => build = "none"
  /\ published => build \notin Unpublished
  /\ build \in {"guard", "publish"} /\ ~failed => res = Resolve(index)
  /\ build = "replay" => DOMAIN snapshot # {}
  /\ PairAgrees

LEMMA InitPair == Init => PairInv
BY DEF Init, PairInv, PairAgrees

\* A step that touches neither the build nor the pair.
LEMMA QuietStep ==
  ASSUME PairInv, UNCHANGED <<buildVars, pairVars>>,
         state' = "preInit" => state = "preInit"
  PROVE  PairInv'
BY DEF PairInv, PairAgrees, buildVars, pairVars

\* The build's steps.
LEMMA BuildKeepsPair ==
  ASSUME PairInv, BuildStep
  PROVE  PairInv'
<1> USE DEF PairInv, PairAgrees
<1>1. CASE Walk
  BY <1>1 DEF Walk, pairVars, Unpublished
<1>2. CASE ScanFile
  BY <1>2 DEF ScanFile, Unpublished
<1>3. CASE AbandonScan
  BY <1>3 DEF AbandonScan, pairVars, Unpublished
<1>4. CASE ResolveAll
  BY <1>4 DEF ResolveAll, Unpublished
<1>5. CASE Guard
  BY <1>5 DEF Guard, pairVars, Unpublished
<1>6. CASE PublishIndex
  BY <1>6 DEF PublishIndex, Unpublished
<1>7. CASE CollectBuffers
  BY <1>7 DEF CollectBuffers, pairVars, Unpublished, Open
<1>8. CASE ReplayBuffers
  <2> DEFINE merged == [p \in DOMAIN snapshot |-> snapshot[p].analysis]
  <2>1. CASE ~published
    BY <1>8, <2>1 DEF ReplayBuffers, Unpublished
  <2>2. CASE published
    <3>1. DOMAIN merged = DOMAIN snapshot /\ DOMAIN snapshot # {}
      BY <1>8 DEF ReplayBuffers
    <3>2. /\ index' = Put(index, merged)
          /\ res' = ResolveInto(res, index', DOMAIN snapshot)
      BY <1>8, <2>2 DEF ReplayBuffers
    <3>3. res = Resolve(index)
      BY <2>2
    <3> HIDE DEF merged
    <3>4. res' = Resolve(index')
      BY <3>1, <3>2, <3>3, LockSection
    <3>5. build' = "refresh" /\ UNCHANGED <<state, published>>
      BY <1>8 DEF ReplayBuffers
    <3>6. state # "preInit"
      BY <1>8 DEF ReplayBuffers
    <3> QED
      BY <3>4, <3>5, <3>6 DEF Unpublished
  <2> QED
    BY <2>1, <2>2
<1>9. CASE BuildRefresh
  BY <1>9 DEF BuildRefresh, pairVars, Unpublished
<1> QED
  BY <1>1, <1>2, <1>3, <1>4, <1>5, <1>6, <1>7, <1>8, <1>9 DEF BuildStep

\* applyDocumentChange.
LEMMA ApplyKeepsPair ==
  ASSUME PairInv, ApplyChange
  PROVE  PairInv'
<1> USE DEF PairInv, PairAgrees
<1> DEFINE p      == handler.path
           update == Only(p, AnalyzeOne(p, handler.content))
<1>1. UNCHANGED <<state, build, failed, snapshot, published>>
  BY DEF ApplyChange, buildVars
<1>2. CASE ~published
  <2>1. UNCHANGED <<index, res>>
    BY <1>2 DEF ApplyChange
  <2> QED
    BY <1>1, <2>1
<1>3. CASE published
  <2>1. DOMAIN update = {p} /\ DOMAIN update # {}
    BY DEF Only
  <2>2. index' = Put(index, update) /\ res' = ResolveInto(res, index', {p})
    BY <1>3 DEF ApplyChange, Add
  <2>3. res = Resolve(index)
    BY <1>3
  <2> HIDE DEF update, p
  <2>4. res' = Resolve(index')
    BY <2>1, <2>2, <2>3, LockSection
  <2> QED
    BY <1>1, <1>3, <2>4
<1> QED
  BY <1>2, <1>3

\* The other steps of the handlers are quiet.
LEMMA HandlerKeepsPair ==
  ASSUME PairInv, HandlerStep
  PROVE  PairInv'
<1>1. CASE ApplyChange
  BY <1>1, ApplyKeepsPair
<1>2. CASE HandleEvent \/ EventsHandled \/ PublishSnapshot \/ PublishSend
           \/ ClearShown \/ HandlerRefresh \/ Answer
  <2>1. UNCHANGED <<state, buildVars, pairVars>>
    BY <1>2 DEF HandleEvent, EventsHandled, PublishSnapshot, PublishSend,
                ClearShown, HandlerRefresh, Answer
  <2> QED
    BY <2>1, QuietStep
<1> QED
  BY <1>1, <1>2 DEF HandlerStep

\* The client spawns the build, and is quiet otherwise.
LEMMA UserKeepsPair ==
  ASSUME PairInv, UserStep \/ Return
  PROVE  PairInv'
<1>1. CASE Initialized
  BY <1>1 DEF Initialized, PairInv, PairAgrees, pairVars, Unpublished
<1>2. CASE \/ DidChangeWatchedFiles \/ Request \/ Shutdown \/ Leave \/ Return
           \/ \E p \in Paths : DidClose(p)
           \/ \E p \in Paths, c \in Contents : DidOpen(p, c) \/ DidChange(p, c)
           \/ \E p \in Paths \ Outside, c \in Contents \cup {Absent} :
                WriteDisk(p, c)
  <2>1. /\ UNCHANGED <<buildVars, pairVars>>
        /\ state' = "preInit" => state = "preInit"
    BY <1>2 DEF DidChangeWatchedFiles, Request, Shutdown, Leave, Return,
                DidClose, DidOpen, DidChange, WriteDisk
  <2> QED
    BY <2>1, QuietStep
<1> QED
  BY <1>1, <1>2 DEF UserStep

LEMMA StepPair == PairInv /\ [Next]_vars => PairInv'
<1>1. ASSUME PairInv, UNCHANGED vars PROVE PairInv'
  BY <1>1, QuietStep DEF vars
<1>2. ASSUME PairInv, Next PROVE PairInv'
  BY <1>1, <1>2, BuildKeepsPair, HandlerKeepsPair, UserKeepsPair
     DEF Next, Returned
<1> QED
  BY <1>1, <1>2

\* The published resolution set is the one a full pass over the published
\* index would compute: no step of the build or of a handler parts the two.
THEOREM PublishedPairAgrees == Spec => []PairAgrees
<1>1. PairInv => PairAgrees
  BY DEF PairInv
<1> QED
  BY <1>1, InitPair, StepPair, PTL DEF Spec

-------------------------------------------------------------------------------
\* Types.
LEMMA AnalysisTypes ==
  ASSUME NEW p \in Paths, NEW c
  PROVE  /\ c \in Contents \cup {Absent} => AnalysisOK(AnalyzeOne(p, c))
         /\ c \in Contents => AnalysisOK(ScanAnalyze(p, c))
<1>1. /\ AnalysisOK(ZeroAnalysis)
      /\ AnalysisOK([ZeroAnalysis EXCEPT !.type = "unknown"])
  BY DEF AnalysisOK, ZeroAnalysis, EdgesOK, Nothing, ObjectTypes
<1>2. c \in Contents \cup {Absent} => AnalysisOK(Analyze(p, c))
  BY <1>1, SyncAssumption DEF Analyze, AnalysisOK, ZeroAnalysis
<1> QED
  BY <1>1, <1>2 DEF AnalyzeOne, ScanAnalyze

LEMMA PutDocument ==
  ASSUME NEW f, DocumentsOK(f), NEW p \in Paths, NEW c \in Contents
  PROVE  DocumentsOK(Put(f, Only(p, Document(p, c))))
<1>1. AnalysisOK(Document(p, c).analysis) /\ Document(p, c).content = c
  BY AnalysisTypes DEF Document
<1> QED
  BY <1>1 DEF DocumentsOK, Put, Only

LEMMA InitTypes == Init => TypeOK
<1> SUFFICES ASSUME Init PROVE TypeOK
  OBVIOUS
<1>1. SessionOK
  BY DEF Init, SessionOK
<1>2. BuildOK
  BY DEF Init, BuildOK, DocumentsOK, Nothing
<1>3. PairOK
  BY DEF Init, PairOK, IndexOK, Nothing
<1>4. DiskOK
  BY SyncAssumption DEF Init, DiskOK, Nothing
<1>5. ViewOK
  BY DEF Init, ViewOK, AstrayReasons
<1>6. DocumentsOK(store)
  BY DEF Init, DocumentsOK, Nothing
<1>7. HandlerOK(handler)
  <2>1. BetweenFiles(handler)
    BY Zenon DEF Init, BetweenFiles
  <2> QED
    BY <2>1, Zenon DEF HandlerOK, AfterApply
<1> QED
  BY <1>1, <1>2, <1>3, <1>4, <1>5, <1>6, <1>7 DEF TypeOK

\* Adding one analysis of the right shape, with its content.
LEMMA AddTypes ==
  ASSUME PairOK, NEW p \in Paths, NEW analysis, AnalysisOK(analysis),
         NEW content, Add(p, analysis, content), published' \in BOOLEAN
  PROVE  PairOK'
<1> USE DEF PairOK
<1>1. IndexOK(Only(p, analysis)) /\ DOMAIN Only(p, content) = {p}
  BY DEF IndexOK, Only
<1>2. IndexOK(index')
  BY <1>1, PutTypes DEF Add
<1>3. DOMAIN index' = DOMAIN index \cup {p}
  BY DEF Add, Put, Only
<1>4. DOMAIN lineWidths' \subseteq DOMAIN lineWidths \cup {p}
  BY <1>1 DEF Add, Put
<1> QED
  BY <1>2, <1>3, <1>4

\* The build's steps.
LEMMA BuildKeepsTypes ==
  ASSUME TypeOK, BuildStep
  PROVE  TypeOK'
<1>1. UNCHANGED <<state, cancelled, store, handler, userVars, shown, astray>>
  BY DEF BuildStep, Walk, ScanFile, AbandonScan, ResolveAll, Guard,
         PublishIndex, CollectBuffers, ReplayBuffers, BuildRefresh
<1>2. DiskOK' /\ ViewOK' /\ DocumentsOK(store)' /\ HandlerOK(handler)'
  BY <1>1 DEF TypeOK, DiskOK, ViewOK, userVars
<1>3. SessionOK'
  BY <1>1 DEF TypeOK, SessionOK, BuildStep, Walk, ScanFile, AbandonScan,
              ResolveAll, Guard, PublishIndex, CollectBuffers, ReplayBuffers,
              BuildRefresh, Refresh
<1>4. BuildOK'
  BY DEF TypeOK, BuildOK, BuildStep, Walk, ScanFile, AbandonScan, ResolveAll,
         Guard, PublishIndex, CollectBuffers, ReplayBuffers, BuildRefresh
<1>5. PairOK'
  <2>1. CASE ScanFile
    <3> DEFINE p == FirstByPath(todo)
    <3>1. p \in Paths
      BY <2>1, FirstIsMember DEF ScanFile, TypeOK, BuildOK
    <3>2. CASE disk[p] \in TooLarge \cup {Absent}
      BY <2>1, <3>2 DEF ScanFile, TypeOK, PairOK
    <3>3. CASE disk[p] \notin TooLarge \cup {Absent}
      <4>1. disk[p] \in Contents
        BY <3>1, <3>3 DEF TypeOK, DiskOK
      <4>2. AnalysisOK(ScanAnalyze(p, disk[p]))
        BY <3>1, <4>1, AnalysisTypes
      <4>3. Add(p, ScanAnalyze(p, disk[p]), disk[p]) /\ published' = published
        BY <2>1, <3>3 DEF ScanFile
      <4> HIDE DEF p
      <4> QED
        BY <3>1, <4>2, <4>3, AddTypes DEF TypeOK, PairOK
    <3> QED
      BY <3>2, <3>3
  <2>2. CASE ReplayBuffers
    <3> DEFINE merged   == [p \in DOMAIN snapshot |-> snapshot[p].analysis]
               contents == [p \in DOMAIN snapshot |-> snapshot[p].content]
    <3>1. IndexOK(merged)
      BY DEF TypeOK, BuildOK, DocumentsOK, IndexOK
    <3>2. CASE ~published
      BY <2>2, <3>2 DEF ReplayBuffers, TypeOK, PairOK
    <3>3. CASE published
      <4>1. /\ index' = Put(index, merged)
            /\ lineWidths' = Put(lineWidths, contents)
            /\ published' = published
        BY <2>2, <3>3 DEF ReplayBuffers
      <4>2. IndexOK(index')
        BY <3>1, <4>1, PutTypes DEF TypeOK, PairOK
      <4>3. DOMAIN lineWidths' \subseteq DOMAIN index'
        BY <4>1 DEF Put, TypeOK, PairOK
      <4> QED
        BY <4>1, <4>2, <4>3 DEF TypeOK, PairOK
    <3> QED
      BY <3>2, <3>3
  <2>3. CASE PublishIndex
    BY <2>3 DEF PublishIndex, TypeOK, PairOK, BuildOK
  <2>4. CASE ~ScanFile /\ ~ReplayBuffers /\ ~PublishIndex
    BY <2>4 DEF TypeOK, PairOK, pairVars, BuildStep, Walk, AbandonScan,
                ResolveAll, Guard, CollectBuffers, BuildRefresh
  <2> QED
    BY <2>1, <2>2, <2>3, <2>4
<1> QED
  BY <1>2, <1>3, <1>4, <1>5 DEF TypeOK
\* What a handler of the right shape holds, by its step.
LEMMA HandlerShapes ==
  ASSUME NEW h, HandlerOK(h)
  PROVE  /\ h.step = "events" => h.rest \in Seq(Events)
         /\ h.step = "apply" => /\ h.path \in Paths
                                /\ h.content \in Contents \cup {Absent}
                                /\ h.from \in {"editor", "disk"}
                                /\ AfterApply(h.after)
         /\ h.step \in {"publish", "clear", "send"} => h.path \in Paths
                                               /\ BetweenFiles(h.after)
         /\ h.step = "answer" => h.published \in BOOLEAN
<1>1. Idle.step = "idle" /\ Refreshing.step = "refresh"
  BY DEF Idle, Refreshing
<1>2. BetweenFiles(h) => /\ h.step \in {"idle", "refresh", "events"}
                         /\ h.step = "events" => h.rest \in Seq(Events)
  BY <1>1 DEF BetweenFiles
<1> QED
  BY <1>2 DEF HandlerOK, AfterApply

\* Where a handler may go.
LEMMA HandlerTargets ==
  /\ HandlerOK(Idle) /\ BetweenFiles(Idle)
  /\ HandlerOK(Refreshing) /\ BetweenFiles(Refreshing)
  /\ \A h : BetweenFiles(h) => AfterApply(h)
  /\ \A h : AfterApply(h) => HandlerOK(h)
  /\ \A rest \in Seq(Events) : BetweenFiles(Reporting(rest))
  /\ \A p \in Paths : \A h : BetweenFiles(h) => AfterApply(Publishing(p, h))
  /\ \A p \in Paths, c \in Contents \cup {Absent} : \A h :
       AfterApply(h) => /\ HandlerOK(Applying(p, c, "editor", h))
                        /\ HandlerOK(Applying(p, c, "disk", h))
<1>1. BetweenFiles(Idle) /\ BetweenFiles(Refreshing)
  BY DEF BetweenFiles
<1>2. \A h : BetweenFiles(h) => AfterApply(h)
  BY DEF AfterApply
<1>3. \A h : AfterApply(h) => HandlerOK(h)
  BY DEF HandlerOK
<1>4. \A rest \in Seq(Events) : BetweenFiles(Reporting(rest))
  BY DEF BetweenFiles, Reporting
<1>5. \A p \in Paths : \A h : BetweenFiles(h) => AfterApply(Publishing(p, h))
  BY <1>2 DEF AfterApply, Publishing
<1>6. \A p \in Paths, c \in Contents \cup {Absent} : \A h :
        AfterApply(h) => /\ HandlerOK(Applying(p, c, "editor", h))
                         /\ HandlerOK(Applying(p, c, "disk", h))
  BY DEF HandlerOK, Applying
<1> QED
  BY <1>1, <1>2, <1>3, <1>4, <1>5, <1>6

\* One event read: the file is applied, or passed over.
LEMMA EventTypes ==
  ASSUME TypeOK, HandleEvent
  PROVE  HandlerOK(handler') /\ handler'.step \in {"apply", "events"}
<1> DEFINE event == Head(handler.rest)
           p     == event.path
           after == Reporting(Tail(handler.rest))
           clear == [step |-> "clear", path |-> p, after |-> after]
           deleted == Applying(p, Absent, "disk", clear)
           changed == Applying(p, disk[p], "disk", Publishing(p, after))
<1>1. handler.rest \in Seq(Events) /\ handler.rest # <<>>
  BY HandlerShapes DEF HandleEvent, TypeOK
<1>2. event \in Events /\ Tail(handler.rest) \in Seq(Events)
  BY <1>1
<1>3. p \in Paths /\ event.type \in {"changed", "deleted"}
  BY <1>2 DEF Events
<1>4. BetweenFiles(after)
  BY <1>2, HandlerTargets
<1>5. AfterApply(clear) /\ AfterApply(Publishing(p, after))
  BY <1>3, <1>4, HandlerTargets DEF AfterApply
<1>6. disk[p] \in Contents \cup {Absent}
  BY <1>3 DEF TypeOK, DiskOK
<1>7. handler' \in {deleted, after, changed}
  BY <1>3 DEF HandleEvent
<1>8. after.step = "events" /\ deleted.step = "apply" /\ changed.step = "apply"
  BY DEF Reporting, Applying
<1> HIDE DEF p, after, clear
<1> QED
  BY <1>3, <1>4, <1>5, <1>6, <1>7, <1>8, HandlerTargets

\* The steps of the handlers.
LEMMA HandlerKeepsTypes ==
  ASSUME TypeOK, HandlerStep
  PROVE  TypeOK'
<1>1. UNCHANGED <<state, cancelled, buildVars, published, store, userVars>>
  BY DEF HandlerStep, HandleEvent, EventsHandled, ApplyChange,
         PublishSnapshot, PublishSend, ClearShown, HandlerRefresh, Answer,
         pairVars
<1>2. BuildOK' /\ DiskOK' /\ DocumentsOK(store)'
  BY <1>1 DEF TypeOK, BuildOK, DiskOK, buildVars, userVars
<1>3. SessionOK'
  BY <1>1 DEF TypeOK, SessionOK, HandlerStep, HandleEvent, EventsHandled,
              ApplyChange, PublishSnapshot, PublishSend, ClearShown,
              HandlerRefresh, Answer, Refresh
<1>4. PairOK'
  <2>1. CASE ApplyChange /\ published
    <3> DEFINE p == handler.path
               c == handler.content
    <3>1. p \in Paths /\ c \in Contents \cup {Absent}
      BY <2>1, HandlerShapes DEF TypeOK, ApplyChange
    <3>2. AnalysisOK(AnalyzeOne(p, c))
      BY <3>1, AnalysisTypes
    <3>3. Add(p, AnalyzeOne(p, c), c)
      BY <2>1 DEF ApplyChange
    <3> HIDE DEF p, c
    <3> QED
      BY <1>1, <3>1, <3>2, <3>3, AddTypes DEF TypeOK, PairOK
  <2>2. CASE ~ (ApplyChange /\ published)
    BY <2>2 DEF TypeOK, PairOK, HandlerStep, HandleEvent, EventsHandled,
                ApplyChange, PublishSnapshot, PublishSend, ClearShown,
                HandlerRefresh, Answer, pairVars
  <2> QED
    BY <2>1, <2>2
<1>5. ViewOK'
  <2> DEFINE p == handler.path
  <2>1. CASE ApplyChange
    <3>1. Straying(p, handler.from) \in AstrayReasons
      BY <2>1, HandlerShapes
         DEF TypeOK, ViewOK, ApplyChange, Straying, AstrayReasons
    <3> QED
      BY <2>1, <3>1 DEF ApplyChange, TypeOK, ViewOK
  <2>2. CASE PublishSend
    <3>1. DOMAIN shown' = Paths
      BY <2>2 DEF PublishSend, TypeOK, ViewOK
    <3>2. astray' \in [Paths -> AstrayReasons]
      BY <2>2 DEF PublishSend, TypeOK, ViewOK, AstrayReasons
    <3> QED
      BY <3>1, <3>2 DEF ViewOK
  <2>3. CASE ClearShown
    BY <2>3 DEF ClearShown, TypeOK, ViewOK
  <2>4. CASE ~ApplyChange /\ ~PublishSend /\ ~ClearShown
    BY <2>4 DEF HandlerStep, HandleEvent, EventsHandled, PublishSnapshot,
                HandlerRefresh, Answer, TypeOK, ViewOK
  <2> QED
    BY <2>1, <2>2, <2>3, <2>4
<1>6. HandlerOK(handler)'
  <2>1. CASE HandleEvent
    BY <2>1, EventTypes
  <2>2. CASE EventsHandled \/ HandlerRefresh \/ Answer
    BY <2>2, HandlerTargets DEF EventsHandled, HandlerRefresh, Answer
  <2>3. CASE ApplyChange
    BY <2>3, HandlerShapes, HandlerTargets DEF ApplyChange, TypeOK
  <2>4. CASE PublishSnapshot
    <3>1. handler.path \in Paths /\ BetweenFiles(handler.after)
      BY <2>4, HandlerShapes DEF PublishSnapshot, TypeOK
    <3>2. /\ handler'.step = "send"
          /\ handler'.path = handler.path
          /\ handler'.after = handler.after
          /\ handler'.published = published
      BY <2>4 DEF PublishSnapshot
    <3> QED
      BY <3>1, <3>2 DEF HandlerOK, TypeOK, PairOK
  <2>5. CASE PublishSend
    BY <2>5, HandlerShapes, HandlerTargets DEF PublishSend, TypeOK
  <2>6. CASE ClearShown
    BY <2>6, HandlerShapes, HandlerTargets DEF ClearShown, TypeOK
  <2> QED
    BY <2>1, <2>2, <2>3, <2>4, <2>5, <2>6 DEF HandlerStep
<1> QED
  BY <1>2, <1>3, <1>4, <1>5, <1>6 DEF TypeOK
\* The events a client reports, in the order it picks.
LEMMA ReportTypes ==
  ASSUME DiskOK, NEW order \in SetToSeqs(DOMAIN events)
  PROVE  [i \in DOMAIN order |->
            [path |-> order[i], type |-> events[order[i]]]] \in Seq(Events)
<1> DEFINE D == DOMAIN events
<1>1. D \subseteq Paths /\ \A p \in D : events[p] \in {"changed", "deleted"}
  BY DEF DiskOK
<1>2. IsFiniteSet(D)
  BY <1>1, ConstantsAssumption, FS_Subset
<1>3. Cardinality(D) \in Nat
  BY <1>2, FS_CardinalityType
<1>4. order \in [1 .. Cardinality(D) -> D]
  BY DEF SetToSeqs
<1> HIDE DEF D
<1>5. DOMAIN order = 1 .. Cardinality(D)
  BY <1>4
<1>6. \A i \in 1 .. Cardinality(D) :
        [path |-> order[i], type |-> events[order[i]]] \in Events
  BY <1>1, <1>4 DEF Events
<1> QED
  BY <1>3, <1>5, <1>6

\* The steps of the client and the disk, and the return of Run.
LEMMA UserKeepsTypes ==
  ASSUME TypeOK, UserStep \/ Return
  PROVE  TypeOK'
<1>1. CASE Initialized \/ Shutdown \/ Leave \/ Return
  <2>1. /\ UNCHANGED <<todo, failed, snapshot, pairVars, store, handler,
                       userVars, shown, refreshOwed, astray>>
        /\ build' \in {build, "walk"}
        /\ state' \in {"initialized", "shutdown", "leaving", "returned"}
        /\ cancelled' \in {cancelled, TRUE}
    BY <1>1 DEF Initialized, Shutdown, Leave, Return, buildVars
  <2> QED
    BY <2>1 DEF TypeOK, SessionOK, BuildOK, PairOK, DiskOK, ViewOK, pairVars,
                userVars
<1>2. CASE DidChangeWatchedFiles
  <2>1. HandlerOK(handler')
    BY <1>2, ReportTypes, HandlerTargets
       DEF DidChangeWatchedFiles, TypeOK, Reporting
  <2> QED
    BY <1>2, <2>1
       DEF DidChangeWatchedFiles, TypeOK, SessionOK, BuildOK, PairOK, DiskOK,
           ViewOK, buildVars, pairVars, Nothing
<1>3. ASSUME Ready, inputs' = inputs + 1, UNCHANGED <<disk, events>>
      PROVE  DiskOK'
  <2>1. inputs' \in 0 .. MaxInputs
    BY <1>3, SyncAssumption DEF Ready, TypeOK, DiskOK
  <2> QED
    BY <1>3, <2>1 DEF TypeOK, DiskOK
<1>4. CASE Request
  <2>1. /\ handler'.step = "answer"
        /\ handler'.published = published
        /\ handler'.settled \in BOOLEAN
    BY <1>4 DEF Request, Settled
  <2>2. HandlerOK(handler')
    BY <2>1 DEF HandlerOK, TypeOK, PairOK
  <2>3. SessionOK' /\ BuildOK' /\ PairOK' /\ ViewOK' /\ DocumentsOK(store)'
    BY <1>4 DEF Request, TypeOK, SessionOK, BuildOK, PairOK, ViewOK,
                buildVars, pairVars
  <2> QED
    BY <1>3, <1>4, <2>2, <2>3 DEF Request, TypeOK
<1>5. ASSUME NEW p \in Paths, DidClose(p)
      PROVE  TypeOK'
  <2>1. DocumentsOK(store)'
    BY <1>5 DEF DidClose, TypeOK, DocumentsOK, Open
  <2>2. SessionOK' /\ BuildOK' /\ PairOK' /\ HandlerOK(handler)'
    BY <1>5 DEF DidClose, TypeOK, SessionOK, BuildOK, PairOK, buildVars,
                pairVars
  <2>3. ViewOK'
    BY <1>5 DEF DidClose, TypeOK, ViewOK, AstrayReasons
  <2> QED
    BY <1>3, <1>5, <2>1, <2>2, <2>3 DEF DidClose, TypeOK
<1>6. ASSUME NEW p \in Paths, NEW c \in Contents,
             DidOpen(p, c) \/ DidChange(p, c)
      PROVE  TypeOK'
  <2>1. DocumentsOK(store)'
    BY <1>6, PutDocument DEF DidOpen, DidChange, TypeOK
  <2>2. HandlerOK(handler)'
    BY <1>6, HandlerTargets DEF DidOpen, DidChange
  <2>3. SessionOK' /\ BuildOK' /\ PairOK'
    BY <1>6 DEF DidOpen, DidChange, TypeOK, SessionOK, BuildOK, PairOK,
                buildVars, pairVars
  <2>4. ViewOK'
    BY <1>6 DEF DidOpen, DidChange, TypeOK, ViewOK, AstrayReasons
  <2>5. DiskOK'
    BY <1>3, <1>6 DEF DidOpen, DidChange
  <2> QED
    BY <2>1, <2>2, <2>3, <2>4, <2>5 DEF TypeOK
<1>7. ASSUME NEW p \in Paths \ Outside, NEW c \in Contents \cup {Absent},
             WriteDisk(p, c)
      PROVE  TypeOK'
  <2>1. DiskOK'
    <3>1. disk' \in [Paths -> Contents \cup {Absent}]
      BY <1>7 DEF WriteDisk, TypeOK, DiskOK
    <3>2. /\ DOMAIN events' \subseteq Paths
          /\ \A q \in DOMAIN events' : events'[q] \in {"changed", "deleted"}
      BY <1>7 DEF WriteDisk, TypeOK, DiskOK, Put, Only
    <3>3. inputs' \in 0 .. MaxInputs
      BY <1>7, SyncAssumption DEF WriteDisk, TypeOK, DiskOK
    <3> QED
      BY <3>1, <3>2, <3>3 DEF DiskOK
  <2> QED
    BY <1>7, <2>1
       DEF WriteDisk, TypeOK, SessionOK, BuildOK, PairOK, ViewOK, buildVars,
           pairVars
<1> QED
  BY <1>1, <1>2, <1>3, <1>4, <1>5, <1>6, <1>7 DEF UserStep

LEMMA StepTypes == TypeOK /\ [Next]_vars => TypeOK'
<1>1. ASSUME TypeOK, UNCHANGED vars PROVE TypeOK'
  BY <1>1 DEF vars, TypeOK, SessionOK, BuildOK, PairOK, DiskOK, ViewOK,
              buildVars, pairVars, userVars
<1>2. ASSUME TypeOK, Next PROVE TypeOK'
  BY <1>1, <1>2, BuildKeepsTypes, HandlerKeepsTypes, UserKeepsTypes
     DEF Next, Returned
<1> QED
  BY <1>1, <1>2

\* Every state of the server has its shape: what a handler remembers between
\* its steps fits the step it takes next.
THEOREM TypesHold == Spec => []TypeOK
<1> QED
  BY InitTypes, StepTypes, PTL DEF Spec
-------------------------------------------------------------------------------
\* While a request that came after the replay is answered, no step changes the
\* pair it took: the build is past its last lock section and the dispatch loop
\* is in this very request.
RequestInv ==
  /\ TypeOK
  /\ PairInv
  /\ handler.step = "answer" /\ handler.published /\ handler.settled =>
       Settled /\ published /\ handler.res = res

LEMMA InitRequest == Init => RequestInv
<1> SUFFICES ASSUME Init PROVE RequestInv
  OBVIOUS
<1>1. handler.step # "answer"
  BY DEF Init, Idle
<1> QED
  BY <1>1, InitPair, InitTypes DEF RequestInv

LEMMA StepRequest == RequestInv /\ [Next]_vars => RequestInv'
<1> SUFFICES ASSUME RequestInv, [Next]_vars,
                    handler'.step = "answer", handler'.published,
                    handler'.settled
             PROVE  Settled' /\ published' /\ handler'.res = res'
  BY StepPair, StepTypes DEF RequestInv
<1>1. CASE UNCHANGED vars
  BY <1>1 DEF RequestInv, vars, Settled, buildVars, pairVars
<1>2. CASE BuildStep
  <2>1. handler' = handler
    BY <1>2 DEF BuildStep, Walk, ScanFile, AbandonScan, ResolveAll, Guard,
                PublishIndex, CollectBuffers, ReplayBuffers, BuildRefresh
  <2>2. Settled /\ published /\ handler.res = res
    BY <2>1 DEF RequestInv
  <2>3. BuildRefresh
    BY <1>2, <2>2
       DEF Settled, BuildStep, Walk, ScanFile, AbandonScan, ResolveAll, Guard,
           PublishIndex, CollectBuffers, ReplayBuffers
  <2> QED
    BY <2>1, <2>2, <2>3 DEF BuildRefresh, Settled, pairVars
<1>3. CASE HandlerStep
  <2>1. HandlerOK(handler)
    BY DEF RequestInv, TypeOK
  <2>2. \A h : AfterApply(h) => h.step # "answer"
    BY DEF AfterApply, BetweenFiles, Idle, Refreshing
  <2>3. \A h : BetweenFiles(h) => h.step # "answer"
    BY DEF BetweenFiles, Idle, Refreshing
  <2>4. handler'.step # "answer"
    <3>1. CASE HandleEvent
      BY <3>1, EventTypes DEF RequestInv
    <3>2. CASE EventsHandled \/ HandlerRefresh \/ Answer
      BY <3>2 DEF EventsHandled, HandlerRefresh, Answer, Idle, Refreshing
    <3>3. CASE ApplyChange
      BY <2>1, <2>2, <3>3, HandlerShapes DEF ApplyChange
    <3>4. CASE PublishSnapshot
      BY <3>4 DEF PublishSnapshot
    <3>5. CASE PublishSend
      BY <2>1, <2>3, <3>5, HandlerShapes DEF PublishSend, Idle
    <3>6. CASE ClearShown
      BY <2>1, <2>3, <3>6, HandlerShapes DEF ClearShown
    <3> QED
      BY <1>3, <3>1, <3>2, <3>3, <3>4, <3>5, <3>6 DEF HandlerStep
  <2> QED
    BY <2>4
<1>4. CASE Request
  BY <1>4 DEF Request, Settled, buildVars, pairVars
<1>5. CASE \/ DidChangeWatchedFiles
           \/ \E p \in Paths, c \in Contents : DidOpen(p, c) \/ DidChange(p, c)
  <2>1. handler'.step # "answer"
    BY <1>5 DEF DidChangeWatchedFiles, DidOpen, DidChange, Reporting, Applying,
                Publishing, Idle
  <2> QED
    BY <2>1
<1>6. CASE Initialized
  <2>1. ~Settled
    BY <1>6 DEF Initialized, RequestInv, PairInv, Settled
  <2> QED
    BY <1>6, <2>1 DEF Initialized, RequestInv
<1>7. CASE \/ Shutdown \/ Leave \/ Return \/ Returned
           \/ \E p \in Paths : DidClose(p)
           \/ \E p \in Paths \ Outside, c \in Contents \cup {Absent} :
                WriteDisk(p, c)
  <2>1. UNCHANGED <<buildVars, pairVars, handler>>
    BY <1>7 DEF Shutdown, Leave, Return, Returned, DidClose, WriteDisk, vars
  <2> QED
    BY <2>1 DEF RequestInv, Settled, buildVars, pairVars
<1> QED
  BY <1>1, <1>2, <1>3, <1>4, <1>5, <1>6, <1>7 DEF Next, UserStep

\* A request that takes the pair when the replay is over reads an index and a
\* resolution set of one state until it is answered, although the index is
\* mutated in place: one lock section is enough for it.
THEOREM RequestsReadOnePair == Spec => []RequestsSeeOnePair
<1>1. RequestInv => RequestsSeeOnePair
  BY DEF RequestInv, PairInv, PairAgrees, RequestsSeeOnePair
<1> QED
  BY <1>1, InitRequest, StepRequest, PTL DEF Spec

-------------------------------------------------------------------------------
(***************************************************************************)
(* What a push client shows of an open document.                           *)
(***************************************************************************)
Shows(p) == \E r \in shown[p] : r.analysis = store[p].analysis

\* The handler is on its way to publishing the file.
WillPublish(p) ==
  \/ /\ handler.step = "apply"
     /\ handler.after.step = "publish" /\ handler.after.path = p
  \/ handler.step \in {"publish", "send"} /\ handler.path = p

\* Before a handler publishes a change of the editor it applies it, with what
\* the store has of the document; what it clears it has applied as a deletion.
ApplyOK ==
  handler.step = "apply" =>
    /\ handler.from = "editor" =>
         /\ handler.path \in Open
         /\ handler.content \in Contents
         /\ store[handler.path] = Document(handler.path, handler.content)
         /\ PullDiagnostics \/ WillPublish(handler.path)
    /\ handler.after.step = "clear" =>
         handler.from = "disk" /\ handler.after.path = handler.path
    /\ handler.after.step = "publish" => handler.after.path = handler.path

ClearOK ==
  handler.step = "clear" /\ handler.path \in Open =>
    astray[handler.path] = "reportedWhileOpen"

ShownOK ==
  ~PullDiagnostics =>
    \A p \in Open :
      astray[p] # "reportedWhileOpen" => Shows(p) \/ WillPublish(p)

ShownInv == TypeOK /\ ApplyOK /\ ClearOK /\ ShownOK

LEMMA InitShown == Init => ShownInv
<1> SUFFICES ASSUME Init PROVE ShownInv
  OBVIOUS
<1>1. TypeOK
  BY InitTypes
<1>2. ApplyOK /\ ClearOK
  BY DEF Init, Idle, ApplyOK, ClearOK
<1>3. ShownOK
  BY DEF Init, ShownOK, Open, Nothing
<1> QED
  BY <1>1, <1>2, <1>3 DEF ShownInv

\* A step that leaves the documents and what is shown of them alone, from a
\* handler that publishes nothing to one that neither applies nor clears.
LEMMA SilentStep ==
  ASSUME ShownInv, TypeOK', UNCHANGED <<store, shown, astray>>,
         handler.step \notin {"apply", "publish", "send"},
         handler'.step \notin {"apply", "clear"}
  PROVE  ShownInv'
BY DEF ShownInv, ApplyOK, ClearOK, ShownOK, Shows, WillPublish, Open

\* So does one of the build, whatever the handler does.
LEMMA AbsentStep ==
  ASSUME ShownInv, TypeOK', UNCHANGED <<store, shown, astray, handler>>
  PROVE  ShownInv'
BY DEF ShownInv, ApplyOK, ClearOK, ShownOK, Shows, WillPublish, Open

\* One event read: a file is applied for the disk.
LEMMA EventKeepsShown ==
  ASSUME ShownInv, HandleEvent, TypeOK'
  PROVE  ShownInv'
<1> DEFINE p     == Head(handler.rest).path
           after == Reporting(Tail(handler.rest))
           clear == [step |-> "clear", path |-> p, after |-> after]
           deleted == Applying(p, Absent, "disk", clear)
           changed == Applying(p, disk[p], "disk", Publishing(p, after))
<1>1. UNCHANGED <<store, shown, astray>> /\ handler.step = "events"
  BY DEF HandleEvent
<1>2. Head(handler.rest).type \in {"changed", "deleted"}
  <2>1. handler.rest \in Seq(Events) /\ handler.rest # <<>>
    BY HandlerShapes DEF HandleEvent, ShownInv, TypeOK
  <2>2. Head(handler.rest) \in Events
    BY <2>1
  <2> QED
    BY <2>2 DEF Events
<1>3. handler' \in {deleted, after, changed}
  BY <1>2 DEF HandleEvent
<1>4. after.step = "events"
  BY DEF Reporting
<1>5. /\ Publishing(p, after).step \in {"events", "publish"}
      /\ Publishing(p, after).step = "publish" => Publishing(p, after).path = p
  BY <1>4 DEF Publishing
<1> HIDE DEF p, after
<1>6. ApplyOK'
  BY <1>3, <1>4, <1>5 DEF ApplyOK, Applying
<1>7. ClearOK'
  BY <1>3, <1>4 DEF ClearOK, Applying
<1>8. ShownOK'
  BY <1>1 DEF ShownInv, ShownOK, Shows, WillPublish, Open
<1> QED
  BY <1>6, <1>7, <1>8 DEF ShownInv

\* A change applied: one of the editor is published next, one of the disk to
\* an open document is the one exception.
LEMMA ApplyKeepsShown ==
  ASSUME ShownInv, ApplyChange, TypeOK'
  PROVE  ShownInv'
<1> DEFINE p == handler.path
<1>1. /\ p \in Paths /\ handler.from \in {"editor", "disk"}
      /\ AfterApply(handler.after)
  BY HandlerShapes DEF ShownInv, TypeOK, ApplyChange
<1>2. UNCHANGED <<store, shown>> /\ handler' = handler.after
  BY DEF ApplyChange
<1>3. handler'.step # "apply"
  BY <1>1, <1>2 DEF AfterApply, BetweenFiles, Idle, Refreshing
<1>4. handler.from = "disk" /\ p \in Open => astray'[p] = "reportedWhileOpen"
  BY <1>1 DEF ApplyChange, Straying, ShownInv, TypeOK, ViewOK
<1>5. \A q \in Paths : q # p => astray'[q] = astray[q]
  BY <1>1 DEF ApplyChange, ShownInv, TypeOK, ViewOK
<1>6. Open \subseteq Paths
  BY DEF ShownInv, TypeOK, DocumentsOK, Open
<1>7. ClearOK'
  BY <1>2, <1>4 DEF ClearOK, ShownInv, ApplyOK, ApplyChange, Open
<1>8. ShownOK'
  <2> SUFFICES ASSUME ~PullDiagnostics, NEW q \in Open,
                      astray'[q] # "reportedWhileOpen"
               PROVE  Shows(q)' \/ WillPublish(q)'
    BY <1>2 DEF ShownOK, Open
  <2>1. CASE q = p
    <3>1. handler.from = "editor"
      BY <1>1, <1>4, <2>1
    <3>2. WillPublish(q)
      BY <2>1, <3>1 DEF ShownInv, ApplyOK, ApplyChange
    <3> QED
      BY <1>2, <3>2 DEF WillPublish, ApplyChange
  <2>2. CASE q # p
    <3>1. ~WillPublish(q)
      BY <2>2 DEF WillPublish, ShownInv, ApplyOK, ApplyChange
    <3>2. astray[q] # "reportedWhileOpen"
      BY <1>5, <1>6, <2>2
    <3>3. Shows(q)
      BY <3>1, <3>2 DEF ShownInv, ShownOK
    <3> QED
      BY <1>2, <3>3 DEF Shows
  <2> QED
    BY <2>1, <2>2
<1> QED
  BY <1>3, <1>7, <1>8 DEF ShownInv, ApplyOK

\* Diagnostics sent or cleared: those of an open document are its own.
LEMMA SendKeepsShown ==
  ASSUME ShownInv, PublishSend \/ ClearShown, TypeOK'
  PROVE  ShownInv'
<1> DEFINE p == handler.path
<1>1. p \in Paths /\ BetweenFiles(handler.after) /\ DOMAIN shown = Paths
  BY HandlerShapes DEF ShownInv, TypeOK, ViewOK, PublishSend, ClearShown
<1>2. UNCHANGED store /\ handler' \in {handler.after, Idle}
  BY DEF PublishSend, ClearShown
<1>3. handler'.step \in {"idle", "refresh", "events"}
  BY <1>1, <1>2 DEF BetweenFiles, Idle, Refreshing
<1>4. \A q \in Open : astray'[q] = astray[q]
  BY DEF PublishSend, ClearShown, ShownInv, TypeOK, DocumentsOK, Open
<1>5. \A q \in Open : q # p => shown'[q] = shown[q]
  BY <1>1 DEF PublishSend, ClearShown, ShownInv, TypeOK, DocumentsOK, Open
<1>6. ASSUME NEW q \in Open, q = p, PublishSend PROVE Shows(q)'
  <2> DEFINE report == [analysis    |-> store[q].analysis,
                        ambiguities |-> DiagnosticsFor(handler.res, q)]
  <2>1. shown'[q] = {report}
    BY <1>1, <1>6 DEF PublishSend
  <2>2. report.analysis = store'[q].analysis
    BY <1>2
  <2> HIDE DEF report
  <2> QED
    BY <2>1, <2>2 DEF Shows
<1>7. ClearShown /\ p \in Open => astray[p] = "reportedWhileOpen"
  BY DEF ClearShown, ShownInv, ClearOK
<1>8. ShownOK'
  <2> SUFFICES ASSUME ~PullDiagnostics, NEW q \in Open,
                      astray'[q] # "reportedWhileOpen"
               PROVE  Shows(q)'
    BY <1>2 DEF ShownOK, Open
  <2>1. CASE q = p
    BY <1>4, <1>6, <1>7, <2>1
  <2>2. CASE q # p
    <3>1. Shows(q)
      BY <1>4, <2>2
         DEF ShownInv, ShownOK, WillPublish, PublishSend, ClearShown
    <3> QED
      BY <1>2, <1>5, <2>2, <3>1 DEF Shows
  <2> QED
    BY <2>1, <2>2
<1> QED
  BY <1>3, <1>8 DEF ShownInv, ApplyOK, ClearOK

\* The steps of the handlers.
LEMMA HandlerKeepsShown ==
  ASSUME ShownInv, HandlerStep, TypeOK'
  PROVE  ShownInv'
<1>1. CASE EventsHandled \/ HandlerRefresh \/ Answer
  <2>1. /\ UNCHANGED <<store, shown, astray>>
        /\ handler.step \in {"events", "refresh", "answer"}
        /\ handler'.step \in {"idle", "refresh"}
    BY <1>1 DEF EventsHandled, HandlerRefresh, Answer, Idle, Refreshing
  <2> QED
    BY <2>1, SilentStep
<1>2. CASE PublishSnapshot
  BY <1>2 DEF PublishSnapshot, ShownInv, ApplyOK, ClearOK, ShownOK, Shows,
              WillPublish, Open
<1> QED
  BY <1>1, <1>2, EventKeepsShown, ApplyKeepsShown, SendKeepsShown
     DEF HandlerStep

\* A document opened or changed is published next.
LEMMA EditKeepsShown ==
  ASSUME ShownInv, NEW p \in Paths, NEW c \in Contents,
         DidOpen(p, c) \/ DidChange(p, c), TypeOK'
  PROVE  ShownInv'
<1>1. /\ Open' = Open \cup {p}
      /\ store'[p] = Document(p, c)
      /\ \A q \in Open : q # p => store'[q] = store[q]
  BY DEF DidOpen, DidChange, Open, Put, Only
<1>2. UNCHANGED shown /\ handler.step = "idle"
  BY DEF DidOpen, DidChange, Ready, Idle
<1>3. handler' \in {Publishing(p, Idle),
                    Applying(p, c, "editor", Publishing(p, Refreshing))}
  BY DEF DidOpen, DidChange
<1>4. ~PullDiagnostics => WillPublish(p)'
  BY <1>3 DEF WillPublish, Applying, Publishing
<1>5. ClearOK'
  BY <1>3 DEF ClearOK, Applying, Publishing, Idle
<1>6. ApplyOK'
  <2>1. CASE DidOpen(p, c)
    BY <2>1 DEF DidOpen, ApplyOK, Publishing, Idle
  <2>2. CASE DidChange(p, c)
    <3> DEFINE after == Publishing(p, Refreshing)
    <3>1. handler' = Applying(p, c, "editor", after)
      BY <2>2 DEF DidChange
    <3>2. /\ after.step \in {"publish", "refresh"}
          /\ after.step = "publish" => after.path = p
      BY DEF Publishing, Refreshing
    <3> HIDE DEF after
    <3> QED
      BY <1>1, <1>4, <3>1, <3>2 DEF ApplyOK, Applying
  <2> QED
    BY <2>1, <2>2
<1>7. \A q \in Open : q # p => astray'[q] = astray[q]
  BY DEF DidOpen, DidChange, ShownInv, TypeOK, ViewOK, DocumentsOK, Open
<1>8. ShownOK'
  <2> SUFFICES ASSUME ~PullDiagnostics, NEW q \in Open', q # p,
                      astray'[q] # "reportedWhileOpen"
               PROVE  Shows(q)'
    BY <1>4 DEF ShownOK
  <2>1. Shows(q)
    BY <1>1, <1>2, <1>7 DEF ShownInv, ShownOK, WillPublish
  <2> QED
    BY <1>1, <1>2, <2>1 DEF Shows
<1> QED
  BY <1>5, <1>6, <1>8 DEF ShownInv

\* The steps of the client and the disk, and the return of Run.
LEMMA UserKeepsShown ==
  ASSUME ShownInv, UserStep \/ Return, TypeOK'
  PROVE  ShownInv'
<1>1. CASE \/ Initialized \/ Shutdown \/ Leave \/ Return
           \/ \E p \in Paths \ Outside, c \in Contents \cup {Absent} :
                WriteDisk(p, c)
  <2>1. UNCHANGED <<store, shown, astray, handler>>
    BY <1>1 DEF Initialized, Shutdown, Leave, Return, WriteDisk
  <2> QED
    BY <2>1, AbsentStep
<1>2. CASE DidChangeWatchedFiles \/ Request
  <2>1. UNCHANGED <<store, shown, astray>> /\ handler.step = "idle"
    BY <1>2 DEF DidChangeWatchedFiles, Request, Ready, Idle
  <2>2. handler'.step \in {"events", "answer"}
    BY <1>2 DEF DidChangeWatchedFiles, Request, Reporting
  <2> QED
    BY <2>1, <2>2, SilentStep
<1>3. ASSUME NEW p \in Paths, DidClose(p)
      PROVE  ShownInv'
  <2>1. handler' = handler /\ handler.step = "idle"
    BY <1>3 DEF DidClose, Ready, Idle
  <2>2. /\ Open' = Open \ {p}
        /\ \A q \in Open' : /\ store'[q] = store[q]
                            /\ ~PullDiagnostics => shown'[q] = shown[q]
                            /\ astray'[q] = astray[q]
    BY <1>3 DEF DidClose, Open, ShownInv, TypeOK, ViewOK, DocumentsOK
  <2>3. ShownOK'
    BY <2>1, <2>2 DEF ShownInv, ShownOK, Shows, WillPublish
  <2> QED
    BY <2>1, <2>3 DEF ShownInv, ApplyOK, ClearOK
<1> QED
  BY <1>1, <1>2, <1>3, EditKeepsShown DEF UserStep

LEMMA StepShown == ShownInv /\ [Next]_vars => ShownInv'
<1> SUFFICES ASSUME ShownInv, [Next]_vars PROVE ShownInv'
  OBVIOUS
<1>1. TypeOK'
  BY StepTypes DEF ShownInv
<1>2. CASE BuildStep \/ Returned \/ UNCHANGED vars
  <2>1. UNCHANGED <<store, shown, astray, handler>>
    BY <1>2 DEF Returned, vars, BuildStep, Walk, ScanFile, AbandonScan,
                ResolveAll, Guard, PublishIndex, CollectBuffers,
                ReplayBuffers, BuildRefresh
  <2> QED
    BY <1>1, <2>1, AbsentStep
<1> QED
  BY <1>1, <1>2, HandlerKeepsShown, UserKeepsShown DEF Next

\* What a push client shows of an open document between two messages is what
\* its buffer says, but for one a change of the disk was reported of while it
\* was open: every path of a change ends in its publication, and the panic of
\* a lookup in an index that is not there yet loses none of them.
THEOREM DiagnosticsFollowBuffers == Spec => []ShownFollowsBuffer
<1>1. ShownInv => ShownFollowsBuffer
  BY DEF ShownInv, ShownOK, ShownFollowsBuffer, WillPublish, Shows, Idle
<1> QED
  BY <1>1, InitShown, StepShown, PTL DEF Spec

-------------------------------------------------------------------------------
(***************************************************************************)
(* How the index follows the buffers and the disk.                         *)
(***************************************************************************)

\* The events a handler has still to come to.
Chain(h) ==
  CASE h.step \in {"publish", "clear", "send"} -> h.after
    [] h.step = "apply" ->
         IF h.after.step \in {"publish", "clear"} THEN h.after.after
                                                 ELSE h.after
    [] OTHER -> h

Waiting(h) ==
  IF Chain(h).step = "events"
    THEN {Chain(h).rest[i] : i \in DOMAIN Chain(h).rest}
    ELSE {}

\* What is reported of a file is how it is, or more is to be reported.
ReportOK(p, deleted) == p \in DOMAIN events \/ (deleted <=> disk[p] = Absent)

EventsOK ==
  WatchedFiles =>
    /\ \A p \in DOMAIN events : events[p] = "deleted" <=> disk[p] = Absent
    /\ \A e \in Waiting(handler) : ReportOK(e.path, e.type = "deleted")
    /\ handler.step = "apply" /\ handler.from = "disk" =>
         handler.path \in DOMAIN events \/ handler.content = disk[handler.path]

\* The news of a change of the disk, as long as the index has not seen it.
DiskNews(p) ==
  \/ p \in DOMAIN events
  \/ \E e \in Waiting(handler) : e.path = p
  \/ handler.step = "apply" /\ handler.from = "disk" /\ handler.path = p

StillToScan(p) ==
  \/ build \in {"none", "walk"}
  \/ build = "scan" /\ p \in todo

FollowsDisk(p) ==
  /\ p \in DOMAIN index =>
       /\ \/ index[p] = AnalyzeOne(p, disk[p])
          \/ index[p] = ScanAnalyze(p, disk[p]) /\ disk[p] \notin TooLarge
       /\ disk[p] # Absent =>
            p \in DOMAIN lineWidths /\ lineWidths[p] = disk[p]
  /\ p \notin Outside \cup Excluded /\ p \notin DOMAIN index =>
       disk[p] \in TooLarge \cup {Absent}

FollowsBuffer(p) ==
  /\ p \in DOMAIN index
  /\ index[p] = store[p].analysis
  /\ p \in DOMAIN lineWidths /\ lineWidths[p] = store[p].content

\* The build: what it has scanned, and what came of it.
ScanOK ==
  /\ build \in {"none", "walk"} => DOMAIN index = {}
  /\ build = "scan" => todo \cap DOMAIN index = {}
  /\ published => build \notin Unpublished /\ ~failed

\* The index is published, or may be.
Hopeful == published \/ (build \in Unpublished /\ ~failed)

\* A file that is closed follows the disk once it was scanned, unless the news
\* of a change is on its way.
DiskOfPaths ==
  WatchedFiles /\ Hopeful =>
    \A p \in Paths \ Open :
      astray[p] = "no" => FollowsDisk(p) \/ StillToScan(p) \/ DiskNews(p)

\* A document that is open is what the index says, or is about to be: it will
\* be copied, it is copied and will be replayed, or its change is applied next.
BufferOfPaths ==
  Hopeful =>
    \A p \in Open :
      astray[p] = "no" =>
        \/ FollowsBuffer(p)
        \/ build \in Unpublished \cup {"collect", "replay"}
        \/ handler.step = "apply" /\ handler.from = "editor" /\ handler.path = p

\* The copy that is replayed is of what is open, but for what is astray.
CopyOK ==
  build = "replay" =>
    /\ \A p \in Open : astray[p] = "no" =>
         p \in DOMAIN snapshot /\ snapshot[p] = store[p]
    /\ \A p \in DOMAIN snapshot \ Open : astray[p] # "no"

SourcesInv ==
  /\ ShownInv /\ PairInv
  /\ EventsOK /\ ScanOK /\ DiskOfPaths /\ BufferOfPaths /\ CopyOK

-------------------------------------------------------------------------------
\* What waits in a handler is what waits in the one it goes on to.
LEMMA WaitingShapes ==
  ASSUME NEW h, HandlerOK(h)
  PROVE  /\ h.step \in {"apply", "publish", "clear", "send"} =>
              Waiting(h) = Waiting(h.after)
         /\ h.step \in {"idle", "refresh", "answer"} => Waiting(h) = {}
         /\ h.step = "events" => Waiting(h) = {h.rest[i] : i \in DOMAIN h.rest}
<1>1. \A k : BetweenFiles(k) => k.step \in {"idle", "refresh", "events"}
  BY DEF BetweenFiles, Idle, Refreshing
<1>2. \A k : k.step \notin {"apply", "publish", "clear", "send"} => Chain(k) = k
  BY DEF Chain
<1>3. \A k : k.step \in {"publish", "clear", "send"} => Chain(k) = k.after
  BY DEF Chain
<1>4. CASE h.step \in {"publish", "clear", "send"}
  <2>1. BetweenFiles(h.after)
    BY <1>4, HandlerShapes
  <2>2. Chain(h) = h.after /\ Chain(h.after) = h.after
    BY <1>1, <1>2, <1>3, <1>4, <2>1
  <2> QED
    BY <1>4, <2>2 DEF Waiting
<1>5. CASE h.step = "apply"
  <2>1. AfterApply(h.after)
    BY <1>5, HandlerShapes
  <2>2. CASE h.after.step \in {"publish", "clear"}
    <3>1. Chain(h) = h.after.after
      BY <1>5, <2>2 DEF Chain
    <3>2. Chain(h.after) = h.after.after
      BY <1>3, <2>2
    <3> QED
      BY <1>5, <3>1, <3>2 DEF Waiting
  <2>3. CASE h.after.step \notin {"publish", "clear"}
    <3>1. h.after.step \notin {"apply", "publish", "clear", "send"}
      BY <1>1, <2>1, <2>3 DEF AfterApply
    <3>2. Chain(h) = h.after
      BY <1>5, <2>3 DEF Chain
    <3>3. Chain(h.after) = h.after
      BY <1>2, <3>1
    <3> QED
      BY <1>5, <3>2, <3>3 DEF Waiting
  <2> QED
    BY <2>2, <2>3
<1>6. CASE h.step \notin {"apply", "publish", "clear", "send"}
  BY <1>2, <1>6 DEF Waiting
<1> QED
  BY <1>4, <1>5, <1>6

\* What waits are events of the workspace's files.
LEMMA WaitingTypes ==
  ASSUME NEW h, HandlerOK(h)
  PROVE  Waiting(h) \subseteq Events
<1>1. ASSUME NEW k, BetweenFiles(k) PROVE Waiting(k) \subseteq Events
  <2>1. HandlerOK(k) /\ k.step \in {"idle", "refresh", "events"}
    BY <1>1, HandlerTargets DEF BetweenFiles, Idle, Refreshing
  <2>2. CASE k.step = "events"
    <3>1. k.rest \in Seq(Events)
      BY <2>1, <2>2, HandlerShapes
    <3>2. \A i \in DOMAIN k.rest : k.rest[i] \in Events
      BY <3>1
    <3> QED
      BY <2>1, <2>2, <3>2, WaitingShapes
  <2> QED
    BY <2>1, <2>2, WaitingShapes
<1>2. ASSUME NEW k, AfterApply(k) PROVE Waiting(k) \subseteq Events
  <2>1. HandlerOK(k)
    BY <1>2, HandlerTargets
  <2>2. CASE BetweenFiles(k)
    BY <1>1, <2>2
  <2>3. CASE k.step \in {"publish", "clear"} /\ BetweenFiles(k.after)
    BY <1>1, <2>1, <2>3, WaitingShapes
  <2> QED
    BY <1>2, <2>2, <2>3 DEF AfterApply
<1>3. CASE h.step = "apply"
  BY <1>2, <1>3, HandlerShapes, WaitingShapes
<1>4. CASE h.step = "send"
  BY <1>1, <1>4, HandlerShapes, WaitingShapes
<1>5. CASE h.step = "answer"
  BY <1>5, WaitingShapes
<1> QED
  BY <1>2, <1>3, <1>4, <1>5 DEF HandlerOK

\* A handler that starts on a file has the same events to come to.
LEMMA WaitingStarts ==
  ASSUME NEW p \in Paths, NEW c \in Contents \cup {Absent},
         NEW h, BetweenFiles(h)
  PROVE  /\ Waiting(Publishing(p, h)) = Waiting(h)
         /\ Waiting(Applying(p, c, "editor", Publishing(p, h))) = Waiting(h)
         /\ Waiting(Applying(p, c, "disk", Publishing(p, h))) = Waiting(h)
         /\ Waiting(Applying(p, c, "disk",
                             [step |-> "clear", path |-> p, after |-> h]))
              = Waiting(h)
<1> DEFINE P == Publishing(p, h)
           C == [step |-> "clear", path |-> p, after |-> h]
<1>1. /\ AfterApply(P) /\ HandlerOK(P)
      /\ P = h \/ (P.step = "publish" /\ P.after = h)
  BY HandlerTargets DEF Publishing
<1>2. Waiting(P) = Waiting(h)
  BY <1>1, WaitingShapes
<1>3. AfterApply(C) /\ HandlerOK(C)
  BY HandlerTargets DEF AfterApply
<1>4. Waiting(C) = Waiting(h)
  BY <1>3, WaitingShapes
<1>5. ASSUME NEW k, AfterApply(k), NEW from \in {"editor", "disk"}
      PROVE  Waiting(Applying(p, c, from, k)) = Waiting(k)
  <2>1. HandlerOK(Applying(p, c, from, k))
    BY <1>5, HandlerTargets
  <2>2. /\ Applying(p, c, from, k).step = "apply"
        /\ Applying(p, c, from, k).after = k
    BY DEF Applying
  <2> QED
    BY <2>1, <2>2, WaitingShapes
<1> HIDE DEF P, C
<1> QED
  BY <1>1, <1>2, <1>3, <1>4, <1>5 DEF P, C

\* The first of the events, and the rest.
LEMMA WaitingFirst ==
  ASSUME NEW h, HandlerOK(h), h.step = "events", h.rest # <<>>
  PROVE  /\ Head(h.rest) \in Events
         /\ BetweenFiles(Reporting(Tail(h.rest)))
         /\ Waiting(h) = {Head(h.rest)} \cup Waiting(Reporting(Tail(h.rest)))
<1> DEFINE after == Reporting(Tail(h.rest))
<1>1. h.rest \in Seq(Events)
  BY HandlerShapes
<1>2. Head(h.rest) \in Events /\ Tail(h.rest) \in Seq(Events)
  BY <1>1
<1>3. BetweenFiles(after) /\ HandlerOK(after)
  BY <1>2, HandlerTargets
<1>4. after.step = "events" /\ after.rest = Tail(h.rest)
  BY DEF Reporting
<1> HIDE DEF after
<1>5. Waiting(after) = {Tail(h.rest)[i] : i \in DOMAIN Tail(h.rest)}
  <2>1. Waiting(after) = {after.rest[i] : i \in DOMAIN after.rest}
    BY <1>3, <1>4, WaitingShapes
  <2> QED
    BY <1>4, <2>1
<1>6. Waiting(h) = {h.rest[i] : i \in DOMAIN h.rest}
  BY WaitingShapes
<1>7. /\ DOMAIN h.rest = 1 .. Len(h.rest)
      /\ DOMAIN Tail(h.rest) = 1 .. (Len(h.rest) - 1)
      /\ Len(h.rest) \in Nat \ {0}
      /\ Head(h.rest) = h.rest[1]
      /\ \A i \in 1 .. (Len(h.rest) - 1) : Tail(h.rest)[i] = h.rest[i + 1]
  BY <1>1
<1>8. ASSUME NEW i \in 1 .. Len(h.rest), i # 1
      PROVE  h.rest[i] \in {Tail(h.rest)[j] : j \in DOMAIN Tail(h.rest)}
  <2>1. i - 1 \in 1 .. (Len(h.rest) - 1) /\ (i - 1) + 1 = i
    BY <1>7, <1>8
  <2> QED
    BY <1>7, <2>1
<1>9. \A j \in DOMAIN Tail(h.rest) :
        \E i \in DOMAIN h.rest : Tail(h.rest)[j] = h.rest[i]
  <2> TAKE j \in DOMAIN Tail(h.rest)
  <2>1. j + 1 \in DOMAIN h.rest
    BY <1>7
  <2> QED
    BY <1>7, <2>1
<1>10. 1 \in DOMAIN h.rest
  BY <1>7
<1>11. Waiting(h) = {Head(h.rest)} \cup Waiting(after)
  <2>1. \A e \in Waiting(h) : e = Head(h.rest) \/ e \in Waiting(after)
    BY <1>5, <1>6, <1>7, <1>8
  <2>2. Head(h.rest) \in Waiting(h)
    BY <1>6, <1>7, <1>10
  <2>3. \A e \in Waiting(after) : e \in Waiting(h)
    BY <1>5, <1>6, <1>9
  <2> QED
    BY <2>1, <2>2, <2>3
<1> QED
  BY <1>2, <1>3, <1>11 DEF after

\* Every event the client has noted is in its report, once.
LEMMA ReportCovers ==
  ASSUME DiskOK, NEW order \in SetToSeqs(DOMAIN events)
  PROVE  {order[i] : i \in DOMAIN order} = DOMAIN events
<1> DEFINE D == DOMAIN events
           I == 1 .. Cardinality(D)
<1>1. IsFiniteSet(D) /\ Cardinality(D) \in Nat
  BY ConstantsAssumption, FS_Subset, FS_CardinalityType DEF DiskOK
<1>2. order \in [I -> D] /\ \A i, j \in I : i # j => order[i] # order[j]
  BY DEF SetToSeqs
<1> HIDE DEF D
<1>3. order \in Injection(I, D)
  BY <1>2 DEF Injection, IsInjective
<1>4. IsFiniteSet(I) /\ Cardinality(I) = Cardinality(D)
  BY <1>1, FS_Interval
<1> HIDE DEF I
<1>5. order \in Surjection(I, D)
  BY <1>1, <1>3, <1>4, FS_Injection
<1>6. DOMAIN order = I /\ \A p \in D : \E i \in I : order[i] = p
  BY <1>2, <1>5 DEF Surjection
<1> QED
  BY <1>2, <1>6 DEF D

-------------------------------------------------------------------------------
LEMMA InitSources == Init => SourcesInv
<1> SUFFICES ASSUME Init PROVE SourcesInv
  OBVIOUS
<1>1. handler.step = "idle" /\ Waiting(handler) = {}
  BY HandlerTargets, WaitingShapes DEF Init, Idle
<1>2. EventsOK
  BY <1>1 DEF Init, EventsOK, Nothing
<1>3. ScanOK
  BY DEF Init, ScanOK, Nothing
<1>4. DiskOfPaths
  BY DEF Init, DiskOfPaths, StillToScan
<1>5. BufferOfPaths /\ CopyOK
  BY DEF Init, BufferOfPaths, CopyOK, Open, Nothing
<1> QED
  BY <1>2, <1>3, <1>4, <1>5, InitShown, InitPair DEF SourcesInv

\* A step of a handler that is neither to apply nor comes to an event, and one
\* that changes nothing of the build, the documents and the files.
LEMMA IdleStep ==
  ASSUME SourcesInv, ShownInv', PairInv',
         UNCHANGED <<buildVars, pairVars, store, disk, events, astray>>,
         \/ UNCHANGED handler
         \/ /\ handler.step # "apply" /\ handler'.step # "apply"
            /\ Waiting(handler') = Waiting(handler)
  PROVE  SourcesInv'
<1>1. /\ UNCHANGED <<build, todo, failed, snapshot, index, lineWidths,
                     published, store, disk, events, astray>>
      /\ Waiting(handler)' = Waiting(handler)
      /\ handler'.step = "apply" => UNCHANGED handler
      /\ handler.step = "apply" => UNCHANGED handler
  BY DEF buildVars, pairVars
<1>2. EventsOK'
  BY <1>1 DEF SourcesInv, EventsOK, ReportOK
<1>3. ScanOK' /\ CopyOK'
  BY <1>1 DEF SourcesInv, ScanOK, CopyOK, Open
<1>4. DiskOfPaths'
  BY <1>1 DEF SourcesInv, DiskOfPaths, Hopeful, Open, FollowsDisk,
              StillToScan, DiskNews
<1>5. BufferOfPaths'
  BY <1>1 DEF SourcesInv, BufferOfPaths, Hopeful, Open, FollowsBuffer
<1> QED
  BY <1>2, <1>3, <1>4, <1>5 DEF SourcesInv

\* One event read.
LEMMA EventKeepsSources ==
  ASSUME SourcesInv, HandleEvent, ShownInv', PairInv'
  PROVE  SourcesInv'
<1> DEFINE event == Head(handler.rest)
           p     == event.path
           after == Reporting(Tail(handler.rest))
           clear == [step |-> "clear", path |-> p, after |-> after]
           deleted == Applying(p, Absent, "disk", clear)
           changed == Applying(p, disk[p], "disk", Publishing(p, after))
<1>1. /\ handler.step = "events" /\ handler.rest # <<>>
      /\ UNCHANGED <<build, todo, failed, snapshot, index, lineWidths,
                     published, store, disk, events, astray>>
  BY DEF HandleEvent, buildVars, pairVars, userVars
<1>2. /\ event \in Events
      /\ BetweenFiles(after)
      /\ Waiting(handler) = {event} \cup Waiting(after)
  BY <1>1, WaitingFirst DEF SourcesInv, ShownInv, TypeOK
<1>3. p \in Paths /\ event.type \in {"changed", "deleted"}
  BY <1>2 DEF Events
<1>4. disk[p] \in Contents \cup {Absent}
  BY <1>3 DEF SourcesInv, ShownInv, TypeOK, DiskOK
<1>5. /\ Waiting(deleted) = Waiting(after)
      /\ Waiting(changed) = Waiting(after)
  BY <1>2, <1>3, <1>4, WaitingStarts
<1>6. \/ event.type = "deleted" /\ handler' = deleted
      \/ event.type = "changed" /\ disk[p] = Absent /\ handler' = after
      \/ event.type = "changed" /\ handler' = changed
  BY <1>3 DEF HandleEvent
<1>7. after.step = "events"
  BY DEF Reporting
<1>8. /\ deleted.step = "apply" /\ deleted.from = "disk"
      /\ deleted.path = p /\ deleted.content = Absent
      /\ changed.step = "apply" /\ changed.from = "disk"
      /\ changed.path = p /\ changed.content = disk[p]
  BY DEF Applying
<1> HIDE DEF after, clear, deleted, changed
<1>9. Waiting(handler') = Waiting(after)
  BY <1>5, <1>6
<1>10. WatchedFiles => ReportOK(event.path, event.type = "deleted")
  BY <1>2 DEF SourcesInv, EventsOK
<1>11. EventsOK'
  <2> SUFFICES ASSUME WatchedFiles PROVE EventsOK'
    BY DEF EventsOK
  <2>1. \A q \in DOMAIN events' : events'[q] = "deleted" <=> disk'[q] = Absent
    BY <1>1 DEF SourcesInv, EventsOK
  <2>2. \A e \in Waiting(handler') : ReportOK(e.path, e.type = "deleted")'
    BY <1>1, <1>2, <1>9 DEF SourcesInv, EventsOK, ReportOK
  <2>3. handler'.step = "apply" =>
          /\ handler'.path = p
          /\ p \in DOMAIN events' \/ handler'.content = disk'[p]
    BY <1>1, <1>6, <1>7, <1>8, <1>10 DEF ReportOK
  <2> QED
    BY <2>1, <2>2, <2>3 DEF EventsOK
<1>12. ScanOK' /\ CopyOK'
  BY <1>1 DEF SourcesInv, ScanOK, CopyOK, Open
<1>13. WatchedFiles => \A q \in Paths : DiskNews(q) => DiskNews(q)'
  <2> SUFFICES ASSUME WatchedFiles, NEW q \in Paths, DiskNews(q)
               PROVE  DiskNews(q)'
    OBVIOUS
  <2>1. CASE q \in DOMAIN events
    BY <1>1, <2>1 DEF DiskNews
  <2>2. CASE q \notin DOMAIN events
    <3>1. PICK e \in Waiting(handler) : e.path = q
      BY <1>1, <2>2 DEF DiskNews
    <3>2. CASE e = event
      <4>1. event.type = "deleted" <=> disk[p] = Absent
        BY <1>10, <2>2, <3>1, <3>2 DEF ReportOK
      <4>2. handler' \in {deleted, changed}
        BY <1>6, <4>1
      <4> QED
        BY <1>8, <3>1, <3>2, <4>2 DEF DiskNews
    <3>3. CASE e # event
      BY <1>2, <1>9, <3>1, <3>3 DEF DiskNews
    <3> QED
      BY <3>2, <3>3
  <2> QED
    BY <2>1, <2>2
<1>14. DiskOfPaths'
  BY <1>1, <1>13 DEF SourcesInv, DiskOfPaths, Hopeful, Open, FollowsDisk,
                     StillToScan
<1>15. BufferOfPaths'
  BY <1>1 DEF SourcesInv, BufferOfPaths, Hopeful, Open, FollowsBuffer
<1> QED
  BY <1>11, <1>12, <1>14, <1>15 DEF SourcesInv

\* A change applied: the index says what it says, or the change is astray.
LEMMA ApplyKeepsSources ==
  ASSUME SourcesInv, ApplyChange, ShownInv', PairInv'
  PROVE  SourcesInv'
<1> DEFINE p == handler.path
           c == handler.content
<1>1. /\ handler.step = "apply" /\ handler' = handler.after
      /\ UNCHANGED <<build, todo, failed, snapshot, published, store, disk,
                     events>>
  BY DEF ApplyChange, buildVars, userVars
<1>2. /\ p \in Paths /\ c \in Contents \cup {Absent}
      /\ handler.from \in {"editor", "disk"} /\ AfterApply(handler.after)
      /\ Waiting(handler) = Waiting(handler')
  BY <1>1, HandlerShapes, WaitingShapes DEF SourcesInv, ShownInv, TypeOK
<1>3. handler'.step # "apply"
  BY <1>1, <1>2 DEF AfterApply, BetweenFiles, Idle, Refreshing
<1>4. \A q \in Paths :
        astray'[q] = IF q = p THEN Straying(p, handler.from) ELSE astray[q]
  BY DEF ApplyChange, SourcesInv, ShownInv, TypeOK, ViewOK
<1>5. handler.from = "editor" =>
        /\ p \in Open /\ c \in Contents
        /\ store[p] = Document(p, c)
  BY <1>1 DEF SourcesInv, ShownInv, ApplyOK
<1>6. published =>
        /\ index'[p] = AnalyzeOne(p, c) /\ p \in DOMAIN index'
        /\ c # Absent => p \in DOMAIN lineWidths' /\ lineWidths'[p] = c
  BY DEF ApplyChange, Add, Put, Only
<1>7. \A q \in Paths \ {p} :
        /\ q \in DOMAIN index' <=> q \in DOMAIN index
        /\ q \in DOMAIN index => index'[q] = index[q]
        /\ q \in DOMAIN lineWidths' <=> q \in DOMAIN lineWidths
        /\ q \in DOMAIN lineWidths => lineWidths'[q] = lineWidths[q]
  BY DEF ApplyChange, Add, Put, Only
<1>8. published => build \notin Unpublished /\ ~failed
  BY DEF SourcesInv, ScanOK
<1>9. ~published => UNCHANGED <<index, lineWidths>>
  BY DEF ApplyChange
<1>10. Open \subseteq Paths /\ Open' = Open
  BY <1>1 DEF SourcesInv, ShownInv, TypeOK, DocumentsOK, Open
<1> HIDE DEF p, c
<1>11. EventsOK'
  BY <1>1, <1>2, <1>3 DEF SourcesInv, EventsOK, ReportOK
<1>12. ScanOK'
  BY <1>1, <1>8, <1>9 DEF SourcesInv, ScanOK, Unpublished
<1>13. CopyOK'
  <2> SUFFICES ASSUME build = "replay" PROVE CopyOK'
    BY <1>1 DEF CopyOK
  <2>1. DOMAIN snapshot \subseteq Paths
    BY DEF SourcesInv, ShownInv, TypeOK, BuildOK, DocumentsOK
  <2>2. Straying(p, handler.from) \in {astray[p]}
          \/ Straying(p, handler.from) # "no"
    BY <1>2 DEF Straying, Settled
  <2>3. \A q \in Paths : astray'[q] = "no" => astray[q] = "no"
    BY <1>4, <2>2
  <2>4. p \notin Open /\ astray[p] # "no" => Straying(p, handler.from) # "no"
    BY <1>2, <1>5 DEF Straying, Settled
  <2> QED
    BY <1>1, <1>4, <1>10, <2>1, <2>3, <2>4 DEF SourcesInv, CopyOK
<1>14. DiskOfPaths'
  <2> SUFFICES ASSUME WatchedFiles, Hopeful, NEW q \in Paths \ Open,
                      astray'[q] = "no"
               PROVE  FollowsDisk(q)' \/ StillToScan(q)' \/ DiskNews(q)'
    BY <1>1, <1>10 DEF DiskOfPaths, Hopeful
  <2>1. CASE q = p
    <3>1. handler.from = "disk" /\ published
      BY <1>2, <1>4, <1>5, <2>1 DEF Straying
    <3>2. p \in DOMAIN events \/ c = disk[p]
      BY <1>1, <3>1 DEF SourcesInv, EventsOK, p, c
    <3>3. c = disk[q] => FollowsDisk(q)'
      BY <1>1, <1>6, <2>1, <3>1 DEF FollowsDisk
    <3> QED
      BY <1>1, <2>1, <3>2, <3>3 DEF DiskNews
  <2>2. CASE q # p
    <3>1. FollowsDisk(q) \/ StillToScan(q) \/ DiskNews(q)
      BY <1>4, <2>2 DEF SourcesInv, DiskOfPaths
    <3>2. FollowsDisk(q) => FollowsDisk(q)'
      BY <1>1, <1>7, <2>2 DEF FollowsDisk
    <3>3. StillToScan(q) => StillToScan(q)'
      BY <1>1 DEF StillToScan
    <3>4. DiskNews(q) => DiskNews(q)'
      BY <1>1, <1>2, <2>2 DEF DiskNews, p
    <3> QED
      BY <3>1, <3>2, <3>3, <3>4
  <2> QED
    BY <2>1, <2>2
<1>15. BufferOfPaths'
  <2> SUFFICES ASSUME Hopeful, NEW q \in Open, astray'[q] = "no"
               PROVE  \/ FollowsBuffer(q)'
                      \/ build \in Unpublished \cup {"collect", "replay"}
    BY <1>1, <1>10 DEF BufferOfPaths, Hopeful
  <2>1. CASE q = p
    <3>1. handler.from = "editor"
      BY <1>2, <1>4, <1>10, <2>1 DEF Straying
    <3>2. CASE published
      <4>1. store[p].analysis = AnalyzeOne(p, c) /\ store[p].content = c
        BY <1>5, <3>1 DEF Document
      <4>2. c # Absent
        BY <1>5, <3>1, SyncAssumption
      <4> QED
        BY <1>1, <1>6, <2>1, <3>2, <4>1, <4>2 DEF FollowsBuffer
    <3>3. CASE ~published
      BY <3>3 DEF Hopeful
    <3> QED
      BY <3>2, <3>3
  <2>2. CASE q # p
    <3>1. \/ FollowsBuffer(q)
          \/ build \in Unpublished \cup {"collect", "replay"}
      BY <1>4, <1>10, <2>2 DEF SourcesInv, BufferOfPaths, p
    <3> QED
      BY <1>1, <1>7, <1>10, <2>2, <3>1 DEF FollowsBuffer
  <2> QED
    BY <2>1, <2>2
<1> QED
  BY <1>11, <1>12, <1>13, <1>14, <1>15 DEF SourcesInv

\* The lookup in a nil index panics, and the changes the rest of the
\* notification was about are astray.
LEMMA PanicKeepsSources ==
  ASSUME SourcesInv, PublishSend, ShownInv', PairInv',
         handler' = Idle,
         \A q \in Paths :
           \/ astray'[q] = astray[q] /\ ~\E e \in Waiting(handler) : e.path = q
           \/ astray'[q] = astray[q] /\ q \in Open
           \/ astray'[q] # "no" /\ q \notin Open
  PROVE  SourcesInv'
<1>1. /\ handler.step = "send"
      /\ UNCHANGED <<build, todo, failed, snapshot, index, lineWidths,
                     published, store, disk, events>>
  BY DEF PublishSend, buildVars, pairVars, userVars
<1>2. handler'.step = "idle" /\ Waiting(handler') = {}
  BY HandlerTargets, WaitingShapes DEF Idle
<1>3. /\ Open \subseteq Paths /\ Open' = Open
      /\ DOMAIN snapshot \subseteq Paths
  BY <1>1 DEF SourcesInv, ShownInv, TypeOK, BuildOK, DocumentsOK, Open
<1>4. EventsOK'
  BY <1>1, <1>2 DEF SourcesInv, EventsOK
<1>5. ScanOK'
  BY <1>1 DEF SourcesInv, ScanOK
<1>6. CopyOK'
  BY <1>1, <1>3 DEF SourcesInv, CopyOK
<1>7. DiskOfPaths'
  <2> SUFFICES ASSUME WatchedFiles, Hopeful, NEW q \in Paths \ Open,
                      astray'[q] = "no"
               PROVE  FollowsDisk(q)' \/ StillToScan(q)' \/ DiskNews(q)'
    BY <1>1, <1>3 DEF DiskOfPaths, Hopeful
  <2>1. astray[q] = "no" /\ ~\E e \in Waiting(handler) : e.path = q
    OBVIOUS
  <2>2. FollowsDisk(q) \/ StillToScan(q) \/ q \in DOMAIN events
    BY <1>1, <2>1 DEF SourcesInv, DiskOfPaths, DiskNews
  <2> QED
    BY <1>1, <2>2 DEF FollowsDisk, StillToScan, DiskNews
<1>8. BufferOfPaths'
  BY <1>1, <1>3 DEF SourcesInv, BufferOfPaths, Hopeful, FollowsBuffer
<1> QED
  BY <1>4, <1>5, <1>6, <1>7, <1>8 DEF SourcesInv

\* The steps of the handlers.
LEMMA HandlerKeepsSources ==
  ASSUME SourcesInv, HandlerStep, ShownInv', PairInv'
  PROVE  SourcesInv'
<1>1. HandlerOK(handler)
  BY DEF SourcesInv, ShownInv, TypeOK
<1>2. CASE EventsHandled \/ HandlerRefresh \/ Answer
  <2>1. /\ UNCHANGED <<buildVars, pairVars, store, disk, events, astray>>
        /\ \/ handler.step \in {"refresh", "answer"}
           \/ handler.step = "events" /\ handler.rest = <<>>
        /\ handler' \in {Idle, Refreshing}
    BY <1>2 DEF EventsHandled, HandlerRefresh, Answer, Refreshing, userVars
  <2>2. Waiting(handler) = {}
    BY <1>1, <2>1, WaitingShapes
  <2>3. handler'.step \in {"idle", "refresh"} /\ HandlerOK(handler')
    BY <2>1, HandlerTargets DEF Idle, Refreshing
  <2>4. Waiting(handler') = {}
    BY <2>3, WaitingShapes
  <2> QED
    BY <2>1, <2>2, <2>3, <2>4, IdleStep
<1>3. CASE PublishSnapshot
  <2>1. /\ UNCHANGED <<buildVars, pairVars, store, disk, events, astray>>
        /\ handler.step = "publish" /\ handler'.step = "send"
        /\ handler'.after = handler.after
    BY <1>3 DEF PublishSnapshot, userVars
  <2>2. HandlerOK(handler')
    BY DEF ShownInv, TypeOK
  <2>3. Waiting(handler') = Waiting(handler)
    BY <1>1, <2>1, <2>2, WaitingShapes
  <2> QED
    BY <2>1, <2>3, IdleStep
<1>4. ASSUME handler.step \in {"send", "clear"}, handler' = handler.after,
             UNCHANGED <<buildVars, pairVars, store, disk, events, astray>>
      PROVE  SourcesInv'
  <2>1. BetweenFiles(handler.after)
    BY <1>1, <1>4, HandlerShapes
  <2>2. handler'.step \in {"idle", "refresh", "events"}
    BY <1>4, <2>1 DEF BetweenFiles, Idle, Refreshing
  <2>3. Waiting(handler') = Waiting(handler)
    BY <1>1, <1>4, WaitingShapes
  <2> QED
    BY <1>4, <2>2, <2>3, IdleStep
<1>5. CASE ClearShown
  BY <1>4, <1>5 DEF ClearShown, userVars
<1>6. CASE PublishSend
  <2> DEFINE p == handler.path
  <2>1. CASE p \in Open \/ p \in Outside \/ handler.published
    BY <1>4, <1>6, <2>1 DEF PublishSend, userVars
  <2>2. CASE p \notin Open /\ p \notin Outside /\ ~handler.published
    <3>1. handler.step = "send" /\ BetweenFiles(handler.after)
      BY <1>1, <1>6, HandlerShapes DEF PublishSend
    <3>2. /\ HandlerOK(handler.after)
          /\ Waiting(handler) = Waiting(handler.after)
          /\ handler.after.step \in {"idle", "refresh", "events"}
      BY <1>1, <3>1, HandlerTargets, WaitingShapes
         DEF BetweenFiles, Idle, Refreshing
    <3>3. \A e \in Waiting(handler) :
            \E i \in DOMAIN handler.after.rest : handler.after.rest[i] = e
      BY <3>2, WaitingShapes
    <3>4. /\ handler' = Idle
          /\ astray' = [q \in Paths |->
                          IF /\ q \notin Open
                             /\ \E i \in DOMAIN handler.after.rest :
                                  handler.after.rest[i].path = q
                            THEN "reportedTooEarly" ELSE astray[q]]
      BY <1>6, <2>2 DEF PublishSend
    <3>5. \A q \in Paths :
            \/ astray'[q] = astray[q] /\ ~\E e \in Waiting(handler) : e.path = q
            \/ astray'[q] = astray[q] /\ q \in Open
            \/ astray'[q] # "no" /\ q \notin Open
      BY <3>3, <3>4
    <3> QED
      BY <1>6, <3>4, <3>5, PanicKeepsSources
  <2> QED
    BY <2>1, <2>2
<1> QED
  BY <1>2, <1>3, <1>5, <1>6, EventKeepsSources, ApplyKeepsSources
     DEF HandlerStep

-------------------------------------------------------------------------------
\* A document opened, changed or closed: what the index has of it is right, or
\* about to be, or it is astray; and nothing else is touched.
LEMMA EditKeepsSources ==
  ASSUME SourcesInv, NEW p \in Paths,
         \/ \E c \in Contents : DidOpen(p, c) \/ DidChange(p, c)
         \/ DidClose(p),
         ShownInv', PairInv'
  PROVE  SourcesInv'
<1>1. /\ handler = Idle
      /\ UNCHANGED <<build, todo, failed, snapshot, index, lineWidths,
                     published, disk, events>>
  BY DEF DidOpen, DidChange, DidClose, Ready, buildVars, pairVars
<1>2. handler.step = "idle" /\ Waiting(handler) = {}
  BY <1>1, HandlerTargets, WaitingShapes DEF Idle
<1>3. /\ Waiting(handler') = {}
      /\ handler'.step = "apply" => handler'.from = "editor"
  <2>1. /\ BetweenFiles(Idle) /\ BetweenFiles(Refreshing)
        /\ HandlerOK(Idle) /\ HandlerOK(Refreshing)
    BY HandlerTargets
  <2>2. Waiting(Idle) = {} /\ Waiting(Refreshing) = {}
    BY <2>1, WaitingShapes DEF Idle, Refreshing
  <2>3. CASE DidClose(p)
    BY <1>1, <1>2, <2>3 DEF DidClose
  <2>4. ASSUME NEW c \in Contents, DidOpen(p, c)
        PROVE  Waiting(handler') = {} /\ handler'.step # "apply"
    <3>1. handler' = Publishing(p, Idle)
      BY <2>4 DEF DidOpen
    <3>2. Publishing(p, Idle).step # "apply"
      BY DEF Publishing, Idle
    <3> QED
      BY <2>1, <2>2, <3>1, <3>2, WaitingStarts
  <2>5. ASSUME NEW c \in Contents, DidChange(p, c)
        PROVE  Waiting(handler') = {} /\ handler'.from = "editor"
    <3>1. handler' = Applying(p, c, "editor", Publishing(p, Refreshing))
      BY <2>5 DEF DidChange
    <3>2. Waiting(Applying(p, c, "editor", Publishing(p, Refreshing)))
            = Waiting(Refreshing)
      <4>1. c \in Contents \cup {Absent}
        BY <2>5
      <4> QED
        BY <2>1, <4>1, WaitingStarts, ZenonT(40)
    <3>3. Applying(p, c, "editor", Publishing(p, Refreshing)).from = "editor"
      BY DEF Applying
    <3> QED
      BY <2>2, <3>1, <3>2, <3>3
  <2> QED
    BY <2>3, <2>4, <2>5
<1>4. /\ Open \subseteq Open' \cup {p} /\ Open' \subseteq Open \cup {p}
      /\ \A q \in Open' \ {p} : store'[q] = store[q]
      /\ \A q \in Paths \ {p} : astray'[q] = astray[q]
      /\ Open' \subseteq Paths
  BY DEF DidOpen, DidChange, DidClose, Open, Put, Only, SourcesInv, ShownInv,
         TypeOK, ViewOK, DocumentsOK
<1>5. p \notin Open' => astray'[p] # "no"
  BY DEF DidOpen, DidChange, DidClose, Open, Put, Only, SourcesInv, ShownInv,
         TypeOK, ViewOK
<1>6. EventsOK'
  BY <1>1, <1>2, <1>3 DEF SourcesInv, EventsOK
<1>7. ScanOK'
  BY <1>1 DEF SourcesInv, ScanOK
<1>8. CopyOK'
  <2>1. build = "replay" => astray'[p] # "no"
    BY DEF DidOpen, DidChange, DidClose, SourcesInv, ShownInv, TypeOK, ViewOK
  <2>2. build = "replay" => DOMAIN snapshot \subseteq Paths
    BY DEF SourcesInv, ShownInv, TypeOK, BuildOK, DocumentsOK
  <2> QED
    BY <1>1, <1>4, <2>1, <2>2 DEF SourcesInv, CopyOK
<1>9. DiskOfPaths'
  <2> SUFFICES ASSUME WatchedFiles, Hopeful, NEW q \in Paths \ Open',
                      astray'[q] = "no"
               PROVE  FollowsDisk(q)' \/ StillToScan(q)' \/ DiskNews(q)'
    BY <1>1 DEF DiskOfPaths, Hopeful
  <2>1. q # p /\ q \notin Open /\ astray[q] = "no"
    BY <1>4, <1>5
  <2>2. FollowsDisk(q) \/ StillToScan(q) \/ q \in DOMAIN events
    BY <1>2, <2>1 DEF SourcesInv, DiskOfPaths, DiskNews
  <2> QED
    BY <1>1, <2>2 DEF FollowsDisk, StillToScan, DiskNews
<1>10. BufferOfPaths'
  <2> SUFFICES ASSUME Hopeful, NEW q \in Open', astray'[q] = "no"
               PROVE  \/ FollowsBuffer(q)'
                      \/ build \in Unpublished \cup {"collect", "replay"}
                      \/ /\ handler'.step = "apply" /\ handler'.from = "editor"
                         /\ handler'.path = q
    BY <1>1 DEF BufferOfPaths, Hopeful
  <2>1. CASE q = p
    <3>1. CASE DidClose(p)
      BY <2>1, <3>1 DEF DidClose, Open
    <3>2. ASSUME NEW c \in Contents, DidOpen(p, c)
          PROVE  build \in Unpublished \cup {"collect", "replay"}
      <4>1. ~Settled
        BY <2>1, <3>2 DEF DidOpen, SourcesInv, ShownInv, TypeOK, ViewOK
      <4> QED
        BY <4>1 DEF Settled, Unpublished, SourcesInv, ShownInv, TypeOK, BuildOK
    <3>3. ASSUME NEW c \in Contents, DidChange(p, c)
          PROVE  /\ handler'.step = "apply" /\ handler'.from = "editor"
                 /\ handler'.path = q
      BY <2>1, <3>3 DEF DidChange, Applying
    <3> QED
      BY <3>1, <3>2, <3>3
  <2>2. CASE q # p
    <3>1. q \in Open /\ astray[q] = "no" /\ store'[q] = store[q]
      BY <1>4, <2>2
    <3>2. \/ FollowsBuffer(q)
          \/ build \in Unpublished \cup {"collect", "replay"}
      BY <1>2, <3>1 DEF SourcesInv, BufferOfPaths
    <3> QED
      BY <1>1, <3>1, <3>2 DEF FollowsBuffer
  <2> QED
    BY <2>1, <2>2
<1> QED
  BY <1>6, <1>7, <1>8, <1>9, <1>10 DEF SourcesInv

\* A file written: its news is noted.
LEMMA WriteKeepsSources ==
  ASSUME SourcesInv, NEW p \in Paths, NEW c \in Contents \cup {Absent},
         WriteDisk(p, c), ShownInv', PairInv'
  PROVE  SourcesInv'
<1>1. UNCHANGED <<build, todo, failed, snapshot, index, lineWidths,
                  published, store, handler, astray>>
  BY DEF WriteDisk, buildVars, pairVars
<1>2. disk'[p] = c /\ \A q \in Paths \ {p} : disk'[q] = disk[q]
  BY DEF WriteDisk, SourcesInv, ShownInv, TypeOK, DiskOK
<1>3. WatchedFiles =>
        /\ p \in DOMAIN events'
        /\ events'[p] = "deleted" <=> c = Absent
        /\ \A q \in Paths \ {p} :
             /\ q \in DOMAIN events' <=> q \in DOMAIN events
             /\ q \in DOMAIN events => events'[q] = events[q]
  BY DEF WriteDisk, Put, Only
<1>4. HandlerOK(handler) /\ DOMAIN events' \subseteq Paths
  BY DEF SourcesInv, ShownInv, TypeOK, DiskOK
<1>5. \A e \in Waiting(handler) : e.path \in Paths
  BY <1>4, WaitingTypes DEF Events
<1>6. EventsOK'
  <2> SUFFICES ASSUME WatchedFiles PROVE EventsOK'
    BY DEF EventsOK
  <2>1. \A q \in DOMAIN events' : events'[q] = "deleted" <=> disk'[q] = Absent
    BY <1>2, <1>3, <1>4 DEF SourcesInv, EventsOK
  <2>2. ASSUME NEW e \in Waiting(handler)
        PROVE  ReportOK(e.path, e.type = "deleted")'
    <3>1. ReportOK(e.path, e.type = "deleted")
      BY DEF SourcesInv, EventsOK
    <3> QED
      BY <1>2, <1>3, <1>5, <3>1 DEF ReportOK
  <2>3. handler.step = "apply" /\ handler.from = "disk" =>
          \/ handler.path \in DOMAIN events'
          \/ handler.content = disk'[handler.path]
    BY <1>2, <1>3, <1>4, HandlerShapes DEF SourcesInv, EventsOK
  <2> QED
    BY <1>1, <2>1, <2>2, <2>3 DEF EventsOK
<1>7. ScanOK' /\ CopyOK'
  BY <1>1 DEF SourcesInv, ScanOK, CopyOK, Open
<1>8. DiskOfPaths'
  <2> SUFFICES ASSUME WatchedFiles, Hopeful, NEW q \in Paths \ Open,
                      astray[q] = "no"
               PROVE  FollowsDisk(q)' \/ StillToScan(q)' \/ DiskNews(q)'
    BY <1>1 DEF DiskOfPaths, Hopeful, Open
  <2>1. FollowsDisk(q) \/ StillToScan(q) \/ DiskNews(q)
    BY DEF SourcesInv, DiskOfPaths
  <2>2. q = p => DiskNews(q)'
    BY <1>3 DEF DiskNews
  <2>3. q # p /\ FollowsDisk(q) => FollowsDisk(q)'
    BY <1>1, <1>2 DEF FollowsDisk
  <2>4. StillToScan(q) => StillToScan(q)'
    BY <1>1 DEF StillToScan
  <2>5. q # p /\ DiskNews(q) => DiskNews(q)'
    BY <1>1, <1>3 DEF DiskNews
  <2> QED
    BY <2>1, <2>2, <2>3, <2>4, <2>5
<1>9. BufferOfPaths'
  BY <1>1 DEF SourcesInv, BufferOfPaths, Hopeful, Open, FollowsBuffer
<1> QED
  BY <1>6, <1>7, <1>8, <1>9 DEF SourcesInv

\* The client reports all it has noted, in whatever order.
LEMMA ReportKeepsSources ==
  ASSUME SourcesInv, DidChangeWatchedFiles, ShownInv', PairInv'
  PROVE  SourcesInv'
<1>1. /\ handler = Idle /\ events' = Nothing
      /\ UNCHANGED <<build, todo, failed, snapshot, index, lineWidths,
                     published, store, disk, astray>>
  BY DEF DidChangeWatchedFiles, buildVars, pairVars
<1>2. handler.step = "idle" /\ Waiting(handler) = {}
  BY <1>1, HandlerTargets, WaitingShapes DEF Idle
<1>3. PICK order \in SetToSeqs(DOMAIN events) :
        handler' = Reporting([i \in DOMAIN order |->
                      [path |-> order[i], type |-> events[order[i]]]])
  BY DEF DidChangeWatchedFiles
<1> DEFINE reported == [i \in DOMAIN order |->
                          [path |-> order[i], type |-> events[order[i]]]]
<1>4. /\ handler'.step = "events" /\ handler'.rest = reported
      /\ HandlerOK(handler')
  BY <1>3 DEF Reporting, ShownInv, TypeOK
<1>5. Waiting(handler') = {reported[i] : i \in DOMAIN order}
  <2>1. Waiting(handler') = {handler'.rest[i] : i \in DOMAIN handler'.rest}
    BY <1>4, WaitingShapes
  <2> QED
    BY <1>4, <2>1
<1>6. {order[i] : i \in DOMAIN order} = DOMAIN events
  BY ReportCovers DEF SourcesInv, ShownInv, TypeOK
<1>7. ASSUME NEW e \in Waiting(handler')
      PROVE  e.path \in DOMAIN events /\ e.type = events[e.path]
  BY <1>5, <1>6
<1>8. \A q \in DOMAIN events : \E e \in Waiting(handler') : e.path = q
  <2> TAKE q \in DOMAIN events
  <2>1. PICK i \in DOMAIN order : order[i] = q
    BY <1>6
  <2>2. reported[i] \in Waiting(handler') /\ reported[i].path = q
    BY <1>5, <2>1
  <2> QED
    BY <2>2
<1>9. EventsOK'
  <2> SUFFICES ASSUME WatchedFiles PROVE EventsOK'
    BY DEF EventsOK
  <2>1. DOMAIN events' = {}
    BY <1>1 DEF Nothing
  <2>2. \A e \in Waiting(handler') : ReportOK(e.path, e.type = "deleted")'
    BY <1>1, <1>7 DEF SourcesInv, EventsOK, ReportOK
  <2> QED
    BY <1>4, <2>1, <2>2 DEF EventsOK
<1>10. ScanOK' /\ CopyOK'
  BY <1>1 DEF SourcesInv, ScanOK, CopyOK, Open
<1>11. \A q \in Paths : DiskNews(q) => DiskNews(q)'
  BY <1>2, <1>8 DEF DiskNews
<1>12. DiskOfPaths'
  BY <1>1, <1>11 DEF SourcesInv, DiskOfPaths, Hopeful, Open, FollowsDisk,
                     StillToScan
<1>13. BufferOfPaths'
  BY <1>1, <1>2 DEF SourcesInv, BufferOfPaths, Hopeful, Open, FollowsBuffer
<1> QED
  BY <1>9, <1>10, <1>12, <1>13 DEF SourcesInv

\* The steps of the client and the disk, and the return of Run.
LEMMA UserKeepsSources ==
  ASSUME SourcesInv, UserStep \/ Return, ShownInv', PairInv'
  PROVE  SourcesInv'
<1>1. CASE Initialized
  <2>1. /\ build = "none" /\ build' = "walk"
        /\ UNCHANGED <<todo, failed, snapshot, index, lineWidths, published,
                       store, handler, disk, events, astray>>
    BY <1>1 DEF Initialized, SourcesInv, PairInv, pairVars, userVars
  <2>2. EventsOK' /\ ScanOK' /\ CopyOK'
    BY <2>1 DEF SourcesInv, EventsOK, ReportOK, ScanOK, CopyOK, Unpublished
  <2>3. DiskOfPaths' /\ BufferOfPaths'
    BY <2>1 DEF DiskOfPaths, BufferOfPaths, StillToScan, Unpublished
  <2> QED
    BY <2>2, <2>3 DEF SourcesInv
<1>2. CASE Shutdown \/ Leave \/ Return
  BY <1>2, IdleStep DEF Shutdown, Leave, Return, userVars
<1>3. CASE Request
  <2>1. /\ UNCHANGED <<buildVars, pairVars, store, disk, events, astray>>
        /\ handler = Idle /\ handler'.step = "answer"
    BY <1>3 DEF Request, Ready
  <2>2. handler.step = "idle" /\ HandlerOK(handler) /\ HandlerOK(handler')
    BY <2>1, HandlerTargets DEF Idle, ShownInv, TypeOK
  <2>3. Waiting(handler) = {} /\ Waiting(handler') = {}
    BY <2>1, <2>2, WaitingShapes
  <2> QED
    BY <2>1, <2>2, <2>3, IdleStep
<1>4. ASSUME NEW p \in Paths \ Outside, NEW c \in Contents \cup {Absent},
             WriteDisk(p, c)
      PROVE  SourcesInv'
  BY <1>4, WriteKeepsSources
<1>5. ASSUME NEW p \in Paths,
             \/ \E c \in Contents : DidOpen(p, c) \/ DidChange(p, c)
             \/ DidClose(p)
      PROVE  SourcesInv'
  BY <1>5, EditKeepsSources
<1> QED
  BY <1>1, <1>2, <1>3, <1>4, <1>5, ReportKeepsSources DEF UserStep

-------------------------------------------------------------------------------
\* A step of the build that leaves the index alone: what it has still to scan,
\* and whether it may still be published.
LEMMA BuildMoves ==
  ASSUME SourcesInv, ShownInv', PairInv', ScanOK', CopyOK',
         UNCHANGED <<index, lineWidths, store, handler, disk, events, astray>>,
         Hopeful' => Hopeful,
         Hopeful' => \A p \in Paths : StillToScan(p) =>
                       StillToScan(p)' \/ FollowsDisk(p),
         build' \in Unpublished \cup {"collect", "replay"}
           \/ build \notin Unpublished \cup {"collect", "replay"}
           \/ DOMAIN store = {} \/ ~Hopeful'
  PROVE  SourcesInv'
<1>1. EventsOK'
  BY DEF SourcesInv, EventsOK, ReportOK
<1>2. DiskOfPaths'
  BY DEF SourcesInv, DiskOfPaths, Open, FollowsDisk, DiskNews
<1>3. BufferOfPaths'
  BY DEF SourcesInv, BufferOfPaths, Open, FollowsBuffer
<1> QED
  BY <1>1, <1>2, <1>3 DEF SourcesInv

\* The walk leaves out what does not exist or is excluded, or the build fails.
LEMMA WalkKeepsSources ==
  ASSUME SourcesInv, Walk, ShownInv', PairInv'
  PROVE  SourcesInv'
<1>1. /\ build = "walk" /\ ~published
      /\ UNCHANGED <<index, lineWidths, published, store, handler, disk,
                     events, astray>>
  BY DEF Walk, pairVars, userVars, SourcesInv, ScanOK, Unpublished
<1>2. DOMAIN index = {}
  BY <1>1 DEF SourcesInv, ScanOK
<1>3. \/ /\ todo' = {p \in Paths \ (Outside \cup Excluded) : disk[p] # Absent}
         /\ build' = "scan" /\ failed' = failed
      \/ build' = "guard" /\ failed'
  BY DEF Walk
<1>4. ScanOK' /\ CopyOK'
  BY <1>1, <1>2, <1>3 DEF ScanOK, CopyOK
<1>5. Hopeful' => Hopeful /\ build' = "scan"
  BY <1>1, <1>3 DEF Hopeful, Unpublished
<1>6. Hopeful' => \A p \in Paths : StillToScan(p)' \/ FollowsDisk(p)
  BY <1>2, <1>3, <1>5 DEF StillToScan, FollowsDisk
<1>7. build' \in Unpublished
  BY <1>3 DEF Unpublished
<1> QED
  BY <1>1, <1>4, <1>5, <1>6, <1>7, BuildMoves

\* One file scanned follows the disk; the others are as they were.
LEMMA ScanKeepsSources ==
  ASSUME SourcesInv, ScanFile, ShownInv', PairInv'
  PROVE  SourcesInv'
<1> DEFINE p == FirstByPath(todo)
<1>1. /\ build = "scan" /\ todo' = todo \ {p}
      /\ UNCHANGED <<build, failed, snapshot, published, store, handler, disk,
                     events, astray>>
  BY DEF ScanFile, userVars
<1>2. p \in todo /\ p \in Paths /\ p \notin DOMAIN index
  BY <1>1, FirstIsMember
     DEF ScanFile, SourcesInv, ShownInv, TypeOK, BuildOK, ScanOK
<1>3. \/ /\ disk[p] \in TooLarge \cup {Absent}
         /\ UNCHANGED <<index, lineWidths>>
      \/ /\ disk[p] \notin TooLarge \cup {Absent}
         /\ Add(p, ScanAnalyze(p, disk[p]), disk[p])
  BY DEF ScanFile
<1> HIDE DEF p
<1>4. ASSUME NEW q \in Paths, q = p
      PROVE  FollowsDisk(q)'
  <2>1. CASE disk[p] \in TooLarge \cup {Absent}
    BY <1>1, <1>2, <1>3, <1>4, <2>1 DEF FollowsDisk
  <2>2. CASE disk[p] \notin TooLarge \cup {Absent}
    <3>1. /\ p \in DOMAIN index' /\ index'[p] = ScanAnalyze(p, disk[p])
          /\ p \in DOMAIN lineWidths' /\ lineWidths'[p] = disk[p]
      BY <1>3, <2>2 DEF Add, Put, Only
    <3> QED
      BY <1>1, <1>4, <2>2, <3>1 DEF FollowsDisk
  <2> QED
    BY <2>1, <2>2
<1>5. ASSUME NEW q \in Paths \ {p}
      PROVE  /\ q \in DOMAIN index' <=> q \in DOMAIN index
             /\ q \in DOMAIN index => index'[q] = index[q]
             /\ q \in DOMAIN lineWidths' <=> q \in DOMAIN lineWidths
             /\ q \in DOMAIN lineWidths => lineWidths'[q] = lineWidths[q]
  BY <1>3 DEF Add, Put, Only
<1>6. EventsOK'
  BY <1>1 DEF SourcesInv, EventsOK, ReportOK
<1>7. ScanOK' /\ CopyOK'
  <2>1. todo \subseteq Paths
    BY DEF SourcesInv, ShownInv, TypeOK, BuildOK
  <2>2. todo' \cap DOMAIN index' = {}
    BY <1>1, <1>5, <2>1 DEF SourcesInv, ScanOK
  <2> QED
    BY <1>1, <2>2 DEF SourcesInv, ScanOK, CopyOK
<1>8. DiskOfPaths'
  <2> SUFFICES ASSUME WatchedFiles, Hopeful, NEW q \in Paths \ Open,
                      astray[q] = "no"
               PROVE  FollowsDisk(q)' \/ StillToScan(q)' \/ DiskNews(q)'
    BY <1>1 DEF DiskOfPaths, Hopeful, Open
  <2>1. CASE q = p
    BY <1>4, <2>1
  <2>2. CASE q # p
    <3>1. FollowsDisk(q) \/ StillToScan(q) \/ DiskNews(q)
      BY DEF SourcesInv, DiskOfPaths
    <3>2. FollowsDisk(q) => FollowsDisk(q)'
      BY <1>1, <1>5, <2>2 DEF FollowsDisk
    <3> QED
      BY <1>1, <2>2, <3>1, <3>2 DEF StillToScan, DiskNews
  <2> QED
    BY <2>1, <2>2
<1>9. BufferOfPaths'
  BY <1>1 DEF BufferOfPaths, Unpublished
<1> QED
  BY <1>6, <1>7, <1>8, <1>9 DEF SourcesInv

\* The open buffers replayed: what was copied of an open document is still
\* what it says, and no closed document is given its buffer back.
LEMMA ReplayKeepsSources ==
  ASSUME SourcesInv, ReplayBuffers, ShownInv', PairInv'
  PROVE  SourcesInv'
<1>1. /\ build = "replay" /\ build' = "refresh"
      /\ UNCHANGED <<failed, snapshot, published, store, handler, disk,
                     events, astray>>
  BY DEF ReplayBuffers, userVars
<1>2. published =>
        /\ index' = Put(index, [p \in DOMAIN snapshot |-> snapshot[p].analysis])
        /\ lineWidths' = Put(lineWidths,
                             [p \in DOMAIN snapshot |-> snapshot[p].content])
  BY DEF ReplayBuffers
<1>3. EventsOK' /\ ScanOK' /\ CopyOK'
  BY <1>1 DEF SourcesInv, EventsOK, ReportOK, ScanOK, CopyOK, Unpublished
<1>4. Hopeful' => published
  BY <1>1 DEF Hopeful, Unpublished
<1>5. DiskOfPaths'
  <2> SUFFICES ASSUME WatchedFiles, published, NEW q \in Paths \ Open,
                      astray[q] = "no"
               PROVE  FollowsDisk(q)' \/ DiskNews(q)'
    BY <1>1, <1>4 DEF DiskOfPaths, Open
  <2>1. FollowsDisk(q) \/ DiskNews(q)
    BY <1>1 DEF SourcesInv, DiskOfPaths, Hopeful, StillToScan
  <2>2. q \notin DOMAIN snapshot
    BY <1>1 DEF SourcesInv, CopyOK
  <2>3. FollowsDisk(q) => FollowsDisk(q)'
    BY <1>1, <1>2, <2>2 DEF FollowsDisk, Put
  <2> QED
    BY <1>1, <2>1, <2>3 DEF DiskNews
<1>6. BufferOfPaths'
  <2> SUFFICES ASSUME published, NEW q \in Open, astray[q] = "no"
               PROVE  FollowsBuffer(q)'
    BY <1>1, <1>4 DEF BufferOfPaths, Open
  <2>1. q \in DOMAIN snapshot /\ snapshot[q] = store[q]
    BY <1>1 DEF SourcesInv, CopyOK
  <2> QED
    BY <1>1, <1>2, <2>1 DEF FollowsBuffer, Put
<1> QED
  BY <1>3, <1>5, <1>6 DEF SourcesInv

\* The build's steps.
LEMMA BuildKeepsSources ==
  ASSUME SourcesInv, BuildStep, ShownInv', PairInv'
  PROVE  SourcesInv'
<1>1. ASSUME UNCHANGED <<snapshot, index, lineWidths, store, handler, disk,
                         events, astray>>,
             ScanOK', build' # "replay", Hopeful' => Hopeful,
             Hopeful' => ~\E p \in Paths : StillToScan(p),
             build' \in Unpublished \cup {"collect"}
               \/ build = "refresh" \/ ~Hopeful'
      PROVE  SourcesInv'
  <2>1. CopyOK'
    BY <1>1 DEF CopyOK
  <2>2. build = "refresh" => build \notin Unpublished \cup {"collect", "replay"}
    BY DEF Unpublished
  <2> QED
    BY <1>1, <2>1, <2>2, BuildMoves
<1>2. CASE AbandonScan
  <2>1. /\ build = "scan" /\ build' = "guard" /\ failed' /\ ~published'
        /\ UNCHANGED <<snapshot, index, lineWidths, store, handler, disk,
                       events, astray>>
    BY <1>2 DEF AbandonScan, pairVars, userVars, SourcesInv, ScanOK, Unpublished
  <2>2. ScanOK' /\ ~Hopeful'
    BY <2>1 DEF ScanOK, Hopeful
  <2> QED
    BY <1>1, <2>1, <2>2
<1>3. CASE ResolveAll
  <2>1. /\ build = "scan" /\ todo = {} /\ build' = "guard"
        /\ UNCHANGED <<snapshot, index, lineWidths, store, handler, disk,
                       events, astray, published, failed>>
    BY <1>3 DEF ResolveAll, userVars
  <2>2. ScanOK' /\ (Hopeful' => Hopeful) /\ build' \in Unpublished
    BY <2>1 DEF SourcesInv, ScanOK, Hopeful, Unpublished
  <2>3. ~\E p \in Paths : StillToScan(p)
    BY <2>1 DEF StillToScan
  <2> QED
    BY <1>1, <2>1, <2>2, <2>3
<1>4. CASE Guard
  <2>1. /\ build = "guard" /\ build' \in {"done", "publish"}
        /\ UNCHANGED <<snapshot, index, lineWidths, store, handler, disk,
                       events, astray, published, failed>>
    BY <1>4 DEF Guard, pairVars, userVars
  <2>2. /\ ScanOK' /\ (Hopeful' => Hopeful)
        /\ build' \in Unpublished \/ ~Hopeful'
    BY <2>1 DEF SourcesInv, ScanOK, Hopeful, Unpublished
  <2>3. ~\E p \in Paths : StillToScan(p)
    BY <2>1 DEF StillToScan
  <2> QED
    BY <1>1, <2>1, <2>2, <2>3
<1>5. CASE PublishIndex
  <2>1. /\ build = "publish" /\ build' = "collect" /\ published' = ~failed
        /\ UNCHANGED <<snapshot, index, lineWidths, store, handler, disk,
                       events, astray, failed>>
    BY <1>5 DEF PublishIndex, userVars
  <2>2. ScanOK' /\ (Hopeful' => Hopeful)
    BY <2>1 DEF SourcesInv, ScanOK, Hopeful, Unpublished
  <2>3. ~\E p \in Paths : StillToScan(p)
    BY <2>1 DEF StillToScan
  <2> QED
    BY <1>1, <2>1, <2>2, <2>3
<1>6. CASE CollectBuffers
  <2>1. /\ build = "collect" /\ snapshot' = store
        /\ build' = IF DOMAIN store = {} THEN "refresh" ELSE "replay"
        /\ UNCHANGED <<index, lineWidths, store, handler, disk, events, astray,
                       published, failed>>
    BY <1>6 DEF CollectBuffers, pairVars, userVars, Open
  <2>2. ScanOK' /\ CopyOK' /\ (Hopeful' => Hopeful)
    BY <2>1 DEF SourcesInv, ScanOK, CopyOK, Hopeful, Unpublished, Open
  <2>3. ~\E p \in Paths : StillToScan(p)
    BY <2>1 DEF StillToScan
  <2>4. build' \in Unpublished \cup {"collect", "replay"} \/ DOMAIN store = {}
    BY <2>1
  <2> QED
    BY <2>1, <2>2, <2>3, <2>4, BuildMoves
<1>7. CASE BuildRefresh
  <2>1. /\ build = "refresh" /\ build' = "done"
        /\ UNCHANGED <<snapshot, index, lineWidths, store, handler, disk,
                       events, astray, published, failed>>
    BY <1>7 DEF BuildRefresh, pairVars, userVars
  <2>2. ScanOK' /\ (Hopeful' => Hopeful)
    BY <2>1 DEF SourcesInv, ScanOK, Hopeful, Unpublished
  <2>3. ~\E p \in Paths : StillToScan(p)
    BY <2>1 DEF StillToScan
  <2> QED
    BY <1>1, <2>1, <2>2, <2>3
<1> QED
  BY <1>2, <1>3, <1>4, <1>5, <1>6, <1>7, WalkKeepsSources, ScanKeepsSources,
     ReplayKeepsSources DEF BuildStep

LEMMA StepSources == SourcesInv /\ [Next]_vars => SourcesInv'
<1> SUFFICES ASSUME SourcesInv, [Next]_vars PROVE SourcesInv'
  OBVIOUS
<1>1. ShownInv' /\ PairInv'
  BY StepShown, StepPair DEF SourcesInv
<1>2. CASE Returned \/ UNCHANGED vars
  <2>1. UNCHANGED <<buildVars, pairVars, store, disk, events, astray, handler>>
    BY <1>2 DEF Returned, vars, userVars
  <2> QED
    BY <1>1, <2>1, IdleStep
<1> QED
  BY <1>1, <1>2, BuildKeepsSources, HandlerKeepsSources, UserKeepsSources
     DEF Next

\* When everything is at rest the index says of every file that is not astray
\* what its buffer says, or the disk if it is not open: whatever was scanned,
\* replayed, edited or reported, in whatever order, the latest news of a file
\* is the one that is applied last.
THEOREM IndexFollowsSources == Spec => []SourcesFollowed
<1>1. SourcesInv => SourcesFollowed
  <2> SUFFICES ASSUME SourcesInv, AtRest, WatchedFiles, NEW p \in Paths,
                      astray[p] = "no"
               PROVE  Follows(p)
    BY DEF SourcesFollowed
  <2>1. handler.step = "idle" /\ Waiting(handler) = {} /\ DOMAIN events = {}
    BY HandlerTargets, WaitingShapes DEF AtRest, Idle, Nothing
  <2>2. Hopeful /\ build \in {"refresh", "done"}
    BY DEF AtRest, Hopeful, Settled
  <2>3. CASE p \in Open
    <3>1. FollowsBuffer(p)
      BY <2>1, <2>2, <2>3 DEF SourcesInv, BufferOfPaths, Unpublished
    <3> QED
      BY <2>3, <3>1 DEF Follows, FollowsBuffer
  <2>4. CASE p \notin Open
    <3>1. FollowsDisk(p)
      BY <2>1, <2>2, <2>4 DEF SourcesInv, DiskOfPaths, StillToScan, DiskNews
    <3> QED
      BY <2>4, <3>1 DEF Follows, FollowsDisk
  <2> QED
    BY <2>3, <2>4
<1> QED
  BY <1>1, InitSources, StepSources, PTL DEF Spec

-------------------------------------------------------------------------------
(***************************************************************************)
(* The published pair implements IndexUpdates.  The operators of the       *)
(* instance are those of Resolution, with the constants of this module.    *)
(***************************************************************************)
LEMMA SameVocabulary ==
  /\ Pair!NoTarget = NoTarget
  /\ Pair!DynamicKinds = DynamicKinds
  /\ Pair!ExpectedType = ExpectedType
  /\ Pair!DataAreaTypes = DataAreaTypes
  /\ Pair!Nothing = Nothing
BY DEF Pair!NoTarget, NoTarget, Pair!Unresolved, Unresolved,
       Pair!DynamicKinds, DynamicKinds, Pair!ExpectedType, ExpectedType,
       Pair!DataAreaTypes, DataAreaTypes, Pair!Nothing, Nothing

LEMMA SameMin ==
  ASSUME NEW S
  PROVE  Pair!Min(S) = Min(S)
BY Zenon DEF Pair!Min, Min

LEMMA SameCardinality ==
  ASSUME NEW S
  PROVE  Pair!Cardinality(S) = Cardinality(S)
BY Zenon DEF Pair!Cardinality, Cardinality

LEMMA SameByName ==
  ASSUME NEW i, NEW p, NEW edge, NEW type
  PROVE  Pair!ResolveByName(i, p, edge, type)
           = ResolveByName(i, p, edge, type)
<1>1. \A n : Pair!FilterByType(i, Pair!NameIndex(i, n), type)
              = FilterByType(i, NameIndex(i, n), type)
  BY Zenon DEF Pair!FilterByType, FilterByType, Pair!NameIndex, NameIndex,
               Pair!ObjectName, ObjectName
<1>2. \A S : Pair!FirstByPath(S) = FirstByPath(S)
  BY Zenon DEF Pair!FirstByPath, FirstByPath
<1>3. \A S : /\ Pair!BindFirst(S, type) = BindFirst(S, type)
            /\ Pair!BindUnique(S, type) = BindUnique(S, type)
  BY <1>2, Zenon
     DEF Pair!BindFirst, BindFirst, Pair!BindUnique, BindUnique,
         Pair!NoTarget, NoTarget, Pair!Unresolved, Unresolved,
         Pair!Resolved, Resolved, Pair!Ambiguous, Ambiguous
<1>4. Pair!NoLibrary = NoLibrary /\ Pair!NoTarget = NoTarget
  BY SameVocabulary DEF Pair!NoLibrary, NoLibrary
<1>5. \A q : Pair!OwningLibrary(q) = OwningLibrary(q)
  BY Zenon DEF Pair!OwningLibrary, OwningLibrary, Pair!IsPrefix, IsPrefix,
               Pair!NoLibrary, NoLibrary, Pair!Min, Min
<1>6. \A l : Pair!SearchChain(l) = SearchChain(l)
  BY Zenon DEF Pair!SearchChain, SearchChain, Pair!NoLibrary, NoLibrary,
               Pair!SystemLibrary, SystemLibrary, Pair!Min, Min
<1>7. \A S, c : Pair!ChainHits(S, c) = ChainHits(S, c)
  BY <1>5, SameMin, Zenon DEF Pair!ChainHits, ChainHits
<1> DEFINE name == Upper[edge.target]
           candidates == FilterByType(i, NameIndex(i, name), type)
           chain == SearchChain(OwningLibrary(p))
           named == {q \in candidates : OwningLibrary(q) = edge.library}
           One(S) == BindFirst(S, type)
           Several == BindUnique(candidates, type)
<1>8. Pair!FilterByType(i, Pair!NameIndex(i, name), type) = candidates
  BY <1>1
<1>9. Pair!SearchChain(Pair!OwningLibrary(p)) = chain
  BY <1>5, <1>6
<1>10. {q \in candidates : Pair!OwningLibrary(q) = edge.library} = named
  BY <1>5
<1>11. /\ Pair!BindFirst(named, type) = One(named)
       /\ Pair!BindFirst(Pair!ChainHits(candidates, chain), type)
            = One(ChainHits(candidates, chain))
       /\ Pair!BindUnique(candidates, type) = Several
  BY <1>3, <1>7
<1> HIDE DEF candidates, chain, named
<1> QED
  BY <1>4, <1>8, <1>9, <1>10, <1>11
     DEF Pair!ResolveByName, ResolveByName, candidates, chain, named

LEMMA SameDataAreaEdge ==
  ASSUME NEW i, NEW p, NEW edge
  PROVE  Pair!ResolveDataAreaEdge(i, p, edge) = ResolveDataAreaEdge(i, p, edge)
<1> DEFINE Try(k) == ResolveByName(i, p, edge, DataAreaTypes[k])
           PairTry(k) == Pair!ResolveByName(i, p, edge, Pair!DataAreaTypes[k])
           found == {k \in DOMAIN DataAreaTypes :
                       Try(k).outcome # "unresolved"}
           pairFound == {k \in DOMAIN Pair!DataAreaTypes :
                           PairTry(k).outcome # "unresolved"}
<1>1. \A k : PairTry(k) = Try(k)
  BY SameByName, SameVocabulary
<1>2. pairFound = found
  BY <1>1, SameVocabulary
<1>3. Pair!ResolveDataAreaEdge(i, p, edge)
        = IF pairFound = {} THEN Pair!NoTarget ELSE PairTry(Pair!Min(pairFound))
  BY DEF Pair!ResolveDataAreaEdge
<1>4. ResolveDataAreaEdge(i, p, edge)
        = IF found = {} THEN NoTarget ELSE Try(Min(found))
  BY DEF ResolveDataAreaEdge
<1> HIDE DEF Try, PairTry, found, pairFound
<1> QED
  BY <1>1, <1>2, <1>3, <1>4, SameVocabulary, SameMin

LEMMA SameEdgeOutcome ==
  ASSUME NEW i, NEW p, NEW edge
  PROVE  Pair!ResolveEdge(i, p, edge) = ResolveEdge(i, p, edge)
BY SameVocabulary, SameByName, SameDataAreaEdge
   DEF Pair!ResolveEdge, ResolveEdge, Pair!Resolved, Resolved,
       Pair!Unresolved, Unresolved

LEMMA SameFileOutcomes ==
  ASSUME NEW i, NEW p
  PROVE  Pair!ResolveFile(i, p) = ResolveFile(i, p)
<1>1. Pair!ResolveEdges(i, p) = ResolveEdges(i, p)
  BY SameEdgeOutcome DEF Pair!ResolveEdges, ResolveEdges
<1>2. Pair!AmbiguityDiagnostics(i, p) = AmbiguityDiagnostics(i, p)
  BY SameEdgeOutcome DEF Pair!AmbiguityDiagnostics, AmbiguityDiagnostics
<1> QED
  BY <1>1, <1>2 DEF Pair!ResolveFile, ResolveFile

LEMMA SamePasses ==
  ASSUME NEW i, NEW r, NEW changed, NEW updates
  PROVE  /\ Pair!Resolve(i) = Resolve(i)
         /\ Pair!ResolveInto(r, i, changed) = ResolveInto(r, i, changed)
         /\ Pair!Put(i, updates) = Put(i, updates)
<1>1. Pair!Resolve(i) = Resolve(i)
  BY SameFileOutcomes DEF Pair!Resolve, Resolve
<1>2. Pair!AffectedFiles(i, changed) = AffectedFiles(i, changed)
  BY DEF Pair!AffectedFiles, AffectedFiles, Pair!ObjectName, ObjectName
<1>3. Pair!ResolveInto(r, i, changed) = ResolveInto(r, i, changed)
  BY <1>2, SameFileOutcomes DEF Pair!ResolveInto, ResolveInto
<1>4. Pair!Put(i, updates) = Put(i, updates)
  BY DEF Pair!Put, Put
<1> QED
  BY <1>1, <1>3, <1>4

\* Analyses that may be put together: of files of the workspace, each of a
\* content the file could have.
AnalysesFit(f) ==
  /\ f = [p \in DOMAIN f |-> f[p]]
  /\ DOMAIN f \subseteq Paths
  /\ \A p \in DOMAIN f : f[p] \in AnalysesOf[p]

\* The assumption of IndexUpdates holds of the analyses put here.
LEMMA PairAssumption == Pair!AnalysesAssumption
<1>1. ASSUME NEW p \in Paths, NEW analysis \in AnalysesOf[p]
      PROVE  AnalysisOK(analysis)
  BY AnalysisTypes DEF AnalysesOf
<1>2. ASSUME NEW analysis, AnalysisOK(analysis)
      PROVE  Pair!AnalysisOK(analysis)
  <2>1. Pair!EdgeEntry = EdgeEntry /\ Pair!ObjectTypes = ObjectTypes
    BY DEF Pair!EdgeEntry, EdgeEntry, Pair!StaticKinds, StaticKinds,
           Pair!DynamicKinds, DynamicKinds, Pair!ObjectTypes, ObjectTypes
  <2> QED
    BY <1>2, <2>1 DEF Pair!AnalysisOK, AnalysisOK, Pair!EdgesOK, EdgesOK
<1>3. Cardinality(Paths) \in Nat
  BY ConstantsAssumption, FS_CardinalityType
<1> QED
  BY <1>1, <1>2, <1>3 DEF Pair!AnalysesAssumption

LEMMA FittingIsUpdate ==
  ASSUME NEW updates, AnalysesFit(updates), DOMAIN updates # {}
  PROVE  updates \in Pair!Updates
<1> DEFINE changed == DOMAIN updates
<1>1. changed \in (SUBSET Paths) \ {{}}
  BY DEF AnalysesFit
<1>2. Cardinality(changed) <= Cardinality(Paths)
  BY <1>1, ConstantsAssumption, FS_Subset
<1>3. updates \in [changed -> UNION {AnalysesOf[p] : p \in changed}]
  <2>1. \A p \in changed : updates[p] \in UNION {AnalysesOf[q] : q \in changed}
    BY DEF AnalysesFit
  <2> QED
    BY <2>1 DEF AnalysesFit
<1>4. \A p \in DOMAIN updates : updates[p] \in AnalysesOf[p]
  BY DEF AnalysesFit
<1> DEFINE Few == {S \in (SUBSET Paths) \ {{}} :
                     Cardinality(S) <= Cardinality(Paths)}
           FromFiles(S) == [S -> UNION {AnalysesOf[p] : p \in S}]
<1>5. changed \in Few /\ updates \in FromFiles(changed)
  BY <1>1, <1>2, <1>3
<1>6. Few = {S \in (SUBSET Paths) \ {{}} :
               Pair!Cardinality(S) <= Cardinality(Paths)}
  BY SameCardinality
<1>7. Pair!Updates = {u \in UNION {FromFiles(S) : S \in Few} :
                        \A p \in DOMAIN u : u[p] \in AnalysesOf[p]}
  BY <1>6, Zenon DEF Pair!Updates
<1> HIDE DEF changed, Few, FromFiles
<1> QED
  BY <1>4, <1>5, <1>7

\* A lock section that puts some analyses is an update of the published pair.
LEMMA SectionIsUpdate ==
  ASSUME NEW updates, AnalysesFit(updates), DOMAIN updates # {},
         PublishedIndex' = Put(PublishedIndex, updates),
         PublishedRes'
           = ResolveInto(PublishedRes, PublishedIndex', DOMAIN updates)
  PROVE  Pair!Next
<1>1. updates \in Pair!Updates
  BY FittingIsUpdate
<1>2. Pair!Put(PublishedIndex, updates) = Put(PublishedIndex, updates)
  BY SamePasses
<1>3. Pair!ResolveInto(PublishedRes, PublishedIndex', DOMAIN updates)
        = ResolveInto(PublishedRes, PublishedIndex', DOMAIN updates)
  BY SamePasses
<1>4. Pair!Update(updates)
  BY <1>2, <1>3 DEF Pair!Update
<1> QED
  BY <1>1, <1>4 DEF Pair!Next

\* What the index, the documents and their copy hold are such analyses.
FitInv ==
  /\ TypeOK /\ PairInv
  /\ AnalysesFit(index)
  /\ \A p \in DOMAIN store : store[p].analysis \in AnalysesOf[p]
  /\ \A p \in DOMAIN snapshot : snapshot[p].analysis \in AnalysesOf[p]

LEMMA AnalysisFits ==
  ASSUME NEW p \in Paths, NEW c
  PROVE  /\ c \in Contents \cup {Absent} => AnalyzeOne(p, c) \in AnalysesOf[p]
         /\ c \in Contents => ScanAnalyze(p, c) \in AnalysesOf[p]
BY DEF AnalysesOf

LEMMA OnlyFits ==
  ASSUME NEW p \in Paths, NEW analysis \in AnalysesOf[p]
  PROVE  AnalysesFit(Only(p, analysis)) /\ DOMAIN Only(p, analysis) = {p}
BY DEF AnalysesFit, Only

LEMMA PutFits ==
  ASSUME NEW f, AnalysesFit(f), NEW updates, AnalysesFit(updates)
  PROVE  AnalysesFit(Put(f, updates))
BY DEF AnalysesFit, Put

\* The buffers that are replayed, as updates.
Replayed == [p \in DOMAIN snapshot |-> snapshot[p].analysis]

LEMMA ReplayedFit ==
  ASSUME FitInv
  PROVE  AnalysesFit(Replayed) /\ DOMAIN Replayed = DOMAIN snapshot
BY DEF FitInv, TypeOK, BuildOK, DocumentsOK, AnalysesFit, Replayed

LEMMA InitFits == Init => FitInv
<1> SUFFICES ASSUME Init PROVE FitInv
  OBVIOUS
<1>1. TypeOK /\ PairInv
  BY InitTypes, InitPair
<1>2. AnalysesFit(index)
  BY DEF Init, AnalysesFit, Nothing
<1> QED
  BY <1>1, <1>2 DEF Init, FitInv, Nothing

\* A step of the build fits, and is one lock section of the pair or none.
LEMMA BuildUpdatesPair ==
  ASSUME FitInv, BuildStep, TypeOK', PairInv'
  PROVE  /\ FitInv'
         /\ \/ Pair!Next
            \/ UNCHANGED <<PublishedIndex, PublishedRes>>
<1> DEFINE Still == UNCHANGED <<PublishedIndex, PublishedRes>>
<1>1. ASSUME UNCHANGED <<pairVars, snapshot, store>>
      PROVE  FitInv' /\ Still
  BY <1>1 DEF FitInv, AnalysesFit, pairVars, PublishedIndex, PublishedRes
<1>2. CASE Walk \/ AbandonScan \/ Guard \/ BuildRefresh
  BY <1>1, <1>2 DEF Walk, AbandonScan, Guard, BuildRefresh
<1>3. CASE ScanFile
  <2>1. ~published /\ ~published' /\ UNCHANGED <<snapshot, store>>
    BY <1>3 DEF ScanFile, FitInv, PairInv, Unpublished
  <2>2. AnalysesFit(index')
    <3> DEFINE p == FirstByPath(todo)
    <3>1. p \in Paths
      BY <1>3, FirstIsMember DEF ScanFile, FitInv, TypeOK, BuildOK
    <3>2. disk[p] \in Contents \cup {Absent}
      BY <3>1 DEF FitInv, TypeOK, DiskOK
    <3>3. CASE disk[p] \in TooLarge \cup {Absent}
      BY <1>3, <3>3 DEF ScanFile, FitInv, AnalysesFit
    <3>4. CASE disk[p] \notin TooLarge \cup {Absent}
      <4>1. ScanAnalyze(p, disk[p]) \in AnalysesOf[p]
        BY <3>1, <3>2, <3>4, AnalysisFits
      <4>2. index' = Put(index, Only(p, ScanAnalyze(p, disk[p])))
        BY <1>3, <3>4 DEF ScanFile, Add
      <4> QED
        BY <3>1, <4>1, <4>2, OnlyFits, PutFits DEF FitInv
    <3> QED
      BY <3>3, <3>4
  <2> QED
    BY <2>1, <2>2 DEF FitInv, PublishedIndex, PublishedRes
<1>4. CASE ResolveAll
  <2>1. ~published /\ ~published' /\ UNCHANGED <<index, snapshot, store>>
    BY <1>4 DEF ResolveAll, FitInv, PairInv, Unpublished
  <2> QED
    BY <2>1 DEF FitInv, AnalysesFit, PublishedIndex, PublishedRes
<1>5. CASE PublishIndex
  <2>1. ~published /\ UNCHANGED <<index, res, snapshot, store>>
    BY <1>5 DEF PublishIndex, FitInv, PairInv, Unpublished
  <2>2. FitInv'
    BY <2>1 DEF FitInv, AnalysesFit
  <2>3. CASE failed
    <3>1. ~published'
      BY <1>5, <2>3, Zenon DEF PublishIndex
    <3> QED
      BY <2>1, <2>2, <3>1 DEF PublishedIndex, PublishedRes
  <2>4. CASE ~failed
    <3>1. /\ PublishedIndex = Nothing /\ PublishedRes = Nothing
          /\ PublishedIndex' = index /\ PublishedRes' = Resolve(index)
      BY <1>5, <2>1, <2>4 DEF PublishIndex, FitInv, PairInv, PublishedIndex,
                              PublishedRes, EmptyResolution
    <3>2. Put(Nothing, index) = index /\ Resolve(Nothing) = Nothing
      BY DEF FitInv, AnalysesFit, Put, Resolve, Nothing
    <3>3. CASE DOMAIN index = {}
      <4>1. index = Nothing
        BY <3>3 DEF FitInv, AnalysesFit, Nothing
      <4> QED
        BY <2>2, <3>1, <3>2, <4>1
    <3>4. CASE DOMAIN index # {}
      <4>1. ResolveInto(Resolve(Nothing), Put(Nothing, index), DOMAIN index)
              = Resolve(Put(Nothing, index))
        BY <3>4, LockSection
      <4>2. Pair!Next
        BY <3>1, <3>2, <3>4, <4>1, SectionIsUpdate DEF FitInv
      <4> QED
        BY <2>2, <4>2
    <3> QED
      BY <3>3, <3>4
  <2> QED
    BY <2>3, <2>4
<1>6. CASE CollectBuffers
  BY <1>6 DEF CollectBuffers, FitInv, AnalysesFit, pairVars, PublishedIndex,
              PublishedRes
<1>7. CASE ReplayBuffers
  <2>1. UNCHANGED <<snapshot, store, published>>
    BY <1>7 DEF ReplayBuffers
  <2>2. CASE ~published
    BY <1>1, <1>7, <2>1, <2>2 DEF ReplayBuffers, FitInv, AnalysesFit,
                                  PublishedIndex, PublishedRes
  <2>3. CASE published
    <3>1. AnalysesFit(Replayed) /\ DOMAIN Replayed = DOMAIN snapshot
      BY ReplayedFit
    <3>2. DOMAIN snapshot # {}
      BY <1>7 DEF ReplayBuffers, FitInv, PairInv
    <3>3. /\ index' = Put(index, Replayed)
          /\ res' = ResolveInto(res, index', DOMAIN snapshot)
      BY <1>7, <2>3 DEF ReplayBuffers, Replayed
    <3>4. AnalysesFit(index')
      BY <3>1, <3>3, PutFits DEF FitInv
    <3>5. /\ PublishedIndex = index /\ PublishedIndex' = index'
          /\ PublishedRes = res /\ PublishedRes' = res'
      BY <2>1, <2>3 DEF PublishedIndex, PublishedRes
    <3>6. Pair!Next
      BY <3>1, <3>2, <3>3, <3>5, SectionIsUpdate
    <3> QED
      BY <2>1, <3>4, <3>6 DEF FitInv
  <2> QED
    BY <2>2, <2>3
<1> QED
  BY <1>2, <1>3, <1>4, <1>5, <1>6, <1>7 DEF BuildStep

\* A change of the editor or of the disk is put in one lock section.
LEMMA ApplyUpdatesPair ==
  ASSUME FitInv, ApplyChange, TypeOK', PairInv'
  PROVE  /\ FitInv'
         /\ \/ Pair!Next
            \/ UNCHANGED <<PublishedIndex, PublishedRes>>
<1> DEFINE p == handler.path
           c == handler.content
<1>1. UNCHANGED <<published, snapshot, store>>
  BY DEF ApplyChange, buildVars
<1>2. CASE ~published
  BY <1>1, <1>2 DEF ApplyChange, FitInv, AnalysesFit, PublishedIndex,
                    PublishedRes
<1>3. CASE published
  <2>1. p \in Paths /\ c \in Contents \cup {Absent}
    BY HandlerShapes DEF ApplyChange, FitInv, TypeOK
  <2>2. AnalyzeOne(p, c) \in AnalysesOf[p]
    BY <2>1, AnalysisFits
  <2> DEFINE new == Only(p, AnalyzeOne(p, c))
  <2>3. AnalysesFit(new) /\ DOMAIN new = {p}
    BY <2>1, <2>2, OnlyFits
  <2>4. index' = Put(index, new) /\ res' = ResolveInto(res, index', {p})
    BY <1>3 DEF ApplyChange, Add
  <2>5. /\ PublishedIndex = index /\ PublishedIndex' = index'
        /\ PublishedRes = res /\ PublishedRes' = res'
    BY <1>1, <1>3 DEF PublishedIndex, PublishedRes
  <2> HIDE DEF new
  <2>6. AnalysesFit(index')
    BY <2>3, <2>4, PutFits DEF FitInv
  <2>7. Pair!Next
    BY <2>3, <2>4, <2>5, SectionIsUpdate
  <2> QED
    BY <1>1, <2>6, <2>7 DEF FitInv
<1> QED
  BY <1>2, <1>3

\* Everything else leaves the pair alone.
LEMMA OthersKeepPair ==
  ASSUME FitInv, TypeOK', PairInv',
         UNCHANGED <<pairVars, snapshot>>,
         \A p \in DOMAIN store' : store'[p].analysis \in AnalysesOf[p]
  PROVE  FitInv' /\ UNCHANGED <<PublishedIndex, PublishedRes>>
BY DEF FitInv, AnalysesFit, pairVars, PublishedIndex, PublishedRes

LEMMA HandlerUpdatesPair ==
  ASSUME FitInv, HandlerStep, TypeOK', PairInv'
  PROVE  /\ FitInv'
         /\ \/ Pair!Next
            \/ UNCHANGED <<PublishedIndex, PublishedRes>>
<1>1. CASE ApplyChange
  BY <1>1, ApplyUpdatesPair
<1>2. CASE ~ApplyChange
  <2>1. UNCHANGED <<pairVars, snapshot, store>>
    BY <1>2 DEF HandlerStep, HandleEvent, EventsHandled, PublishSnapshot,
                PublishSend, ClearShown, HandlerRefresh, Answer, buildVars
  <2> QED
    BY <2>1, OthersKeepPair DEF FitInv
<1> QED
  BY <1>1, <1>2

LEMMA UserUpdatesPair ==
  ASSUME FitInv, UserStep, TypeOK', PairInv'
  PROVE  FitInv' /\ UNCHANGED <<PublishedIndex, PublishedRes>>
<1>1. UNCHANGED <<pairVars, snapshot>>
  BY DEF UserStep, Initialized, DidOpen, DidChange, DidClose, WriteDisk,
         DidChangeWatchedFiles, Request, Shutdown, Leave, buildVars
<1>2. \A p \in DOMAIN store' : store'[p].analysis \in AnalysesOf[p]
  <2>1. ASSUME NEW p \in Paths, NEW c \in Contents,
               store' = Put(store, Only(p, Document(p, c)))
        PROVE  \A q \in DOMAIN store' : store'[q].analysis \in AnalysesOf[q]
    <3>1. Document(p, c).analysis \in AnalysesOf[p]
      BY <2>1, AnalysisFits DEF Document
    <3> QED
      BY <2>1, <3>1 DEF FitInv, Put, Only
  <2>2. ASSUME NEW p \in Paths, DidClose(p)
        PROVE  \A q \in DOMAIN store' : store'[q].analysis \in AnalysesOf[q]
    BY <2>2 DEF DidClose, Open, FitInv
  <2>3. CASE UNCHANGED store
    BY <2>3 DEF FitInv
  <2> QED
    BY <2>1, <2>2, <2>3 DEF UserStep, Initialized, DidOpen, DidChange,
       WriteDisk, DidChangeWatchedFiles, Request, Shutdown, Leave
<1> QED
  BY <1>1, <1>2, OthersKeepPair

LEMMA StepUpdatesPair ==
  ASSUME FitInv, [Next]_vars
  PROVE  FitInv' /\ [Pair!Next]_(Pair!vars)
<1>1. TypeOK' /\ PairInv'
  BY StepTypes, StepPair DEF FitInv
<1>2. CASE Return \/ Returned \/ UNCHANGED vars
  <2>1. UNCHANGED <<pairVars, snapshot, store>>
    BY <1>2 DEF Return, Returned, vars, buildVars
  <2> QED
    BY <1>1, <2>1, OthersKeepPair DEF FitInv, Pair!vars
<1> QED
  BY <1>1, <1>2, BuildUpdatesPair, HandlerUpdatesPair, UserUpdatesPair
     DEF Next, Pair!vars

\* The server implements IndexUpdates: to those who take the pair under its
\* lock, the build, the replay and the handlers make together a sequence of
\* updates, each of which puts analyses of some files and leaves the resolution
\* set of a full pass.
THEOREM PairIsUpdatedAlways == Spec => PairIsUpdated
<1>1. Init => Pair!Init
  <2>1. Pair!Resolve(Nothing) = Resolve(Nothing)
    BY SamePasses
  <2>2. Resolve(Nothing) = Nothing
    BY DEF Resolve, Nothing
  <2> QED
    BY <2>1, <2>2, SameVocabulary DEF Init, Pair!Init, PublishedIndex,
       PublishedRes, EmptyResolution
<1>2. FitInv /\ [Next]_vars => FitInv' /\ [Pair!Next]_(Pair!vars)
  BY StepUpdatesPair
<1> QED
  BY <1>1, <1>2, InitFits, PTL DEF Spec, PairIsUpdated, Pair!Spec

-------------------------------------------------------------------------------
(***************************************************************************)
(* What the providers promise of any sequence of updates they keep in the  *)
(* server.  The theorems are those of QueriesProofs, of the published pair.*)
(***************************************************************************)
Served == INSTANCE QueriesProofs WITH index <- PublishedIndex,
                                      res <- PublishedRes,
                                      Analyses <- AnalysesOf,
                                      MaxChanged <- Cardinality(Paths)

\* The operators of that instance too are those of Resolution.
LEMMA ServedVocabulary ==
  /\ Served!NoTarget = NoTarget
  /\ Served!DynamicKinds = DynamicKinds
  /\ Served!ExpectedType = ExpectedType
  /\ Served!DataAreaTypes = DataAreaTypes
  /\ Served!Nothing = Nothing
BY DEF Served!NoTarget, NoTarget, Served!Unresolved, Unresolved,
       Served!DynamicKinds, DynamicKinds, Served!ExpectedType, ExpectedType,
       Served!DataAreaTypes, DataAreaTypes, Served!Nothing, Nothing

LEMMA ServedMin ==
  ASSUME NEW S
  PROVE  Served!Min(S) = Min(S)
BY Zenon DEF Served!Min, Min

LEMMA ServedCardinality ==
  ASSUME NEW S
  PROVE  Served!Cardinality(S) = Cardinality(S)
BY Zenon DEF Served!Cardinality, Cardinality

LEMMA ServedByName ==
  ASSUME NEW i, NEW p, NEW edge, NEW type
  PROVE  Served!ResolveByName(i, p, edge, type)
           = ResolveByName(i, p, edge, type)
<1>1. \A n : Served!FilterByType(i, Served!NameIndex(i, n), type)
              = FilterByType(i, NameIndex(i, n), type)
  BY Zenon DEF Served!FilterByType, FilterByType, Served!NameIndex, NameIndex,
               Served!ObjectName, ObjectName
<1>2. \A S : Served!FirstByPath(S) = FirstByPath(S)
  BY Zenon DEF Served!FirstByPath, FirstByPath
<1>3. \A S : /\ Served!BindFirst(S, type) = BindFirst(S, type)
            /\ Served!BindUnique(S, type) = BindUnique(S, type)
  BY <1>2, Zenon
     DEF Served!BindFirst, BindFirst, Served!BindUnique, BindUnique,
         Served!NoTarget, NoTarget, Served!Unresolved, Unresolved,
         Served!Resolved, Resolved, Served!Ambiguous, Ambiguous
<1>4. Served!NoLibrary = NoLibrary /\ Served!NoTarget = NoTarget
  BY ServedVocabulary DEF Served!NoLibrary, NoLibrary
<1>5. \A q : Served!OwningLibrary(q) = OwningLibrary(q)
  BY Zenon DEF Served!OwningLibrary, OwningLibrary, Served!IsPrefix, IsPrefix,
               Served!NoLibrary, NoLibrary, Served!Min, Min
<1>6. \A l : Served!SearchChain(l) = SearchChain(l)
  BY Zenon DEF Served!SearchChain, SearchChain, Served!NoLibrary, NoLibrary,
               Served!SystemLibrary, SystemLibrary, Served!Min, Min
<1>7. \A S, c : Served!ChainHits(S, c) = ChainHits(S, c)
  BY <1>5, ServedMin, Zenon DEF Served!ChainHits, ChainHits
<1> DEFINE name == Upper[edge.target]
           candidates == FilterByType(i, NameIndex(i, name), type)
           chain == SearchChain(OwningLibrary(p))
           named == {q \in candidates : OwningLibrary(q) = edge.library}
           One(S) == BindFirst(S, type)
           Several == BindUnique(candidates, type)
<1>8. Served!FilterByType(i, Served!NameIndex(i, name), type) = candidates
  BY <1>1
<1>9. Served!SearchChain(Served!OwningLibrary(p)) = chain
  BY <1>5, <1>6
<1>10. {q \in candidates : Served!OwningLibrary(q) = edge.library} = named
  BY <1>5
<1>11. /\ Served!BindFirst(named, type) = One(named)
       /\ Served!BindFirst(Served!ChainHits(candidates, chain), type)
            = One(ChainHits(candidates, chain))
       /\ Served!BindUnique(candidates, type) = Several
  BY <1>3, <1>7
<1> HIDE DEF candidates, chain, named
<1> QED
  BY <1>4, <1>8, <1>9, <1>10, <1>11
     DEF Served!ResolveByName, ResolveByName, candidates, chain, named

LEMMA ServedDataAreaEdge ==
  ASSUME NEW i, NEW p, NEW edge
  PROVE  Served!ResolveDataAreaEdge(i, p, edge) = ResolveDataAreaEdge(i, p, edge)
<1> DEFINE Try(k) == ResolveByName(i, p, edge, DataAreaTypes[k])
           ServedTry(k) == Served!ResolveByName(i, p, edge, Served!DataAreaTypes[k])
           found == {k \in DOMAIN DataAreaTypes :
                       Try(k).outcome # "unresolved"}
           servedFound == {k \in DOMAIN Served!DataAreaTypes :
                           ServedTry(k).outcome # "unresolved"}
<1>1. \A k : ServedTry(k) = Try(k)
  BY ServedByName, ServedVocabulary
<1>2. servedFound = found
  BY <1>1, ServedVocabulary
<1>3. Served!ResolveDataAreaEdge(i, p, edge)
        = IF servedFound = {} THEN Served!NoTarget ELSE ServedTry(Served!Min(servedFound))
  BY DEF Served!ResolveDataAreaEdge
<1>4. ResolveDataAreaEdge(i, p, edge)
        = IF found = {} THEN NoTarget ELSE Try(Min(found))
  BY DEF ResolveDataAreaEdge
<1> HIDE DEF Try, ServedTry, found, servedFound
<1> QED
  BY <1>1, <1>2, <1>3, <1>4, ServedVocabulary, ServedMin

LEMMA ServedEdgeOutcome ==
  ASSUME NEW i, NEW p, NEW edge
  PROVE  Served!ResolveEdge(i, p, edge) = ResolveEdge(i, p, edge)
BY ServedVocabulary, ServedByName, ServedDataAreaEdge
   DEF Served!ResolveEdge, ResolveEdge, Served!Resolved, Resolved,
       Served!Unresolved, Unresolved

LEMMA ServedFileOutcomes ==
  ASSUME NEW i, NEW p
  PROVE  Served!ResolveFile(i, p) = ResolveFile(i, p)
<1>1. Served!ResolveEdges(i, p) = ResolveEdges(i, p)
  BY ServedEdgeOutcome DEF Served!ResolveEdges, ResolveEdges
<1>2. Served!AmbiguityDiagnostics(i, p) = AmbiguityDiagnostics(i, p)
  BY ServedEdgeOutcome DEF Served!AmbiguityDiagnostics, AmbiguityDiagnostics
<1> QED
  BY <1>1, <1>2 DEF Served!ResolveFile, ResolveFile

LEMMA ServedPasses ==
  ASSUME NEW i, NEW r, NEW changed, NEW updates
  PROVE  /\ Served!Resolve(i) = Resolve(i)
         /\ Served!ResolveInto(r, i, changed) = ResolveInto(r, i, changed)
         /\ Served!Put(i, updates) = Put(i, updates)
<1>1. Served!Resolve(i) = Resolve(i)
  BY ServedFileOutcomes DEF Served!Resolve, Resolve
<1>2. Served!AffectedFiles(i, changed) = AffectedFiles(i, changed)
  BY DEF Served!AffectedFiles, AffectedFiles, Served!ObjectName, ObjectName
<1>3. Served!ResolveInto(r, i, changed) = ResolveInto(r, i, changed)
  BY <1>2, ServedFileOutcomes DEF Served!ResolveInto, ResolveInto
<1>4. Served!Put(i, updates) = Put(i, updates)
  BY DEF Served!Put, Put
<1> QED
  BY <1>1, <1>3, <1>4

\* The assumptions of Queries hold of the analyses put here.
LEMMA ServedConstants == Served!ConstantsAssumption
<1>1. Served!IsFiniteSet(Paths) <=> IsFiniteSet(Paths)
  BY Zenon DEF Served!IsFiniteSet, IsFiniteSet
<1>2. Served!IsInjective(PathRank) <=> IsInjective(PathRank)
  BY Zenon DEF Served!IsInjective, IsInjective
<1>3. Served!NoLibrary = NoLibrary
  BY DEF Served!NoLibrary, NoLibrary
<1> QED
  BY <1>1, <1>2, <1>3, ConstantsAssumption, Zenon
     DEF Served!ConstantsAssumption, ConstantsAssumption

LEMMA ServedAnalyses == Served!AnalysesAssumption
<1>1. \A analysis : Served!AnalysisOK(analysis) <=> Pair!AnalysisOK(analysis)
  BY DEF Served!AnalysisOK, Pair!AnalysisOK, Served!EdgesOK, Pair!EdgesOK,
         Served!EdgeEntry, Pair!EdgeEntry, Served!StaticKinds, Pair!StaticKinds,
         Served!DynamicKinds, Pair!DynamicKinds,
         Served!ObjectTypes, Pair!ObjectTypes
<1> QED
  BY <1>1, PairAssumption
     DEF Served!AnalysesAssumption, Pair!AnalysesAssumption

LEMMA ServedStructures == Served!StructureAssumption
<1>1. \A analysis : Served!StructureOK(analysis) <=> Pair!StructureOK(analysis)
  <2>1. Served!DataDefinition = Pair!DataDefinition
    BY DEF Served!DataDefinition, Pair!DataDefinition
  <2>2. \A S : Served!IsFiniteSet(S) <=> Pair!IsFiniteSet(S)
    BY Zenon DEF Served!IsFiniteSet, Pair!IsFiniteSet
  <2> QED
    BY <2>1, <2>2, Zenon DEF Served!StructureOK, Pair!StructureOK
<1>2. /\ Pair!StructureOK(ZeroAnalysis)
      /\ Pair!StructureOK([ZeroAnalysis EXCEPT !.type = "unknown"])
      /\ \A p \in Paths :
           Pair!StructureOK([ZeroAnalysis EXCEPT !.type = TypeOf[p]])
  <2>1. Pair!IsFiniteSet({})
    BY FS_EmptySet, Zenon DEF Pair!IsFiniteSet, IsFiniteSet
  <2> QED
    BY <2>1 DEF Pair!StructureOK, ZeroAnalysis, Nothing
<1>3. ASSUME NEW p \in Paths, NEW analysis \in AnalysesOf[p]
      PROVE  Pair!StructureOK(analysis)
  BY <1>2, <1>3, PromiseAssumption
     DEF AnalysesOf, AnalyzeOne, ScanAnalyze, Analyze
<1> QED
  BY <1>1, <1>3 DEF Served!StructureAssumption

LEMMA ServedPrefixes == Served!PrefixAssumption
  BY PromiseAssumption, Zenon
     DEF Served!PrefixAssumption, Served!PrefixesOK, Pair!PrefixesOK

\* The two instances are of one specification.
LEMMA ServedSpec == Pair!Spec => Served!Spec
<1>1. Pair!Init => Served!Init
  BY SamePasses, ServedPasses, SameVocabulary, ServedVocabulary
     DEF Pair!Init, Served!Init
<1>2. Pair!Next => Served!Next
  <2>1. Served!Updates = Pair!Updates
    BY SameCardinality, ServedCardinality DEF Served!Updates, Pair!Updates
  <2>2. ASSUME NEW updates, Pair!Update(updates)
        PROVE  Served!Update(updates)
    BY <2>2, SamePasses, ServedPasses DEF Pair!Update, Served!Update
  <2> QED
    BY <2>1, <2>2 DEF Pair!Next, Served!Next
<1>3. [Pair!Next]_(Pair!vars) => [Served!Next]_(Served!vars)
  BY <1>2, Zenon DEF Served!vars, Pair!vars
<1> QED
  BY <1>1, <1>3, PTL DEF Pair!Spec, Served!Spec

\* The agreements of the providers, of what the server has published.
ProvidersAgree ==
  /\ Served!CompletionAgrees
  /\ Served!FieldsFollowEdges
  /\ Served!ReferencesSpellTheirTarget
  /\ Served!LinksFollowDefinition
  /\ Served!SignatureFollowsDefinition
  /\ Served!ReferencesAgree
  /\ Served!CallsAreConverse
  /\ Served!VariablesAgree
  /\ Served!DDMsAgree
  /\ Served!DefinitionIsOffered

\* server.go, hctx.idx and hctx.res: to whoever takes the pair under its lock,
\* whatever the build, the replay and the handlers have done to it so far, the
\* providers agree with one another.
THEOREM ProvidersAgreeAlways == Spec => []ProvidersAgree
<1>1. Spec => Served!Spec
  BY PairIsUpdatedAlways, ServedSpec DEF PairIsUpdated
<1>2. Served!ConstantsAssumption /\ Served!AnalysesAssumption
      /\ Served!StructureAssumption /\ Served!PrefixAssumption
  BY ServedConstants, ServedAnalyses, ServedStructures, ServedPrefixes
<1>3. Served!Spec => []Served!CompletionAgrees
  BY <1>2, Served!CompletionAgreesAlways
<1>4. Served!Spec => []Served!FieldsFollowEdges
  BY <1>2, Served!FieldsFollowEdgesAlways
<1>5. Served!Spec => []Served!ReferencesSpellTheirTarget
  BY <1>2, Served!ReferencesSpell
<1>6. Served!Spec => []Served!LinksFollowDefinition
  BY <1>2, Served!LinksFollow
<1>7. Served!Spec => []Served!SignatureFollowsDefinition
  BY <1>2, Served!SignatureFollows
<1>8. Served!Spec => []Served!ReferencesAgree
  BY <1>2, Served!ReferencesAgreeAlways
<1>9. Served!Spec => []Served!CallsAreConverse
  BY <1>2, Served!CallsConverse
<1>10. Served!Spec => []Served!VariablesAgree
  BY <1>2, Served!VariablesAgreeAlways
<1>11. Served!Spec => []Served!DDMsAgree
  BY <1>2, Served!DDMsAgreeAlways
<1>12. Served!Spec => []Served!DefinitionIsOffered
  BY <1>2, Served!DefinitionIsOfferedAlways
<1> QED
  BY <1>1, <1>3, <1>4, <1>5, <1>6, <1>7, <1>8, <1>9, <1>10, <1>11, <1>12,
     PTL DEF ProvidersAgree

\* server.go, applyDocumentChange: in the running server too, a change of files
\* behind the library an edge is bound in leaves the edge as it is.
THEOREM ServedBindingsKept == Spec => Served!FartherIsInvisible
<1>1. Spec => Served!Spec
  BY PairIsUpdatedAlways, ServedSpec DEF PairIsUpdated
<1>2. Served!Spec => Served!FartherIsInvisible
  BY ServedConstants, ServedAnalyses, ServedStructures, ServedPrefixes,
     Served!FartherHasNoSay
<1> QED
  BY <1>1, <1>2, PTL
===============================================================================
