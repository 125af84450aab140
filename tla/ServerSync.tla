------------------------------ MODULE ServerSync ------------------------------
(***************************************************************************)
(* How the server keeps its index and resolution set in step with the      *)
(* editor and the disk (internal/server/server.go, diagnostics.go,         *)
(* degradation.go, internal/document/store.go, and the scan of             *)
(* internal/workspace/index.go).                                           *)
(*                                                                         *)
(* Two goroutines of the server are modelled: the dispatch loop, which     *)
(* handles one message at a time, and the background build, spawned once.  *)
(* A step of either is what it does between two points at which the other  *)
(* can be seen: a lock section, a read of the disk, a write to the stream. *)
(*                                                                         *)
(* A file's analysis is its type and edges (module Resolution); its parser *)
(* diagnostics, symbols and definitions are functions of the same content  *)
(* and travel with it.  The build is cold: there is no cache to load.      *)
(***************************************************************************)
EXTENDS Resolution

CONSTANTS
  Contents,   \* the contents a file or a buffer may have
  Absent,     \* no file, and the nil content the handlers pass for a deletion
  TypeOf,     \* TypeOf[p]: the object type of the extension of p
  AnalysisOf, \* AnalysisOf[p][c]: what the analyzer finds in content c of p
  TooLarge,   \* contents longer than workspace.max_file_size
  Panicking,  \* contents on which the analyzer panics, or fails
  Outside,    \* paths that lead out of the workspace root ("../...")
  Excluded,   \* paths under an excluded directory
  InitialDisk,                \* the disk when the server starts
  PullDiagnostics,            \* clientSupportsPullDiagnostics
  DiagnosticRefresh,          \* clientSupportsDiagnosticRefresh
  WatchedFiles,               \* the client reports changes of the disk
  Messages,                   \* the other messages the client sends
  StartsWith,                 \* StartsWith[n]: the names that begin with n
  Sigils,                     \* the names that begin with #, & or +
  MaxInputs                   \* bound: messages and writes of the disk

ASSUME SyncAssumption ==
  /\ Absent \notin Contents
  /\ TypeOf \in [Paths -> ObjectTypes]
  /\ \A p \in Paths, c \in Contents : /\ AnalysisOK(AnalysisOf[p][c])
                                     /\ AnalysisOf[p][c].type = TypeOf[p]
  /\ TooLarge \subseteq Contents
  /\ Panicking \subseteq Contents
  /\ Outside \subseteq Paths
  /\ Excluded \subseteq Paths
  /\ InitialDisk \in [Paths -> Contents \cup {Absent}]
  /\ PullDiagnostics \in BOOLEAN
  /\ DiagnosticRefresh \in BOOLEAN
  /\ WatchedFiles \in BOOLEAN
  /\ Messages \subseteq {"didOpen", "didChange", "didClose", "request"}
  /\ MaxInputs \in Nat

VARIABLES
  state,       \* the session state of the dispatch loop, and its end
  cancelled,   \* bgCtx is cancelled
  build,       \* where the background build is
  todo,        \* the files its scan has yet to visit
  failed,      \* buildIndex returned an error, so its idx is nil
  snapshot,    \* the open buffers replayOpenBuffers collected
  index,       \* the one Index object: the build's until it is published
  lineWidths,  \* its line-width tables, by the content they were built from
  published,   \* hctx.idx is that object and not nil
  res,         \* the build's resolution set, then hctx.res
  store,       \* the open documents
  handler,     \* what the dispatch loop is doing
  disk,        \* the workspace's files
  events,      \* changes of the disk the client has yet to report
  shown,       \* the diagnostics a push client shows
  refreshOwed, \* the pair has changed since the last diagnostic refresh
  astray,      \* history: why the index may no longer follow a file
  inputs       \* bound: messages and writes of the disk so far

buildVars == <<build, todo, failed, snapshot>>
pairVars  == <<index, lineWidths, published, res>>
userVars  == <<disk, events, inputs>>
vars == <<state, cancelled, buildVars, pairVars, store, handler, userVars,
          shown, refreshOwed, astray>>

-------------------------------------------------------------------------------
(***************************************************************************)
(* Analysis with degradation (FR-43), and the updates it feeds.            *)
(***************************************************************************)

\* The zero FileAnalysis: a skipped file, an analyzer that panicked.
ZeroAnalysis ==
  [type |-> "", edges |-> Nothing, subs |-> {}, fields |-> {},
   accesses |-> Nothing, uses |-> Nothing, using |-> <<>>]

\* The type comes from the extension, whatever the content.
Analyze(p, c) ==
  IF c = Absent THEN [ZeroAnalysis EXCEPT !.type = TypeOf[p]]
                ELSE AnalysisOf[p][c]

\* The analysis of the store and of applyDocumentChange.
AnalyzeOne(p, c) ==
  IF c \in TooLarge \/ p \in Excluded \/ c \in Panicking
    THEN ZeroAnalysis
    ELSE Analyze(p, c)

\* The analysis of the scan.
ScanAnalyze(p, c) ==
  IF c \in Panicking THEN [ZeroAnalysis EXCEPT !.type = "unknown"]
                     ELSE Analyze(p, c)

\* A bug this could have: the content goes in, the analysis does not.
AddContentOnly(p, analysis, content) ==
  /\ index' = index
  /\ lineWidths' = IF content = Absent THEN lineWidths
                                       ELSE Put(lineWidths, Only(p, content))

\* Index.Add, and PutContent unless there is no content.
Add(p, analysis, content) ==
  /\ index' = Put(index, Only(p, analysis))
  /\ lineWidths' = IF content = Absent THEN lineWidths
                                       ELSE Put(lineWidths, Only(p, content))

Open == DOMAIN store

Document(p, c) == [content |-> c, analysis |-> AnalyzeOne(p, c)]

-------------------------------------------------------------------------------
(***************************************************************************)
(* The handler of the dispatch loop: idle, or the step it takes next and,  *)
(* in after, where it goes on from there.                                  *)
(***************************************************************************)
Idle == [step |-> "idle"]

Refreshing == [step |-> "refresh"]

Reporting(rest) == [step |-> "events", rest |-> rest]

\* from: "editor" or "disk".
Applying(p, c, from, after) ==
  [step |-> "apply", path |-> p, content |-> c, from |-> from, after |-> after]

\* publishDiag does nothing for a client that pulls its diagnostics.
Publishing(p, after) ==
  IF PullDiagnostics THEN after
                     ELSE [step |-> "publish", path |-> p, after |-> after]

\* The handler can take one more message of a client.
Ready == state = "initialized" /\ handler = Idle /\ inputs < MaxInputs

\* replayOpenBuffers has done its part.
Settled == build \in {"refresh", "done"}

\* sendDiagnosticRefresh, by whichever goroutine.
Refresh ==
  refreshOwed' = (refreshOwed /\ ~(PullDiagnostics /\ DiagnosticRefresh))

-------------------------------------------------------------------------------
(***************************************************************************)
(* The background build.                                                   *)
(***************************************************************************)

\* "initialized": the goroutine is spawned.
Initialized ==
  /\ state = "preInit"
  /\ state' = "initialized"
  /\ build' = "walk"
  /\ UNCHANGED <<cancelled, todo, failed, snapshot, pairVars, store, handler,
                 userVars, shown, refreshOwed, astray>>

\* The walk collects the files that exist, outside excluded directories.  An
\* error of it fails the whole build.
Walk ==
  /\ build = "walk"
  /\ \/ /\ todo' = {p \in Paths \ (Outside \cup Excluded) : disk[p] # Absent}
        /\ build' = "scan"
        /\ UNCHANGED failed
     \/ /\ failed' = TRUE
        /\ build' = "guard"
        /\ UNCHANGED todo
  /\ UNCHANGED <<state, cancelled, snapshot, pairVars, store, handler,
                 userVars, shown, refreshOwed, astray>>

\* A bug ScanFile could have: a file that cannot be read is tried again.
ScanRetry ==
  /\ build = "scan" /\ todo # {} /\ ~cancelled
  /\ LET p == FirstByPath(todo)
     IN  IF disk[p] = Absent
           THEN UNCHANGED <<todo, index, lineWidths>>
           ELSE todo' = todo \ {p} /\ Add(p, ScanAnalyze(p, disk[p]), disk[p])
  /\ UNCHANGED <<state, cancelled, build, failed, snapshot, published, res,
                 store, handler, userVars, shown, refreshOwed, astray>>

\* One file of the scan, in path order: skipped when it cannot be read or is
\* too large.
ScanFile ==
  /\ build = "scan" /\ todo # {} /\ ~cancelled
  /\ LET p == FirstByPath(todo)
     IN  /\ todo' = todo \ {p}
         /\ IF disk[p] \in TooLarge \cup {Absent}
              THEN UNCHANGED <<index, lineWidths>>
              ELSE Add(p, ScanAnalyze(p, disk[p]), disk[p])
  /\ UNCHANGED <<state, cancelled, build, failed, snapshot, published, res,
                 store, handler, userVars, shown, refreshOwed, astray>>

\* The context is looked at before every file.
AbandonScan ==
  /\ build = "scan" /\ todo # {} /\ cancelled
  /\ failed' = TRUE
  /\ build' = "guard"
  /\ UNCHANGED <<state, cancelled, todo, snapshot, pairVars, store, handler,
                 userVars, shown, refreshOwed, astray>>

ResolveAll ==
  /\ build = "scan" /\ todo = {}
  /\ res' = Resolve(index)
  /\ build' = "guard"
  /\ UNCHANGED <<state, cancelled, todo, failed, snapshot, index, lineWidths,
                 published, store, handler, userVars, shown, refreshOwed,
                 astray>>

\* No publish after shutdown: decided here, and not looked at again.
Guard ==
  /\ build = "guard"
  /\ build' = IF cancelled THEN "done" ELSE "publish"
  /\ UNCHANGED <<state, cancelled, todo, failed, snapshot, pairVars, store,
                 handler, userVars, shown, refreshOwed, astray>>

\* publishIndex; the pair of a failed build is (nil, nil).
PublishIndex ==
  /\ build = "publish"
  /\ published' = ~failed
  /\ build' = "collect"
  /\ refreshOwed' = (refreshOwed \/ ~failed)
  /\ UNCHANGED <<state, cancelled, todo, failed, snapshot, index, lineWidths,
                 res, store, handler, userVars, shown, astray>>

\* First half of replayOpenBuffers: the open documents, by value.  A path out
\* of the root has a relative form too, so it is collected like any other.
CollectBuffers ==
  /\ build = "collect"
  /\ snapshot' = store
  /\ build' = IF Open = {} THEN "refresh" ELSE "replay"
  /\ UNCHANGED <<state, cancelled, todo, failed, pairVars, store, handler,
                 userVars, shown, refreshOwed, astray>>

\* Bugs ReplayBuffers could have: nothing is replayed; the entries are, the
\* resolution set is not brought up to date.
ReplayNothing ==
  /\ build = "replay"
  /\ build' = "refresh"
  /\ UNCHANGED <<state, cancelled, todo, failed, snapshot, pairVars, store,
                 handler, userVars, shown, refreshOwed, astray>>

ReplayUnresolved ==
  /\ build = "replay"
  /\ build' = "refresh"
  /\ IF published
       THEN index' = Put(index,
                         [p \in DOMAIN snapshot |-> snapshot[p].analysis])
       ELSE UNCHANGED index
  /\ UNCHANGED <<state, cancelled, todo, failed, snapshot, lineWidths,
                 published, res, store, handler, userVars, shown, refreshOwed,
                 astray>>

\* Another: an index of the buffers alone takes the place of the one there is.
ReplayAlone ==
  /\ build = "replay"
  /\ build' = "refresh"
  /\ IF published
       THEN /\ index' = [p \in DOMAIN snapshot |-> snapshot[p].analysis]
            /\ res' = Resolve(index')
       ELSE UNCHANGED <<index, res>>
  /\ UNCHANGED <<state, cancelled, todo, failed, snapshot, lineWidths,
                 published, store, handler, userVars, shown, refreshOwed,
                 astray>>

\* Second half, in one lock section; nothing without a published index.
ReplayBuffers ==
  /\ build = "replay"
  /\ build' = "refresh"
  /\ IF published
       THEN /\ index' = Put(index,
                            [p \in DOMAIN snapshot |-> snapshot[p].analysis])
            /\ lineWidths' = Put(lineWidths,
                                 [p \in DOMAIN snapshot |->
                                    snapshot[p].content])
            /\ res' = ResolveInto(res, index', DOMAIN snapshot)
            /\ refreshOwed' = TRUE
       ELSE UNCHANGED <<index, lineWidths, res, refreshOwed>>
  /\ UNCHANGED <<state, cancelled, todo, failed, snapshot, published, store,
                 handler, userVars, shown, astray>>

\* A bug BuildRefresh could have: the client is not told.
BuildSilent ==
  /\ build = "refresh"
  /\ build' = "done"
  /\ UNCHANGED <<state, cancelled, todo, failed, snapshot, pairVars, store,
                 handler, userVars, shown, refreshOwed, astray>>

BuildRefresh ==
  /\ build = "refresh"
  /\ build' = "done"
  /\ Refresh
  /\ UNCHANGED <<state, cancelled, todo, failed, snapshot, pairVars, store,
                 handler, userVars, shown, astray>>

BuildStep ==
  \/ Walk \/ ScanFile \/ AbandonScan \/ ResolveAll \/ Guard
  \/ PublishIndex \/ CollectBuffers \/ ReplayBuffers \/ BuildRefresh

-------------------------------------------------------------------------------
(***************************************************************************)
(* Document notifications.  The client opens a document once, and changes  *)
(* and closes only what is open.                                           *)
(***************************************************************************)

\* Opening a document changes the store alone.
DidOpen(p, c) ==
  /\ Ready /\ "didOpen" \in Messages /\ p \notin Open
  /\ store' = Put(store, Only(p, Document(p, c)))
  /\ handler' = Publishing(p, Idle)
  /\ astray' = [astray EXCEPT ![p] = IF Settled \/ build = "replay"
                                       THEN "openedLate" ELSE "no"]
  /\ inputs' = inputs + 1
  /\ UNCHANGED <<state, cancelled, buildVars, pairVars, disk, events, shown,
                 refreshOwed>>

\* A bug DidChange could have: its diagnostics are left to the next change.
ChangeUnpublished(p, c) ==
  /\ Ready /\ "didChange" \in Messages /\ p \in Open
  /\ store' = Put(store, Only(p, Document(p, c)))
  /\ handler' = Applying(p, c, "editor", Refreshing)
  /\ astray' = IF build = "replay"
                 THEN [astray EXCEPT ![p] = "changedInReplay"] ELSE astray
  /\ inputs' = inputs + 1
  /\ UNCHANGED <<state, cancelled, buildVars, pairVars, disk, events, shown,
                 refreshOwed>>

\* A change goes to the store, and from there to the pair (ApplyChange).
DidChange(p, c) ==
  /\ Ready /\ "didChange" \in Messages /\ p \in Open
  /\ store' = Put(store, Only(p, Document(p, c)))
  /\ handler' = Applying(p, c, "editor", Publishing(p, Refreshing))
  /\ astray' = IF build = "replay"
                 THEN [astray EXCEPT ![p] = "changedInReplay"] ELSE astray
  /\ inputs' = inputs + 1
  /\ UNCHANGED <<state, cancelled, buildVars, pairVars, disk, events, shown,
                 refreshOwed>>

\* Closing a document changes the store alone, and clears what is shown.
DidClose(p) ==
  /\ Ready /\ "didClose" \in Messages /\ p \in Open
  /\ store' = [q \in Open \ {p} |-> store[q]]
  /\ shown' = IF PullDiagnostics THEN shown
                                 ELSE [shown EXCEPT ![p] = {}]
  /\ astray' = [astray EXCEPT ![p] = "closed"]
  /\ inputs' = inputs + 1
  /\ UNCHANGED <<state, cancelled, buildVars, pairVars, handler, disk, events,
                 refreshOwed>>

-------------------------------------------------------------------------------
(***************************************************************************)
(* Changes of the disk, and the client's reports of them.                  *)
(***************************************************************************)

\* Somebody writes or deletes a file; a client with watchers notes it.
WriteDisk(p, c) ==
  /\ state = "initialized" /\ inputs < MaxInputs
  /\ c # disk[p]
  /\ disk' = [disk EXCEPT ![p] = c]
  /\ events' = IF WatchedFiles
                 THEN Put(events, Only(p, IF c = Absent THEN "deleted"
                                                        ELSE "changed"))
                 ELSE events
  /\ inputs' = inputs + 1
  /\ UNCHANGED <<state, cancelled, buildVars, pairVars, store, handler, shown,
                 refreshOwed, astray>>

\* The client reports what it noted, in one notification, in any order.
DidChangeWatchedFiles ==
  /\ state = "initialized" /\ handler = Idle /\ events # Nothing
  /\ \E order \in SetToSeqs(DOMAIN events) :
       handler' = Reporting([i \in DOMAIN order |->
                               [path |-> order[i], type |-> events[order[i]]]])
  /\ events' = Nothing
  /\ UNCHANGED <<state, cancelled, buildVars, pairVars, store, disk, inputs,
                 shown, refreshOwed, astray>>

\* A bug HandleEvent could have: an event for a file that is gone stays first.
HandleEventAgain ==
  /\ handler.step = "events" /\ handler.rest # <<>>
  /\ LET event == Head(handler.rest)
         p     == event.path
         after == Reporting(Tail(handler.rest))
     IN  handler' =
           CASE event.type = "deleted" ->
                  Applying(p, Absent, "disk",
                           [step |-> "clear", path |-> p, after |-> after])
             [] event.type = "changed" /\ disk[p] = Absent -> handler
             [] event.type = "changed" /\ disk[p] # Absent ->
                  Applying(p, disk[p], "disk", Publishing(p, after))
  /\ UNCHANGED <<state, cancelled, buildVars, pairVars, store, userVars, shown,
                 refreshOwed, astray>>

\* One event.  A deletion is applied as nil content, a change is read from the
\* disk first and skipped when the file is gone.
HandleEvent ==
  /\ handler.step = "events" /\ handler.rest # <<>>
  /\ LET event == Head(handler.rest)
         p     == event.path
         after == Reporting(Tail(handler.rest))
     IN  handler' =
           CASE event.type = "deleted" ->
                  Applying(p, Absent, "disk",
                           [step |-> "clear", path |-> p, after |-> after])
             [] event.type = "changed" /\ disk[p] = Absent -> after
             [] event.type = "changed" /\ disk[p] # Absent ->
                  Applying(p, disk[p], "disk", Publishing(p, after))
  /\ UNCHANGED <<state, cancelled, buildVars, pairVars, store, userVars, shown,
                 refreshOwed, astray>>

\* The last event handled, one refresh is sent for all of them.
EventsHandled ==
  /\ handler.step = "events" /\ handler.rest = <<>>
  /\ handler' = Refreshing
  /\ UNCHANGED <<state, cancelled, buildVars, pairVars, store, userVars, shown,
                 refreshOwed, astray>>

-------------------------------------------------------------------------------
(***************************************************************************)
(* The steps the notifications share.                                      *)
(***************************************************************************)

\* What a change that reaches the index, or finds none, makes of the history.
Straying(p, from) ==
  CASE from = "editor" ->
         IF published /\ build # "replay" THEN "no" ELSE astray[p]
    [] from = "disk" /\ p \in Open -> "reportedWhileOpen"
    [] from = "disk" /\ p \notin Open /\ ~published -> "reportedTooEarly"
    [] OTHER -> IF Settled THEN "no" ELSE astray[p]

\* applyDocumentChange, in one lock section: dropped before the index exists.
ApplyChange ==
  /\ handler.step = "apply"
  /\ LET p == handler.path
         c == handler.content
     IN  /\ IF published
              THEN /\ Add(p, AnalyzeOne(p, c), c)
                   /\ res' = ResolveInto(res, index', {p})
                   /\ refreshOwed' = TRUE
              ELSE UNCHANGED <<index, lineWidths, res, refreshOwed>>
         /\ astray' = [astray EXCEPT ![p] = Straying(p, handler.from)]
  /\ handler' = handler.after
  /\ UNCHANGED <<state, cancelled, buildVars, published, store, userVars,
                 shown>>

\* publishFileDiagnostics takes the pair under the lock ...
PublishSnapshot ==
  /\ handler.step = "publish"
  /\ handler' = [step |-> "send", path |-> handler.path, after |-> handler.after,
                 published |-> published, res |-> IF published THEN res
                                                            ELSE Nothing]
  /\ UNCHANGED <<state, cancelled, buildVars, pairVars, store, userVars, shown,
                 refreshOwed, astray>>

\* ... and sends the document's diagnostics, or those of the index and the
\* disk when it is not open.
PublishSend ==
  /\ handler.step = "send"
  /\ LET p == handler.path
         Report(analysis) ==
           {[analysis |-> analysis,
             ambiguities |-> DiagnosticsFor(handler.res, p)]}
     IN  \/ /\ p \in Open
            /\ shown' = [shown EXCEPT ![p] = Report(store[p].analysis)]
            /\ handler' = handler.after
            /\ UNCHANGED astray
         \/ /\ p \notin Open /\ (p \in Outside \/ handler.published)
            /\ shown' = [shown EXCEPT ![p] =
                           IF p \in Outside \/ p \notin DOMAIN index
                                \/ disk[p] = Absent
                             THEN {} ELSE Report(index[p])]
            /\ handler' = handler.after
            /\ UNCHANGED astray
         \* The lookup in a nil index panics; the rest of the notification is
         \* lost with it (an open document has no need of it).
         \/ /\ p \notin Open /\ p \notin Outside /\ ~handler.published
            /\ handler' = Idle
            /\ astray' = [q \in Paths |->
                            IF /\ q \notin Open
                               /\ \E i \in DOMAIN handler.after.rest :
                                    handler.after.rest[i].path = q
                              THEN "reportedTooEarly" ELSE astray[q]]
            /\ UNCHANGED shown
  /\ UNCHANGED <<state, cancelled, buildVars, pairVars, store, userVars,
                 refreshOwed>>

\* A deleted file's diagnostics are cleared.
ClearShown ==
  /\ handler.step = "clear"
  /\ shown' = IF PullDiagnostics THEN shown
                                 ELSE [shown EXCEPT ![handler.path] = {}]
  /\ handler' = handler.after
  /\ UNCHANGED <<state, cancelled, buildVars, pairVars, store, userVars,
                 refreshOwed, astray>>

HandlerRefresh ==
  /\ handler = Refreshing
  /\ Refresh
  /\ handler' = Idle
  /\ UNCHANGED <<state, cancelled, buildVars, pairVars, store, userVars, shown,
                 astray>>

-------------------------------------------------------------------------------
(***************************************************************************)
(* Requests: a provider takes the pair under the lock and reads it after.  *)
(***************************************************************************)
Request ==
  /\ Ready /\ "request" \in Messages
  /\ handler' = [step |-> "answer", published |-> published, res |-> res,
                 settled |-> Settled]
  /\ inputs' = inputs + 1
  /\ UNCHANGED <<state, cancelled, buildVars, pairVars, store, disk, events,
                 shown, refreshOwed, astray>>

Answer ==
  /\ handler.step = "answer"
  /\ handler' = Idle
  /\ UNCHANGED <<state, cancelled, buildVars, pairVars, store, userVars, shown,
                 refreshOwed, astray>>

-------------------------------------------------------------------------------
(***************************************************************************)
(* The end of the session.                                                 *)
(***************************************************************************)
Shutdown ==
  /\ state = "initialized" /\ handler = Idle
  /\ state' = "shutdown"
  /\ cancelled' = TRUE
  /\ UNCHANGED <<buildVars, pairVars, store, handler, userVars, shown,
                 refreshOwed, astray>>

\* "exit", the end of the input, or the end of the server's own context: the
\* deferred calls cancel the build and wait for it.
Leave ==
  /\ state \in {"preInit", "initialized", "shutdown"} /\ handler = Idle
  /\ state' = "leaving"
  /\ cancelled' = TRUE
  /\ UNCHANGED <<buildVars, pairVars, store, handler, userVars, shown,
                 refreshOwed, astray>>

\* A bug Return could have: it waits for a build that was never started.
ReturnAfterBuild ==
  /\ state = "leaving"
  /\ state' = IF build = "done" THEN "returned" ELSE "leaving"
  /\ UNCHANGED <<cancelled, buildVars, pairVars, store, handler, userVars,
                 shown, refreshOwed, astray>>

Return ==
  /\ state = "leaving" /\ build \in {"none", "done"}
  /\ state' = "returned"
  /\ UNCHANGED <<cancelled, buildVars, pairVars, store, handler, userVars,
                 shown, refreshOwed, astray>>

Returned == state = "returned" /\ UNCHANGED vars

-------------------------------------------------------------------------------
Init ==
  /\ state = "preInit"
  /\ cancelled = FALSE
  /\ build = "none"
  /\ todo = {}
  /\ failed = FALSE
  /\ snapshot = Nothing
  /\ index = Nothing
  /\ lineWidths = Nothing
  /\ published = FALSE
  /\ res = EmptyResolution
  /\ store = Nothing
  /\ handler = Idle
  /\ disk = InitialDisk
  /\ events = Nothing
  /\ shown = [p \in Paths |-> {}]
  /\ refreshOwed = FALSE
  /\ astray = [p \in Paths |-> "no"]
  /\ inputs = 0

\* The client and the disk.
UserStep ==
  \/ Initialized \/ DidChangeWatchedFiles \/ Request \/ Shutdown \/ Leave
  \/ \E p \in Paths : DidClose(p)
  \/ \E p \in Paths, c \in Contents : DidOpen(p, c) \/ DidChange(p, c)
  \/ \E p \in Paths \ Outside, c \in Contents \cup {Absent} : WriteDisk(p, c)

\* The handler of a message, once it is read.
HandlerStep ==
  \/ HandleEvent \/ EventsHandled \/ ApplyChange \/ PublishSnapshot
  \/ PublishSend \/ ClearShown \/ HandlerRefresh \/ Answer

Next == UserStep \/ HandlerStep \/ BuildStep \/ Return \/ Returned

\* The goroutines run: neither waits on the client, which owes the server
\* nothing.
Fairness == WF_vars(HandlerStep) /\ WF_vars(BuildStep) /\ WF_vars(Return)

Spec == Init /\ [][Next]_vars /\ Fairness

-------------------------------------------------------------------------------
(***************************************************************************)
(* Properties.                                                             *)
(***************************************************************************)
AstrayReasons == {"no", "openedLate", "changedInReplay", "closed",
                  "reportedWhileOpen", "reportedTooEarly"}

Events == [path : Paths, type : {"changed", "deleted"}]

\* Where a handler goes when it is done with one file: nowhere, to the refresh,
\* or to the next event.
BetweenFiles(h) ==
  \/ h = Idle
  \/ h = Refreshing
  \/ h.step = "events" /\ h.rest \in Seq(Events)

\* Where it goes when the index is up to date with the file.
AfterApply(h) ==
  \/ BetweenFiles(h)
  \/ h.step \in {"publish", "clear"} /\ h.path \in Paths /\ BetweenFiles(h.after)

HandlerOK(h) ==
  \/ AfterApply(h)
  \/ /\ h.step = "apply" /\ h.path \in Paths /\ h.content \in Contents \cup {Absent}
     /\ h.from \in {"editor", "disk"} /\ AfterApply(h.after)
  \/ /\ h.step = "send" /\ h.path \in Paths /\ h.published \in BOOLEAN
     /\ BetweenFiles(h.after)
  \/ /\ h.step = "answer" /\ h.published \in BOOLEAN /\ h.settled \in BOOLEAN

DocumentsOK(docs) ==
  /\ DOMAIN docs \subseteq Paths
  /\ \A p \in DOMAIN docs :
       docs[p].content \in Contents /\ AnalysisOK(docs[p].analysis)

SessionOK ==
  /\ state \in {"preInit", "initialized", "shutdown", "leaving", "returned"}
  /\ cancelled \in BOOLEAN
  /\ refreshOwed \in BOOLEAN

BuildOK ==
  /\ build \in {"none", "walk", "scan", "guard", "publish", "collect",
                "replay", "refresh", "done"}
  /\ todo \subseteq Paths
  /\ failed \in BOOLEAN
  /\ DocumentsOK(snapshot)

PairOK ==
  /\ IndexOK(index)
  /\ DOMAIN lineWidths \subseteq DOMAIN index
  /\ published \in BOOLEAN

DiskOK ==
  /\ disk \in [Paths -> Contents \cup {Absent}]
  /\ DOMAIN events \subseteq Paths
  /\ \A p \in DOMAIN events : events[p] \in {"changed", "deleted"}
  /\ inputs \in 0 .. MaxInputs

ViewOK ==
  /\ DOMAIN shown = Paths
  /\ astray \in [Paths -> AstrayReasons]

\* The shape of the state.
TypeOK ==
  /\ SessionOK
  /\ BuildOK
  /\ PairOK
  /\ DiskOK
  /\ ViewOK
  /\ DocumentsOK(store)
  /\ HandlerOK(handler)

\* The published resolution set is that of the published index, after any
\* interleaving of the build, the replay and the handlers: publishIndex,
\* replayOpenBuffers and applyDocumentChange change both or neither.
PairAgrees == published => res = Resolve(index)

\* What an entry of the index may say of a file: the analysis of some content,
\* or of none.
AnalysesOf ==
  [p \in Paths |->
     {AnalyzeOne(p, c) : c \in Contents \cup {Absent}}
       \cup {ScanAnalyze(p, c) : c \in Contents}]

\* The pair as the handlers find it: (nil, nil) before it is published.
PublishedIndex == IF published THEN index ELSE Nothing

PublishedRes == IF published THEN res ELSE EmptyResolution

\* The index of IndexUpdates, which the providers of Queries read.
Pair == INSTANCE Queries WITH index <- PublishedIndex,
                              res <- PublishedRes,
                              Analyses <- AnalysesOf,
                              MaxChanged <- Cardinality(Paths)

\* What the analyzer promises the providers of an analysis, and how names begin.
ASSUME PromiseAssumption ==
  /\ \A p \in Paths, c \in Contents : Pair!StructureOK(AnalysisOf[p][c])
  /\ Pair!PrefixesOK

\* Of all that the build, the replay and the handlers do, whoever takes the
\* pair sees one kind of change: analyses of some files are put, at once and
\* for good, and the resolution set follows.  The publication is the first.
PairIsUpdated == Pair!Spec

\* What the index should say of a file: of an open document what its buffer
\* says, of any other what the disk says (a file too large to scan, and one
\* that is deleted, may have no entry or an empty one).
Follows(p) ==
  /\ p \in Open =>
       /\ p \in DOMAIN index
       /\ index[p] = store[p].analysis
       /\ lineWidths[p] = store[p].content
  /\ p \notin Open /\ p \in DOMAIN index =>
       /\ \/ index[p] = AnalyzeOne(p, disk[p])
          \/ index[p] = ScanAnalyze(p, disk[p]) /\ disk[p] \notin TooLarge
       /\ disk[p] # Absent => lineWidths[p] = disk[p]
  /\ p \notin Open \cup Outside \cup Excluded /\ p \notin DOMAIN index =>
       disk[p] \in TooLarge \cup {Absent}

AtRest == published /\ Settled /\ handler = Idle /\ events = Nothing

\* Every way the editor and the disk can change a file during the build, its
\* publication and the replay ends with an index that follows the file, but
\* for the ones astray names (FR-33, FR-34).
SourcesFollowed ==
  AtRest /\ WatchedFiles => \A p \in Paths : astray[p] = "no" => Follows(p)

\* A provider that takes the pair once the replay is over reads one state of
\* both, although the index it holds is mutated in place.
RequestsSeeOnePair ==
  handler.step = "answer" /\ handler.published /\ handler.settled
    => handler.res = Resolve(index)

\* What a push client shows of an open document is what its buffer says: every
\* change is published, and nothing of the index or the disk gets in between.
ShownFollowsBuffer ==
  handler = Idle /\ ~PullDiagnostics =>
    \A p \in Open : astray[p] # "reportedWhileOpen" =>
      \E r \in shown[p] : r.analysis = store[p].analysis

\* The build ends, however it is interleaved, cancelled or failed.
BuildEnds == build # "none" ~> build = "done"

\* So does every handler, whatever a notification reports.
HandlerEnds == handler # Idle ~> handler = Idle

\* A client that pulls and can be refreshed is told of every new pair.
RefreshSent == PullDiagnostics /\ DiagnosticRefresh
                 => (refreshOwed ~> ~refreshOwed)

\* Run returns once it has read its last message.
SessionEnds == state = "leaving" ~> state = "returned"

-------------------------------------------------------------------------------
(***************************************************************************)
(* Claims of the source that the code does not keep.                       *)
(***************************************************************************)

\* server.go:1974-1986: replay closes the window of the build; a change during
\* the replay cannot interleave with it.
ReplayKeepsChanges ==
  AtRest => \A p \in Open : astray[p] = "changedInReplay" => Follows(p)

\* store.go:125 (FR-33): "on change, the in-memory content becomes the source of
\* truth": what the index has of an open document it loses to its next change or
\* its closing alone.  didChangeWatchedFiles puts the content of the disk there,
\* without a look at the open documents (server.go:910).
BufferKept ==
  [][\A p \in Open : Settled /\ published /\ Follows(p) /\ UNCHANGED store
                       => Follows(p)']_vars
===============================================================================
