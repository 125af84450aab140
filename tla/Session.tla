------------------------------- MODULE Session --------------------------------
(***************************************************************************)
(* One run of the server, from the first message to the return of Run      *)
(* (internal/server/server.go, root.go, progress.go): the handshake and    *)
(* the root it settles, the background build with its progress, the        *)
(* progress of a workspace diagnostic, cancellation from outside, and the  *)
(* deferred calls that take the run down.  What the build and the requests *)
(* read and write is in ServerSync.  The client may send anything in any   *)
(* order.                                                                  *)
(***************************************************************************)
EXTENDS Configuration

CONSTANTS
  Requests,     \* what initialize may ask for: [folders, rootUri, progress]
  Cwd,          \* the directory the server was started in
  NoRoot,       \* no directory: not a file URI, or nothing settled yet
  BuildToken,   \* the token of the build's progress
  ClientTokens, \* the tokens a client gives its workspace diagnostics
  FileCount,    \* the files the build visits
  MaxMessages   \* bound: messages of the client

ASSUME SessionAssumption ==
  /\ BuildToken \notin ClientTokens
  /\ FileCount \in Nat
  /\ \A p \in Requests : /\ p.folders \in Seq(Seq(Names) \cup {NoRoot})
                          /\ p.rootUri \in Seq(Names) \cup {NoRoot}
                          /\ p.progress \in BOOLEAN
  /\ Cwd \in Seq(Names)
  /\ NoRoot \notin Seq(Names)

Tokens == ClientTokens \cup {BuildToken}

VARIABLES
  state,      \* the session's: preInit, initialized or shutdown
  run,        \* where Run is: in its loop, or at which deferred call
  result,     \* what it returns
  ctxDone,    \* the caller's context is cancelled, as by a signal
  bgDone,     \* bgCtx is
  stream,     \* who closed it: nobody, the context watcher or Run
  guard,      \* the context watcher waits
  root,       \* hctx.root
  config,     \* hctx.cfg
  store,      \* the root the document store was made for
  watchers,   \* the file watchers started, by root; the last is in force
  showsProgress, \* clientSupportsWorkDoneProgress
  build,      \* where the background build is
  scanned,    \* the files it has visited
  failed,     \* buildIndex returned an error, and no index
  builtRoot,  \* the root it reads
  published,  \* it has published its index and merged the open buffers
  handler,    \* what the loop is doing
  wire,       \* the progress the client has seen, by token
  dropped,    \* tokens whose handler panicked
  received    \* bound: messages so far

contextVars == <<ctxDone, bgDone>>
rootVars == <<root, config, store, watchers, showsProgress>>
buildVars == <<build, scanned, failed, builtRoot, published>>
vars == <<state, run, result, contextVars, stream, guard, rootVars, buildVars,
          handler, wire, dropped, received>>

-------------------------------------------------------------------------------
(***************************************************************************)
(* The wire.  A write under a cancelled context, or to a closed stream, is *)
(* lost.  The client follows each token: a message out of order breaks it. *)
(***************************************************************************)
Unseen == [stage |-> "none", percent |-> 0]

\* progressReporter.report: rounded, and at most 100.
Percentage(current, total) ==
  LET rounded == (current * 100 + total \div 2) \div total
  IN  IF rounded > 100 THEN 100 ELSE rounded

\* What the client makes of a message with this token.
Seeing(token, kind, percent) ==
  LET seen == wire[token].stage
      fits == CASE kind = "create" -> seen \in {"none", "ended"}
                [] kind = "begin"  -> seen = "created"
                [] kind = "report" -> seen = "begun" /\ percent >= wire[token].percent
                [] kind = "end"    -> seen = "begun"
      next == CASE kind = "create" -> "created"
                [] kind = "begin"  -> "begun"
                [] kind = "report" -> "begun"
                [] kind = "end"    -> "ended"
  IN  [stage |-> IF fits THEN next ELSE "broken", percent |-> percent]

\* progressReporter: nothing unless the client shows progress.
Send(cancelled, token, kind, percent) ==
  wire' = IF showsProgress /\ ~cancelled /\ stream = "open"
            THEN [wire EXCEPT ![token] = Seeing(token, kind, percent)]
            ELSE wire

\* Both messages that open a token, in one handler.
SendOpening(cancelled, token) ==
  wire' = IF showsProgress /\ ~cancelled /\ stream = "open"
            THEN [wire EXCEPT ![token] =
                    [stage |-> IF @.stage \in {"none", "ended"} THEN "begun" ELSE "broken",
                     percent |-> 0]]
            ELSE wire

-------------------------------------------------------------------------------
(***************************************************************************)
(* The dispatch loop.                                                      *)
(***************************************************************************)
Idle == [step |-> "idle"]

Leave(r) == run' = "done" /\ result' = r

\* A message of the client is read.
Receive ==
  /\ run = "loop"
  /\ handler = Idle
  /\ received < MaxMessages
  /\ received' = received + 1

\* The result of a call is written; a failure ends the run.
Respond ==
  IF ctxDone \/ stream # "open" THEN Leave("error") ELSE UNCHANGED <<run, result>>

\* resolveRootStart: the first folder, the root URI, the current directory.
RootStart(p) ==
  CASE p.folders # <<>> /\ p.folders[1] # NoRoot -> p.folders[1]
    [] OTHER -> IF p.rootUri # NoRoot THEN p.rootUri ELSE Cwd

\* A bug Initialize could have: it is refused only once the run shuts down.
InitializeAnyTime(p, watching) ==
  /\ Receive
  /\ state # "shutdown"
  /\ LET found == FindRoot(RootStart(p))
     IN  /\ root' = found
         /\ config' = ConfigOf(found)
         /\ store' = found
         /\ watchers' = IF watching THEN Append(watchers, [root |-> found, open |-> TRUE])
                                    ELSE watchers
  /\ showsProgress' = p.progress
  /\ Respond
  /\ UNCHANGED <<state, contextVars, stream, guard, buildVars, handler, wire, dropped>>

\* initialize: a second one before initialized replaces what the first settled.
\* The watcher of the first goes on beside the new one; starting one may fail.
Initialize(p, watching) ==
  /\ Receive
  /\ state = "preInit"
  /\ LET found == FindRoot(RootStart(p))
     IN  /\ root' = found
         /\ config' = ConfigOf(found)
         /\ store' = found
         /\ watchers' = IF watching THEN Append(watchers, [root |-> found, open |-> TRUE])
                                    ELSE watchers
  /\ showsProgress' = p.progress
  /\ Respond
  /\ UNCHANGED <<state, contextVars, stream, guard, buildVars, handler, wire, dropped>>

\* initialized spawns the build, with or without an initialize before it.
Initialized ==
  /\ Receive
  /\ state = "preInit"
  /\ state' = "initialized"
  /\ build' = "create"
  /\ UNCHANGED <<run, result, contextVars, stream, guard, rootVars, scanned, failed,
                 builtRoot, published, handler, wire, dropped>>

Shutdown ==
  /\ Receive
  /\ state = "initialized"
  /\ state' = "shutdown"
  /\ bgDone' = TRUE
  /\ Respond
  /\ UNCHANGED <<ctxDone, stream, guard, rootVars, buildVars, handler, wire, dropped>>

Exit ==
  /\ Receive
  /\ Leave(IF state = "shutdown" THEN "clean" ELSE "error")
  /\ UNCHANGED <<state, contextVars, stream, guard, rootVars, buildVars, handler, wire, dropped>>

\* Any other request that is answered; what a provider reads is in Queries.
Request ==
  /\ Receive
  /\ state = "initialized"
  /\ Respond
  /\ UNCHANGED <<state, contextVars, stream, guard, rootVars, buildVars, handler, wire, dropped>>

\* Every message that is refused, ignored, malformed, or whose handler panics
\* before it has done anything: an error may be written, and its loss is logged.
Refuse ==
  /\ Receive
  /\ UNCHANGED <<state, run, result, contextVars, stream, guard, rootVars, buildVars,
                 handler, wire, dropped>>

\* workspace/diagnostic with a token of the client's.
Diagnostic(token) ==
  /\ Receive
  /\ state = "initialized"
  /\ SendOpening(ctxDone, token)
  /\ handler' = [step |-> "diagnostic", token |-> token]
  /\ UNCHANGED <<state, run, result, contextVars, stream, guard, rootVars, buildVars, dropped>>

\* The report is there.
DiagnosticEnds ==
  /\ handler.step = "diagnostic"
  /\ Send(ctxDone, handler.token, "end", 0)
  /\ handler' = Idle
  /\ Respond
  /\ UNCHANGED <<state, contextVars, stream, guard, rootVars, buildVars, dropped, received>>

\* A bug DiagnosticFails could have: the error is answered at once.
DiagnosticFailsOpen ==
  /\ handler.step = "diagnostic"
  /\ handler' = Idle
  /\ UNCHANGED <<state, run, result, contextVars, stream, guard, rootVars, buildVars,
                 wire, dropped, received>>

\* The provider returns an error.
DiagnosticFails ==
  /\ handler.step = "diagnostic"
  /\ Send(ctxDone, handler.token, "end", 0)
  /\ handler' = Idle
  /\ UNCHANGED <<state, run, result, contextVars, stream, guard, rootVars, buildVars,
                 dropped, received>>

\* The provider panics: the recovery answers, and the token stays open.
DiagnosticPanics ==
  /\ handler.step = "diagnostic"
  /\ dropped' = dropped \cup {handler.token}
  /\ handler' = Idle
  /\ UNCHANGED <<state, run, result, contextVars, stream, guard, rootVars, buildVars,
                 wire, received>>

\* The read fails: the input ended, the context is cancelled, or the context
\* watcher has closed the stream.  In the middle of a message it is an error.
ReadEnds(truncated) ==
  /\ run = "loop"
  /\ handler = Idle
  /\ Leave(IF truncated /\ ~ctxDone THEN "error" ELSE "clean")
  /\ UNCHANGED <<state, contextVars, stream, guard, rootVars, buildVars, handler,
                 wire, dropped, received>>

-------------------------------------------------------------------------------
(***************************************************************************)
(* The background build, under bgCtx.                                      *)
(***************************************************************************)
BuildKeeps == UNCHANGED <<state, run, result, contextVars, stream, guard, rootVars,
                          handler, dropped, received>>

\* create, fire and forget.
BuildCreates ==
  /\ build = "create"
  /\ Send(bgDone, BuildToken, "create", 0)
  /\ build' = "begin"
  /\ UNCHANGED <<scanned, failed, builtRoot, published>>
  /\ BuildKeeps

BuildBegins ==
  /\ build = "begin"
  /\ Send(bgDone, BuildToken, "begin", 0)
  /\ build' = "scan"
  /\ builtRoot' = root
  /\ UNCHANGED <<scanned, failed, published>>
  /\ BuildKeeps

\* One file, and its report.
BuildScans ==
  /\ build = "scan"
  /\ builtRoot # NoRoot
  /\ ~bgDone
  /\ scanned < FileCount
  /\ scanned' = scanned + 1
  /\ Send(bgDone, BuildToken, "report", Percentage(scanned', FileCount))
  /\ UNCHANGED <<build, failed, builtRoot, published>>
  /\ BuildKeeps

\* The scan is over.
BuildScanned ==
  /\ build = "scan"
  /\ builtRoot # NoRoot
  /\ scanned = FileCount
  /\ build' = "guard"
  /\ UNCHANGED <<scanned, failed, builtRoot, published, wire>>
  /\ BuildKeeps

\* The walk over the directories fails, as it does without a root; or the scan
\* finds the context cancelled before a file.
BuildFails ==
  /\ build = "scan"
  /\ scanned = 0 \/ (bgDone /\ scanned < FileCount)
  /\ failed' = TRUE
  /\ build' = "guard"
  /\ UNCHANGED <<scanned, builtRoot, published, wire>>
  /\ BuildKeeps

\* A shutdown that has won: nothing is published, and the progress is orphaned.
BuildAborts ==
  /\ build = "guard"
  /\ bgDone
  /\ build' = "over"
  /\ UNCHANGED <<scanned, failed, builtRoot, published, wire>>
  /\ BuildKeeps

BuildGoesOn ==
  /\ build = "guard"
  /\ ~bgDone
  /\ build' = "publish"
  /\ UNCHANGED <<scanned, failed, builtRoot, published, wire>>
  /\ BuildKeeps

\* publishIndex, replayOpenBuffers and the diagnostic refresh.  A build that
\* failed goes on with no index: it publishes (nil, nil) and ends its progress
\* like any other.
BuildPublishes ==
  /\ build = "publish"
  /\ published' = ~failed
  /\ build' = "end"
  /\ UNCHANGED <<scanned, failed, builtRoot, wire>>
  /\ BuildKeeps

\* end, and then the report of a root without files.
BuildEnds ==
  /\ build = "end"
  /\ Send(bgDone, BuildToken, "end", 0)
  /\ build' = "warn"
  /\ UNCHANGED <<scanned, failed, builtRoot, published>>
  /\ BuildKeeps

BuildWarns ==
  /\ build = "warn"
  /\ build' = "over"
  /\ UNCHANGED <<scanned, failed, builtRoot, published, wire>>
  /\ BuildKeeps

-------------------------------------------------------------------------------
(***************************************************************************)
(* Cancellation, and the deferred calls, last registered first.            *)
(***************************************************************************)
\* SIGTERM: bgCtx is derived from the caller's context.
Interrupt ==
  /\ ~ctxDone
  /\ ctxDone' = TRUE
  /\ bgDone' = TRUE
  /\ UNCHANGED <<state, run, result, stream, guard, rootVars, buildVars, handler,
                 wire, dropped, received>>

\* A bug ContextWatcherCloses could have: it waits until Run has left its loop.
ContextWatcherWaits ==
  /\ guard
  /\ ctxDone
  /\ run # "loop"
  /\ guard' = FALSE
  /\ stream' = IF stream = "open" THEN "closedByContext" ELSE stream
  /\ UNCHANGED <<state, run, result, contextVars, rootVars, buildVars, handler,
                 wire, dropped, received>>

\* The context watcher closes the stream under a read that blocks.
ContextWatcherCloses ==
  /\ guard
  /\ ctxDone
  /\ guard' = FALSE
  /\ stream' = IF stream = "open" THEN "closedByContext" ELSE stream
  /\ UNCHANGED <<state, run, result, contextVars, rootVars, buildVars, handler,
                 wire, dropped, received>>

\* done is closed.  When the context is cancelled too, either may win, and
\* nobody joins the context watcher: it may still be there when Run returns.
ContextWatcherExits ==
  /\ guard
  /\ run \notin {"loop", "done"}
  /\ guard' = FALSE
  /\ UNCHANGED <<state, run, result, contextVars, stream, rootVars, buildVars, handler,
                 wire, dropped, received>>

DeferKeeps == UNCHANGED <<state, result, ctxDone, root, config, store, showsProgress,
                          buildVars, handler, wire, dropped, received>>

\* close(done) releases the context watcher.
CloseDone ==
  /\ run = "done"
  /\ run' = "cancel"
  /\ UNCHANGED <<bgDone, stream, guard, watchers>>
  /\ DeferKeeps

\* bgCancel, before the build is joined.
CancelBuild ==
  /\ run = "cancel"
  /\ run' = "join"
  /\ bgDone' = TRUE
  /\ UNCHANGED <<stream, guard, watchers>>
  /\ DeferKeeps

\* A bug JoinBuild could have: it does not wait.
JoinNothing ==
  /\ run = "join"
  /\ run' = "closeWatcher"
  /\ UNCHANGED <<bgDone, stream, guard, watchers>>
  /\ DeferKeeps

JoinBuild ==
  /\ run = "join"
  /\ build \in {"none", "over"}
  /\ run' = "closeWatcher"
  /\ UNCHANGED <<bgDone, stream, guard, watchers>>
  /\ DeferKeeps

\* Only the watcher in force is closed; the others end with bgCtx.
CloseWatcher ==
  /\ run = "closeWatcher"
  /\ run' = "closeStream"
  /\ watchers' = IF watchers = <<>> THEN watchers
                                    ELSE [watchers EXCEPT ![Len(watchers)].open = FALSE]
  /\ UNCHANGED <<bgDone, stream, guard>>
  /\ DeferKeeps

CloseStream ==
  /\ run = "closeStream"
  /\ run' = "returned"
  /\ stream' = IF stream = "open" THEN "closedByRun" ELSE stream
  /\ UNCHANGED <<bgDone, guard, watchers>>
  /\ DeferKeeps

Returned == run = "returned" /\ UNCHANGED vars

-------------------------------------------------------------------------------
Init ==
  /\ state = "preInit"
  /\ run = "loop"
  /\ result = "none"
  /\ ctxDone = FALSE
  /\ bgDone = FALSE
  /\ stream = "open"
  /\ guard = TRUE
  /\ root = NoRoot
  /\ config = Zero
  /\ store = NoRoot
  /\ watchers = <<>>
  /\ showsProgress = FALSE
  /\ build = "none"
  /\ scanned = 0
  /\ failed = FALSE
  /\ builtRoot = NoRoot
  /\ published = FALSE
  /\ handler = Idle
  /\ wire = [t \in Tokens |-> Unseen]
  /\ dropped = {}
  /\ received = 0

LoopStep ==
  \/ \E p \in Requests, watching \in BOOLEAN : Initialize(p, watching)
  \/ Initialized \/ Shutdown \/ Exit \/ Request \/ Refuse
  \/ \E t \in ClientTokens : Diagnostic(t)
  \/ DiagnosticEnds \/ DiagnosticFails \/ DiagnosticPanics
  \/ \E truncated \in BOOLEAN : ReadEnds(truncated)

BuildStep ==
  \/ BuildCreates \/ BuildBegins \/ BuildScans \/ BuildScanned \/ BuildFails
  \/ BuildAborts \/ BuildGoesOn \/ BuildPublishes \/ BuildEnds \/ BuildWarns

RunStep ==
  \/ CloseDone \/ CancelBuild \/ JoinBuild \/ CloseWatcher \/ CloseStream

Next == \/ LoopStep \/ BuildStep \/ RunStep \/ Interrupt \/ Returned
        \/ ContextWatcherCloses \/ ContextWatcherExits

Spec == Init /\ [][Next]_vars

-------------------------------------------------------------------------------
(***************************************************************************)
(* Fairness: every goroutine that can go on does, a handler finishes, and  *)
(* a read of a stream that was closed fails.  The client owes nothing: it  *)
(* may stop sending, or never close its end.                               *)
(***************************************************************************)
HandlerEnds == DiagnosticEnds \/ DiagnosticFails \/ DiagnosticPanics

ReadFails == stream # "open" /\ ReadEnds(FALSE)

FairSpec ==
  /\ Spec
  /\ WF_vars(HandlerEnds) /\ WF_vars(ReadFails)
  /\ WF_vars(BuildStep) /\ WF_vars(RunStep) /\ WF_vars(ContextWatcherCloses)

-------------------------------------------------------------------------------
(***************************************************************************)
(* The promises.                                                           *)
(***************************************************************************)
\* Whatever handshakes the client tries, configuration, document store and
\* background build follow one root (server.go:1001, :580): a second initialize
\* is accepted as long as no build has read what the first one settled.
OneRoot ==
  /\ store = root
  /\ root # NoRoot => config = ConfigOf(root) /\ FindRoot(root) = root
  /\ build \notin {"none", "create", "begin"} => builtRoot = root

\* The progress a client sees is well formed and is closed (progress.go,
\* server.go:1684): messages of one token come in order and their percentages
\* never fall; a build that did not fail has published its index when it says it
\* is complete; and a progress stays open only after a panic or a cancellation.
\* A build that failed says it is complete all the same (server.go:644-649, :705).
ProgressEnds ==
  /\ \A t \in Tokens \ dropped : wire[t].stage # "broken"
  /\ wire[BuildToken].stage = "ended" => published = ~failed
  /\ build = "over" /\ wire[BuildToken].stage \in {"created", "begun"} => bgDone
  /\ \A t \in ClientTokens \ dropped :
       wire[t].stage \in {"created", "begun"} =>
         ctxDone \/ handler = [step |-> "diagnostic", token |-> t]

\* When Run returns, its build is over, the watcher in force is closed and the
\* others are cancelled; and Run closes the stream only after the build
\* (server.go:463-466).  The context watcher may outlive Run, and so may the event
\* loop of a watcher: closing it does not wait for the loop, of which nothing is
\* said here.
NothingOutlivesRun ==
  /\ stream = "closedByRun" => build \in {"none", "over"}
  /\ run = "returned" =>
       /\ build \in {"none", "over"}
       /\ stream # "open" /\ bgDone
       /\ watchers # <<>> => ~watchers[Len(watchers)].open

\* A cancellation from outside ends the run, whatever the client does and
\* wherever the build is (server.go:472-486): also a client that sends nothing.
\* It rests on ReadFails: closing the stream fails a read that blocks, which the
\* code counts on too.
CancelReturns == ctxDone ~> run = "returned"

===============================================================================
