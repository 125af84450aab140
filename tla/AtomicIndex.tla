----------------------------- MODULE AtomicIndex ------------------------------
(***************************************************************************)
(* What workspace.Index promises to goroutines that share it: a method     *)
(* takes effect in one step, between its call and its return.  An update   *)
(* by the server is not one method.  It stores analyses and line-width     *)
(* tables one at a time, while readers come and go, and resolves what it   *)
(* has stored before another update begins.                                *)
(***************************************************************************)
EXTENDS IndexCalls

VARIABLES
  entries,     \* the analysis of each path
  lineWidths,  \* the content each path's line-width table was built from
  resolved,    \* the candidates the last update resolved against
  updater,     \* the thread whose update is in progress
  call,        \* what each thread is doing: its call, with what is left of it
  answer       \* what its call has returned

vars == <<entries, lineWidths, resolved, updater, call, answer>>

Init ==
  /\ entries = [p \in Paths |-> Absent]
  /\ lineWidths = [p \in Paths |-> Absent]
  /\ resolved = {}
  /\ updater = NoThread
  /\ call = [t \in Threads |-> Idle]
  /\ answer = [t \in Threads |-> NoAnswer]

Start(t, c) ==
  /\ call[t] = Idle
  /\ call' = [call EXCEPT ![t] = c]
  /\ UNCHANGED <<entries, lineWidths, resolved, updater, answer>>

\* A query is answered from one state of the index.
Respond(t) ==
  /\ call[t].kind \in Queries
  /\ answer[t] = NoAnswer
  /\ answer' = [answer EXCEPT ![t] = Answered(Answer(entries, lineWidths, call[t]))]
  /\ UNCHANGED <<entries, lineWidths, resolved, updater, call>>

Return(t) ==
  /\ answer[t] # NoAnswer
  /\ answer' = [answer EXCEPT ![t] = NoAnswer]
  /\ call' = [call EXCEPT ![t] = Idle]
  /\ UNCHANGED <<entries, lineWidths, resolved, updater>>

Begin(t) ==
  /\ call[t].kind = "update"
  /\ updater = NoThread
  /\ updater' = t
  /\ UNCHANGED <<entries, lineWidths, resolved, call, answer>>

\* The analysis of the next change.  Without content its table is left alone.
StoreAnalysis(t) ==
  /\ updater = t
  /\ call[t].kind = "update"
  /\ call[t].rest # <<>>
  /\ LET change == Head(call[t].rest)
     IN  /\ entries' = [entries EXCEPT ![change.path] = change.analysis]
         /\ call' = [call EXCEPT ![t] = IF change.content = Absent
                                          THEN UpdateOf(Tail(call[t].rest))
                                          ELSE TableOf(call[t].rest)]
  /\ UNCHANGED <<lineWidths, resolved, updater, answer>>

\* The table of the same change.
StoreTable(t) ==
  /\ updater = t
  /\ call[t].kind = "table"
  /\ LET change == Head(call[t].rest)
     IN  lineWidths' = [lineWidths EXCEPT ![change.path] = change.content]
  /\ call' = [call EXCEPT ![t] = UpdateOf(Tail(call[t].rest))]
  /\ UNCHANGED <<entries, resolved, updater, answer>>

\* The update resolves against all it has stored, and ends.
Resolve(t) ==
  /\ updater = t
  /\ call[t].kind = "update"
  /\ call[t].rest = <<>>
  /\ resolved' = Candidates(entries, ServerConfig)
  /\ updater' = NoThread
  /\ call' = [call EXCEPT ![t] = Idle]
  /\ UNCHANGED <<entries, lineWidths, answer>>

Next ==
  \E t \in Threads :
    \/ \E c \in CallsOf[t] : Start(t, c)
    \/ Respond(t) \/ Return(t)
    \/ Begin(t) \/ StoreAnalysis(t) \/ StoreTable(t) \/ Resolve(t)

Spec == Init /\ [][Next]_vars

===============================================================================
