------------------------------ MODULE IndexCalls ------------------------------
(***************************************************************************)
(* The calls goroutines make on the one workspace.Index, and their answers *)
(* (internal/workspace/index.go).                                          *)
(***************************************************************************)
EXTENDS Naturals, Sequences

CONSTANTS
  Threads,       \* goroutines
  Paths,         \* the files of the workspace
  Analyses,      \* the analyses a file may have
  Contents,      \* the contents line-width tables are built from
  Configs,       \* the configurations a caller may pass, by identity
  ServerConfig,  \* the one the server passes, &hctx.cfg
  NameOf,        \* NameOf[p]: the object's name, from the path
  LibraryOf,     \* LibraryOf[cfg][p]: the library that declares the path
  TypeOf,        \* TypeOf[a]: the object type an analysis carries
  CallsOf,       \* CallsOf[t]: the calls thread t makes
  Absent,        \* no analysis, no content, no table
  NoThread,      \* nobody
  AnyType        \* the empty object type: no filter

Queries == {"lookup", "get", "range", "sweep"}

Changes == [path : Paths, analysis : Analyses, content : Contents \cup {Absent}]

\* An update is the changes it has yet to store.
UpdateCalls == [kind : {"update", "table"}, rest : Seq(Changes)]
LookupCalls == [kind : {"lookup"}, name : {NameOf[p] : p \in Paths},
                type : {TypeOf[a] : a \in Analyses} \cup {AnyType}, cfg : Configs]
PathCalls   == [kind : {"get", "range"}, path : Paths]
SweepCalls  == [kind : {"sweep"}]

Idle == [kind |-> "idle"]

\* A call that has returned has an answer.
NoAnswer == <<>>
Answered(x) == <<x>>

\* The server's update that has these changes to store, and the one that has
\* stored the analysis of the first.
UpdateOf(rest) == [kind |-> "update", rest |-> rest]
TableOf(rest) == [kind |-> "table", rest |-> rest]

QueryCalls == LookupCalls \cup PathCalls \cup SweepCalls

ASSUME CallsAssumption ==
  /\ ServerConfig \in Configs
  /\ Absent \notin Analyses \cup Contents
  /\ NoThread \notin Threads
  /\ CallsOf \in [Threads -> SUBSET (QueryCalls \cup UpdateCalls)]
  /\ \A t \in Threads : \A c \in CallsOf[t] :
       c.kind \notin Queries => c.kind = "update" /\ c.rest # <<>>

-------------------------------------------------------------------------------
\* The candidate a file is, under the configuration's library map.
Candidate(e, cfg, p) ==
  [path |-> p, name |-> NameOf[p], library |-> LibraryOf[cfg][p], type |-> TypeOf[e[p]]]

Indexed(e) == {p \in Paths : e[p] # Absent}

\* The name map: what it holds, without its grouping by name.
Candidates(e, cfg) == {Candidate(e, cfg, p) : p \in Indexed(e)}

\* The bucket of a name, filtered by type.
Bucket(map, c) == {x \in map : x.name = c.name /\ c.type \in {AnyType, x.type}}

\* What a sweep sees of a file: its analysis with its table, if it is indexed.
Seen(e, w, p) == IF e[p] = Absent THEN Absent ELSE <<e[p], w[p]>>

\* What a query answers from one state of the index.
Answer(e, w, c) ==
  CASE c.kind = "lookup" -> Bucket(Candidates(e, c.cfg), c)
    [] c.kind = "get"    -> e[c.path]
    [] c.kind = "range"  -> w[c.path]
    [] c.kind = "sweep"  -> [p \in Paths |-> Seen(e, w, p)]

===============================================================================
