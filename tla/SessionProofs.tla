----------------------------- MODULE SessionProofs -----------------------------
(***************************************************************************)
(* What the configuration promises for every file and every directory, and *)
(* what a session promises for every client: any number of messages,       *)
(* tokens, watchers and files.                                             *)
(***************************************************************************)
EXTENDS Session, SequenceTheorems, WellFoundedInduction, TLAPS

(***************************************************************************)
(* The configuration.                                                      *)
(***************************************************************************)
\* A set of levels that is not empty has a least one.
LEMMA LeastLevel ==
  ASSUME NEW T, T \subseteq Nat, T # {}
  PROVE  \E k \in T : \A j \in T : k <= j
<1>1. PICK k \in T : \A j \in T : ~(<<j, k>> \in OpToRel(<, Nat))
  BY NatLessThanWellFounded, WFMin, Zenon
<1>2. ASSUME NEW j \in T PROVE k <= j
  <2>1. <<j, k>> \in Nat \X Nat /\ <<j, k>>[1] = j /\ <<j, k>>[2] = k
    OBVIOUS
  <2>2. ~(j < k)
    BY <1>1, <2>1 DEF OpToRel
  <2>3. QED
    BY <2>2
<1>3. QED
  BY <1>2

\* The root of a workspace is the nearest directory on the way up that has a
\* configuration file, and where the search started if there is none (FindRoot).
THEOREM RootIsNearest ==
  ASSUME NEW start \in Seq(Names)
  PROVE  \/ /\ FindRoot(start) = start
            /\ \A k \in 0..Len(start) : Above(start, k) \notin DOMAIN Sentinels
         \/ \E k \in 0..Len(start) :
              /\ FindRoot(start) = Above(start, k)
              /\ FindRoot(start) \in DOMAIN Sentinels
              /\ \A j \in 0..(k - 1) : Above(start, j) \notin DOMAIN Sentinels
<1>1. CASE SentinelLevels(start) = {}
  BY <1>1 DEF FindRoot, SentinelLevels
<1>2. CASE SentinelLevels(start) # {}
  <2> DEFINE Least(k) == \A j \in SentinelLevels(start) : k <= j
  <2>1. SentinelLevels(start) \subseteq Nat
    BY DEF SentinelLevels
  <2>2. \E k \in SentinelLevels(start) : Least(k)
    BY <1>2, <2>1, LeastLevel
  <2>3. PICK k \in SentinelLevels(start) : Least(k) /\ FindRoot(start) = Above(start, k)
    BY <1>2, <2>2 DEF FindRoot
  <2>4. \A j \in 0..(k - 1) : Above(start, j) \notin DOMAIN Sentinels
    BY <2>1, <2>3 DEF SentinelLevels
  <2>5. QED
    BY <2>3, <2>4 DEF SentinelLevels
<1>3. QED
  BY <1>1, <1>2

\* A root stays the root: the search that starts there ends there.
LEMMA RootIsItsOwn ==
  ASSUME NEW start \in Seq(Names)
  PROVE  FindRoot(start) \in Seq(Names) /\ FindRoot(FindRoot(start)) = FindRoot(start)
<1>1. CASE FindRoot(start) = start
  BY <1>1
<1>2. ASSUME NEW k \in 0..Len(start), FindRoot(start) = Above(start, k),
             FindRoot(start) \in DOMAIN Sentinels
      PROVE  FindRoot(start) \in Seq(Names) /\ FindRoot(FindRoot(start)) = FindRoot(start)
  <2> DEFINE root_ == FindRoot(start)
  <2>1. root_ \in Seq(Names)
    BY <1>2, SubSeqProperties DEF Above
  <2>2. Above(root_, 0) = root_ /\ Len(root_) \in Nat
    BY <2>1, SubSeqFull DEF Above
  <2>3. 0 \in SentinelLevels(root_) /\ SentinelLevels(root_) \subseteq Nat
    BY <1>2, <2>2 DEF SentinelLevels
  <2>4. \A k2 \in SentinelLevels(root_) :
          (\A j \in SentinelLevels(root_) : k2 <= j) <=> k2 = 0
    BY <2>3
  <2>5. (CHOOSE k2 \in SentinelLevels(root_) : \A j \in SentinelLevels(root_) : k2 <= j) = 0
    BY <2>3, <2>4
  <2>6. FindRoot(root_) = root_
    BY <2>2, <2>3, <2>5 DEF FindRoot
  <2>7. QED
    BY <2>1, <2>6
<1>3. QED
  BY <1>1, <1>2, RootIsNearest

\* Exclusion is inherited: what is under an excluded directory is excluded.
THEOREM ExclusionIsInherited ==
  ASSUME NEW c, NEW path \in Seq(Names), NEW rest \in Seq(Names), IsExcluded(c, path)
  PROVE  IsExcluded(c, path \o rest)
<1>1. PICK i \in DOMAIN path : \E e \in c.excludes : UpperOf[path[i]] = UpperOf[e]
  BY DEF IsExcluded
<1>2. i \in DOMAIN (path \o rest) /\ (path \o rest)[i] = path[i]
  BY <1>1
<1>3. QED
  BY <1>1, <1>2 DEF IsExcluded

\* What a file may decode to, whatever its values.
Decodable(c) ==
  /\ c.extensions \subseteq Spellings
  /\ c.maxFileSize \in Int /\ c.minLength \in Int
  /\ DOMAIN c.extensionTypes \subseteq Spellings
  /\ \A s \in DOMAIN c.extensionTypes : c.extensionTypes[s] \in TypeNames

\* normalizeExtensions changes nothing in what it returned.
LEMMA NormalizedSettles ==
  ASSUME NEW e, e \subseteq Spellings
  PROVE  /\ Normalized(e) \subseteq Spellings
         /\ \A s \in Normalized(e) : NormalOf[s] = s
<1>1. ASSUME NEW u \in e, NormalOf[u] # NoBody
      PROVE  NormalOf[u] \in Spellings /\ NormalOf[NormalOf[u]] = NormalOf[u]
  BY <1>1, NormalAssumption
<1>2. QED
  BY <1>1 DEF Normalized

\* A set of normal spellings is its own normalization.
LEMMA NormalIsFixed ==
  ASSUME NEW e, e \subseteq Spellings, \A s \in e : NormalOf[s] = s
  PROVE  Normalized(e) = e /\ \A s \in e : NormalOf[s] # NoBody
BY NormalAssumption DEF Normalized

\* Of the keys that claim an extension one wins.
LEMMA WinnerClaims ==
  ASSUME NEW types, DOMAIN types \subseteq Spellings, NEW ext, Claims(types, ext) # {}
  PROVE  Winner(types, ext) \in Claims(types, ext)
<1> DEFINE ranks == {RankOf[s] : s \in Claims(types, ext)}
<1>1. ranks \subseteq Nat /\ ranks # {}
  BY NormalAssumption DEF Claims
<1>2. PICK r \in ranks : \A q \in ranks : r <= q
  BY <1>1, LeastLevel
<1>3. \E s \in Claims(types, ext) : \A u \in Claims(types, ext) : RankOf[s] <= RankOf[u]
  BY <1>2
<1>4. QED
  BY <1>3 DEF Winner

\* The table Validate makes maps normal keys to types there are.
LEMMA ValidTypesSettle ==
  ASSUME NEW types, DOMAIN types \subseteq Spellings,
         \A s \in DOMAIN types : types[s] \in TypeNames
  PROVE  \A ext \in DOMAIN ValidTypes(types) :
           /\ ext \in Spellings /\ KeyOf[ext] = ext
           /\ ValidTypes(types)[ext] \in TypeNames
           /\ TypeNameOf[ValidTypes(types)[ext]] = ValidTypes(types)[ext]
<1> SUFFICES ASSUME NEW ext \in DOMAIN ValidTypes(types)
             PROVE  /\ ext \in Spellings /\ KeyOf[ext] = ext
                    /\ ValidTypes(types)[ext] \in TypeNames
                    /\ TypeNameOf[ValidTypes(types)[ext]] = ValidTypes(types)[ext]
  OBVIOUS
<1> DEFINE s == Winner(types, ext)
<1>1. ext \in ClaimedTypes(types)
  BY DEF ValidTypes
<1>2. s \in Claims(types, ext) /\ ext # NoBody
  BY <1>1, WinnerClaims DEF ClaimedTypes
<1>3. s \in Spellings /\ types[s] \in TypeNames /\ KeyOf[s] = ext /\ TypeNameOf[types[s]] # NoType
  BY <1>2 DEF Claims
<1>4. ValidTypes(types)[ext] = TypeNameOf[types[s]]
  BY <1>1 DEF ValidTypes
<1>5. QED
  BY <1>2, <1>3, <1>4, NormalAssumption, TypeAssumption

\* Such a table is left as it is.
LEMMA SettledTypesStay ==
  ASSUME NEW types, types = [ext \in DOMAIN types |-> types[ext]],
         \A ext \in DOMAIN types :
           /\ ext \in Spellings /\ KeyOf[ext] = ext
           /\ types[ext] \in TypeNames /\ TypeNameOf[types[ext]] = types[ext]
  PROVE  /\ ValidTypes(types) = types
         /\ \A ext \in DOMAIN types :
              /\ ext # NoBody /\ TypeNameOf[types[ext]] # NoType
              /\ Winner(types, ext) = ext
<1>1. ASSUME NEW ext \in DOMAIN types
      PROVE  ext # NoBody /\ TypeNameOf[types[ext]] # NoType /\ Claims(types, ext) = {ext}
  BY <1>1, NormalAssumption, TypeAssumption DEF Claims
<1>2. ASSUME NEW ext \in DOMAIN types
      PROVE  Winner(types, ext) = ext
  <2>1. Winner(types, ext) \in Claims(types, ext)
    BY <1>1, <1>2, WinnerClaims
  <2>2. QED
    BY <1>1, <1>2, <2>1
<1>3. ClaimedTypes(types) = DOMAIN types
  BY <1>1 DEF ClaimedTypes, Claims
<1>4. ValidTypes(types) = types
  BY <1>2, <1>3 DEF ValidTypes
<1>5. QED
  BY <1>1, <1>2, <1>4

\* Whatever a file decodes to, Validate leaves a configuration it has nothing
\* to say about and would not change again (CR-6).
THEOREM ValidationSettles ==
  ASSUME NEW c, Decodable(c)
  PROVE  Problems(Validated(c)) = {} /\ Validated(Validated(c)) = Validated(c)
<1> DEFINE v == Validated(c)
<1>1. /\ v.extensions \subseteq Spellings /\ v.extensions # {}
      /\ \A s \in v.extensions : NormalOf[s] = s
  BY NormalizedSettles, DefaultAssumption DEF Validated, Decodable
<1>2. Normalized(v.extensions) = v.extensions /\ \A s \in v.extensions : NormalOf[s] # NoBody
  BY <1>1, NormalIsFixed
<1>3. v.maxFileSize > 0 /\ v.minLength > 0 /\ v.maxFileSize \in Int /\ v.minLength \in Int
  BY DefaultAssumption DEF Validated, Decodable
<1>4. v.cachePath # "" /\ v.excludes = c.excludes
  BY DEF Validated, Defaults
<1>5. Named(v.libraries) = DOMAIN v.libraries
  BY DEF Validated, Named
<1>6. v.libraries = [i \in Named(v.libraries) |-> v.libraries[i]]
  BY <1>5 DEF Validated
<1>7. /\ ValidTypes(v.extensionTypes) = v.extensionTypes
      /\ \A s \in DOMAIN v.extensionTypes :
           /\ KeyOf[s] = s /\ s # NoBody /\ TypeNameOf[v.extensionTypes[s]] # NoType
           /\ Winner(v.extensionTypes, s) = s
  <2> DEFINE types == ValidTypes(c.extensionTypes)
  <2>1. v.extensionTypes = types
    BY DEF Validated
  <2>2. types = [ext \in DOMAIN types |-> types[ext]]
    BY DEF ValidTypes
  <2>3. \A ext \in DOMAIN types :
          /\ ext \in Spellings /\ KeyOf[ext] = ext
          /\ types[ext] \in TypeNames /\ TypeNameOf[types[ext]] = types[ext]
    BY ValidTypesSettle DEF Decodable
  <2>4. QED
    BY <2>1, <2>2, <2>3, SettledTypesStay
<1>8. Problems(v) = {}
  <2> SUFFICES ASSUME NEW k \in Keys, k \in Problems(v) PROVE FALSE
    BY DEF Problems
  <2>1. CASE k = "extensions"
    BY <1>1, <1>2, <2>1 DEF Problems
  <2> HIDE DEF v
  <2>2. CASE k = "maxFileSize"
    BY <1>3, <2>2 DEF Problems
  <2>8. CASE k = "minLength"
    BY <1>3, <2>8 DEF Problems
  <2>3. CASE k = "cachePath"
    BY <1>4, <2>3 DEF Problems
  <2>4. CASE k = "libraries"
    BY <1>5, <2>4 DEF Problems
  <2>5. CASE k = "extensionTypes"
    BY <1>7, <2>5 DEF Problems
  <2>6. CASE k = "excludes"
    BY <2>6 DEF Problems
  <2>7. QED
    BY <2>1, <2>2, <2>3, <2>4, <2>5, <2>6, <2>8 DEF Keys
<1>9. Validated(v) = v
  <2>1. v = [extensions |-> v.extensions, excludes |-> v.excludes, maxFileSize |-> v.maxFileSize,
             extensionTypes |-> v.extensionTypes, cachePath |-> v.cachePath,
             minLength |-> v.minLength, libraries |-> v.libraries]
    BY DEF Validated
  <2>2. ~(v.maxFileSize <= 0) /\ ~(v.minLength <= 0)
    BY <1>3
  <2>3. Validated(v) =
          [extensions |-> v.extensions, excludes |-> v.excludes, maxFileSize |-> v.maxFileSize,
           extensionTypes |-> ValidTypes(v.extensionTypes), cachePath |-> v.cachePath,
           minLength |-> v.minLength,
           libraries |-> [i \in Named(v.libraries) |-> v.libraries[i]]]
    <3> HIDE DEF v
    <3> QED
      BY <1>1, <1>2, <1>4, <2>2 DEF Validated
  <2>4. QED
    BY <1>6, <1>7, <2>1, <2>3
<1>10. QED
  BY <1>8, <1>9

-------------------------------------------------------------------------------
(***************************************************************************)
(* The session.                                                            *)
(***************************************************************************)
Stages == {"none", "created", "begun", "ended", "broken"}

Seeings == [stage : Stages, percent : Int]

Watchers == [root : Seq(Names), open : BOOLEAN]

Shapes ==
  /\ state \in {"preInit", "initialized", "shutdown"}
  /\ ctxDone \in BOOLEAN /\ bgDone \in BOOLEAN /\ showsProgress \in BOOLEAN
  /\ root \in Seq(Names) \cup {NoRoot}
  /\ watchers \in Seq(Watchers)
  /\ scanned \in Nat /\ failed \in BOOLEAN
  /\ wire \in [Tokens -> Seeings]
  /\ handler = Idle \/ \E t \in ClientTokens : handler = [step |-> "diagnostic", token |-> t]
  /\ dropped \subseteq ClientTokens

\* A build is spawned once, after every handshake that can change the root.
RootOK ==
  /\ OneRoot
  /\ state = "preInit" => build = "none"

\* How far Run has come down, and what is closed and cancelled by then.
RunOK ==
  /\ ctxDone => bgDone
  /\ stream = "closedByContext" => ctxDone
  /\ stream \notin {"open", "closedByContext"} => stream = "closedByRun" /\ run = "returned"
  /\ run # "loop" => handler = Idle
  /\ run \in {"join", "closeWatcher", "closeStream", "returned"} => bgDone
  /\ run \in {"closeWatcher", "closeStream", "returned"} => build \in {"none", "over"}
  /\ run \in {"closeStream", "returned"} /\ watchers # <<>> => ~watchers[Len(watchers)].open
  /\ run = "returned" => stream # "open"

\* What the client has seen of the build, at each point of it.
BuildOK ==
  LET seen == wire[BuildToken]
      told == showsProgress /\ ~bgDone
  IN  /\ build \in {"none", "create"} => seen.stage = "none"
      /\ build = "begin" =>
           /\ seen.stage \in {"none", "created"}
           /\ told => seen.stage = "created"
      /\ build \in {"scan", "guard", "publish", "end"} =>
           /\ seen.stage \in {"none", "created", "begun"}
           /\ told => seen.stage = "begun"
      /\ build = "scan" /\ told /\ FileCount > 0 =>
           seen.percent <= Percentage(scanned, FileCount)
      /\ build \in {"end", "warn"} => published = ~failed
      /\ build \in {"warn", "over"} =>
           /\ seen.stage # "broken"
           /\ seen.stage \in {"created", "begun"} => bgDone
           /\ seen.stage = "ended" => published = ~failed
      /\ build # "none" /\ ~showsProgress => seen.stage = "none"
      /\ build \in {"none", "create", "begin", "scan", "guard", "publish", "end", "warn", "over"}

\* What the client has seen of a progress of its own.
TokenOK(t) ==
  /\ wire[t].stage \in {"none", "begun", "ended"}
  /\ state = "preInit" \/ ~showsProgress => wire[t].stage = "none"
  /\ wire[t].stage = "begun" => ctxDone \/ handler = [step |-> "diagnostic", token |-> t]
  /\ handler = [step |-> "diagnostic", token |-> t] /\ showsProgress /\ ~ctxDone =>
       wire[t].stage = "begun"

IInv ==
  /\ Shapes /\ RootOK /\ RunOK /\ BuildOK
  /\ \A t \in ClientTokens \ dropped : TokenOK(t)

\* The invariant says what the three properties say.
LEMMA InvariantSuffices == IInv => OneRoot /\ ProgressEnds /\ NothingOutlivesRun
<1> SUFFICES ASSUME IInv PROVE OneRoot /\ ProgressEnds /\ NothingOutlivesRun
  OBVIOUS
<1>1. OneRoot
  BY DEF IInv, RootOK
<1>2. ProgressEnds
  <2>1. \A t \in ClientTokens \ dropped :
          /\ wire[t].stage # "broken"
          /\ wire[t].stage \in {"created", "begun"} =>
               ctxDone \/ handler = [step |-> "diagnostic", token |-> t]
    BY DEF IInv, TokenOK
  <2>2. /\ wire[BuildToken].stage # "broken"
        /\ wire[BuildToken].stage = "ended" => published = ~failed
        /\ build = "over" /\ wire[BuildToken].stage \in {"created", "begun"} => bgDone
    BY DEF IInv, BuildOK
  <2>3. QED
    BY <2>1, <2>2 DEF ProgressEnds, Tokens
<1>3. NothingOutlivesRun
  BY DEF IInv, RunOK, NothingOutlivesRun
<1>4. QED
  BY <1>1, <1>2, <1>3

LEMMA InvariantInit == Init => IInv
<1> SUFFICES ASSUME Init PROVE IInv
  OBVIOUS
<1>1. wire \in [Tokens -> Seeings] /\ \A t \in Tokens : wire[t].stage = "none"
  BY DEF Init, Unseen, Seeings, Stages
<1>2. Shapes
  <2>1. watchers \in Seq(Watchers)
    BY DEF Init
  <2>2. QED
    BY <1>1, <2>1 DEF Init, Shapes
<1>3. RootOK
  BY DEF Init, RootOK, OneRoot
<1>7. RunOK
  <2>1. run = "loop" /\ stream = "open" /\ handler = Idle /\ ~ctxDone
    BY DEF Init
  <2>2. QED
    BY <2>1 DEF RunOK
<1>4. BuildOK
  BY <1>1 DEF Init, BuildOK, Tokens
<1>5. \A t \in ClientTokens \ dropped : TokenOK(t)
  BY <1>1 DEF Init, TokenOK, Tokens, Idle
<1>6. QED
  BY <1>2, <1>3, <1>4, <1>5, <1>7 DEF IInv

-------------------------------------------------------------------------------
\* A message concerns its token alone.
LEMMA SendKeeps ==
  ASSUME wire \in [Tokens -> Seeings], NEW token \in Tokens, NEW c \in BOOLEAN,
         NEW kind \in {"create", "begin", "report", "end"}, NEW percent \in Int,
         Send(c, token, kind, percent)
  PROVE  /\ wire' \in [Tokens -> Seeings]
         /\ \A t \in Tokens \ {token} : wire'[t] = wire[t]
         /\ IF showsProgress /\ ~c /\ stream = "open"
              THEN wire'[token] = Seeing(token, kind, percent) ELSE wire' = wire
<1>1. Seeing(token, kind, percent) \in Seeings
  BY DEF Seeing, Seeings, Stages
<1>2. QED
  BY <1>1 DEF Send

LEMMA SendOpeningKeeps ==
  ASSUME wire \in [Tokens -> Seeings], NEW token \in Tokens, NEW c \in BOOLEAN,
         SendOpening(c, token)
  PROVE  /\ wire' \in [Tokens -> Seeings]
         /\ \A t \in Tokens \ {token} : wire'[t] = wire[t]
         /\ IF showsProgress /\ ~c /\ stream = "open"
              THEN wire'[token].stage = IF wire[token].stage \in {"none", "ended"}
                                          THEN "begun" ELSE "broken"
              ELSE wire' = wire
BY DEF SendOpening, Seeings, Stages

\* progressReporter.report: percentages never fall, and are never negative.
LEMMA PercentageGrows ==
  ASSUME NEW total \in Nat, total > 0, NEW current \in Nat
  PROVE  /\ Percentage(current, total) \in Nat
         /\ Percentage(current, total) <= Percentage(current + 1, total)
<1> DEFINE a == current * 100 + total \div 2
           b == (current + 1) * 100 + total \div 2
<1>1. total \div 2 \in Nat
  OBVIOUS
<1>2. a \in Nat /\ b \in Nat /\ a <= b
  BY <1>1
<1>3. a \div total \in Nat /\ b \div total \in Nat /\ a \div total <= b \div total
  <2> HIDE DEF a, b
  <2> QED
    BY <1>2
<1>4. QED
  BY <1>3 DEF Percentage

-------------------------------------------------------------------------------
(***************************************************************************)
(* Every step keeps every part.                                            *)
(***************************************************************************)
\* The steps of the loop that send no progress and settle no root.
Plain == \/ Shutdown \/ Exit \/ Request \/ Refuse
         \/ \E truncated \in BOOLEAN : ReadEnds(truncated)

\* The steps of the build that send nothing.
Silent == \/ BuildScanned \/ BuildFails \/ BuildAborts
          \/ BuildGoesOn \/ BuildPublishes \/ BuildWarns

\* The steps from outside, and of the context watcher.
Outside == Interrupt \/ ContextWatcherCloses \/ ContextWatcherExits

\* What initialize settles is a directory.
LEMMA RootStartIsDirectory ==
  ASSUME NEW p \in Requests
  PROVE  RootStart(p) \in Seq(Names)
<1>1. CASE p.folders # <<>> /\ p.folders[1] # NoRoot
  <2>1. p.folders[1] \in Seq(Names) \cup {NoRoot}
    BY <1>1, SessionAssumption
  <2>2. QED
    BY <1>1, <2>1 DEF RootStart
<1>2. CASE ~(p.folders # <<>> /\ p.folders[1] # NoRoot)
  BY <1>2, SessionAssumption DEF RootStart
<1>3. QED
  BY <1>1, <1>2

\* Closing the watcher in force closes the last.
LEMMA LastIsClosed ==
  ASSUME NEW w \in Seq(Watchers), w # <<>>
  PROVE  LET closed == [w EXCEPT ![Len(w)].open = FALSE]
         IN  closed \in Seq(Watchers) /\ Len(closed) = Len(w) /\ closed[Len(w)].open = FALSE
<1> DEFINE last == [w[Len(w)] EXCEPT !.open = FALSE]
<1>1. Len(w) \in Nat /\ Len(w) # 0
  BY EmptySeq, LenProperties
<1>2. w[Len(w)] \in Watchers
  BY <1>1, ElementOfSeq
<1>3. last \in Watchers /\ last.open = FALSE
  BY <1>2 DEF Watchers
<1>4. Len(w) \in 1..Len(w)
  BY <1>1
<1>5. [w EXCEPT ![Len(w)].open = FALSE] = [w EXCEPT ![Len(w)] = last]
  OBVIOUS
<1>6. /\ [w EXCEPT ![Len(w)] = last] \in Seq(Watchers)
      /\ Len([w EXCEPT ![Len(w)] = last]) = Len(w)
      /\ [w EXCEPT ![Len(w)] = last][Len(w)] = last
  <2> HIDE DEF last
  <2> QED
    BY <1>3, <1>4, ExceptSeq
<1>7. QED
  BY <1>3, <1>5, <1>6

LEMMA ShapesStep == IInv /\ Next => Shapes'
<1> SUFFICES ASSUME IInv, Next PROVE Shapes'
  OBVIOUS
<1> USE DEF contextVars, rootVars, buildVars, BuildKeeps, DeferKeeps
<1>0. Shapes /\ BuildToken \in Tokens /\ ClientTokens \subseteq Tokens /\ FileCount \in Nat
  BY SessionAssumption DEF IInv, Tokens
<1>1. CASE Plain
  BY <1>0, <1>1 DEF Plain, Shutdown, Exit, Request, Refuse, ReadEnds, Receive, Respond, Leave, Shapes
<1>2. ASSUME NEW p \in Requests, NEW watching \in BOOLEAN, Initialize(p, watching)
      PROVE  Shapes'
  <2> DEFINE found == FindRoot(RootStart(p))
  <2>1. found \in Seq(Names)
    BY RootStartIsDirectory, RootIsItsOwn
  <2>2. root' = found /\ watchers' \in Seq(Watchers)
    <3>1. [root |-> found, open |-> TRUE] \in Watchers
      BY <2>1 DEF Watchers
    <3>2. Append(watchers, [root |-> found, open |-> TRUE]) \in Seq(Watchers)
      BY <1>0, <3>1, AppendProperties DEF Shapes
    <3>3. QED
      BY <1>0, <1>2, <3>2 DEF Initialize, Shapes
  <2>3. showsProgress' \in BOOLEAN
    BY <1>2, SessionAssumption DEF Initialize
  <2>4. QED
    BY <1>0, <1>2, <2>1, <2>2, <2>3 DEF Initialize, Shapes
<1>3. CASE Initialized
  BY <1>0, <1>3 DEF Initialized, Receive, Shapes
<1>4. ASSUME NEW t \in ClientTokens, Diagnostic(t)
      PROVE  Shapes'
  BY <1>0, <1>4, SendOpeningKeeps DEF Diagnostic, Shapes
<1>5. CASE DiagnosticEnds \/ DiagnosticFails
  <2>1. PICK t \in ClientTokens : handler = [step |-> "diagnostic", token |-> t]
    BY <1>0, <1>5 DEF DiagnosticEnds, DiagnosticFails, Shapes, Idle
  <2>2. Send(ctxDone, t, "end", 0) /\ handler' = Idle
    BY <1>5, <2>1 DEF DiagnosticEnds, DiagnosticFails
  <2>3. wire' \in [Tokens -> Seeings]
    BY <1>0, <2>2, SendKeeps DEF Shapes
  <2>4. QED
    BY <1>0, <1>5, <2>2, <2>3 DEF DiagnosticEnds, DiagnosticFails, Respond, Leave, Shapes
<1>6. CASE DiagnosticPanics
  BY <1>0, <1>6 DEF DiagnosticPanics, Shapes, Idle
<1>7. CASE Silent
  BY <1>0, <1>7 DEF Silent, BuildScanned, BuildFails, BuildAborts, BuildGoesOn, BuildPublishes, BuildWarns, Shapes
<1>8. CASE BuildCreates \/ BuildBegins \/ BuildEnds
  <2>1. wire' \in [Tokens -> Seeings]
    BY <1>0, <1>8, SendKeeps DEF BuildCreates, BuildBegins, BuildEnds, Shapes
  <2>2. QED
    BY <1>0, <1>8, <2>1 DEF BuildCreates, BuildBegins, BuildEnds, Shapes
<1>9. CASE BuildScans
  <2>1. scanned' \in Nat /\ FileCount > 0
    BY <1>0, <1>9 DEF BuildScans, Shapes
  <2>2. Percentage(scanned', FileCount) \in Int
    BY <1>0, <2>1, PercentageGrows
  <2>3. wire' \in [Tokens -> Seeings]
    BY <1>0, <1>9, <2>2, SendKeeps DEF BuildScans, Shapes
  <2>4. QED
    BY <1>0, <1>9, <2>1, <2>3 DEF BuildScans, Shapes
<1>10. CASE RunStep
  <2>1. watchers' \in Seq(Watchers)
    <3>1. CASE CloseWatcher
      <4>1. CASE watchers = <<>>
        BY <1>0, <3>1, <4>1 DEF CloseWatcher, Shapes
      <4>2. CASE watchers # <<>>
        BY <1>0, <3>1, <4>2, LastIsClosed DEF CloseWatcher, Shapes
      <4>3. QED
        BY <4>1, <4>2
    <3>2. CASE CloseDone \/ CancelBuild \/ JoinBuild \/ CloseStream
      BY <1>0, <3>2 DEF CloseDone, CancelBuild, JoinBuild, CloseStream, Shapes
    <3>3. QED
      BY <1>10, <3>1, <3>2 DEF RunStep
  <2>2. QED
    BY <1>0, <1>10, <2>1 DEF RunStep, CloseDone, CancelBuild, JoinBuild, CloseWatcher, CloseStream, Shapes
<1>11. CASE Outside
  BY <1>0, <1>11 DEF Outside, Interrupt, ContextWatcherCloses, ContextWatcherExits, Shapes
<1>12. CASE Returned
  BY <1>0, <1>12 DEF Returned, vars, Shapes
<1>13. QED
  BY <1>1, <1>2, <1>3, <1>4, <1>5, <1>6, <1>7, <1>8, <1>9, <1>10, <1>11, <1>12
     DEF Next, LoopStep, BuildStep, Plain, Silent, Outside

LEMMA RootStep == IInv /\ Next => RootOK'
<1> SUFFICES ASSUME IInv, Next PROVE RootOK'
  OBVIOUS
<1> USE DEF contextVars, rootVars, buildVars, BuildKeeps, DeferKeeps
<1>0. RootOK
  BY DEF IInv
<1>1. CASE Plain
  BY <1>0, <1>1 DEF Plain, Shutdown, Exit, Request, Refuse, ReadEnds, RootOK, OneRoot
<1>2. ASSUME NEW p \in Requests, NEW watching \in BOOLEAN, Initialize(p, watching)
      PROVE  RootOK'
  <2>1. build' = "none" /\ state' = state
    BY <1>0, <1>2 DEF Initialize, RootOK
  <2>2. /\ root' = FindRoot(RootStart(p)) /\ store' = root' /\ config' = ConfigOf(root')
    BY <1>2 DEF Initialize
  <2>3. FindRoot(root') = root'
    BY <2>2, RootStartIsDirectory, RootIsItsOwn
  <2>4. QED
    BY <2>1, <2>2, <2>3 DEF RootOK, OneRoot
<1>3. CASE Initialized
  BY <1>0, <1>3 DEF Initialized, RootOK, OneRoot
<1>4. CASE DiagnosticEnds \/ DiagnosticFails \/ DiagnosticPanics \/ \E t \in ClientTokens : Diagnostic(t)
  BY <1>0, <1>4 DEF DiagnosticEnds, DiagnosticFails, DiagnosticPanics, Diagnostic, RootOK, OneRoot
<1>5. CASE BuildStep
  BY <1>0, <1>5 DEF BuildStep, BuildCreates, BuildBegins, BuildScans, BuildScanned, BuildFails, BuildAborts,
                    BuildGoesOn, BuildPublishes, BuildEnds, BuildWarns, RootOK, OneRoot
<1>6. CASE RunStep
  BY <1>0, <1>6 DEF RunStep, CloseDone, CancelBuild, JoinBuild, CloseWatcher, CloseStream, RootOK, OneRoot
<1>7. CASE Outside \/ Returned
  BY <1>0, <1>7 DEF Outside, Interrupt, ContextWatcherCloses, ContextWatcherExits, Returned, vars,
                    RootOK, OneRoot
<1>8. QED
  BY <1>1, <1>2, <1>3, <1>4, <1>5, <1>6, <1>7 DEF Next, LoopStep, Plain, Outside

LEMMA RunOKStep == IInv /\ Next => RunOK'
<1> SUFFICES ASSUME IInv, Next PROVE RunOK'
  OBVIOUS
<1> USE DEF contextVars, rootVars, buildVars, BuildKeeps, DeferKeeps
<1>0. Shapes /\ RunOK
  BY DEF IInv
<1>1. CASE Plain
  BY <1>0, <1>1 DEF Plain, Shutdown, Exit, Request, Refuse, ReadEnds, Receive, Respond, Leave, RunOK
<1>2. CASE \E p \in Requests, watching \in BOOLEAN : Initialize(p, watching)
  <2>1. /\ run = "loop" /\ run' \in {"loop", "done"} /\ handler = Idle
        /\ UNCHANGED <<ctxDone, bgDone, stream, build, handler>>
    BY <1>2 DEF Initialize, Receive, Respond, Leave
  <2>2. QED
    BY <1>0, <2>1 DEF RunOK
<1>3. CASE Initialized \/ \E t \in ClientTokens : Diagnostic(t)
  BY <1>0, <1>3 DEF Initialized, Diagnostic, Receive, RunOK
<1>4. CASE DiagnosticEnds \/ DiagnosticFails \/ DiagnosticPanics
  <2>1. run = "loop"
    BY <1>0, <1>4 DEF DiagnosticEnds, DiagnosticFails, DiagnosticPanics, RunOK, Idle
  <2>2. /\ run' \in {"loop", "done"} /\ handler' = Idle
        /\ UNCHANGED <<ctxDone, bgDone, stream, build, watchers>>
    BY <1>4, <2>1 DEF DiagnosticEnds, DiagnosticFails, DiagnosticPanics, Respond, Leave
  <2>3. QED
    BY <1>0, <2>1, <2>2 DEF RunOK
<1>5. CASE BuildStep
  <2>1. build \notin {"none", "over"}
    BY <1>5 DEF BuildStep, BuildCreates, BuildBegins, BuildScans, BuildScanned, BuildFails, BuildAborts,
                BuildGoesOn, BuildPublishes, BuildEnds, BuildWarns
  <2>2. UNCHANGED <<run, ctxDone, bgDone, stream, handler, watchers>>
    BY <1>5 DEF BuildStep, BuildCreates, BuildBegins, BuildScans, BuildScanned, BuildFails, BuildAborts,
                BuildGoesOn, BuildPublishes, BuildEnds, BuildWarns
  <2>3. QED
    BY <1>0, <2>1, <2>2 DEF RunOK
<1>6. CASE CloseDone \/ CancelBuild \/ JoinBuild \/ CloseStream
  BY <1>0, <1>6 DEF CloseDone, CancelBuild, JoinBuild, CloseStream, RunOK
<1>7. CASE CloseWatcher
  <2>1. watchers' # <<>> => watchers'[Len(watchers')].open = FALSE
    <3>1. CASE watchers = <<>>
      BY <1>7, <3>1 DEF CloseWatcher
    <3>2. CASE watchers # <<>>
      BY <1>0, <1>7, <3>2, LastIsClosed DEF CloseWatcher, Shapes
    <3>3. QED
      BY <3>1, <3>2
  <2>2. /\ run = "closeWatcher" /\ run' = "closeStream"
        /\ UNCHANGED <<ctxDone, bgDone, stream, build, handler>>
    BY <1>7 DEF CloseWatcher
  <2>3. QED
    BY <1>0, <2>1, <2>2 DEF RunOK
<1>8. CASE Outside \/ Returned
  BY <1>0, <1>8 DEF Outside, Interrupt, ContextWatcherCloses, ContextWatcherExits, Returned, vars, RunOK
<1>9. QED
  BY <1>1, <1>2, <1>3, <1>4, <1>5, <1>6, <1>7, <1>8 DEF Next, LoopStep, RunStep, Plain, Outside

\* What leaves the build's progress alone, or only cancels it.
LEMMA BuildFrame ==
  ASSUME BuildOK, UNCHANGED <<build, showsProgress, scanned, failed, published>>,
         wire'[BuildToken] = wire[BuildToken], bgDone => bgDone'
  PROVE  BuildOK'
BY DEF BuildOK

LEMMA BuildOKStep == IInv /\ Next => BuildOK'
<1> SUFFICES ASSUME IInv, Next PROVE BuildOK'
  OBVIOUS
<1> USE DEF contextVars, rootVars, buildVars, BuildKeeps, DeferKeeps
<1>0. /\ Shapes /\ RootOK /\ RunOK /\ BuildOK
      /\ BuildToken \in Tokens /\ BuildToken \notin ClientTokens /\ ClientTokens \subseteq Tokens
      /\ FileCount \in Nat
  BY SessionAssumption DEF IInv, Tokens
<1>a. wire \in [Tokens -> Seeings] /\ ctxDone \in BOOLEAN /\ bgDone \in BOOLEAN
  BY <1>0 DEF Shapes
<1>1. CASE Plain
  <2>1. UNCHANGED <<build, showsProgress, scanned, failed, published, wire>> /\ (bgDone => bgDone')
    BY <1>1 DEF Plain, Shutdown, Exit, Request, Refuse, ReadEnds
  <2>2. QED
    BY <1>0, <2>1, BuildFrame
<1>2. CASE \E p \in Requests, watching \in BOOLEAN : Initialize(p, watching)
  BY <1>0, <1>2 DEF Initialize, RootOK, BuildOK
<1>3. CASE Initialized
  BY <1>0, <1>3 DEF Initialized, RootOK, BuildOK
<1>4. ASSUME NEW t \in ClientTokens, Diagnostic(t)
      PROVE  BuildOK'
  <2>1. UNCHANGED <<build, showsProgress, scanned, failed, published, bgDone>>
    BY <1>4 DEF Diagnostic
  <2>2. wire'[BuildToken] = wire[BuildToken]
    BY <1>0, <1>a, <1>4, SendOpeningKeeps DEF Diagnostic
  <2>3. QED
    BY <1>0, <2>1, <2>2, BuildFrame
<1>5. CASE DiagnosticEnds \/ DiagnosticFails
  <2>1. PICK t \in ClientTokens : handler = [step |-> "diagnostic", token |-> t]
    BY <1>0, <1>5 DEF DiagnosticEnds, DiagnosticFails, Shapes, Idle
  <2>2. Send(ctxDone, t, "end", 0) /\ UNCHANGED <<build, showsProgress, scanned, failed, published, bgDone>>
    BY <1>5, <2>1 DEF DiagnosticEnds, DiagnosticFails
  <2>3. wire'[BuildToken] = wire[BuildToken]
    BY <1>0, <1>a, <2>2, SendKeeps
  <2>4. QED
    BY <1>0, <2>2, <2>3, BuildFrame
<1>6. CASE DiagnosticPanics \/ RunStep \/ Outside \/ Returned
  <2>1. UNCHANGED <<build, showsProgress, scanned, failed, published, wire>> /\ (bgDone => bgDone')
    BY <1>6 DEF DiagnosticPanics, RunStep, CloseDone, CancelBuild, JoinBuild, CloseWatcher,
                CloseStream, Outside, Interrupt, ContextWatcherCloses, ContextWatcherExits,
                Returned, vars
  <2>2. QED
    BY <1>0, <2>1, BuildFrame
<1>7. CASE Silent
  BY <1>0, <1>7 DEF Silent, BuildScanned, BuildFails, BuildAborts, BuildGoesOn, BuildPublishes, BuildWarns, BuildOK
<1>b. ~bgDone => stream = "open"
  BY <1>0 DEF RunOK
<1>8. CASE BuildCreates
  <2>1. Send(bgDone, BuildToken, "create", 0)
    BY <1>8 DEF BuildCreates
  <2>2. IF showsProgress /\ ~bgDone
          THEN wire'[BuildToken] = Seeing(BuildToken, "create", 0) ELSE wire' = wire
    BY <1>0, <1>a, <1>b, <2>1, SendKeeps
  <2>3. QED
    BY <1>0, <1>8, <2>2 DEF BuildCreates, BuildOK, Seeing
<1>9. CASE BuildBegins
  <2>1. Send(bgDone, BuildToken, "begin", 0)
    BY <1>9 DEF BuildBegins
  <2>2. IF showsProgress /\ ~bgDone
          THEN wire'[BuildToken] = Seeing(BuildToken, "begin", 0) ELSE wire' = wire
    BY <1>0, <1>a, <1>b, <2>1, SendKeeps
  <2>3. FileCount > 0 => 0 <= Percentage(scanned, FileCount)
    BY <1>0, PercentageGrows DEF Shapes
  <2>4. QED
    BY <1>0, <1>9, <2>2, <2>3 DEF BuildBegins, BuildOK, Seeing
<1>10. CASE BuildScans
  <2>1. scanned \in Nat /\ scanned' = scanned + 1 /\ FileCount > 0
    BY <1>0, <1>10 DEF BuildScans, Shapes
  <2>2. /\ Percentage(scanned', FileCount) \in Int
        /\ Percentage(scanned, FileCount) <= Percentage(scanned', FileCount)
        /\ Percentage(scanned, FileCount) \in Int
    BY <1>0, <2>1, PercentageGrows
  <2>3. Send(bgDone, BuildToken, "report", Percentage(scanned', FileCount))
    BY <1>10 DEF BuildScans
  <2>4. IF showsProgress /\ ~bgDone
          THEN wire'[BuildToken] = Seeing(BuildToken, "report", Percentage(scanned', FileCount))
          ELSE wire' = wire
    BY <1>0, <1>a, <1>b, <2>2, <2>3, SendKeeps
  <2>5. wire[BuildToken].percent \in Int
    BY <1>0, <1>a DEF Seeings
  <2>6. UNCHANGED <<build, bgDone, showsProgress, published>> /\ build = "scan" /\ ~bgDone
    BY <1>10 DEF BuildScans
  <2>7. CASE ~showsProgress
    BY <1>0, <2>4, <2>6, <2>7 DEF BuildOK
  <2>8. CASE showsProgress
    <3>1. wire[BuildToken].stage = "begun" /\ wire[BuildToken].percent <= Percentage(scanned, FileCount)
      BY <1>0, <2>1, <2>6, <2>8 DEF BuildOK
    <3>2. wire'[BuildToken] = [stage |-> "begun", percent |-> Percentage(scanned', FileCount)]
      BY <2>2, <2>4, <2>5, <2>6, <2>8, <3>1 DEF Seeing
    <3>3. Percentage(scanned', FileCount) = Percentage(scanned, FileCount)'
      BY DEF Percentage
    <3>4. QED
      BY <2>2, <2>6, <2>8, <3>2, <3>3 DEF BuildOK
  <2>9. QED
    BY <2>7, <2>8
<1>11. CASE BuildEnds
  <2>1. Send(bgDone, BuildToken, "end", 0)
    BY <1>11 DEF BuildEnds
  <2>2. IF showsProgress /\ ~bgDone
          THEN wire'[BuildToken] = Seeing(BuildToken, "end", 0) ELSE wire' = wire
    BY <1>0, <1>a, <1>b, <2>1, SendKeeps
  <2>3. QED
    BY <1>0, <1>11, <2>2 DEF BuildEnds, BuildOK, Seeing
<1>12. QED
  BY <1>1, <1>2, <1>3, <1>4, <1>5, <1>6, <1>7, <1>8, <1>9, <1>10, <1>11
     DEF Next, LoopStep, BuildStep, Plain, Silent, Outside

\* What leaves a progress of the client's alone.
LEMMA TokenFrame ==
  ASSUME NEW t, TokenOK(t), wire'[t] = wire[t], UNCHANGED <<handler, showsProgress>>,
         ctxDone => ctxDone', state' = "preInit" => state = "preInit"
  PROVE  TokenOK(t)'
BY DEF TokenOK

LEMMA TokenOKStep == IInv /\ Next => \A t \in ClientTokens \ dropped' : TokenOK(t)'
<1> SUFFICES ASSUME IInv, Next, NEW t \in ClientTokens \ dropped' PROVE TokenOK(t)'
  BY DEF IInv
<1> USE DEF contextVars, rootVars, buildVars, BuildKeeps, DeferKeeps
<1> DEFINE Mine == [step |-> "diagnostic", token |-> t]
<1>0. /\ Shapes /\ RunOK /\ BuildToken \in Tokens /\ t \in Tokens /\ t # BuildToken
      /\ ClientTokens \subseteq Tokens /\ FileCount \in Nat
  BY SessionAssumption DEF IInv, Tokens
<1>a. wire \in [Tokens -> Seeings] /\ ctxDone \in BOOLEAN /\ bgDone \in BOOLEAN
  BY <1>0 DEF Shapes
<1>b. t \notin dropped
  BY DEF Next, LoopStep, Initialize, Initialized, Shutdown, Exit, Request, Refuse, Diagnostic,
         DiagnosticEnds, DiagnosticFails, DiagnosticPanics, ReadEnds, BuildStep, BuildCreates,
         BuildBegins, BuildScans, BuildScanned, BuildFails, BuildAborts, BuildGoesOn, BuildPublishes, BuildEnds,
         BuildWarns, RunStep, CloseDone, CancelBuild, JoinBuild, CloseWatcher, CloseStream, Interrupt,
         ContextWatcherCloses, ContextWatcherExits, Returned, vars
<1>c. TokenOK(t)
  BY <1>b DEF IInv
<1>1. CASE Plain \/ Initialized \/ RunStep \/ Outside \/ Returned \/ Silent
  <2>1. /\ UNCHANGED <<handler, showsProgress, wire>> /\ (ctxDone => ctxDone')
        /\ state' = "preInit" => state = "preInit"
    BY <1>1 DEF Plain, Shutdown, Exit, Request, Refuse, ReadEnds, Initialized, RunStep, CloseDone,
                CancelBuild, JoinBuild, CloseWatcher, CloseStream, Outside, Interrupt,
                ContextWatcherCloses, ContextWatcherExits, Returned, vars, Silent, BuildScanned, BuildFails,
                BuildAborts, BuildGoesOn, BuildPublishes, BuildWarns
  <2>2. QED
    BY <1>c, <2>1, TokenFrame
<1>2. CASE \E p \in Requests, watching \in BOOLEAN : Initialize(p, watching)
  <2>1. state = "preInit" /\ handler = Idle /\ UNCHANGED <<state, handler, wire, ctxDone>>
    BY <1>2 DEF Initialize, Receive
  <2>2. QED
    BY <1>c, <2>1 DEF TokenOK, Idle
<1>3. ASSUME NEW u \in ClientTokens, Diagnostic(u)
      PROVE  TokenOK(t)'
  <2>1. /\ SendOpening(ctxDone, u) /\ run = "loop" /\ handler = Idle
        /\ handler' = [step |-> "diagnostic", token |-> u] /\ UNCHANGED <<showsProgress, ctxDone>>
        /\ state = "initialized" /\ state' = "initialized"
    BY <1>3 DEF Diagnostic, Receive
  <2>2. ~ctxDone => stream = "open"
    BY <1>0, <2>1 DEF RunOK
  <2>3. wire[t].stage = "begun" => ctxDone
    BY <1>c, <2>1 DEF TokenOK, Idle
  <2>4. CASE u = t
    <3>1. IF showsProgress /\ ~ctxDone
            THEN wire'[t].stage = IF wire[t].stage \in {"none", "ended"} THEN "begun" ELSE "broken"
            ELSE wire' = wire
      BY <1>0, <1>a, <2>1, <2>2, <2>4, SendOpeningKeeps
    <3>2. QED
      BY <1>c, <2>1, <2>3, <2>4, <3>1 DEF TokenOK
  <2>5. CASE u # t
    <3>1. wire'[t] = wire[t] /\ handler' # Mine
      BY <1>0, <1>a, <2>1, <2>5, SendOpeningKeeps
    <3>2. QED
      BY <1>c, <2>1, <2>3, <3>1 DEF TokenOK
  <2>6. QED
    BY <2>4, <2>5
<1>4. CASE DiagnosticEnds \/ DiagnosticFails
  <2>1. PICK u \in ClientTokens : handler = [step |-> "diagnostic", token |-> u]
    BY <1>0, <1>4 DEF DiagnosticEnds, DiagnosticFails, Shapes, Idle
  <2>2. Send(ctxDone, u, "end", 0) /\ handler' = Idle /\ UNCHANGED <<showsProgress, ctxDone, state>>
    BY <1>4, <2>1 DEF DiagnosticEnds, DiagnosticFails
  <2>3. run = "loop"
    BY <1>0, <2>1 DEF RunOK, Idle
  <2>4. ~ctxDone => stream = "open"
    BY <1>0, <2>3 DEF RunOK
  <2>5. CASE u = t
    <3>1. IF showsProgress /\ ~ctxDone
            THEN wire'[t] = Seeing(t, "end", 0) ELSE wire' = wire
      BY <1>0, <1>a, <2>2, <2>4, <2>5, SendKeeps
    <3>2. showsProgress /\ ~ctxDone => wire[t].stage = "begun"
      BY <1>c, <2>1, <2>5 DEF TokenOK
    <3>3. QED
      BY <1>c, <2>1, <2>2, <2>5, <3>1, <3>2 DEF TokenOK, Seeing, Idle
  <2>6. CASE u # t
    <3>1. wire'[t] = wire[t] /\ handler # Mine
      BY <1>0, <1>a, <2>1, <2>2, <2>6, SendKeeps
    <3>2. QED
      BY <1>c, <2>2, <3>1 DEF TokenOK, Idle
  <2>7. QED
    BY <2>5, <2>6
<1>5. CASE DiagnosticPanics
  <2>1. handler # Mine /\ handler' = Idle /\ UNCHANGED <<wire, showsProgress, ctxDone, state>>
    BY <1>5 DEF DiagnosticPanics
  <2>2. QED
    BY <1>c, <2>1 DEF TokenOK, Idle
<1>6. CASE BuildCreates \/ BuildBegins \/ BuildEnds \/ BuildScans
  <2>1. wire'[t] = wire[t]
    <3>1. CASE BuildCreates \/ BuildBegins \/ BuildEnds
      BY <1>0, <1>a, <3>1, SendKeeps DEF BuildCreates, BuildBegins, BuildEnds
    <3>2. CASE BuildScans
      <4>1. scanned' \in Nat /\ FileCount > 0
        BY <1>0, <3>2 DEF BuildScans, Shapes
      <4>2. Percentage(scanned', FileCount) \in Int
        BY <1>0, <4>1, PercentageGrows
      <4>3. QED
        BY <1>0, <1>a, <3>2, <4>2, SendKeeps DEF BuildScans
    <3>3. QED
      BY <1>6, <3>1, <3>2
  <2>2. UNCHANGED <<handler, showsProgress, ctxDone, state>>
    BY <1>6 DEF BuildCreates, BuildBegins, BuildEnds, BuildScans
  <2>3. QED
    BY <1>c, <2>1, <2>2, TokenFrame
<1>7. QED
  BY <1>1, <1>2, <1>3, <1>4, <1>5, <1>6
     DEF Next, LoopStep, BuildStep, Plain, Silent, Outside

LEMMA InvariantStutters == IInv /\ UNCHANGED vars => IInv'
<1> SUFFICES ASSUME IInv, UNCHANGED vars PROVE IInv'
  OBVIOUS
<1> USE DEF vars, contextVars, rootVars, buildVars
<1>1. Shapes'
  BY DEF IInv, Shapes
<1>2. RootOK' /\ RunOK'
  BY DEF IInv, RootOK, OneRoot, RunOK
<1>3. BuildOK'
  BY BuildFrame DEF IInv
<1>4. \A t \in ClientTokens \ dropped' : TokenOK(t)'
  BY DEF IInv, TokenOK
<1>5. QED
  BY <1>1, <1>2, <1>3, <1>4 DEF IInv

THEOREM Invariant == Spec => []IInv
<1>1. Init => IInv
  BY InvariantInit
<1>2. IInv /\ [Next]_vars => IInv'
  <2>1. IInv /\ Next => IInv'
    BY ShapesStep, RootStep, RunOKStep, BuildOKStep, TokenOKStep DEF IInv
  <2>2. QED
    BY <2>1, InvariantStutters
<1>3. QED
  BY <1>1, <1>2, PTL DEF Spec

\* Whatever handshakes the client tries, the configuration, the store and the
\* build follow one root (server.go:1001, :580).
THEOREM OneRootAlways == Spec => []OneRoot
BY Invariant, InvariantSuffices, PTL

\* Every progress is well formed, and closed unless its handler panicked or the
\* work was cancelled; a build that ended has published or failed (progress.go,
\* server.go:644-705).
THEOREM ProgressEndsAlways == Spec => []ProgressEnds
BY Invariant, InvariantSuffices, PTL

\* The build is over, the stream closed and the watcher in force closed when Run
\* returns, and the build never finds the stream closed by Run (server.go:463).
THEOREM NothingOutlivesRunAlways == Spec => []NothingOutlivesRun
BY Invariant, InvariantSuffices, PTL

===============================================================================
