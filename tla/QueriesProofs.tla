----------------------------- MODULE QueriesProofs -----------------------------
(***************************************************************************)
(* Of the index of IndexUpdates and the providers of Queries that read it: *)
(* an incremental pass gives what a full pass gives, the lookups follow    *)
(* the edges, and the providers agree with one another, for every          *)
(* workspace, library map and sequence of updates.                         *)
(***************************************************************************)
EXTENDS Queries, ResolutionProofs, FiniteSetTheorems

-------------------------------------------------------------------------------
(* The index: IndexUpdates *)

\* A set of changed files with an analysis of each.
LEMMA UpdateShape ==
  ASSUME NEW updates \in Updates
  PROVE  IndexOK(updates) /\ DOMAIN updates # {}
<1>1. PICK changed \in (SUBSET Paths) \ {{}} :
        updates \in [changed -> UNION {Analyses[p] : p \in changed}]
  BY DEF Updates
<1>2. \A p \in changed : updates[p] \in Analyses[p]
  BY <1>1 DEF Updates
<1> QED
  BY <1>1, <1>2, AnalysesAssumption DEF IndexOK

LEMMA InitFull == Init => FullPass /\ IndexOK(index)
BY DEF Init, FullPass, IndexOK, Nothing

LEMMA StepFull ==
  FullPass /\ IndexOK(index) /\ [Next]_vars => (FullPass /\ IndexOK(index))'
<1>1. ASSUME FullPass, IndexOK(index), UNCHANGED vars
      PROVE  (FullPass /\ IndexOK(index))'
  BY <1>1 DEF FullPass, IndexOK, vars
<1>2. ASSUME FullPass, IndexOK(index), NEW updates \in Updates, Update(updates)
      PROVE  (FullPass /\ IndexOK(index))'
  BY <1>2, UpdateShape, LockSection, PutTypes DEF FullPass, Update
<1> QED
  BY <1>1, <1>2 DEF Next

\* resolution.go:757-759: ResolveInto equals a full Resolve of the same index,
\* after any number of lock sections.
THEOREM FullPassKept == Spec => []FullPass
BY InitFull, StepFull, PTL DEF Spec

\* Every edge of every indexed file has an outcome.
THEOREM ShapeKept == Spec => []TypeOK
<1>1. FullPass /\ IndexOK(index) => TypeOK
  BY DEF FullPass, TypeOK, Resolve, ResolveFile, ResolveEdges
<1> QED
  BY <1>1, InitFull, StepFull, PTL DEF Spec

-------------------------------------------------------------------------------
\* The first library reached is all that counts: what lies behind the one an
\* edge is bound in has no say in it.
LEMMA NearerDecides ==
  ASSUME NEW C \in SUBSET Paths, NEW D \in SUBSET Paths, NEW file, NEW type,
         OwningLibrary(file) # NoLibrary,
         NEW hits, hits = ChainHits(C, SearchChain(OwningLibrary(file))),
         hits # {},
         \A q \in Paths :
           OwningLibrary(q) \in NearerLibraries(file, FirstByPath(hits))
             => (q \in C <=> q \in D)
  PROVE  hits = ChainHits(D, SearchChain(OwningLibrary(file)))
<1> DEFINE names == ChainNames(OwningLibrary(file))
           chain == SearchChain(OwningLibrary(file))
           reached == {i \in DOMAIN chain :
                         \E q \in C : OwningLibrary(q) = chain[i]}
           m == Min(reached)
           bound == {i \in DOMAIN chain : chain[i] = chain[m]}
<1>1. chain \in Seq(names)
  BY ChainShape
<1> HIDE DEF names, chain
<1>2. /\ DOMAIN chain \in SUBSET Nat
      /\ DOMAIN chain = 1 .. Len(chain)
      /\ Len(chain) \in Nat
  BY <1>1
<1>3. reached # {} /\ hits = {q \in C : OwningLibrary(q) = chain[m]}
  BY DEF ChainHits, chain
<1>4. m \in reached /\ \A i \in reached : m <= i
  BY <1>2, <1>3, MinIsLeast
<1> HIDE DEF m
<1>6. Min(bound) = m
  <2>1. m \in bound /\ bound \in SUBSET Nat
    BY <1>2, <1>4
  <2>2. Min(bound) \in bound /\ \A i \in bound : Min(bound) <= i
    BY <2>1, MinIsLeast
  <2>3. bound \subseteq reached
    BY <1>4
  <2>4. m \in Nat /\ Min(bound) \in Nat
    BY <1>2, <1>4, <2>1, <2>2
  <2>5. Min(bound) <= m /\ m <= Min(bound)
    BY <1>4, <2>1, <2>2, <2>3
  <2> HIDE DEF bound, reached
  <2> QED
    BY <2>4, <2>5
<1>7. OwningLibrary(FirstByPath(hits)) = chain[m]
  <2>1. FirstByPath(hits) \in hits
    BY <1>3, FirstIsMember
  <2> QED
    BY <1>3, <2>1
<1>8. NearerLibraries(file, FirstByPath(hits)) = {chain[i] : i \in 1 .. m}
  BY <1>6, <1>7 DEF NearerLibraries, chain
<1>9. \A q \in Paths : (\E i \in 1 .. m : OwningLibrary(q) = chain[i])
                         => (q \in C <=> q \in D)
  BY <1>8
<1> DEFINE reachedD == {i \in DOMAIN chain :
                          \E q \in D : OwningLibrary(q) = chain[i]}
<1>10. m \in reachedD /\ \A i \in reachedD : m <= i
  <2>1. m \in 1 .. m
    BY <1>2, <1>4
  <2>2. m \in reachedD
    BY <1>4, <1>9, <2>1
  <2>3. ASSUME NEW i \in reachedD, i < m
        PROVE  FALSE
    <3>1. i \in 1 .. m
      BY <1>2, <1>4, <2>3
    <3>2. PICK q \in D : OwningLibrary(q) = chain[i]
      BY <2>3
    <3>3. q \in C
      BY <1>9, <3>1, <3>2
    <3> QED
      BY <1>4, <1>2, <2>3, <3>2, <3>3
  <2> QED
    BY <1>2, <1>4, <2>2, <2>3
<1>11. Min(reachedD) = m
  <2>1. Min(reachedD) \in reachedD /\ \A i \in reachedD : Min(reachedD) <= i
    BY <1>2, <1>10, MinIsLeast
  <2>2. m \in Nat /\ Min(reachedD) \in Nat
    BY <1>2, <1>10, <2>1
  <2> HIDE DEF reachedD
  <2> QED
    BY <1>10, <2>1, <2>2
<1>12. ChainHits(D, chain) = {q \in D : OwningLibrary(q) = chain[m]}
  BY <1>10, <1>11 DEF ChainHits
<1>13. m \in 1 .. m
  BY <1>2, <1>4
<1>14. {q \in D : OwningLibrary(q) = chain[m]}
         = {q \in C : OwningLibrary(q) = chain[m]}
  BY <1>9, <1>13
<1> QED
  BY <1>3, <1>12, <1>14 DEF chain

\* An edge looked up by name on a chain, as ResolveEdge takes it.
LEMMA PlainEdge ==
  ASSUME NEW i, NEW p, NEW edge, Plain(edge), OwningLibrary(p) # NoLibrary,
         NEW type, type = ExpectedType[edge.kind],
         NEW C, C = FilterByType(i, NameIndex(i, Upper[edge.target]), type),
         Upper[edge.target] # EmptyName
  PROVE  ResolveEdge(i, p, edge)
           = BindFirst(ChainHits(C, SearchChain(OwningLibrary(p))), type)
<1>1. ResolveEdge(i, p, edge) = ResolveByName(i, p, edge, type)
  BY DEF Plain, ResolveEdge, StaticKinds, DynamicKinds
<1>2. SearchChain(OwningLibrary(p)) # <<>>
  BY ChainShape
<1> QED
  BY <1>1, <1>2 DEF Plain, ResolveByName

LEMMA StepKept ==
  ASSUME FullPass, IndexOK(index), FullPass', IndexOK(index'),
         NEW updates, Update(updates)
  PROVE  BindingsKept
<1> SUFFICES ASSUME NEW p \in DOMAIN res, NEW s \in DOMAIN res[p].entries
             PROVE  BindingKept(p, s)
  BY DEF BindingsKept
<1> DEFINE edge    == index[p].edges[s]
           entry   == res[p].entries[s]
           changed == {q \in DOMAIN index' :
                         q \notin DOMAIN index \/ index'[q] # index[q]}
<1> SUFFICES ASSUME Plain(edge), entry.outcome = "resolved",
                    OwningLibrary(p) # NoLibrary, p \notin changed,
                    \A q \in changed :
                      OwningLibrary(q) \notin NearerLibraries(p, entry.path)
             PROVE  res'[p].entries[s] = entry
  BY DEF BindingKept
<1>1. DOMAIN index \subseteq DOMAIN index'
  BY DEF Update, Put
<1>2. /\ p \in DOMAIN index
      /\ s \in DOMAIN index[p].edges
      /\ entry = ResolveEdge(index, p, edge)
  BY DEF FullPass, Resolve, ResolveFile, ResolveEdges
<1>3. index'[p] = index[p] /\ p \in DOMAIN index'
  BY <1>1, <1>2
<1>4. res'[p].entries[s] = ResolveEdge(index', p, edge)
  BY <1>2, <1>3 DEF FullPass, Resolve, ResolveFile, ResolveEdges
<1> DEFINE type == ExpectedType[edge.kind]
           name == Upper[edge.target]
           chain == SearchChain(OwningLibrary(p))
           C == FilterByType(index, NameIndex(index, name), type)
           D == FilterByType(index', NameIndex(index', name), type)
           hits == ChainHits(C, chain)
<1>5. name # EmptyName
  <2>1. ResolveEdge(index, p, edge) = ResolveByName(index, p, edge, type)
    BY DEF Plain, ResolveEdge, StaticKinds, DynamicKinds
  <2>2. NoTarget.outcome # "resolved"
    BY DEF NoTarget, Unresolved
  <2> QED
    BY <1>2, <2>1, <2>2 DEF ResolveByName
<1> HIDE DEF edge, type
<1>6. /\ ResolveEdge(index, p, edge) = BindFirst(hits, type)
      /\ ResolveEdge(index', p, edge) = BindFirst(ChainHits(D, chain), type)
  BY <1>5, PlainEdge DEF type
<1>7. hits # {} /\ entry.path = FirstByPath(hits)
  BY <1>2, <1>6 DEF BindFirst, NoTarget, Unresolved, Resolved
<1>8. C \in SUBSET Paths /\ D \in SUBSET Paths
  BY DEF IndexOK, FilterByType, NameIndex
<1>9. \A q \in Paths :
        OwningLibrary(q) \in NearerLibraries(p, FirstByPath(hits))
          => (q \in C <=> q \in D)
  BY <1>1, <1>7 DEF FilterByType, NameIndex
<1> HIDE DEF C, D
<1>10. hits = ChainHits(D, chain)
  BY <1>7, <1>8, <1>9, NearerDecides
<1> QED
  BY <1>2, <1>4, <1>6, <1>10

\* The steplib order shields an edge: whatever comes, goes or changes behind
\* the library it is bound in, or out of the chain, leaves it as it is.
THEOREM FartherHasNoSay == Spec => FartherIsInvisible
<1>1. FullPass /\ IndexOK(index) /\ (FullPass /\ IndexOK(index))' /\ [Next]_vars
        => [BindingsKept]_vars
  BY StepKept DEF Next
<1> QED
  BY <1>1, InitFull, StepFull, PTL DEF Spec, FartherIsInvisible

-------------------------------------------------------------------------------
(***************************************************************************)
(* The lookups of completion, USING clauses and DDMs.                      *)
(***************************************************************************)

\* The candidates a caller's search chain reaches; all without a chain.
Reached(C, file) ==
  LET chain == SearchChain(OwningLibrary(file))
  IN  {q \in C : chain # <<>> => \E i \in DOMAIN chain :
                                   OwningLibrary(q) = chain[i]}

\* The first library that has any is reached, and there is one when anything
\* is reached.
LEMMA ViaChain ==
  ASSUME NEW C, NEW file
  PROVE  LET hits == ResolveCandidateViaChain(C, file)
         IN  /\ hits \subseteq Reached(C, file)
             /\ hits = {} => Reached(C, file) = {}
<1> DEFINE lib == OwningLibrary(file)
           chain == SearchChain(lib)
           reached == {i \in DOMAIN chain :
                         \E q \in C : OwningLibrary(q) = chain[i]}
<1>1. CASE chain = <<>>
  BY <1>1 DEF ResolveCandidateViaChain, Reached
<1>2. CASE chain # <<>>
  <2>1. lib # NoLibrary
    BY <1>2 DEF SearchChain
  <2>2. chain \in Seq(ChainNames(lib))
    BY <2>1, ChainShape
  <2> HIDE DEF chain
  <2>3. reached \in SUBSET Nat
    BY <2>2
  <2>4. ResolveCandidateViaChain(C, file) = ChainHits(C, chain)
    BY <1>2 DEF ResolveCandidateViaChain, chain
  <2>5. CASE reached = {}
    <3>1. ChainHits(C, chain) = {}
      BY <2>5 DEF ChainHits
    <3>2. Reached(C, file) = {}
      BY <1>2, <2>5 DEF Reached, chain
    <3> QED
      BY <2>4, <3>1, <3>2
  <2>6. CASE reached # {}
    <3>1. Min(reached) \in reached
      BY <2>3, <2>6, MinIsLeast
    <3>2. ChainHits(C, chain)
            = {q \in C : OwningLibrary(q) = chain[Min(reached)]}
      BY <2>6 DEF ChainHits
    <3>3. ChainHits(C, chain) # {}
      BY <3>1, <3>2
    <3>4. ChainHits(C, chain) \subseteq Reached(C, file)
      BY <3>1, <3>2 DEF Reached, chain
    <3> QED
      BY <2>4, <3>3, <3>4
  <2> QED
    BY <2>5, <2>6
<1> QED
  BY <1>1, <1>2

\* The objects of a name and type.
OfNameAndType(i, name, type) == FilterByType(i, NameIndex(i, name), type)

\* Completion offers what is reached.
LEMMA OfferedIsReached ==
  ASSUME NEW i, NEW name, NEW type, NEW p
  PROVE  NamesWithPrefix(i, {name}, type, p)
           = Reached(OfNameAndType(i, name, type), p)
BY DEF NamesWithPrefix, Reached, OfNameAndType, FilterByType, NameIndex

\* The first by path of the objects of a name and type is one of them.
LEMMA FirstOfHits ==
  ASSUME NEW i, IndexOK(i), NEW name, NEW type,
         NEW hits \in SUBSET OfNameAndType(i, name, type), hits # {}
  PROVE  FirstByPath(hits) \in hits
BY FirstIsMember DEF OfNameAndType, FilterByType, NameIndex, IndexOK

\* An edge without a library is bound among the candidates its chain reaches
\* first, or in the flat namespace to the only one.
LEMMA ByNameIs ==
  ASSUME NEW i, NEW p, NEW edge, edge.library = NoLibrary,
         Upper[edge.target] # EmptyName, NEW type
  PROVE  LET C == OfNameAndType(i, Upper[edge.target], type)
         IN  ResolveByName(i, p, edge, type)
               = IF SearchChain(OwningLibrary(p)) # <<>>
                   THEN BindFirst(ResolveCandidateViaChain(C, p), type)
                   ELSE BindUnique(C, type)
<1>1. CASE SearchChain(OwningLibrary(p)) # <<>>
  BY <1>1 DEF ResolveByName, ResolveCandidateViaChain, OfNameAndType
<1>2. CASE SearchChain(OwningLibrary(p)) = <<>>
  BY <1>2 DEF ResolveByName, ResolveCandidateViaChain, OfNameAndType
<1> QED
  BY <1>1, <1>2

\* What comes of an edge, by what its chain reaches.
LEMMA ByNameOutcome ==
  ASSUME NEW i, IndexOK(i), NEW p, NEW edge, edge.library = NoLibrary,
         Upper[edge.target] # EmptyName, NEW type
  PROVE  LET C       == OfNameAndType(i, Upper[edge.target], type)
             hits    == ResolveCandidateViaChain(C, p)
             outcome == ResolveByName(i, p, edge, type)
         IN  \/ hits = {} /\ outcome = NoTarget
             \/ hits # {} /\ outcome = Resolved(FirstByPath(hits), type)
             \/ hits # {} /\ hits = Reached(C, p) /\ outcome = Ambiguous(hits)
<1> DEFINE C    == OfNameAndType(i, Upper[edge.target], type)
           hits == ResolveCandidateViaChain(C, p)
<1>1. CASE SearchChain(OwningLibrary(p)) # <<>>
  <2>1. ResolveByName(i, p, edge, type) = BindFirst(hits, type)
    BY <1>1, ByNameIs
  <2> QED
    BY <2>1 DEF BindFirst
<1>2. CASE SearchChain(OwningLibrary(p)) = <<>>
  <2>1. ResolveByName(i, p, edge, type) = BindUnique(C, type)
    BY <1>2, ByNameIs
  <2>2. hits = C /\ Reached(C, p) = C
    BY <1>2 DEF ResolveCandidateViaChain, Reached
  <2> HIDE DEF C, hits
  <2>3. CASE \E q, r \in C : q # r
    <3>1. BindUnique(C, type) = Ambiguous(C) /\ C # {}
      BY <2>3 DEF BindUnique
    <3> QED
      BY <2>1, <2>2, <3>1 DEF C, hits
  <2>4. CASE ~\E q, r \in C : q # r
    <3>1. BindUnique(C, type) = BindFirst(C, type)
      BY <2>4 DEF BindUnique
    <3> QED
      BY <2>1, <2>2, <3>1 DEF BindFirst, C, hits
  <2> QED
    BY <2>3, <2>4
<1> QED
  BY <1>1, <1>2

\* Upper-casing leaves only the empty name empty.
LEMMA UpperNotEmpty ==
  ASSUME NEW n \in Names \ {EmptyName}
  PROVE  Upper[n] # EmptyName
BY ConstantsAssumption

LEMMA CompletionFromShape == IndexOK(index) => CompletionAgrees
<1> SUFFICES ASSUME IndexOK(index), NEW p \in DOMAIN index,
                    NEW n \in Names \ {EmptyName}, NEW kind \in StaticKinds
             PROVE  LET type    == ExpectedType[kind]
                        edge    == [kind |-> kind, target |-> n,
                                    library |-> NoLibrary, inline |-> FALSE]
                        offered == NamesWithPrefix(index, {Upper[n]}, type, p)
                        outcome == ResolveEdge(index, p, edge)
                    IN  /\ offered = {} <=> outcome = NoTarget
                        /\ outcome.outcome = "resolved" =>
                             outcome.path \in offered
                        /\ outcome.outcome = "ambiguous" =>
                             outcome.candidates = offered
  BY DEF CompletionAgrees
<1> DEFINE type    == ExpectedType[kind]
           edge    == [kind |-> kind, target |-> n, library |-> NoLibrary,
                       inline |-> FALSE]
           offered == NamesWithPrefix(index, {Upper[n]}, type, p)
           outcome == ResolveEdge(index, p, edge)
           C       == OfNameAndType(index, Upper[n], type)
           hits    == ResolveCandidateViaChain(C, p)
<1>1. outcome = ResolveByName(index, p, edge, type)
  BY DEF ResolveEdge, StaticKinds, DynamicKinds
<1>2. /\ edge.library = NoLibrary /\ edge.target = n
      /\ Upper[edge.target] # EmptyName
  BY UpperNotEmpty
<1> HIDE DEF edge, type
<1>3. \/ hits = {} /\ outcome = NoTarget
      \/ hits # {} /\ outcome = Resolved(FirstByPath(hits), type)
      \/ hits # {} /\ hits = Reached(C, p) /\ outcome = Ambiguous(hits)
  BY <1>1, <1>2, ByNameOutcome
<1>4. offered = Reached(C, p)
  BY OfferedIsReached
<1>5. hits \subseteq offered /\ (hits = {} => offered = {})
  BY <1>4, ViaChain
<1>6. hits # {} => FirstByPath(hits) \in hits
  <2>1. hits \in SUBSET C
    BY <1>4, <1>5 DEF Reached
  <2> QED
    BY <2>1, FirstOfHits
<1> HIDE DEF offered, outcome, hits
<1>7. /\ offered = {} <=> outcome = NoTarget
      /\ outcome.outcome = "resolved" => outcome.path \in offered
      /\ outcome.outcome = "ambiguous" => outcome.candidates = offered
  BY <1>3, <1>4, <1>5, <1>6 DEF NoTarget, Unresolved, Resolved, Ambiguous
<1> QED
  BY <1>7 DEF offered, outcome, edge, type

\* completion.go and resolution.go: what is offered for a name is what an edge
\* of the name can mean, in every workspace divided into any libraries.
THEOREM CompletionAgreesAlways == Spec => []CompletionAgrees
BY CompletionFromShape, InitFull, StepFull, PTL DEF Spec

LEMMA FieldsFromShape == IndexOK(index) => FieldsFollowEdges
<1> SUFFICES ASSUME IndexOK(index), NEW p \in DOMAIN index,
                    NEW n \in Names \ {EmptyName}
             PROVE  LET edge    == [kind |-> "USES_DATA_AREA", target |-> n,
                                    library |-> NoLibrary, inline |-> FALSE]
                        outcome == ResolveEdge(index, p, edge)
                        fields  == ResolveDataAreaCandidate(index, n, p)
                        ddm     == ResolveDDMPath(index, n, p)
                        offered == NamesWithPrefix(index, {Upper[n]}, "ddm", p)
                    IN  /\ fields # {} =>
                             \/ /\ outcome.outcome = "resolved"
                                /\ fields = {outcome.path}
                             \/ /\ outcome.outcome = "ambiguous"
                                /\ fields \subseteq outcome.candidates
                        /\ ddm \subseteq offered
                        /\ ddm = {} <=> offered = {}
  BY DEF FieldsFollowEdges
<1> DEFINE edge    == [kind |-> "USES_DATA_AREA", target |-> n,
                       library |-> NoLibrary, inline |-> FALSE]
           outcome == ResolveEdge(index, p, edge)
           fields  == ResolveDataAreaCandidate(index, n, p)
           ddm     == ResolveDDMPath(index, n, p)
           offered == NamesWithPrefix(index, {Upper[n]}, "ddm", p)
<1>1. ddm \subseteq offered /\ (ddm = {} <=> offered = {})
  <2> DEFINE C    == OfNameAndType(index, Upper[n], "ddm")
             hits == ResolveCandidateViaChain(C, p)
  <2>1. offered = Reached(C, p)
    BY OfferedIsReached
  <2>2. hits \subseteq offered /\ (hits = {} => offered = {})
    BY <2>1, ViaChain
  <2>3. ddm = IF hits = {} THEN {} ELSE {FirstByPath(hits)}
    BY DEF ResolveDDMPath, OfNameAndType
  <2>4. hits # {} => FirstByPath(hits) \in hits
    <3>1. hits \in SUBSET C
      BY <2>1, <2>2 DEF Reached
    <3> QED
      BY <3>1, FirstOfHits
  <2> HIDE DEF hits, offered, ddm
  <2> QED
    BY <2>2, <2>3, <2>4
<1>2. fields # {} =>
        \/ outcome.outcome = "resolved" /\ fields = {outcome.path}
        \/ outcome.outcome = "ambiguous" /\ fields \subseteq outcome.candidates
  <2> SUFFICES ASSUME fields # {}
               PROVE  \/ /\ outcome.outcome = "resolved"
                         /\ fields = {outcome.path}
                      \/ /\ outcome.outcome = "ambiguous"
                         /\ fields \subseteq outcome.candidates
    OBVIOUS
  <2> DEFINE C(i)    == OfNameAndType(index, Upper[n], DataAreaTypes[i])
             hits(i) == ResolveCandidateViaChain(C(i), p)
             Try(i)  == ResolveByName(index, p, edge, DataAreaTypes[i])
             typed   == {i \in DOMAIN DataAreaTypes : C(i) # {}}
             found   == {i \in DOMAIN DataAreaTypes :
                           Try(i).outcome # "unresolved"}
             m       == Min(typed)
  <2>1. typed # {} /\ hits(m) # {} /\ fields = {FirstByPath(hits(m))}
    BY DEF ResolveDataAreaCandidate, OfNameAndType
  <2>2. DOMAIN DataAreaTypes = 1 .. 3
    BY DEF DataAreaTypes
  <2>3. m \in typed /\ \A i \in typed : m <= i
    <3>1. typed \in SUBSET Nat
      BY <2>2
    <3> HIDE DEF typed
    <3> QED
      BY <2>1, <3>1, MinIsLeast
  <2>4. /\ edge.library = NoLibrary /\ edge.target = n
        /\ Upper[edge.target] # EmptyName
    BY UpperNotEmpty
  <2>5. outcome = IF found = {} THEN NoTarget ELSE Try(Min(found))
    BY DEF ResolveEdge, DynamicKinds, ResolveDataAreaEdge
  <2> HIDE DEF edge, m
  <2>6. ASSUME NEW i \in 1 .. 3
        PROVE  /\ C(i) = {} => Try(i) = NoTarget
               /\ hits(i) # {} =>
                    \/ Try(i) = Resolved(FirstByPath(hits(i)), DataAreaTypes[i])
                    \/ Try(i) = Ambiguous(hits(i))
    <3>1. \/ hits(i) = {} /\ Try(i) = NoTarget
          \/ hits(i) # {} /\ Try(i) = Resolved(FirstByPath(hits(i)),
                                               DataAreaTypes[i])
          \/ hits(i) # {} /\ Try(i) = Ambiguous(hits(i))
      BY <2>4, ByNameOutcome
    <3>2. C(i) = {} => hits(i) = {}
      BY ViaChain DEF Reached
    <3> QED
      BY <3>1, <3>2
  <2> HIDE DEF C, hits, Try
  <2>7. \A i \in found : m <= i
    BY <2>2, <2>3, <2>6 DEF NoTarget, Unresolved
  <2>8. Try(m) \in {Resolved(FirstByPath(hits(m)), DataAreaTypes[m]),
                    Ambiguous(hits(m))}
    BY <2>1, <2>2, <2>3, <2>6
  <2>9. m \in found
    BY <2>3, <2>8 DEF Resolved, Ambiguous
  <2>10. Min(found) = m
    <3>1. Min(found) \in found /\ \A i \in found : Min(found) <= i
      BY <2>2, <2>9, MinIsLeast
    <3>2. m \in Nat /\ Min(found) \in Nat
      BY <2>2, <2>3, <3>1
    <3> HIDE DEF found
    <3> QED
      BY <2>7, <2>9, <3>1, <3>2
  <2>11. outcome = Try(m)
    BY <2>5, <2>9, <2>10
  <2>12. FirstByPath(hits(m)) \in hits(m)
    <3>1. hits(m) \in SUBSET C(m)
      BY ViaChain DEF hits, Reached
    <3> QED
      BY <2>1, <3>1, FirstOfHits DEF C
  <2> HIDE DEF outcome, fields
  <2> QED
    BY <2>1, <2>8, <2>11, <2>12 DEF Resolved, Ambiguous
<1> QED
  BY <1>1, <1>2

\* field_resolution.go and resolution.go: the fields of a USING clause are
\* those of the data area its edge leads to, and the fields of a DDM those of
\* one that completion offers, although each lookup filters and walks the
\* chain in its own order.
THEOREM FieldsFollowEdgesAlways == Spec => []FieldsFollowEdges
BY FieldsFromShape, InitFull, StepFull, PTL DEF Spec

-------------------------------------------------------------------------------
(* What an edge can be bound to, and the agreements of the providers: Queries *)

\* A file an edge to the name may be bound to.
Bindable(i, name, q, type) ==
  q \in DOMAIN i /\ ObjectName(q) = name /\ i[q].type = type

LEMMA BindFirstFinds ==
  ASSUME NEW matches \in SUBSET Paths, NEW type
  PROVE  LET entry == BindFirst(matches, type)
         IN  /\ entry.outcome # "ambiguous"
             /\ entry.outcome = "resolved" =>
                  entry.path \in matches /\ entry.type = type
BY FirstIsMember DEF BindFirst, NoTarget, Unresolved, Resolved

\* The candidates of an ambiguous edge are more than one.
Several(S) == \E p, q \in S : p # q

LEMMA ByNameFinds ==
  ASSUME NEW i, IndexOK(i), NEW p, NEW edge, NEW type
  PROVE  LET entry == ResolveByName(i, p, edge, type)
         IN  /\ entry.outcome = "resolved" =>
                  /\ Bindable(i, Upper[edge.target], entry.path, type)
                  /\ entry.type = type
             /\ entry.outcome = "ambiguous" => Several(entry.candidates)
<1> DEFINE name == Upper[edge.target]
           C == FilterByType(i, NameIndex(i, name), type)
           chain == SearchChain(OwningLibrary(p))
           entry == ResolveByName(i, p, edge, type)
           Goal(e) == /\ e.outcome = "resolved" =>
                           Bindable(i, name, e.path, type) /\ e.type = type
                      /\ e.outcome = "ambiguous" => Several(e.candidates)
<1>1. C \in SUBSET Paths /\ \A q \in C : Bindable(i, name, q, type)
  BY DEF IndexOK, FilterByType, NameIndex, Bindable
<1>2. ASSUME NEW matches \in SUBSET C
      PROVE  Goal(BindFirst(matches, type))
  BY <1>1, BindFirstFinds
<1>3. ChainHits(C, chain) \in SUBSET C
  BY DEF ChainHits
<1>4. Goal(BindUnique(C, type))
  <2>1. CASE Several(C)
    BY <2>1 DEF BindUnique, Ambiguous, Several
  <2>2. CASE ~ Several(C)
    <3>1. BindUnique(C, type) = BindFirst(C, type)
      BY <2>2 DEF BindUnique, Several
    <3> QED
      BY <1>2, <3>1
  <2> QED
    BY <2>1, <2>2
<1>5. Goal(NoTarget)
  BY DEF NoTarget, Unresolved
<1>6. {q \in C : OwningLibrary(q) = edge.library} \in SUBSET C
  OBVIOUS
<1> HIDE DEF Goal, C, chain
<1>7. \/ entry = NoTarget
      \/ entry = BindFirst({q \in C : OwningLibrary(q) = edge.library}, type)
      \/ entry = BindFirst(ChainHits(C, chain), type)
      \/ entry = BindUnique(C, type)
  BY DEF ResolveByName, C, chain
<1>8. Goal(entry)
  <2>1. CASE entry = NoTarget
    BY <2>1, <1>5
  <2>2. CASE entry
               = BindFirst({q \in C : OwningLibrary(q) = edge.library}, type)
    BY <2>2, <1>2, <1>6
  <2>3. CASE entry = BindFirst(ChainHits(C, chain), type)
    BY <2>3, <1>2, <1>3
  <2>4. CASE entry = BindUnique(C, type)
    BY <2>4, <1>4
  <2> QED
    BY <1>7, <2>1, <2>2, <2>3, <2>4
<1> QED
  BY <1>8 DEF Goal

LEMMA DataAreaFinds ==
  ASSUME NEW i, IndexOK(i), NEW p, NEW edge
  PROVE  LET entry == ResolveDataAreaEdge(i, p, edge)
         IN  /\ entry.outcome = "resolved" =>
                  /\ Bindable(i, Upper[edge.target], entry.path, entry.type)
                  /\ entry.type # "ddm"
             /\ entry.outcome = "ambiguous" => Several(entry.candidates)
<1> DEFINE Try(k) == ResolveByName(i, p, edge, DataAreaTypes[k])
           found == {k \in DOMAIN DataAreaTypes : Try(k).outcome # "unresolved"}
<1>1. CASE found = {}
  BY <1>1 DEF ResolveDataAreaEdge, NoTarget, Unresolved
<1>2. CASE found # {}
  <2>1. /\ DOMAIN DataAreaTypes = 1 .. 3
        /\ \A k \in 1 .. 3 : DataAreaTypes[k] # "ddm"
    BY DEF DataAreaTypes
  <2>2. found \in SUBSET Nat
    BY <2>1
  <2>3. Min(found) \in 1 .. 3
    <3>1. found \subseteq 1 .. 3
      BY <2>1
    <3> HIDE DEF found
    <3>2. Min(found) \in found
      BY <1>2, <2>2, MinIsLeast
    <3> QED
      BY <3>1, <3>2
  <2>4. ResolveDataAreaEdge(i, p, edge) = Try(Min(found))
    BY <1>2 DEF ResolveDataAreaEdge
  <2> HIDE DEF found
  <2> QED
    BY <2>1, <2>3, <2>4, ByNameFinds
<1> QED
  BY <1>1, <1>2

\* An edge is bound to an object of its name and of the type the entry says, or
\* it is an inline PERFORM and bound to its own file.
LEMMA EdgeFinds ==
  ASSUME NEW i, IndexOK(i), NEW p \in DOMAIN i, NEW edge
  PROVE  LET entry == ResolveEdge(i, p, edge)
         IN  /\ entry.outcome = "resolved" =>
                  \/ Bindable(i, Upper[edge.target], entry.path, entry.type)
                  \/ edge.kind = "PERFORMS" /\ edge.inline /\ entry.path = p
             /\ entry.outcome = "ambiguous" => Several(entry.candidates)
<1>1. CASE edge.kind \in DynamicKinds
  BY <1>1 DEF ResolveEdge, Unresolved, DynamicKinds
<1>2. CASE edge.kind = "PERFORMS" /\ edge.inline
  BY <1>2 DEF ResolveEdge, Resolved, DynamicKinds
<1>3. CASE edge.kind = "USES_DATA_AREA"
  <2>1. ResolveEdge(i, p, edge) = ResolveDataAreaEdge(i, p, edge)
    BY <1>3 DEF ResolveEdge, DynamicKinds
  <2> QED
    BY <2>1, DataAreaFinds
<1>4. CASE /\ edge.kind \notin DynamicKinds \cup {"USES_DATA_AREA"}
           /\ ~ (edge.kind = "PERFORMS" /\ edge.inline)
  <2>1. ResolveEdge(i, p, edge)
          = ResolveByName(i, p, edge, ExpectedType[edge.kind])
    BY <1>4 DEF ResolveEdge
  <2> QED
    BY <2>1, ByNameFinds
<1> QED
  BY <1>1, <1>2, <1>3, <1>4

\* What an edge is bound to has the type the entry says, and no edge but those
\* of a DDM itself leads to a DDM.
LEMMA EdgeTypes ==
  ASSUME NEW i, IndexOK(i), NEW p \in DOMAIN i, NEW edge \in EdgeEntry
  PROVE  LET entry == ResolveEdge(i, p, edge)
         IN  entry.outcome = "resolved" =>
               /\ entry.type = i[entry.path].type
               /\ entry.type = "ddm" => entry.path = p
<1>1. CASE edge.kind \in DynamicKinds
  BY <1>1 DEF ResolveEdge, Unresolved, DynamicKinds
<1>2. CASE edge.kind = "PERFORMS" /\ edge.inline
  BY <1>2 DEF ResolveEdge, Resolved, DynamicKinds
<1>3. CASE edge.kind = "USES_DATA_AREA"
  <2>1. ResolveEdge(i, p, edge) = ResolveDataAreaEdge(i, p, edge)
    BY <1>3 DEF ResolveEdge, DynamicKinds
  <2> QED
    BY <2>1, DataAreaFinds DEF Bindable
<1>4. CASE /\ edge.kind \notin DynamicKinds \cup {"USES_DATA_AREA"}
           /\ ~ (edge.kind = "PERFORMS" /\ edge.inline)
  <2>1. ResolveEdge(i, p, edge)
          = ResolveByName(i, p, edge, ExpectedType[edge.kind])
    BY <1>4 DEF ResolveEdge
  <2>2. edge.kind \in StaticKinds
    BY <1>4 DEF EdgeEntry
  <2>3. ExpectedType[edge.kind] # "ddm"
    BY <2>2 DEF StaticKinds, ExpectedType
  <2> QED
    BY <2>1, <2>3, ByNameFinds DEF Bindable
<1> QED
  BY <1>1, <1>2, <1>3, <1>4

\* The same of the entries of the resolution set.
LEMMA EntryFinds ==
  ASSUME FullPass, IndexOK(index), NEW p \in DOMAIN index, NEW s, HasEntry(p, s)
  PROVE  LET edge  == index[p].edges[s]
             entry == res[p].entries[s]
         IN  /\ s \in DOMAIN index[p].edges
             /\ entry.outcome = "resolved" =>
                  /\ entry.path \in DOMAIN index
                  /\ \/ Upper[edge.target] = ObjectName(entry.path)
                     \/ edge.inline /\ entry.path = p
             /\ entry.outcome = "ambiguous" => Several(entry.candidates)
<1>1. s \in DOMAIN index[p].edges
  BY DEF HasEntry, FullPass, Resolve, ResolveFile, ResolveEdges
<1>2. res[p].entries[s] = ResolveEdge(index, p, index[p].edges[s])
  BY <1>1 DEF FullPass, Resolve, ResolveFile, ResolveEdges
<1> QED
  BY <1>1, <1>2, EdgeFinds DEF Bindable

-------------------------------------------------------------------------------
LEMMA SpellFromFull ==
  FullPass /\ IndexOK(index) => ReferencesSpellTheirTarget
<1> SUFFICES ASSUME FullPass, IndexOK(index), NEW q \in DOMAIN index,
                    NEW site \in EdgeSites(q, index[q].type)
             PROVE  LET edge == index[site[1]].edges[site[2]]
                    IN  \/ Upper[edge.target] = ObjectName(q)
                        \/ edge.inline /\ site[1] = q
  BY DEF ReferencesSpellTheirTarget
<1> DEFINE SitesOf(p) == {<<p, s>> : s \in DOMAIN index[p].edges}
<1>1. PICK p \in DOMAIN index : site \in SitesOf(p)
  BY DEF EdgeSites
<1>2. PICK s \in DOMAIN index[p].edges : site = <<p, s>>
  BY <1>1
<1>3. /\ site[1] \in DOMAIN index
      /\ HasEntry(site[1], site[2])
      /\ res[site[1]].entries[site[2]].outcome = "resolved"
      /\ res[site[1]].entries[site[2]].path = q
  BY <1>2 DEF EdgeSites, EdgeMatchesTarget
<1> QED
  BY <1>3, EntryFinds

\* references.go, edgeMatchesTarget: although the name of the target is not
\* compared, what it finds for an object names that object or is an inline
\* PERFORM of it.
THEOREM ReferencesSpell == Spec => []ReferencesSpellTheirTarget
BY SpellFromFull, InitFull, StepFull, PTL DEF Spec

LEMMA LinksFromFull ==
  FullPass /\ IndexOK(index) => LinksFollowDefinition
<1> SUFFICES ASSUME FullPass, IndexOK(index), NEW p \in DOMAIN index,
                    NEW buffer \in Analyses[p], NEW s \in DOMAIN buffer.edges
             PROVE  LET links == DocumentLinks(buffer, p)
                    IN  {q \in DOMAIN index \ {p} :
                           DefinitionOfEdge(buffer, p, s) = {Object(q)}}
                          = IF s \in DOMAIN links THEN {links[s]} ELSE {}
  BY DEF LinksFollowDefinition
<1> DEFINE entry == res[p].entries[s]
           links == DocumentLinks(buffer, p)
           definition == DefinitionOfEdge(buffer, p, s)
           elsewhere == {q \in DOMAIN index \ {p} : definition = {Object(q)}}
<1>0. \A q, r : Object(q) = Object(r) => q = r
  BY DEF Object, Declared
<1>1. s \in DOMAIN links <=> ResolvedAt(p, s) /\ entry.path # p
  BY DEF DocumentLinks
<1>2. CASE ~ HasEntry(p, s)
  <2>1. definition = {}
    BY <1>2 DEF DefinitionOfEdge
  <2> QED
    BY <1>1, <1>2, <2>1 DEF ResolvedAt
<1>3. CASE HasEntry(p, s) /\ entry.outcome = "ambiguous"
  <2>1. definition = {Object(q) : q \in entry.candidates}
    BY <1>3 DEF DefinitionOfEdge
  <2>2. PICK q, r \in entry.candidates : q # r
    BY <1>3, EntryFinds DEF Several
  <2>3. \A x : definition # {Object(x)}
    BY <1>0, <2>1, <2>2
  <2>4. s \notin DOMAIN links
    BY <1>1, <1>3 DEF ResolvedAt
  <2>5. elsewhere = {}
    BY <2>3
  <2> QED
    BY <2>4, <2>5
<1>4. CASE HasEntry(p, s) /\ entry.outcome \notin {"ambiguous", "resolved"}
  <2>1. definition = {}
    BY <1>4 DEF DefinitionOfEdge
  <2> QED
    BY <1>1, <1>4, <2>1 DEF ResolvedAt
<1>5. CASE ResolvedAt(p, s)
  <2>1. definition = {TargetOf(p, buffer.edges[s], entry.path)}
    BY <1>5 DEF DefinitionOfEdge, ResolvedAt
  <2>2. entry.path \in DOMAIN index
    BY <1>5, EntryFinds DEF ResolvedAt
  <2>3. CASE entry.path = p
    <3>1. TargetOf(p, buffer.edges[s], entry.path).path = p
      BY <2>3 DEF TargetOf, Object, Declared
    <3>2. \A x : definition = {Object(x)} => x = p
      BY <2>1, <3>1 DEF Object, Declared
    <3> QED
      BY <1>1, <2>3, <3>2
  <2>4. CASE entry.path # p
    <3>1. definition = {Object(entry.path)}
      BY <2>1, <2>4 DEF TargetOf
    <3>2. elsewhere = {entry.path}
      BY <1>0, <2>2, <2>4, <3>1
    <3>3. s \in DOMAIN links /\ links[s] = entry.path
      BY <1>1, <1>5, <2>4 DEF DocumentLinks
    <3> QED
      BY <3>2, <3>3
  <2> QED
    BY <2>3, <2>4
<1> QED
  BY <1>2, <1>3, <1>4, <1>5 DEF ResolvedAt

\* document_link.go and definition.go: a link stands exactly where the
\* definition is one object of another file, whatever buffer is asked about.
THEOREM LinksFollow == Spec => []LinksFollowDefinition
BY LinksFromFull, InitFull, StepFull, PTL DEF Spec

-------------------------------------------------------------------------------
(***************************************************************************)
(* Agreements that rest on the structure of the files.                     *)
(***************************************************************************)

\* What the index has of a file is something the analyzer may say of it.
IndexAnalysed == \A p \in DOMAIN index : index[p] \in Analyses[p]

QueryInv == FullPass /\ IndexOK(index) /\ IndexAnalysed

LEMMA InitQuery == Init => QueryInv
<1>1. Init => IndexAnalysed
  BY DEF Init, IndexAnalysed, Nothing
<1> QED
  BY <1>1, InitFull DEF QueryInv

LEMMA StepQuery == QueryInv /\ [Next]_vars => QueryInv'
<1> SUFFICES ASSUME QueryInv, [Next]_vars PROVE QueryInv'
  OBVIOUS
<1>1. (FullPass /\ IndexOK(index))'
  BY StepFull DEF QueryInv
<1>2. CASE UNCHANGED vars
  BY <1>1, <1>2 DEF QueryInv, IndexAnalysed, vars
<1>3. ASSUME NEW updates \in Updates, Update(updates) PROVE QueryInv'
  <2>1. \A p \in DOMAIN updates : updates[p] \in Analyses[p]
    BY DEF Updates
  <2>2. index' = Put(index, updates)
    BY <1>3 DEF Update
  <2>3. IndexAnalysed'
    BY <2>1, <2>2 DEF IndexAnalysed, QueryInv, Put
  <2> QED
    BY <1>1, <2>3 DEF QueryInv
<1> QED
  BY <1>2, <1>3 DEF Next

\* The structure of what is indexed.
LEMMA IndexedStructure ==
  ASSUME QueryInv, NEW p \in DOMAIN index
  PROVE  /\ p \in Paths /\ StructureOK(index[p])
         /\ \A s \in DOMAIN index[p].edges : index[p].edges[s] \in EdgeEntry
<1>1. p \in Paths /\ index[p] \in Analyses[p]
  BY DEF QueryInv, IndexOK, IndexAnalysed
<1>2. StructureOK(index[p])
  BY <1>1, StructureAssumption
<1>3. \A s \in DOMAIN index[p].edges : index[p].edges[s] \in EdgeEntry
  BY DEF QueryInv, IndexOK, AnalysisOK, EdgesOK
<1> QED
  BY <1>1, <1>2, <1>3

\* The outcome of an edge, and what it says of its target.
LEMMA EntryOf ==
  ASSUME QueryInv, NEW p \in DOMAIN index, NEW s
  PROVE  /\ HasEntry(p, s) <=> s \in DOMAIN index[p].edges
         /\ HasEntry(p, s) =>
              res[p].entries[s] = ResolveEdge(index, p, index[p].edges[s])
         /\ ResolvedAt(p, s) =>
              /\ res[p].entries[s].path \in DOMAIN index
              /\ res[p].entries[s].type = index[res[p].entries[s].path].type
              /\ res[p].entries[s].type # "ddm"
<1> DEFINE edge  == index[p].edges[s]
           entry == res[p].entries[s]
<1>1. /\ HasEntry(p, s) <=> s \in DOMAIN index[p].edges
      /\ HasEntry(p, s) => entry = ResolveEdge(index, p, edge)
  BY DEF QueryInv, HasEntry, FullPass, Resolve, ResolveFile, ResolveEdges
<1>2. ASSUME ResolvedAt(p, s)
      PROVE  /\ entry.path \in DOMAIN index
             /\ entry.type = index[entry.path].type
             /\ entry.type # "ddm"
  <2>1. HasEntry(p, s) /\ entry.outcome = "resolved"
    BY <1>2 DEF ResolvedAt
  <2>2. entry.path \in DOMAIN index
    BY <2>1, EntryFinds DEF QueryInv
  <2>3. edge \in EdgeEntry /\ index[p].type # "ddm"
    BY <1>1, <2>1, IndexedStructure DEF StructureOK
  <2> HIDE DEF edge, entry
  <2>4. /\ entry.type = index[entry.path].type
        /\ entry.type = "ddm" => entry.path = p
    BY <1>1, <2>1, <2>3, EdgeTypes DEF QueryInv
  <2> QED
    BY <2>2, <2>3, <2>4
<1> QED
  BY <1>1, <1>2

\* The definition of an edge that is resolved is in the file it is bound to.
LEMMA DefinitionIsAtTarget ==
  ASSUME NEW source, NEW p, NEW s, ResolvedAt(p, s)
  PROVE  {d.path : d \in DefinitionOfEdge(source, p, s)}
           = {res[p].entries[s].path}
<1> DEFINE target == res[p].entries[s].path
<1>1. DefinitionOfEdge(source, p, s)
        = {TargetOf(p, source.edges[s], target)}
  BY DEF DefinitionOfEdge, ResolvedAt
<1>2. TargetOf(p, source.edges[s], target).path = target
  BY DEF TargetOf, Object, Declared
<1> HIDE DEF target
<1> QED
  BY <1>1, <1>2 DEF target

LEMMA SignatureFromQuery == QueryInv => SignatureFollowsDefinition
<1> SUFFICES ASSUME QueryInv, NEW p \in DOMAIN index,
                    NEW s \in DOMAIN index[p].edges,
                    index[p].edges[s].kind \in {"CALLS", "PERFORMS"}
             PROVE  SignatureOf(index[p], p, s)
                      = IF ResolvedAt(p, s)
                          THEN {d.path : d \in DefinitionOfEdge(index[p], p, s)}
                          ELSE {}
  BY DEF SignatureFollowsDefinition
<1> DEFINE edge == index[p].edges[s]
           paths == {d.path : d \in DefinitionOfEdge(index[p], p, s)}
<1>0. ResolvedAt(p, s) => paths = {res[p].entries[s].path}
  BY DefinitionIsAtTarget
<1>1. CASE edge.kind = "PERFORMS" /\ Upper[edge.target] \in index[p].subs
  <2>1. edge.inline
    BY <1>1, IndexedStructure DEF StructureOK
  <2>2. HasEntry(p, s) /\ res[p].entries[s] = ResolveEdge(index, p, edge)
    BY EntryOf
  <2>3. ResolveEdge(index, p, edge) = Resolved(p, index[p].type)
    BY <1>1, <2>1 DEF ResolveEdge, DynamicKinds
  <2>4. ResolvedAt(p, s) /\ res[p].entries[s].path = p
    BY <2>2, <2>3 DEF ResolvedAt, Resolved
  <2>5. SignatureOf(index[p], p, s) = {p}
    BY <1>1 DEF SignatureOf
  <2>6. paths = {p}
    BY <1>0, <2>4
  <2> QED
    BY <2>4, <2>5, <2>6
<1>2. CASE ~ (edge.kind = "PERFORMS" /\ Upper[edge.target] \in index[p].subs)
  <2>1. SignatureOf(index[p], p, s)
          = IF ResolvedAt(p, s) THEN {res[p].entries[s].path} ELSE {}
    BY <1>2 DEF SignatureOf
  <2> QED
    BY <1>0, <2>1
<1> QED
  BY <1>1, <1>2

\* signature_help.go and definition.go: the parameters shown for a call are
\* those of the file its definition is in, although signature help tries the
\* subroutines of the file before the resolution set and definition after it.
THEOREM SignatureFollows == Spec => []SignatureFollowsDefinition
BY SignatureFromQuery, InitQuery, StepQuery, PTL DEF Spec

-------------------------------------------------------------------------------
\* A resolved edge has the sites of its target, whatever name it was asked by.
LEMMA SitesOfResolved ==
  ASSUME QueryInv, NEW p \in DOMAIN index, NEW s, ResolvedAt(p, s),
         NEW target, target = res[p].entries[s].path, NEW source
  PROVE  /\ ReferencesOfEdge(source, p, s)
              = EdgeSites(target, index[target].type)
         /\ index[target].type # "ddm"
         /\ <<p, s>> \in EdgeSites(target, index[target].type)
<1> DEFINE entry == res[p].entries[s]
<1>1. /\ entry.type = index[target].type /\ entry.type # "ddm"
      /\ HasEntry(p, s) /\ s \in DOMAIN index[p].edges
      /\ entry.outcome = "resolved"
  BY EntryOf DEF ResolvedAt
<1>2. ReferencesOfEdge(source, p, s) = EdgeSites(target, entry.type)
  BY <1>1 DEF ReferencesOfEdge, ReferenceSites
<1>3. EdgeMatchesTarget(entry, target, entry.type)
  BY <1>1 DEF EdgeMatchesTarget
<1>4. <<p, s>> \in EdgeSites(target, entry.type)
  <2>1. <<p, s>> \in {<<p, t>> : t \in DOMAIN index[p].edges}
    BY <1>1
  <2>2. <<p, s>> \in UNION {{<<r, t>> : t \in DOMAIN index[r].edges} :
                              r \in DOMAIN index}
    BY <2>1
  <2> QED
    BY <1>1, <1>3, <2>2 DEF EdgeSites
<1> QED
  BY <1>1, <1>2, <1>4

\* Each site of an object is an edge that is resolved to it.
LEMMA SiteIsResolved ==
  ASSUME NEW target, NEW type, NEW site \in EdgeSites(target, type)
  PROVE  /\ ResolvedAt(site[1], site[2])
         /\ res[site[1]].entries[site[2]].path = target
BY DEF EdgeSites, EdgeMatchesTarget, ResolvedAt

LEMMA ReferencesFromQuery == QueryInv => ReferencesAgree
<1> SUFFICES ASSUME QueryInv, NEW p \in DOMAIN index,
                    NEW s \in DOMAIN index[p].edges, ResolvedAt(p, s)
             PROVE
               LET target == res[p].entries[s].path
                   sites  == ReferencesOfEdge(index[p], p, s)
               IN  /\ <<p, s>> \in Highlights(index[p], p, s)
                   /\ \A site \in sites :
                        {d.path : d \in DefinitionOfEdge(index[site[1]],
                                                         site[1], site[2])}
                          = {target}
                   /\ \A hover \in HoverOfEdge(p, s) :
                        hover.card = "module" =>
                          hover.inbound = CallCountLens(index[target], target)
                   /\ CallCountLens(index[target], target)
                        = Cardinality(sites)
                   /\ IncomingCallSites(Object(target)) = sites
  BY DEF ReferencesAgree
<1> DEFINE target == res[p].entries[s].path
           sites  == ReferencesOfEdge(index[p], p, s)
<1>1. /\ sites = EdgeSites(target, index[target].type)
      /\ index[target].type # "ddm"
      /\ <<p, s>> \in sites
  BY SitesOfResolved
<1>2. <<p, s>> \in Highlights(index[p], p, s)
  BY <1>1 DEF Highlights
<1>3. ASSUME NEW site \in sites
      PROVE  {d.path : d \in DefinitionOfEdge(index[site[1]],
                                              site[1], site[2])} = {target}
  <2>1. /\ ResolvedAt(site[1], site[2])
        /\ res[site[1]].entries[site[2]].path = target
    <3>1. site \in EdgeSites(target, index[target].type)
      BY <1>1, <1>3, Zenon
    <3> HIDE DEF target
    <3> QED
      BY <3>1, SiteIsResolved
  <2>2. ASSUME NEW q, NEW t, ResolvedAt(q, t)
        PROVE  {d.path : d \in DefinitionOfEdge(index[q], q, t)}
                 = {res[q].entries[t].path}
    BY <2>2, DefinitionIsAtTarget
  <2>3. {d.path : d \in DefinitionOfEdge(index[site[1]], site[1], site[2])}
          = {res[site[1]].entries[site[2]].path}
    BY <2>1, <2>2
  <2> QED
    BY <2>1, <2>3
<1>4. CallCountLens(index[target], target) = Cardinality(sites)
  BY <1>1 DEF CallCountLens, ReferenceSites
<1>5. IncomingCallSites(Object(target)) = sites
  BY <1>1 DEF IncomingCallSites, Object, Declared
<1>6. ASSUME NEW hover \in HoverOfEdge(p, s), hover.card = "module"
      PROVE  hover.inbound = Cardinality(sites)
  <2>1. HasEntry(p, s) /\ res[p].entries[s].outcome = "resolved"
    BY DEF ResolvedAt
  <2> HIDE DEF sites
  <2> QED
    BY <1>6, <2>1 DEF HoverOfEdge, sites
<1> HIDE DEF target, sites
<1>7. \A hover \in HoverOfEdge(p, s) :
        hover.card = "module" =>
          hover.inbound = CallCountLens(index[target], target)
  BY <1>4, <1>6
<1> QED
  BY <1>2, <1>3, <1>4, <1>5, <1>7 DEF target, sites

\* references.go, call_hierarchy.go, codelens.go and hover.go: the references
\* of an edge, the incoming calls of its target, the code lens there and the
\* count of the hover are one set of sites, each of which leads back.
THEOREM ReferencesAgreeAlways == Spec => []ReferencesAgree
BY ReferencesFromQuery, InitQuery, StepQuery, PTL DEF Spec

-------------------------------------------------------------------------------
LEMMA ConverseFromQuery == QueryInv => CallsAreConverse
<1> SUFFICES ASSUME QueryInv, NEW p \in DOMAIN index
             PROVE
               LET edges    == index[p].edges
                   outgoing == OutgoingCalls(Object(p))
               IN  /\ \A q \in DOMAIN index \ {p} :
                        {s \in DOMAIN edges : <<Object(q), s>> \in outgoing}
                          = {s \in DOMAIN edges :
                               /\ edges[s].kind
                                    \in {"CALLS", "NAVIGATES_TO", "PERFORMS"}
                               /\ <<p, s>> \in IncomingCallSites(Object(q))}
                   /\ \A call \in outgoing :
                        \/ PrepareCallHierarchy(index[p], p, call[2])
                             = {call[1]}
                        \/ /\ call[1] = Object(p)
                           /\ Upper[edges[call[2]].target] \in index[p].subs
  BY DEF CallsAreConverse
<1> DEFINE edges    == index[p].edges
           outgoing == OutgoingCalls(Object(p))
           bound(s) == res[p].entries[s].path
           calls    == {s \in DOMAIN edges :
                          /\ edges[s].kind \in OutgoingCallKinds
                          /\ ResolvedAt(p, s)}
           within(s) == edges[s].kind = "PERFORMS" /\ bound(s) = p
           found(s)  == Upper[edges[s].target] \in index[p].subs
<1>1. outgoing = {<<Object(bound(s)), s>> : s \in {t \in calls : ~ within(t)}}
                 \cup
                 {<<Declared(p, Upper[edges[s].target]), s>> :
                    s \in {t \in calls : within(t) /\ found(t)}}
  BY DEF OutgoingCalls, Object, Declared
<1>2. \A q, r, x : /\ Object(q) = Object(r) => q = r
                   /\ Object(q) = Declared(r, x) => q = r
  BY DEF Object, Declared
<1> HIDE DEF outgoing
<1>3. ASSUME NEW q \in DOMAIN index \ {p}, NEW s \in DOMAIN edges
      PROVE  <<Object(q), s>> \in outgoing
               <=> edges[s].kind \in OutgoingCallKinds
                   /\ <<p, s>> \in IncomingCallSites(Object(q))
  <2>1. <<Object(q), s>> \in outgoing
          => s \in calls /\ bound(s) = q
    <3> HIDE DEF calls, within, found, bound, edges
    <3> QED
      BY <1>1, <1>2
  <2>2. s \in calls /\ bound(s) = q => <<Object(q), s>> \in outgoing
    <3>1. bound(s) = q => ~ within(s)
      OBVIOUS
    <3> HIDE DEF calls, within, found, bound, edges
    <3> QED
      BY <1>1, <3>1
  <2>3. ResolvedAt(p, s) /\ bound(s) = q
          => <<p, s>> \in EdgeSites(q, index[q].type)
    BY SitesOfResolved
  <2>4. <<p, s>> \in EdgeSites(q, index[q].type)
          => ResolvedAt(p, s) /\ bound(s) = q
    BY SiteIsResolved
  <2>5. IncomingCallSites(Object(q)) = EdgeSites(q, index[q].type)
    BY DEF IncomingCallSites, Object, Declared
  <2> QED
    BY <2>1, <2>2, <2>3, <2>4, <2>5
<1>4. ASSUME NEW call \in outgoing
      PROVE  \/ PrepareCallHierarchy(index[p], p, call[2]) = {call[1]}
             \/ /\ call[1] = Object(p)
                /\ Upper[edges[call[2]].target] \in index[p].subs
  <2>1. ASSUME NEW s \in calls
        PROVE  PrepareCallHierarchy(index[p], p, s)
                 = {TargetOf(p, edges[s], bound(s))}
    <3>1. edges[s].kind \in CallableKinds
      BY DEF CallableKinds, OutgoingCallKinds
    <3> QED
      BY <3>1 DEF PrepareCallHierarchy, DefinitionOfEdge, ResolvedAt
  <2>2. ASSUME NEW s \in calls, call = <<Object(bound(s)), s>>
        PROVE  \/ PrepareCallHierarchy(index[p], p, s) = {call[1]}
               \/ call[1] = Object(p) /\ found(s)
    BY <2>1, <2>2 DEF TargetOf
  <2>3. ASSUME NEW s \in calls, within(s), found(s),
               call = <<Declared(p, Upper[edges[s].target]), s>>
        PROVE  PrepareCallHierarchy(index[p], p, s) = {call[1]}
    BY <2>1, <2>3 DEF TargetOf
  <2>4. \/ \E s \in calls : call = <<Object(bound(s)), s>>
        \/ \E s \in calls :
             /\ within(s) /\ found(s)
             /\ call = <<Declared(p, Upper[edges[s].target]), s>>
    <3> HIDE DEF calls, within, found, bound, edges
    <3> QED
      BY <1>1
  <2>5. CASE \E s \in calls : call = <<Object(bound(s)), s>>
    <3>1. PICK s \in calls : call = <<Object(bound(s)), s>>
      BY <2>5
    <3>2. call[2] = s
      BY <3>1
    <3> QED
      BY <2>2, <3>1, <3>2
  <2>6. CASE \E s \in calls :
               /\ within(s) /\ found(s)
               /\ call = <<Declared(p, Upper[edges[s].target]), s>>
    <3>1. PICK s \in calls :
            /\ within(s) /\ found(s)
            /\ call = <<Declared(p, Upper[edges[s].target]), s>>
      BY <2>6
    <3>2. call[2] = s
      BY <3>1
    <3> QED
      BY <2>3, <3>1, <3>2
  <2> QED
    BY <2>4, <2>5, <2>6
<1>5. \A q \in DOMAIN index \ {p} :
        {s \in DOMAIN edges : <<Object(q), s>> \in outgoing}
          = {s \in DOMAIN edges :
               /\ edges[s].kind \in {"CALLS", "NAVIGATES_TO", "PERFORMS"}
               /\ <<p, s>> \in IncomingCallSites(Object(q))}
  BY <1>3 DEF OutgoingCallKinds
<1> QED
  BY <1>4, <1>5 DEF outgoing

\* call_hierarchy.go: the calls that go out of a file to another are those that
\* come in there, and an item found by a call is the item prepared at it, in
\* every workspace; the two sweeps and their filters are different code.
THEOREM CallsConverse == Spec => []CallsAreConverse
BY ConverseFromQuery, InitQuery, StepQuery, PTL DEF Spec

-------------------------------------------------------------------------------
\* Of finitely many declarations there is a first, in both orders.
LEMMA LeastOf ==
  ASSUME NEW S, S # {}, NEW rank \in [S -> Nat]
  PROVE  \E d \in S : \A e \in S : rank[d] <= rank[e]
<1> DEFINE ranks == {rank[d] : d \in S}
<1>1. ranks \in SUBSET Nat /\ ranks # {}
  OBVIOUS
<1>2. Min(ranks) \in ranks /\ \A n \in ranks : Min(ranks) <= n
  BY <1>1, MinIsLeast
<1>3. PICK d \in S : rank[d] = Min(ranks)
  BY <1>2
<1> QED
  BY <1>2, <1>3

LEMMA FirstOfFields ==
  ASSUME NEW S, IsFiniteSet(S), S # {}
  PROVE  FirstInText(S) \in S /\ FirstSought(S) \in S
<1>1. FirstInText(S) \in S
  <2> DEFINE Rank(d) == Cardinality({e \in S : InText(e, d)})
             rank == [d \in S |-> Rank(d)]
  <2>1. \A d \in S : Rank(d) \in Nat
    BY FS_Subset, FS_CardinalityType
  <2>2. rank \in [S -> Nat]
    BY <2>1
  <2>3. \A d \in S : rank[d] = Rank(d)
    OBVIOUS
  <2> HIDE DEF rank, Rank
  <2>4. \E d \in S : \A e \in S : Rank(d) <= Rank(e)
    BY <2>2, <2>3, LeastOf
  <2> QED
    BY <2>4 DEF FirstInText, Rank
<1>2. FirstSought(S) \in S
  <2> DEFINE Rank(d) == Cardinality({e \in S : Sought(e, d)})
             rank == [d \in S |-> Rank(d)]
  <2>1. \A d \in S : Rank(d) \in Nat
    BY FS_Subset, FS_CardinalityType
  <2>2. rank \in [S -> Nat]
    BY <2>1
  <2>3. \A d \in S : rank[d] = Rank(d)
    OBVIOUS
  <2> HIDE DEF rank, Rank
  <2>4. \E d \in S : \A e \in S : Rank(d) <= Rank(e)
    BY <2>2, <2>3, LeastOf
  <2> QED
    BY <2>4 DEF FirstSought, Rank
<1> QED
  BY <1>1, <1>2

\* A group only leaves declarations out.
LEMMA GroupNarrows ==
  ASSUME NEW fields, NEW name, NEW group
  PROVE  FindDeclaration(fields, name, group)
           \subseteq FindDeclaration(fields, name, EmptyName)
BY DEF FindDeclaration

LEMMA VariablesFromQuery == QueryInv => VariablesAgree
<1> SUFFICES ASSUME QueryInv, NEW p \in DOMAIN index, NEW s \in DOMAIN index[p].uses
             PROVE
               LET use        == index[p].uses[s]
                   definition == VariableDefinition(index[p], p, use)
                   references == VariableReferences(index[p], p, use.name, TRUE)
               IN  /\ definition # {} => s \in references.uses
                   /\ FindDeclaration(index[p].fields, use.name, use.group)
                        = FindDeclaration(index[p].fields, use.name, EmptyName) =>
                        /\ references.declarations \subseteq definition
                        /\ references.declarations = {} => definition = {}
  BY DEF VariablesAgree
<1> DEFINE source     == index[p]
           use        == source.uses[s]
           name       == use.name
           grouped    == FindDeclaration(source.fields, name, use.group)
           declared   == FindDeclaration(source.fields, name, EmptyName)
           inAreas    == FieldInDataAreas(source, p, name)
           definition == VariableDefinition(source, p, use)
           references == VariableReferences(source, p, name, TRUE)
           own        == OwnReferences(source, p, name, TRUE)
           area       == DataAreaReferences(source, p, name)
<1>1. s \in UsesOf(source, name)
  BY DEF UsesOf
<1>2. grouped \subseteq declared
  BY GroupNarrows
<1>3. definition = IF grouped # {} THEN {Field(p, d) : d \in grouped} ELSE inAreas
  BY DEF VariableDefinition
<1>4. area = IF inAreas = {}
               THEN NoReferences
               ELSE [declarations |-> inAreas, uses |-> UsesOf(source, name)]
  BY DEF DataAreaReferences
<1>5. NoReferences.declarations = {}
  BY DEF NoReferences
<1>6. CASE declared = {}
  <2>1. own = NoReferences
    BY <1>6 DEF OwnReferences
  <2>2. references = area
    BY <2>1 DEF VariableReferences
  <2> HIDE DEF own, references, area, inAreas, definition, grouped, declared, name, use, source
  <2>3. definition = inAreas
    BY <1>2, <1>3, <1>6
  <2>4. references.declarations = inAreas
        /\ (inAreas # {} => references.uses = UsesOf(source, name))
    BY <1>4, <1>5, <2>2
  <2> QED
    BY <1>1, <2>3, <2>4 DEF references, definition, name, use, source
<1>7. CASE declared # {}
  <2>1. own = [declarations |-> {Field(p, FirstInText(declared))},
               uses         |-> UsesOf(source, name)]
    BY <1>7 DEF OwnReferences
  <2>2. FirstInText(declared) \in declared
    <3>1. IsFiniteSet(source.fields)
      BY IndexedStructure DEF StructureOK
    <3>2. declared \in SUBSET source.fields
      BY DEF FindDeclaration, Named
    <3>3. IsFiniteSet(declared)
      BY <3>1, <3>2, FS_Subset
    <3> HIDE DEF declared
    <3> QED
      BY <1>7, <3>3, FirstOfFields
  <2>3. references = IF own # NoReferences THEN own ELSE area
    BY DEF VariableReferences
  <2> HIDE DEF own, references, area, inAreas, definition, grouped, declared, name, use, source
  <2>4. own # NoReferences
    BY <1>5, <2>1
  <2>5. references.declarations = {Field(p, FirstInText(declared))}
        /\ references.uses = UsesOf(source, name)
    BY <2>1, <2>3, <2>4
  <2>6. grouped = declared => references.declarations \subseteq definition
    BY <1>3, <1>7, <2>2, <2>5
  <2> QED
    BY <1>1, <2>5, <2>6 DEF references, definition, grouped, declared, name, use, source
<1> QED
  BY <1>6, <1>7

\* references.go and definition.go: a use that has a definition is one of its own
\* references, and the declaration these name is one definition leads to, unless
\* the use is qualified and the name is declared outside its group too.
THEOREM VariablesAgreeAlways == Spec => []VariablesAgree
BY VariablesFromQuery, InitQuery, StepQuery, PTL DEF Spec

-------------------------------------------------------------------------------
LEMMA DDMsFromQuery == QueryInv => DDMsAgree
<1> SUFFICES ASSUME QueryInv, NEW p \in DOMAIN index,
                    NEW name \in Names \ {EmptyName}
             PROVE
               LET definition == DDMDefinition(p, name)
                   completed  == FieldCompletionDDM(name)
               IN  /\ completed # {} => HoverDDM(name) = completed
                   /\ completed # {} /\ definition # {} =>
                        \A q \in completed :
                          /\ definition = {q}
                          /\ \A field \in index[q].fields :
                               {d.path : d \in ViewField(p, name, field.name)}
                                 = {q}
                   /\ OwningLibrary(p) = NoLibrary =>
                        definition = HoverDDM(name)
  BY DEF DDMsAgree
<1> DEFINE D == OfNameAndType(index, Upper[name], "ddm")
           hits == ResolveCandidateViaChain(D, p)
           definition == DDMDefinition(p, name)
           completed == FieldCompletionDDM(name)
<1>1. DDMs(name) = D
  BY DEF DDMs, OfNameAndType
<1>2. definition = IF hits = {} THEN {} ELSE {FirstByPath(hits)}
  BY DEF DDMDefinition, ResolveDDMPath, OfNameAndType
<1>3. hits \in SUBSET D
  BY ViaChain DEF Reached
<1>4. hits # {} => FirstByPath(hits) \in hits
  BY <1>3, FirstOfHits DEF QueryInv
<1>5. D \in SUBSET DOMAIN index
  BY DEF OfNameAndType, FilterByType, NameIndex
<1>6. completed = {q \in D : D = {q}}
  BY <1>1 DEF FieldCompletionDDM
<1>7. HoverDDM(name) = IF D = {} THEN {} ELSE {FirstByPath(D)}
  BY <1>1 DEF HoverDDM
<1>8. OwningLibrary(p) = NoLibrary => hits = D
  BY DEF ResolveCandidateViaChain, SearchChain
<1>9. D # {} => FirstByPath(D) \in D
  BY FirstOfHits DEF QueryInv
<1> HIDE DEF D, hits, definition, completed
<1>10. ASSUME NEW q \in completed
       PROVE  /\ HoverDDM(name) = completed
              /\ definition # {} => definition = {q}
  <2>1. D = {q} /\ completed = {q}
    BY <1>6, <1>10
  <2>2. HoverDDM(name) = {q}
    BY <1>7, <1>9, <2>1
  <2>3. definition # {} => definition = {q}
    BY <1>2, <1>3, <1>4, <2>1
  <2> QED
    BY <2>1, <2>2, <2>3
<1>11. ASSUME NEW q \in completed, definition # {},
              NEW field \in index[q].fields
       PROVE  {d.path : d \in ViewField(p, name, field.name)} = {q}
  <2> DEFINE found == Named(index[q].fields, field.name)
  <2>1. definition = {q} /\ q \in DOMAIN index
    BY <1>5, <1>6, <1>10, <1>11
  <2>2. field \in found
    BY <1>11 DEF Named
  <2>3. ResolveDDMPath(index, name, p) = {q}
    BY <2>1 DEF definition, DDMDefinition
  <2>4. ViewField(p, name, field.name) = FindField(q, field.name)
    BY <2>3 DEF ViewField
  <2>5. FindField(q, field.name) = {Field(q, FirstSought(found))}
    BY <2>2 DEF FindField
  <2>6. Field(q, FirstSought(found)).path = q
    BY DEF Field
  <2> HIDE DEF found
  <2> QED
    BY <2>4, <2>5, <2>6
<1>12. OwningLibrary(p) = NoLibrary => definition = HoverDDM(name)
  BY <1>2, <1>7, <1>8
<1>13. completed # {} => HoverDDM(name) = completed
  BY <1>10
<1>14. completed # {} /\ definition # {} =>
         \A q \in completed :
           /\ definition = {q}
           /\ \A field \in index[q].fields :
                {d.path : d \in ViewField(p, name, field.name)} = {q}
  BY <1>10, <1>11
<1> QED
  BY <1>12, <1>13, <1>14 DEF definition, completed

\* hover.go, completion.go, definition.go: the three lookups of a DDM fit
\* together, in every workspace divided into any libraries.
THEOREM DDMsAgreeAlways == Spec => []DDMsAgree
BY DDMsFromQuery, InitQuery, StepQuery, PTL DEF Spec

-------------------------------------------------------------------------------
\* The files a definition leads to are offered where an edge to them is typed.
LEMMA OfferedFromQuery == QueryInv => DefinitionIsOffered
<1> SUFFICES ASSUME QueryInv, NEW p \in DOMAIN index,
                    NEW s \in DOMAIN index[p].edges,
                    index[p].edges[s].kind \in StaticKinds,
                    index[p].edges[s].library = NoLibrary,
                    NEW typed \in Names,
                    Upper[index[p].edges[s].target] \in StartsWith[Upper[typed]],
                    ~ (index[p].edges[s].kind = "PERFORMS" /\ typed \in Sigils)
             PROVE
               {d.path : d \in DefinitionOfEdge(index[p], p, s)}
                 \subseteq {d.path : d \in CompletionAt(index[p], p,
                                                        index[p].edges[s].kind, typed)}
  BY DEF DefinitionIsOffered
<1> DEFINE edge    == index[p].edges[s]
           name    == Upper[edge.target]
           type    == ExpectedType[edge.kind]
           offered == CompletionAt(index[p], p, edge.kind, typed)
           entry   == res[p].entries[s]
           paths   == {d.path : d \in DefinitionOfEdge(index[p], p, s)}
<1>1. HasEntry(p, s) /\ entry = ResolveEdge(index, p, edge)
  BY EntryOf
<1>2. ResolvedAt(p, s) => paths = {entry.path}
  BY DefinitionIsAtTarget
<1>3. entry.outcome = "ambiguous" => paths = entry.candidates
  <2> SUFFICES ASSUME entry.outcome = "ambiguous"
               PROVE  paths = entry.candidates
    OBVIOUS
  <2>1. DefinitionOfEdge(index[p], p, s) = {Object(q) : q \in entry.candidates}
    BY <1>1 DEF DefinitionOfEdge
  <2>2. \A q : Object(q).path = q
    BY DEF Object, Declared
  <2> HIDE DEF entry
  <2> QED
    BY <2>1, <2>2
<1>4. entry.outcome = "unresolved" => paths = {}
  BY <1>1 DEF DefinitionOfEdge
<1>5. CASE edge.kind = "PERFORMS" /\ edge.inline
  <2>1. name \in index[p].subs
    BY <1>5, IndexedStructure DEF StructureOK
  <2>2. entry = Resolved(p, index[p].type)
    BY <1>1, <1>5 DEF ResolveEdge, DynamicKinds
  <2>3. paths = {p}
    BY <1>1, <1>2, <2>2 DEF ResolvedAt, Resolved
  <2>4. Declared(p, name) \in offered
    BY <1>5, <2>1 DEF CompletionAt, PerformCompletion
  <2>5. Declared(p, name).path = p
    BY DEF Declared
  <2> HIDE DEF offered, paths
  <2>6. p \in {d.path : d \in offered}
    BY <2>4, <2>5
  <2> QED
    BY <2>3, <2>6 DEF offered, paths
<1>6. CASE ~ (edge.kind = "PERFORMS" /\ edge.inline)
  <2> DEFINE C    == OfNameAndType(index, name, type)
             hits == ResolveCandidateViaChain(C, p)
             modules == NamesWithPrefix(index, StartsWith[Upper[typed]], type, p)
  <2>1. entry = ResolveByName(index, p, edge, type)
    BY <1>1, <1>6 DEF ResolveEdge, StaticKinds, DynamicKinds
  <2>2. ModuleCompletion(p, typed, type) \subseteq offered
    BY DEF CompletionAt, PerformCompletion, ExpectedType
  <2>3. \A q \in modules : Object(q) \in offered /\ Object(q).path = q
    BY <2>2 DEF ModuleCompletion, Object, Declared
  <2>4. modules \subseteq {d.path : d \in offered}
    BY <2>3
  <2>5. CASE name = EmptyName
    <3>1. entry = NoTarget
      BY <2>1, <2>5 DEF ResolveByName
    <3>2. paths = {}
      BY <1>4, <3>1 DEF NoTarget, Unresolved
    <3> QED
      BY <3>2
  <2>6. CASE name # EmptyName
    <3> HIDE DEF paths, offered, entry
    <3>1. Reached(C, p) \subseteq modules
      <4>1. NamesWithPrefix(index, {name}, type, p) = Reached(C, p)
        BY OfferedIsReached
      <4> QED
        BY <4>1 DEF NamesWithPrefix
    <3>2. hits \subseteq modules
      BY <3>1, ViaChain
    <3>3. \/ hits = {} /\ entry = NoTarget
          \/ hits # {} /\ entry = Resolved(FirstByPath(hits), type)
          \/ hits # {} /\ hits = Reached(C, p) /\ entry = Ambiguous(hits)
      BY <2>1, <2>6, ByNameOutcome DEF QueryInv
    <3>4. hits # {} => FirstByPath(hits) \in hits
      <4>1. hits \in SUBSET C
        BY ViaChain DEF Reached
      <4> QED
        BY <4>1, FirstOfHits DEF QueryInv
    <3>5. entry.outcome = "resolved" => ResolvedAt(p, s)
      BY <1>1 DEF ResolvedAt, entry
    <3> HIDE DEF hits, modules, C
    <3>6. paths \subseteq modules
      <4>1. CASE entry = NoTarget
        BY <1>4, <4>1 DEF NoTarget, Unresolved
      <4>2. CASE hits # {} /\ entry = Resolved(FirstByPath(hits), type)
        BY <1>2, <3>2, <3>4, <3>5, <4>2 DEF Resolved
      <4>3. CASE entry = Ambiguous(hits)
        BY <1>3, <3>2, <4>3 DEF Ambiguous
      <4> QED
        BY <3>3, <4>1, <4>2, <4>3
    <3>7. paths \subseteq {d.path : d \in offered}
      BY <2>4, <3>6
    <3> QED
      BY <3>7 DEF paths, offered
  <2> QED
    BY <2>5, <2>6
<1> QED
  BY <1>5, <1>6

\* completion.go and definition.go: the file an edge leads to is one that is
\* offered where its target is typed, for every prefix of it but the one of a
\* PERFORM that begins with a sigil.
THEOREM DefinitionIsOfferedAlways == Spec => []DefinitionIsOffered
BY OfferedFromQuery, InitQuery, StepQuery, PTL DEF Spec
===============================================================================
