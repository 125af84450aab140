--------------------------- MODULE ResolutionProofs ---------------------------
(***************************************************************************)
(* The invariant F6a of internal/workspace/resolution.go: an incremental   *)
(* pass over the changed files gives the resolution set a full pass would. *)
(***************************************************************************)
EXTENDS Resolution, TLAPS, WellFoundedInduction, SequenceTheorems

\* What an index update may do between two passes: add entries and replace
\* entries, all of them among the changed paths.  Nothing ever leaves an index.
Extends(index, next, changed) ==
  /\ changed \subseteq DOMAIN next
  /\ DOMAIN index \subseteq DOMAIN next
  /\ \A p \in DOMAIN next \ changed : p \in DOMAIN index /\ next[p] = index[p]

\* A name no changed object has is the name of the same candidates of every
\* type in both indexes.
LEMMA SameCandidates ==
  ASSUME NEW index, NEW next, NEW changed, Extends(index, next, changed),
         NEW name, name \notin {ObjectName(p) : p \in changed \cap DOMAIN next},
         NEW type
  PROVE  FilterByType(next, NameIndex(next, name), type)
           = FilterByType(index, NameIndex(index, name), type)
<1>1. NameIndex(next, name) = NameIndex(index, name)
  BY DEF NameIndex, Extends
<1>2. \A p \in NameIndex(next, name) : next[p] = index[p]
  BY DEF NameIndex, Extends
<1> QED
  BY <1>1, <1>2 DEF FilterByType

\* An edge that names no changed object is bound by name to the same object,
\* whatever type it expects: the candidates are all a binding depends on.
LEMMA SameResolution ==
  ASSUME NEW index, NEW next, NEW changed, Extends(index, next, changed),
         NEW file, NEW edge,
         Upper[edge.target]
           \notin {ObjectName(p) : p \in changed \cap DOMAIN next},
         NEW type
  PROVE  ResolveByName(next, file, edge, type)
           = ResolveByName(index, file, edge, type)
<1>1. FilterByType(next, NameIndex(next, Upper[edge.target]), type)
        = FilterByType(index, NameIndex(index, Upper[edge.target]), type)
  BY SameCandidates
<1> QED
  BY <1>1 DEF ResolveByName

\* Such an edge of an unchanged file keeps its outcome.
LEMMA SameEdge ==
  ASSUME NEW index, NEW next, NEW changed, Extends(index, next, changed),
         NEW file, next[file] = index[file], NEW edge,
         Upper[edge.target]
           \notin {ObjectName(p) : p \in changed \cap DOMAIN next}
  PROVE  ResolveEdge(next, file, edge) = ResolveEdge(index, file, edge)
<1>1. \A type : ResolveByName(next, file, edge, type)
                  = ResolveByName(index, file, edge, type)
  BY SameResolution
<1>2. ResolveDataAreaEdge(next, file, edge)
        = ResolveDataAreaEdge(index, file, edge)
  BY <1>1 DEF ResolveDataAreaEdge
<1> QED
  BY <1>1, <1>2 DEF ResolveEdge

\* A file the incremental pass skips would come out of a full pass the same.
LEMMA SameFile ==
  ASSUME NEW index, NEW next, NEW changed, Extends(index, next, changed),
         NEW file \in DOMAIN next, file \notin AffectedFiles(next, changed)
  PROVE  /\ file \in DOMAIN index
         /\ ResolveFile(next, file) = ResolveFile(index, file)
<1>1. file \in DOMAIN index /\ next[file] = index[file]
  BY DEF Extends, AffectedFiles
<1>2. \A s \in DOMAIN next[file].edges :
        ResolveEdge(next, file, next[file].edges[s])
          = ResolveEdge(index, file, next[file].edges[s])
  <2> TAKE s \in DOMAIN next[file].edges
  <2>1. Upper[next[file].edges[s].target]
          \notin {ObjectName(p) : p \in changed \cap DOMAIN next}
    BY DEF AffectedFiles
  <2> QED
    BY <1>1, <2>1, SameEdge
<1>3. ResolveEdges(next, file) = ResolveEdges(index, file)
  BY <1>1, <1>2 DEF ResolveEdges
<1>4. AmbiguityDiagnostics(next, file) = AmbiguityDiagnostics(index, file)
  BY <1>1, <1>2 DEF AmbiguityDiagnostics
<1> QED
  BY <1>1, <1>3, <1>4 DEF ResolveFile

\* F6a.  Whatever the index was, whatever entries an update added or replaced,
\* ResolveInto makes of the old resolution set the one Resolve computes.
THEOREM IncrementalEqualsFull ==
  ASSUME NEW index, NEW next, NEW changed, Extends(index, next, changed),
         changed = {} => next = index
  PROVE  ResolveInto(Resolve(index), next, changed) = Resolve(next)
<1>1. CASE changed = {}
  BY <1>1 DEF ResolveInto
<1>2. CASE changed # {}
  <2> DEFINE affected == AffectedFiles(next, changed)
             kept     == DOMAIN Resolve(index) \ affected
             redone   == affected \cap DOMAIN next
  <2>1. DOMAIN Resolve(index) = DOMAIN index
    BY DEF Resolve
  <2>2. kept \cup redone = DOMAIN next
    BY <2>1, SameFile DEF Extends
  <2>3. \A p \in DOMAIN next \ redone :
          Resolve(index)[p] = ResolveFile(next, p)
    BY SameFile DEF Resolve
  <2> HIDE DEF affected, kept, redone
  <2>4. ResolveInto(Resolve(index), next, changed)
          = [p \in kept \cup redone |->
               IF p \in redone THEN ResolveFile(next, p) ELSE Resolve(index)[p]]
    BY <1>2 DEF ResolveInto, affected, kept, redone
  <2> QED
    BY <2>2, <2>3, <2>4 DEF Resolve
<1> QED
  BY <1>1, <1>2

-------------------------------------------------------------------------------
\* Putting entries into an index extends it among the paths put.
LEMMA PutExtends ==
  ASSUME NEW f, NEW updates
  PROVE  Extends(f, Put(f, updates), DOMAIN updates)
BY DEF Extends, Put

\* One lock section of applyDocumentChange or replayOpenBuffers: entries are
\* put into the index and the resolution set is recomputed for their paths.
LEMMA LockSection ==
  ASSUME NEW f, NEW updates, DOMAIN updates # {}
  PROVE  ResolveInto(Resolve(f), Put(f, updates), DOMAIN updates)
           = Resolve(Put(f, updates))
BY PutExtends, IncrementalEqualsFull

\* Putting entries of the right shape into an index of the right shape.
LEMMA PutTypes ==
  ASSUME NEW f, IndexOK(f), NEW updates, IndexOK(updates)
  PROVE  IndexOK(Put(f, updates))
BY DEF IndexOK, Put

-------------------------------------------------------------------------------
LEMMA LeastNat ==
  ASSUME NEW T \in SUBSET Nat, T # {}
  PROVE  \E x \in T : \A y \in T : x <= y
<1> DEFINE R == OpToRel(<, Nat)
<1>1. IsWellFoundedOn(R, Nat)
  BY NatLessThanWellFounded
<1>2. \A x, y \in Nat : x < y => <<x, y>> \in R
  BY Zenon DEF OpToRel
<1> HIDE DEF R
<1>3. PICK x \in T : \A y \in T : ~ (<<y, x>> \in R)
  BY <1>1, WFMin
<1>4. ASSUME NEW y \in T PROVE x <= y
  <2>1. x \in Nat /\ y \in Nat
    OBVIOUS
  <2>2. ~ (y < x)
    BY <1>2, <1>3, <2>1
  <2> QED
    BY <2>1, <2>2
<1> QED
  BY <1>4

\* The least path of a set of paths is one of them.
LEMMA FirstIsMember ==
  ASSUME NEW S \in SUBSET Paths, S # {}
  PROVE  FirstByPath(S) \in S
<1> DEFINE Ranks == {PathRank[p] : p \in S}
<1>1. Ranks \in SUBSET Nat /\ Ranks # {}
  BY ConstantsAssumption
<1>2. PICK r \in Ranks : \A q \in Ranks : r <= q
  BY <1>1, LeastNat
<1>3. PICK p \in S : PathRank[p] = r
  BY <1>2
<1>4. \A q \in S : PathRank[p] <= PathRank[q]
  BY <1>2, <1>3
<1> QED
  BY <1>3, <1>4 DEF FirstByPath

\* The least of a set of positions.
LEMMA MinIsLeast ==
  ASSUME NEW T \in SUBSET Nat, T # {}
  PROVE  Min(T) \in T /\ \A y \in T : Min(T) <= y
BY LeastNat DEF Min

\* The names of a library's search chain.
ChainNames(lib) == STRING \cup {SystemLibrary, lib}

\* A sequence between two elements.
LEMMA Bracketed ==
  ASSUME NEW S, NEW x \in S, NEW y \in S, NEW s \in Seq(S)
  PROVE  <<x>> \o s \o <<y>> \in Seq(S) /\ <<x>> \o s \o <<y>> # <<>>
<1>1. <<x>> \in Seq(S) /\ <<y>> \in Seq(S)
  OBVIOUS
<1>2. <<x>> \o s \in Seq(S) /\ Len(<<x>> \o s) = 1 + Len(s)
  BY <1>1, ConcatProperties
<1> DEFINE head == <<x>> \o s
<1> HIDE DEF head
<1>3. head \o <<y>> \in Seq(S) /\ Len(head \o <<y>>) = Len(head) + 1
  BY <1>1, <1>2, ConcatProperties DEF head
<1>4. Len(head \o <<y>>) # 0
  BY <1>2, <1>3 DEF head
<1> QED
  BY <1>3, <1>4 DEF head

\* A search chain is a sequence, empty only outside every library.
LEMMA ChainShape ==
  ASSUME NEW lib, lib # NoLibrary
  PROVE  SearchChain(lib) \in Seq(ChainNames(lib)) /\ SearchChain(lib) # <<>>
<1> DEFINE declared == {i \in DOMAIN Libraries : Libraries[i].name = lib}
           steplibs == IF declared = {} THEN <<>>
                                        ELSE Libraries[Min(declared)].steplibs
           Declarations == [name : STRING \ {NoLibrary}, path : Seq(STRING),
                            steplibs : Seq(STRING)]
<1>1. Libraries \in Seq(Declarations)
  BY ConstantsAssumption
<1>2. \A d \in Declarations : d.steplibs \in Seq(STRING)
  OBVIOUS
<1> HIDE DEF Declarations
<1>3. declared \in SUBSET Nat
  BY <1>1
<1>4. steplibs \in Seq(STRING)
  <2>1. CASE declared = {}
    BY <2>1
  <2>2. CASE declared # {}
    <3>1. Min(declared) \in declared
      BY <1>3, <2>2, MinIsLeast
    <3>2. Libraries[Min(declared)] \in Declarations
      BY <1>1, <3>1
    <3> QED
      BY <1>2, <2>2, <3>2
  <2> QED
    BY <2>1, <2>2
<1>5. SearchChain(lib) = <<lib>> \o steplibs \o <<SystemLibrary>>
  BY DEF SearchChain
<1> HIDE DEF steplibs, declared
<1>6. lib \in ChainNames(lib) /\ SystemLibrary \in ChainNames(lib)
  BY DEF ChainNames
<1>7. steplibs \in Seq(ChainNames(lib))
  BY <1>4 DEF ChainNames
<1> QED
  BY <1>5, <1>6, <1>7, Bracketed
===============================================================================
