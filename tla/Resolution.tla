------------------------------ MODULE Resolution ------------------------------
(***************************************************************************)
(* Cross-file resolution of call and dependency edges                      *)
(* (internal/workspace/resolution.go, field_resolution.go and the lookups  *)
(* of index.go).  Everything here is an operator of an index: a function   *)
(* from workspace-relative paths to the analysis of the file,              *)
(*                                                                         *)
(*   [type |-> its ObjectType, edges |-> its edges by source range].       *)
(*                                                                         *)
(* Edges of a file have distinct source ranges (each is the range of its   *)
(* own statement), so a file's edges are a function on Sources and the     *)
(* code's map keyed by (file, source range) is a function of a function.   *)
(***************************************************************************)
EXTENDS Integers, SequencesExt

CONSTANTS
  Paths,      \* workspace-relative paths, the keys of an index
  Segments,   \* Segments[p]: the path p split at its slashes
  PathRank,   \* PathRank[p]: the place of p in the lexicographic order
  Names,      \* object names as source code and file names spell them
  Upper,      \* Upper[n]: strings.ToUpper
  Stem,       \* Stem[p]: the file name of p without its extension
  EmptyName,  \* the name ""
  Sources,    \* source ranges of edges
  Libraries   \* cfg.Resolution.Libraries, in the order of their declaration

NoLibrary == ""

SystemLibrary == "SYSTEM"

ASSUME ConstantsAssumption ==
  /\ IsFiniteSet(Paths)
  /\ Segments \in [Paths -> Seq(STRING)]
  /\ PathRank \in [Paths -> Nat]
  /\ IsInjective(PathRank)
  /\ Upper \in [Names -> Names]
  /\ \A n \in Names : Upper[Upper[n]] = Upper[n]
  /\ \A n \in Names : Upper[n] = EmptyName <=> n = EmptyName
  /\ Stem \in [Paths -> Names]
  /\ EmptyName \in Names
  /\ Libraries \in Seq([name : STRING \ {NoLibrary},
                        path : Seq(STRING),
                        steplibs : Seq(STRING)])

(***************************************************************************)
(* The vocabulary of the model package.  "" is the type of the zero        *)
(* FileAnalysis, "unknown" that of a file the analyzer failed on.          *)
(***************************************************************************)
ObjectTypes ==
  {"program", "subprogram", "externalsubroutine", "copycode", "localdataarea",
   "parameterdataarea", "globaldataarea", "ddm", "unknown", ""}

StaticKinds == {"CALLS", "NAVIGATES_TO", "PERFORMS", "INCLUDES"}

DynamicKinds == {"CALLS_DYNAMIC", "NAVIGATES_TO_DYNAMIC"}

\* inline holds when the extractor found the PERFORMed subroutine in the file
\* itself (a non-zero Target range of a PERFORMS edge).
EdgeEntry ==
  [kind    : StaticKinds \cup DynamicKinds \cup {"USES_DATA_AREA"},
   target  : Names,
   library : STRING,
   inline  : BOOLEAN]

EdgesOK(edges) ==
  /\ DOMAIN edges \subseteq Sources
  /\ \A s \in DOMAIN edges : edges[s] \in EdgeEntry

AnalysisOK(analysis) ==
  analysis.type \in ObjectTypes /\ EdgesOK(analysis.edges)

IndexOK(index) ==
  /\ DOMAIN index \subseteq Paths
  /\ \A p \in DOMAIN index : AnalysisOK(index[p])

Nothing == [p \in {} |-> {}]

Only(p, value) == [q \in {p} |-> value]

\* Index.Add of several entries; an entry is never removed.
Put(f, updates) ==
  [p \in DOMAIN f \cup DOMAIN updates |->
     IF p \in DOMAIN updates THEN updates[p] ELSE f[p]]

-------------------------------------------------------------------------------
(***************************************************************************)
(* Identity of an object: its name and the library that owns it.           *)
(***************************************************************************)

ObjectName(p) == Upper[Stem[p]]

\* The library with the longest path that is a prefix of p on a segment
\* boundary; the first one declared among equals.
OwningLibrary(p) ==
  LET Owns(lib) == lib.path # <<>> /\ IsPrefix(lib.path, Segments[p])
      Longer(i, j) == \/ Len(Libraries[i].path) > Len(Libraries[j].path)
                      \/ /\ Len(Libraries[i].path) = Len(Libraries[j].path)
                         /\ i <= j
      owners == {i \in DOMAIN Libraries : Owns(Libraries[i])}
  IN  IF owners = {}
        THEN NoLibrary
        ELSE Libraries[CHOOSE i \in owners : \A j \in owners : Longer(i, j)].name

\* Current library, its own steplibs, SYSTEM; empty outside every library.
\* A steplib's steplibs are not followed.
SearchChain(lib) ==
  LET declared == {i \in DOMAIN Libraries : Libraries[i].name = lib}
      steplibs == IF declared = {} THEN <<>>
                                   ELSE Libraries[Min(declared)].steplibs
  IN  IF lib = NoLibrary THEN <<>>
                         ELSE <<lib>> \o steplibs \o <<SystemLibrary>>

\* The objects of an index by (uppercase) name, of the type an edge expects.
NameIndex(index, name) == {p \in DOMAIN index : ObjectName(p) = name}

FilterByType(index, candidates, type) ==
  {p \in candidates : index[p].type = type}

FirstByPath(candidates) ==
  CHOOSE p \in candidates : \A q \in candidates : PathRank[p] <= PathRank[q]

-------------------------------------------------------------------------------
(***************************************************************************)
(* Outcomes.                                                               *)
(***************************************************************************)
Resolved(p, type) == [outcome |-> "resolved", path |-> p, type |-> type]

Unresolved(reason) == [outcome |-> "unresolved", reason |-> reason]

Ambiguous(candidates) == [outcome |-> "ambiguous", candidates |-> candidates]

NoTarget == Unresolved("noTarget")

-------------------------------------------------------------------------------
(***************************************************************************)
(* Resolution of one edge.                                                 *)
(***************************************************************************)

\* A bug ChainHits could have: every library of the chain counts alike.
AnyChainHit(candidates, chain) ==
  {p \in candidates : \E i \in DOMAIN chain : OwningLibrary(p) = chain[i]}

\* The candidates in the first library of the chain that has any.
ChainHits(candidates, chain) ==
  LET reached == {i \in DOMAIN chain :
                    \E p \in candidates : OwningLibrary(p) = chain[i]}
  IN  IF reached = {}
        THEN {}
        ELSE {p \in candidates : OwningLibrary(p) = chain[Min(reached)]}

\* Binding to the first of the matches, by path, whatever their number.  The
\* matches were filtered by type, so the type of the one bound is known.
BindFirst(matches, type) ==
  IF matches = {} THEN NoTarget ELSE Resolved(FirstByPath(matches), type)

\* Binding in the flat namespace: only a unique match resolves.
BindUnique(matches, type) ==
  IF \E p, q \in matches : p # q THEN Ambiguous(matches)
                                 ELSE BindFirst(matches, type)

ResolveByName(index, file, edge, type) ==
  LET name       == Upper[edge.target]
      candidates == FilterByType(index, NameIndex(index, name), type)
      chain      == SearchChain(OwningLibrary(file))
  IN  CASE name = EmptyName -> NoTarget
        [] name # EmptyName /\ edge.library # NoLibrary ->
             BindFirst({p \in candidates : OwningLibrary(p) = edge.library},
                       type)
        [] name # EmptyName /\ edge.library = NoLibrary /\ chain # <<>> ->
             BindFirst(ChainHits(candidates, chain), type)
        [] OTHER -> BindUnique(candidates, type)

\* Local, then parameter, then global data area: the first one that is found.
DataAreaTypes == <<"localdataarea", "parameterdataarea", "globaldataarea">>

ResolveDataAreaEdge(index, file, edge) ==
  LET Try(i) == ResolveByName(index, file, edge, DataAreaTypes[i])
      found == {i \in DOMAIN DataAreaTypes : Try(i).outcome # "unresolved"}
  IN  IF found = {} THEN NoTarget ELSE Try(Min(found))

ExpectedType ==
  [CALLS        |-> "subprogram",
   NAVIGATES_TO |-> "program",
   PERFORMS     |-> "externalsubroutine",
   INCLUDES     |-> "copycode"]

ResolveEdge(index, file, edge) ==
  CASE edge.kind \in DynamicKinds -> Unresolved("dynamic")
    [] edge.kind = "PERFORMS" /\ edge.inline ->
         Resolved(file, index[file].type)
    [] edge.kind = "USES_DATA_AREA" -> ResolveDataAreaEdge(index, file, edge)
    [] OTHER -> ResolveByName(index, file, edge, ExpectedType[edge.kind])

-------------------------------------------------------------------------------
(***************************************************************************)
(* A resolution set: the outcome of every edge, and the ambiguity          *)
(* diagnostics of every file.                                              *)
(***************************************************************************)
ResolveEdges(index, file) ==
  [s \in DOMAIN index[file].edges |->
     ResolveEdge(index, file, index[file].edges[s])]

\* One diagnostic for every edge of the file that met several candidates.
AmbiguityDiagnostics(index, file) ==
  {[source     |-> s,
    target     |-> index[file].edges[s].target,
    candidates |-> ResolveEdge(index, file, index[file].edges[s]).candidates] :
     s \in {t \in DOMAIN index[file].edges :
              ResolveEdge(index, file, index[file].edges[t]).outcome
                = "ambiguous"}}

ResolveFile(index, file) ==
  [entries     |-> ResolveEdges(index, file),
   diagnostics |-> AmbiguityDiagnostics(index, file)]

Resolve(index) == [p \in DOMAIN index |-> ResolveFile(index, p)]

EmptyResolution == Nothing

DiagnosticsFor(res, p) == IF p \in DOMAIN res THEN res[p].diagnostics ELSE {}

\* A bug AffectedFiles could have: only the changed files themselves.
ChangedFiles(index, changed) == changed

\* The files an incremental pass looks at again: the changed ones, and those
\* with an edge that names a changed object.
AffectedFiles(index, changed) ==
  LET names == {ObjectName(p) : p \in changed \cap DOMAIN index}
  IN  changed \cup
      {p \in DOMAIN index : \E s \in DOMAIN index[p].edges :
                              Upper[index[p].edges[s].target] \in names}

\* A bug ResolveInto could have: the files it does not look at again are lost.
ResolveOnly(res, index, changed) ==
  [p \in AffectedFiles(index, changed) \cap DOMAIN index |->
     ResolveFile(index, p)]

ResolveInto(res, index, changed) ==
  LET affected == AffectedFiles(index, changed)
      kept     == DOMAIN res \ affected
      redone   == affected \cap DOMAIN index
  IN  IF changed = {}
        THEN res
        ELSE [p \in kept \cup redone |->
                IF p \in redone THEN ResolveFile(index, p) ELSE res[p]]

-------------------------------------------------------------------------------
(***************************************************************************)
(* The other lookups over the same names: completion, data-area fields,    *)
(* DDMs, and the dependents of a copycode.                                 *)
(***************************************************************************)

\* A bug NamesWithPrefix could have: the caller's own library alone.
OwnNamesWithPrefix(index, names, type, file) ==
  {p \in DOMAIN index :
     /\ ObjectName(p) \in names
     /\ index[p].type = type
     /\ OwningLibrary(p) = OwningLibrary(file)}

\* Completion offers every object of the type whose name has the prefix (here
\* any name of the set) and whose library the caller's chain reaches.
NamesWithPrefix(index, names, type, file) ==
  LET chain == SearchChain(OwningLibrary(file))
  IN  {p \in DOMAIN index :
         /\ ObjectName(p) \in names
         /\ index[p].type = type
         /\ chain # <<>> => \E i \in DOMAIN chain : OwningLibrary(p) = chain[i]}

\* A bug ResolveCandidateViaChain could have: every candidate is reached.
CandidateAnywhere(candidates, file) == candidates

\* The first candidate on the chain, or the first by path in a flat namespace.
ResolveCandidateViaChain(candidates, file) ==
  LET chain == SearchChain(OwningLibrary(file))
  IN  IF chain # <<>> THEN ChainHits(candidates, chain) ELSE candidates

\* The object a USING clause takes its fields from: {} or the singleton of it.
\* The type is settled before the chain is looked at.
ResolveDataAreaCandidate(index, name, file) ==
  LET OfType(i) == FilterByType(index, NameIndex(index, Upper[name]),
                                DataAreaTypes[i])
      found     == {i \in DOMAIN DataAreaTypes : OfType(i) # {}}
      reached   == ResolveCandidateViaChain(OfType(Min(found)), file)
  IN  IF found = {} \/ reached = {} THEN {} ELSE {FirstByPath(reached)}

ResolveDDMPath(index, name, file) ==
  LET reached == ResolveCandidateViaChain(
                   FilterByType(index, NameIndex(index, Upper[name]), "ddm"),
                   file)
  IN  IF reached = {} THEN {} ELSE {FirstByPath(reached)}
===============================================================================
