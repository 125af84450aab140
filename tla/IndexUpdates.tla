----------------------------- MODULE IndexUpdates -----------------------------
(***************************************************************************)
(* A published index and its resolution set under the two lock sections    *)
(* that change them (applyDocumentChange and replayOpenBuffers of          *)
(* internal/server/server.go), in a workspace divided into libraries.      *)
(* Here the question is what an update may do to the edges of other files, *)
(* and whether the lookups of completion, USING clauses and DDMs agree     *)
(* with the resolution of edges; ServerSync has the concurrency.           *)
(***************************************************************************)
EXTENDS Resolution

CONSTANTS
  Analyses,   \* Analyses[p]: what the analyzer may say of the file p
  MaxChanged  \* bound: files that one lock section changes

ASSUME AnalysesAssumption ==
  /\ \A p \in Paths : \A analysis \in Analyses[p] : AnalysisOK(analysis)
  /\ MaxChanged \in Nat

VARIABLES index, res

vars == <<index, res>>

Init ==
  /\ index = Nothing
  /\ res = Resolve(index)

\* The entries of the changed files are put, and the resolution set is
\* recomputed for them.
Update(updates) ==
  /\ index' = Put(index, updates)
  /\ res' = ResolveInto(res, index', DOMAIN updates)

Updates ==
  {updates \in UNION {[changed -> UNION {Analyses[p] : p \in changed}] :
                        changed \in {S \in (SUBSET Paths) \ {{}} :
                                       Cardinality(S) <= MaxChanged}} :
     \A p \in DOMAIN updates : updates[p] \in Analyses[p]}

Next == \E updates \in Updates : Update(updates)

Spec == Init /\ [][Next]_vars

-------------------------------------------------------------------------------
\* The shape of the state: each edge of each file has an outcome.
TypeOK ==
  /\ IndexOK(index)
  /\ DOMAIN res = DOMAIN index
  /\ \A p \in DOMAIN res :
       DOMAIN res[p].entries = DOMAIN index[p].edges

\* An incremental pass gives what a full pass would give, whatever changed and
\* whatever the libraries are: no entry is left from an earlier index.
FullPass == res = Resolve(index)

\* An edge that names no library of its own and is looked up by name.
Plain(edge) ==
  /\ edge.kind \in StaticKinds
  /\ edge.library = NoLibrary
  /\ ~ (edge.kind = "PERFORMS" /\ edge.inline)

\* The libraries a caller's edge reaches no later than the one it is bound in.
NearerLibraries(file, target) ==
  LET chain == SearchChain(OwningLibrary(file))
      bound == {i \in DOMAIN chain : chain[i] = OwningLibrary(target)}
  IN  {chain[i] : i \in 1 .. Min(bound)}

\* A step changes this edge's binding only with its own file, or with one in a
\* library the search reaches no later than the file the edge is bound to.
BindingKept(p, s) ==
  LET edge    == index[p].edges[s]
      entry   == res[p].entries[s]
      changed == {q \in DOMAIN index' :
                    q \notin DOMAIN index \/ index'[q] # index[q]}
  IN  /\ Plain(edge)
      /\ entry.outcome = "resolved"
      /\ OwningLibrary(p) # NoLibrary
      /\ p \notin changed
      /\ \A q \in changed :
           OwningLibrary(q) \notin NearerLibraries(p, entry.path)
      => res'[p].entries[s] = entry

BindingsKept ==
  \A p \in DOMAIN res : \A s \in DOMAIN res[p].entries : BindingKept(p, s)

\* Steplibs are searched in order (ADR-004): an edge bound in a library of the
\* caller's chain stays bound to the same file while files come, go and change
\* in the libraries behind it, or in none of the chain.
FartherIsInvisible == [][BindingsKept]_vars

\* What completion offers for a name is what an edge of that name can mean: a
\* name that is offered resolves, or is ambiguous among what is offered, and
\* the target of an edge is offered.
CompletionAgrees ==
  \A p \in DOMAIN index, n \in Names \ {EmptyName}, kind \in StaticKinds :
    LET type    == ExpectedType[kind]
        edge    == [kind |-> kind, target |-> n, library |-> NoLibrary,
                    inline |-> FALSE]
        offered == NamesWithPrefix(index, {Upper[n]}, type, p)
        outcome == ResolveEdge(index, p, edge)
    IN  /\ offered = {} <=> outcome = NoTarget
        /\ outcome.outcome = "resolved" => outcome.path \in offered
        /\ outcome.outcome = "ambiguous" => outcome.candidates = offered

\* The file whose fields a USING clause brings in is the one its edge resolves
\* to, when there is one; a DDM's fields come from a file completion offers.
FieldsFollowEdges ==
  \A p \in DOMAIN index, n \in Names \ {EmptyName} :
    LET edge    == [kind |-> "USES_DATA_AREA", target |-> n,
                    library |-> NoLibrary, inline |-> FALSE]
        outcome == ResolveEdge(index, p, edge)
        fields  == ResolveDataAreaCandidate(index, n, p)
        ddm     == ResolveDDMPath(index, n, p)
        offered == NamesWithPrefix(index, {Upper[n]}, "ddm", p)
    IN  /\ fields # {} =>
             \/ outcome.outcome = "resolved" /\ fields = {outcome.path}
             \/ outcome.outcome = "ambiguous" /\ fields \subseteq outcome.candidates
        /\ ddm \subseteq offered
        /\ ddm = {} <=> offered = {}

===============================================================================
