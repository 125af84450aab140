-------------------------------- MODULE Queries --------------------------------
(***************************************************************************)
(* The providers of internal/server that answer a request from the index   *)
(* and its resolution set: definition, references, highlights, document    *)
(* links, the call hierarchy, code lenses, hover, signature help,          *)
(* completion and the navigation of variables, data areas and views.  Each *)
(* has a lookup of its own over the same tables; the question here is      *)
(* whether their answers fit together.                                     *)
(*                                                                         *)
(* A provider that looks in the store first reads an analysis, source,     *)
(* that may be ahead of the index; it is an argument.  A cursor is the     *)
(* range it is in, a location is a file and the symbol it declares there,  *)
(* or a file and the range of a site.  The files are readable.             *)
(***************************************************************************)
EXTENDS IndexUpdates

CONSTANTS
  StartsWith, \* StartsWith[n]: the names that begin with n
  Sigils      \* the names that begin with #, & or +

PrefixesOK ==
  /\ StartsWith \in [Names -> SUBSET Names]
  /\ StartsWith[EmptyName] = Names
  /\ \A n \in Names : n \in StartsWith[n]
  /\ Sigils \subseteq Names \ {EmptyName}
  /\ \A n \in Names : n \in Sigils <=> Upper[n] \in Sigils
  /\ \A n \in Sigils : StartsWith[n] \subseteq Sigils

ASSUME PrefixAssumption == PrefixesOK

(***************************************************************************)
(* What an analysis has beside its type and edges:                         *)
(*   subs      the subroutines it declares, in upper case                  *)
(*   fields    the declarations of its data definitions: the name, the     *)
(*             level, and at, the place in the tree: <<2, 1>> is the first *)
(*             below the second of the outermost list; one without a name, *)
(*             which no lookup finds, is left out                          *)
(*   accesses  the names of the views its data accesses name, by range     *)
(*   uses      the variables ExtractVariableRefs finds, by range: the      *)
(*             name, which never begins with & or *, and the group read    *)
(*             before it in the text, if there is one                      *)
(*   using     the data areas of its USING clauses, in their order         *)
(* A PERFORM is inline exactly when the file declares the subroutine.  A   *)
(* DDM is a report and no source: it has fields and no edges.              *)
(***************************************************************************)
DataDefinition == [name : Names \ {EmptyName}, level : Nat, at : Seq(Nat \ {0})]

StructureOK(analysis) ==
  /\ analysis.subs \subseteq Names
  /\ \A n \in analysis.subs : Upper[n] = n
  /\ analysis.fields \subseteq DataDefinition /\ IsFiniteSet(analysis.fields)
  /\ \A d, e \in analysis.fields : d.at = e.at => d = e
  /\ analysis.type = "ddm" => DOMAIN analysis.edges = {}
  /\ analysis.accesses \in [DOMAIN analysis.accesses -> Names]
  /\ analysis.uses \in [DOMAIN analysis.uses ->
                          [name : Names \ {EmptyName}, group : Names]]
  /\ analysis.using \in Seq(Names)
  /\ \A s \in DOMAIN analysis.edges :
       LET edge == analysis.edges[s]
       IN  edge.inline <=> edge.kind = "PERFORMS"
                           /\ Upper[edge.target] \in analysis.subs

ASSUME StructureAssumption ==
  \A p \in Paths : \A analysis \in Analyses[p] : StructureOK(analysis)

Declared(p, symbol) == [path |-> p, symbol |-> symbol]

\* A field is named by its declaration.
Field(p, d) == [path |-> p, field |-> d]

\* The object itself, its structure's root.
Object(p) == Declared(p, EmptyName)

-------------------------------------------------------------------------------
(***************************************************************************)
(* Edges: definition, references, links, highlights.                       *)
(***************************************************************************)

\* The outcome res.Get finds for the range, which the edge at that range of
\* the indexed file was given, whatever edge a newer buffer has there.
HasEntry(p, s) == p \in DOMAIN res /\ s \in DOMAIN res[p].entries

ResolvedAt(p, s) == HasEntry(p, s) /\ res[p].entries[s].outcome = "resolved"

\* A target in the file itself is the subroutine of the name, if there is one,
\* of whatever kind the edge is; every other target is its object.
TargetOf(p, edge, target) ==
  IF target = p /\ Upper[edge.target] \in index[p].subs
    THEN Declared(p, Upper[edge.target])
    ELSE Object(target)

DefinitionOfEdge(source, p, s) ==
  IF ~ HasEntry(p, s)
    THEN {}
    ELSE LET entry == res[p].entries[s]
         IN  CASE entry.outcome = "resolved" ->
                    {TargetOf(p, source.edges[s], entry.path)}
               [] entry.outcome = "ambiguous" ->
                    {Object(q) : q \in entry.candidates}
               [] OTHER -> {}

\* A bug EdgeMatchesTarget could have: any object of the target's name.
NameMatchesTarget(entry, target, type) ==
  /\ entry.outcome = "resolved"
  /\ ObjectName(entry.path) = ObjectName(target)

\* A bug EdgeMatchesTarget could have: any object of the target's type.
TypeMatchesTarget(entry, target, type) ==
  entry.outcome = "resolved" /\ entry.type = type

\* The name of the target is no part of the comparison.
EdgeMatchesTarget(entry, target, type) ==
  /\ entry.outcome = "resolved"
  /\ entry.path = target
  /\ type # "" => entry.type = type

EdgeSites(target, type) ==
  {site \in UNION {{<<p, s>> : s \in DOMAIN index[p].edges} :
                     p \in DOMAIN index} :
     /\ HasEntry(site[1], site[2])
     /\ EdgeMatchesTarget(res[site[1]].entries[site[2]], target, type)}

\* The accesses that name a DDM count as references to every DDM of the name.
AccessSites(name) ==
  {site \in UNION {{<<p, s>> : s \in DOMAIN index[p].accesses} :
                     p \in DOMAIN index} :
     Upper[index[site[1]].accesses[site[2]]] = Upper[name]}

ReferenceSites(target, name, type) ==
  EdgeSites(target, type) \cup IF type = "ddm" THEN AccessSites(name) ELSE {}

ReferencesOfEdge(source, p, s) ==
  IF ResolvedAt(p, s)
    THEN ReferenceSites(res[p].entries[s].path, source.edges[s].target,
                        res[p].entries[s].type)
    ELSE {}

\* A bug DocumentLinks could have: a link for an inline PERFORM, too.
AllLinks(source, p) ==
  [s \in {t \in DOMAIN source.edges : ResolvedAt(p, t)} |->
     res[p].entries[s].path]

\* A link from each edge that is resolved to another file.
DocumentLinks(source, p) ==
  [s \in {t \in DOMAIN source.edges :
            ResolvedAt(p, t) /\ res[p].entries[t].path # p} |->
     res[p].entries[s].path]

Highlights(source, p, s) ==
  {site \in ReferencesOfEdge(source, p, s) : site[1] = p}

-------------------------------------------------------------------------------
(***************************************************************************)
(* The call hierarchy.  An item is an object or one of its subroutines;    *)
(* incoming and outgoing calls are those of its file.                      *)
(***************************************************************************)
CallableKinds ==
  {"CALLS", "CALLS_DYNAMIC", "PERFORMS", "NAVIGATES_TO",
   "NAVIGATES_TO_DYNAMIC"}

\* A bug OutgoingCallKinds could have: PERFORM taken for an inline call only.
TransferKinds == {"CALLS", "NAVIGATES_TO"}

OutgoingCallKinds == {"CALLS", "NAVIGATES_TO", "PERFORMS"}

PrepareCallHierarchy(source, p, s) ==
  IF source.edges[s].kind \in CallableKinds
    THEN DefinitionOfEdge(source, p, s)
    ELSE {}

\* All sites that resolve to the file, INCLUDE and USING among them.
IncomingCallSites(item) == EdgeSites(item.path, index[item.path].type)

\* Callee and call site.  A PERFORM within the file that finds no subroutine
\* is left out.
OutgoingCalls(item) ==
  LET p     == item.path
      edges == index[p].edges
      calls == {s \in DOMAIN edges :
                  edges[s].kind \in OutgoingCallKinds /\ ResolvedAt(p, s)}
      Within(s) == edges[s].kind = "PERFORMS" /\ res[p].entries[s].path = p
      Found(s)  == Upper[edges[s].target] \in index[p].subs
  IN  {<<Object(res[p].entries[s].path), s>> : s \in {t \in calls : ~ Within(t)}}
      \cup
      {<<Declared(p, Upper[edges[s].target]), s>> :
         s \in {t \in calls : Within(t) /\ Found(t)}}

-------------------------------------------------------------------------------
(***************************************************************************)
(* Code lens, hover and signature help.                                    *)
(***************************************************************************)
CallCountLens(source, p) ==
  Cardinality(ReferenceSites(p, ObjectName(p), source.type))

\* FETCH and RUN are transfers and no dependencies (hover.go:205-213).
OutboundDependencies(p) ==
  Cardinality({s \in DOMAIN index[p].edges :
                 index[p].edges[s].kind
                   \in {"CALLS", "CALLS_DYNAMIC", "PERFORMS", "INCLUDES"}})

\* A hover reads the index alone: the card of the subroutine or of the module,
\* or one that says why there is no target.
HoverOfEdge(p, s) ==
  IF ~ HasEntry(p, s)
    THEN {}
    ELSE LET edge   == index[p].edges[s]
             entry  == res[p].entries[s]
             target == TargetOf(p, edge, entry.path)
         IN  IF entry = Unresolved("dynamic")
               THEN {[card |-> "dynamic"]}
             ELSE IF entry.outcome # "resolved"
               THEN {[card |-> entry.outcome]}
             ELSE IF edge.kind = "PERFORMS" \/ target.symbol # EmptyName
               THEN {[card |-> "subroutine", of |-> target]}
             ELSE {[card     |-> "module",
                    of       |-> target,
                    inbound  |-> Cardinality(ReferencesOfEdge(index[p], p, s)),
                    outbound |-> OutboundDependencies(entry.path)]}

\* A bug SignatureOf could have: the caller's own parameters for any PERFORM.
OwnSignature(source, p, s) ==
  IF source.edges[s].kind = "PERFORMS"
    THEN {p}
    ELSE IF source.edges[s].kind = "CALLS" /\ ResolvedAt(p, s)
           THEN {res[p].entries[s].path}
           ELSE {}

\* The file whose PARAMETER section is shown: the caller's own for a subroutine
\* of the source, else that of the target.
SignatureOf(source, p, s) ==
  LET edge == source.edges[s]
  IN  IF edge.kind = "PERFORMS" /\ Upper[edge.target] \in source.subs
        THEN {p}
      ELSE IF edge.kind \in {"PERFORMS", "CALLS"} /\ ResolvedAt(p, s)
        THEN {res[p].entries[s].path}
      ELSE {}

-------------------------------------------------------------------------------
(***************************************************************************)
(* Completion, of the prefix that was typed.                               *)
(***************************************************************************)
ModuleCompletion(p, prefix, type) ==
  {Object(q) : q \in NamesWithPrefix(index, StartsWith[Upper[prefix]], type, p)}

\* A bug PerformCompletion could have: no subroutines of the file itself.
ExternalCompletion(source, p, prefix) ==
  IF prefix \in Sigils THEN {} ELSE ModuleCompletion(p, prefix, "externalsubroutine")

\* A prefix with a sigil counts as a dynamic operand and nothing is offered,
\* whatever subroutines have a name that begins like that (isDynamicPrefix).
PerformCompletion(source, p, prefix) ==
  IF prefix \in Sigils
    THEN {}
    ELSE {Declared(p, n) : n \in source.subs \cap StartsWith[Upper[prefix]]}
         \cup ModuleCompletion(p, prefix, "externalsubroutine")

CompletionAt(source, p, kind, prefix) ==
  IF kind = "PERFORMS" THEN PerformCompletion(source, p, prefix)
                       ELSE ModuleCompletion(p, prefix, ExpectedType[kind])

-------------------------------------------------------------------------------
(***************************************************************************)
(* Declarations.  They are searched in two orders: findDeclaration goes    *)
(* down the tree as the text does, findFieldInDefinitions reads a list to  *)
(* its end before the lists below it.                                      *)
(***************************************************************************)
Below(d, e) ==
  Len(e.at) < Len(d.at) /\ SubSeq(d.at, 1, Len(e.at)) = e.at

\* The places, up to which they are the same, where two declarations part.
Parting(d, e) ==
  {i \in DOMAIN d.at \cap DOMAIN e.at :
     /\ SubSeq(d.at, 1, i - 1) = SubSeq(e.at, 1, i - 1)
     /\ d.at[i] # e.at[i]}

InText(d, e) == Below(e, d) \/ \E i \in Parting(d, e) : d.at[i] < e.at[i]

Sought(d, e) ==
  \/ Below(e, d)
  \/ \E i \in Parting(d, e) :
       IF Len(d.at) = i <=> Len(e.at) = i THEN d.at[i] < e.at[i] ELSE Len(d.at) = i

\* The one with the fewest before it.
FirstInText(fields) ==
  LET Rank(d) == Cardinality({e \in fields : InText(e, d)})
  IN  CHOOSE d \in fields : \A e \in fields : Rank(d) <= Rank(e)

FirstSought(fields) ==
  LET Rank(d) == Cardinality({e \in fields : Sought(e, d)})
  IN  CHOOSE d \in fields : \A e \in fields : Rank(d) <= Rank(e)

Named(fields, name) == {d \in fields : Upper[d.name] = Upper[name]}

\* findDeclaration: every declaration of the name, or every one below an
\* outermost group of level 1.
FindDeclaration(fields, name, group) ==
  IF group = EmptyName
    THEN Named(fields, name)
    ELSE {d \in Named(fields, name) :
            \E g \in Named(fields, group) :
              g.level = 1 /\ Len(g.at) = 1 /\ Below(d, g)}

\* findFieldInDefinitions, of the fields of another file.
FindField(q, name) ==
  LET found == Named(index[q].fields, name)
  IN  IF found = {} THEN {} ELSE {Field(q, FirstSought(found))}

-------------------------------------------------------------------------------
(***************************************************************************)
(* DDMs and views.                                                         *)
(***************************************************************************)
DDMs(name) == FilterByType(index, NameIndex(index, Upper[name]), "ddm")

DDMDefinition(p, name) == ResolveDDMPath(index, name, p)

\* The card of an access shows the first DDM of the name, wherever it is.
HoverDDM(name) == IF DDMs(name) = {} THEN {} ELSE {FirstByPath(DDMs(name))}

\* A bug FieldCompletionDDM could have: any one of several.
LastDDM(name) ==
  {p \in DDMs(name) : \A q \in DDMs(name) : PathRank[q] <= PathRank[p]}

\* The fields completed are those of the only DDM of the name.
FieldCompletionDDM(name) ==
  {p \in DDMs(name) : DDMs(name) = {p}}

\* Definition and type definition of a field of a view.
ViewField(p, ddm, field) ==
  UNION {FindField(q, field) : q \in ResolveDDMPath(index, ddm, p)}

-------------------------------------------------------------------------------
(***************************************************************************)
(* Variables.                                                              *)
(***************************************************************************)

\* The first USING clause whose data area declares the name, which is looked
\* for without its group.
FieldInDataAreas(source, p, name) ==
  LET FieldsOf(i) ==
        UNION {FindField(q, name) :
                 q \in ResolveDataAreaCandidate(index, source.using[i], p)}
      found == {i \in DOMAIN source.using : FieldsOf(i) # {}}
  IN  IF found = {} THEN {} ELSE FieldsOf(Min(found))

\* Every declaration the use can mean, then the data areas.
VariableDefinition(source, p, use) ==
  LET own == FindDeclaration(source.fields, use.name, use.group)
  IN  IF own # {} THEN {Field(p, d) : d \in own}
                  ELSE FieldInDataAreas(source, p, use.name)

UsesOf(source, name) ==
  {s \in DOMAIN source.uses : Upper[source.uses[s].name] = Upper[name]}

NoReferences == [declarations |-> {}, uses |-> {}]

\* The group of a use is not looked at: the first declaration of the name, and
\* every use of the name.
OwnReferences(source, p, name, includeDeclaration) ==
  LET declared == FindDeclaration(source.fields, name, EmptyName)
  IN  IF declared = {}
        THEN NoReferences
        ELSE [declarations |-> IF includeDeclaration
                                 THEN {Field(p, FirstInText(declared))} ELSE {},
              uses         |-> UsesOf(source, name)]

\* The declaration is one of them, whether it was asked for or not.
DataAreaReferences(source, p, name) ==
  LET declarations == FieldInDataAreas(source, p, name)
  IN  IF declarations = {}
        THEN NoReferences
        ELSE [declarations |-> declarations, uses |-> UsesOf(source, name)]

\* A bug VariableReferences could have: the data areas are asked first.
AreasFirst(source, p, name, includeDeclaration) ==
  LET area == DataAreaReferences(source, p, name)
  IN  IF area # NoReferences
        THEN area
        ELSE OwnReferences(source, p, name, includeDeclaration)

\* Those of the file itself, and when there are none those by way of the data
\* areas, also for a variable the file declares and does not use.
VariableReferences(source, p, name, includeDeclaration) ==
  LET own == OwnReferences(source, p, name, includeDeclaration)
  IN  IF own # NoReferences
        THEN own
        ELSE DataAreaReferences(source, p, name)

-------------------------------------------------------------------------------
\* The two directions of the call hierarchy are swept apart, one over the
\* edges of a file and the other over those of all files.  Between two files
\* they show the same call sites; INCLUDE and USING are incoming only.  The
\* callee is the item prepared at the call site, unless a file that calls
\* itself has a subroutine of its own name: then that is prepared.
CallsAreConverse ==
  \A p \in DOMAIN index :
    LET edges    == index[p].edges
        outgoing == OutgoingCalls(Object(p))
    IN  /\ \A q \in DOMAIN index \ {p} :
             {s \in DOMAIN edges : <<Object(q), s>> \in outgoing}
               = {s \in DOMAIN edges :
                    /\ edges[s].kind \in {"CALLS", "NAVIGATES_TO", "PERFORMS"}
                    /\ <<p, s>> \in IncomingCallSites(Object(q))}
        /\ \A call \in outgoing :
             \/ PrepareCallHierarchy(index[p], p, call[2]) = {call[1]}
             \/ call[1] = Object(p) /\ Upper[edges[call[2]].target] \in index[p].subs

\* From an edge to all its references and from each of these to a definition
\* is back in the file the first edge is bound to; the edge itself is one of
\* them, its hover and the code lens of that file count them, and they are the
\* incoming calls of the file.
ReferencesAgree ==
  \A p \in DOMAIN index : \A s \in DOMAIN index[p].edges :
    ResolvedAt(p, s) =>
      LET target == res[p].entries[s].path
          sites  == ReferencesOfEdge(index[p], p, s)
      IN  /\ <<p, s>> \in Highlights(index[p], p, s)
          /\ \A site \in sites :
               {d.path : d \in DefinitionOfEdge(index[site[1]], site[1], site[2])}
                 = {target}
          /\ \A hover \in HoverOfEdge(p, s) :
               hover.card = "module" =>
                 hover.inbound = CallCountLens(index[target], target)
          /\ CallCountLens(index[target], target) = Cardinality(sites)
          /\ IncomingCallSites(Object(target)) = sites

\* A reference names the object it is a reference of, unless it is an inline
\* PERFORM: the calls of an object and the PERFORMs of each of its subroutines
\* are one set, whichever of them was asked for.
ReferencesSpellTheirTarget ==
  \A q \in DOMAIN index : \A site \in EdgeSites(q, index[q].type) :
    LET edge == index[site[1]].edges[site[2]]
    IN  Upper[edge.target] = ObjectName(q) \/ (edge.inline /\ site[1] = q)

\* An edge of the buffer, whatever has been typed since it was indexed, has a
\* link exactly when its definition is one object of another file.
LinksFollowDefinition ==
  \A p \in DOMAIN index : \A buffer \in Analyses[p] :
    LET links == DocumentLinks(buffer, p)
        Elsewhere(s) == {q \in DOMAIN index \ {p} :
                           DefinitionOfEdge(buffer, p, s) = {Object(q)}}
    IN  \A s \in DOMAIN buffer.edges :
          Elsewhere(s) = IF s \in DOMAIN links THEN {links[s]} ELSE {}

\* The parameters shown for a call are those of the file its definition is in:
\* signature help tries the subroutines of the file before the resolution set,
\* the definition asks the resolution set first.
SignatureFollowsDefinition ==
  \A p \in DOMAIN index : \A s \in DOMAIN index[p].edges :
    index[p].edges[s].kind \in {"CALLS", "PERFORMS"} =>
      SignatureOf(index[p], p, s)
        = IF ResolvedAt(p, s)
            THEN {d.path : d \in DefinitionOfEdge(index[p], p, s)}
            ELSE {}

\* The file an edge without a library leads to is offered where its target is
\* typed, from nothing to the whole name (completion.go:337): but for a PERFORM
\* whose prefix begins with a sigil, which completion takes for a variable while
\* definition looks for a subroutine.
DefinitionIsOffered ==
  \A p \in DOMAIN index : \A s \in DOMAIN index[p].edges :
    LET edge == index[p].edges[s]
    IN  edge.kind \in StaticKinds /\ edge.library = NoLibrary =>
          \A typed \in Names :
            \/ Upper[edge.target] \notin StartsWith[Upper[typed]]
            \/ edge.kind = "PERFORMS" /\ typed \in Sigils
            \/ {d.path : d \in DefinitionOfEdge(index[p], p, s)}
                 \subseteq {d.path : d \in CompletionAt(index[p], p, edge.kind, typed)}

\* Definition and references look a variable up in different ways: definition
\* reads the group before the use and returns every declaration, references keep
\* the first of the name (definition.go:411-433, references.go:378-384).  A use
\* that has a definition is one of its own references; and unless it is
\* qualified and the name is declared outside the group as well, the declaration
\* among the references is one the definition leads to.
VariablesAgree ==
  \A p \in DOMAIN index : \A s \in DOMAIN index[p].uses :
    LET use        == index[p].uses[s]
        definition == VariableDefinition(index[p], p, use)
        references == VariableReferences(index[p], p, use.name, TRUE)
    IN  /\ definition # {} => s \in references.uses
        /\ FindDeclaration(index[p].fields, use.name, use.group)
             = FindDeclaration(index[p].fields, use.name, EmptyName) =>
             /\ references.declarations \subseteq definition
             /\ references.declarations = {} => definition = {}

\* Three lookups of a DDM: definition through the chain, hover by the first of
\* the name, completion of its fields by the only one.  Completion never
\* offers the fields of another DDM than definition and hover show and the
\* fields of a view lead to, and outside the libraries hover shows the one
\* definition goes to.
DDMsAgree ==
  \A p \in DOMAIN index, name \in Names \ {EmptyName} :
    LET definition == DDMDefinition(p, name)
        completed  == FieldCompletionDDM(name)
    IN  /\ completed # {} => HoverDDM(name) = completed
        /\ completed # {} /\ definition # {} =>
             \A q \in completed :
               /\ definition = {q}
               /\ \A field \in index[q].fields :
                    {d.path : d \in ViewField(p, name, field.name)} = {q}
        /\ OwningLibrary(p) = NoLibrary => definition = HoverDDM(name)
===============================================================================
