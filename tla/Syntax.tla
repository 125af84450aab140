------------------------------- MODULE Syntax --------------------------------
(***************************************************************************)
(* An editor types a document line by line and the server analyzes every   *)
(* version of it.  The properties relate what the analysis says of one     *)
(* part of a text to the text around it, and the ranges it reports to what *)
(* a client that reads the protocol selects with them.                     *)
(***************************************************************************)
EXTENDS Analysis

CONSTANTS
  Alphabets,      \* sets of fragments, each a sequence of pieces
  MaxFragments    \* bound: fragments in a text

VARIABLES
  alphabet,   \* the fragments this text is written with
  fragments,  \* the text, as the sequence of its fragments
  analysis    \* the index's analysis of the text

vars == <<alphabet, fragments, analysis>>

text == FlattenSeq(fragments)

Init ==
  /\ alphabet \in Alphabets
  /\ fragments = <<>>
  /\ analysis = Analyze(<<>>)

\* didChange: the new content is analyzed whole.
Type(fragment) ==
  /\ Len(fragments) < MaxFragments
  /\ fragments' = Append(fragments, fragment)
  /\ analysis' = Analyze(text')
  /\ UNCHANGED alphabet

Next == \E fragment \in alphabet : Type(fragment)

Spec == Init /\ [][Next]_vars

-----------------------------------------------------------------------------
(* Resumption.                                                               *)

MovedPos(pos, d) == IF pos = NoPos THEN NoPos ELSE Pos(pos.line + d, pos.column)
Moved(range, d) == Span(MovedPos(range.start, d), MovedPos(range.end, d))

\* What an analysis says, d lines further down.
Outline(a, d) ==
  [calls |-> [k \in DOMAIN a.edges |->
                [kind |-> a.edges[k].kind, name |-> a.edges[k].name,
                 library |-> a.edges[k].library, source |-> Moved(a.edges[k].source, d)]],
   accesses |-> [k \in DOMAIN a.access |->
                   [a.access[k] EXCEPT !.source = Moved(@, d), !.nameRange = Moved(@, d)]],
   fields |-> [k \in DOMAIN a.definitions |->
                 [name |-> a.definitions[k].name, range |-> Moved(a.definitions[k].range, d)]],
   workFiles |-> [k \in DOMAIN a.workFiles |-> [a.workFiles[k] EXCEPT !.range = Moved(@, d)]],
   hostVars |-> [k \in DOMAIN a.hostVars |-> [a.hostVars[k] EXCEPT !.range = Moved(@, d)]],
   diagnostics |-> [k \in DOMAIN a.diagnostics |->
                      [a.diagnostics[k] EXCEPT !.range = Moved(@, d)]]]

Commits(nodes) == OfKind(nodes, "COMMIT")

\* The statements of a text with a bare COMMIT on the line after it.
AfterCommit(before) == Parse(before \o <<"COMMIT", "LF">>).nodes

\* Where a bare COMMIT would be a statement of the program, every statement
\* keyword starts one, and the statements after it mean what they mean on their
\* own: no unfinished statement, clause, field or loop before them takes any of
\* their tokens (skipToNextStatement and the stop sets of every clause, which the
\* source says must be kept in step in three places).
StatementsResume ==
  \A n \in 1..(Len(fragments) - 1) :
    LET before == FlattenSeq(SubSeq(fragments, 1, n))
        rest   == FlattenSeq(SubSeq(fragments, n + 1, Len(fragments)))
        both(above, below) == [what \in DOMAIN above |-> above[what] \o below[what]]
        resumed(above, commits) ==
          Len(commits) > Len(Commits(above.ast.nodes)) =>
            Outline(analysis, 0) = both(Outline(above, 0),
                                        Outline(Analyze(rest), Last(commits).start.line - 1))
    IN  /\ Last(before) \in LineEnds
        /\ rest[1] \in StatementKeywords
        => resumed(Analyze(before), Commits(AfterCommit(before)))

-----------------------------------------------------------------------------
(* Selection.                                                                *)

\* The client's reading of the protocol: a line ends at LF, CRLF or CR.
ClientLineEnds(t) ==
  {i \in DOMAIN t : t[i] = "LF" \/ (t[i] = "CR" /\ (i = Len(t) \/ t[i + 1] # "LF"))}

\* The byte offset of a client's position in the text.
ClientOffset(t, at, enc) ==
  LET ends  == ClientLineEnds(t)
      opens == {0} \cup ends
      open  == CHOOSE i \in opens : Cardinality({j \in ends : j =< i}) = at.line
      units == [i \in (open + 1)..Len(t) |->
                  IF enc = "utf-16" /\ t[i] \in Foreign THEN ForeignUnits[t[i]] ELSE Bytes(t[i])]
      sum[i \in (open + 1)..(Len(t) + 1), left \in Nat] ==
        IF left = 0 \/ i > Len(t) THEN 0
        ELSE IF units[i] =< left THEN Bytes(t[i]) + sum[i + 1, left - units[i]]
        ELSE left
  IN  Offset(t, open + 1) + sum[open + 1, at.character]

\* The lexer and the conversions agree on lines: every CR is followed by LF and
\* every string is closed on its line.
LinesAgree(t) ==
  LET oneLine(tok) == /\ isTerminatedString(tok.lit)
                      /\ \A j \in DOMAIN tok.lit : tok.lit[j] \notin LineEnds
      strings(toks) == SelectSeq(toks, LAMBDA tok : tok.type = "string")
  IN  /\ \A i \in DOMAIN t : t[i] = "CR" => i < Len(t) /\ t[i + 1] = "LF"
      /\ \A tok \in Range(strings(Tokens(t, NewLexer))) : oneLine(tok)

\* Pieces i to j of the text are a call statement from its keyword to the end
\* of the operand with this name.
CallAt(t, i, j, name) ==
  /\ t[i] \in {"CALLNAT", "PERFORM", "FETCH", "RUN"}
  /\ \/ <<t[j]>> = name
     \/ /\ t[j] = "'" /\ j - Len(name) - 1 > i
        /\ SubSeq(t, j - Len(name) - 1, j) = <<"'">> \o name \o <<"'">>

IsCall(t, e) == \E i \in DOMAIN t : /\ t[i] \in {"CALLNAT", "PERFORM", "FETCH", "RUN"}
                                    /\ Offset(t, i) = ClientOffset(t, At(e.source.start.line - 1,
                                                        e.source.start.column - 1), "utf-8")

\* In either encoding, and by either conversion (from the text, or from the
\* line-width table that replaces it in the index), the range of a call selects
\* in the client exactly the statement from its keyword to its operand, and a
\* click on any character of it finds that call and no other.
CallsAreSelected ==
  LinesAgree(text) =>
    \A k \in DOMAIN analysis.edges, enc \in Encodings :
      LET e     == analysis.edges[k]
          range == toProtocolRange(e.source, text, enc)
          from  == ClientOffset(text, range.start, enc)
          to    == ClientOffset(text, range.end, enc)
          row   == e.source.start.line - 1
      IN  IsCall(text, e) =>
            /\ protocolRange(buildLineWidthTable(text), e.source, enc) = range
            /\ \E i, j \in DOMAIN text : /\ Offset(text, i) = from
                                         /\ Offset(text, j + 1) = to
                                         /\ CallAt(text, i, j, e.name)
            /\ \A ch \in range.start.character..(range.end.character - 1) :
                 findCursorTarget(analysis, fromProtocolPosition(At(row, ch), text, enc), text)
                   = [on |-> "edge", what |-> <<e>>]

-----------------------------------------------------------------------------
(* Fields.                                                                   *)

IsRedefine(f) == f.name = <<>> /\ f.redefines # <<>>

\* A REDEFINE that stands in for the field it redefines: one directly under
\* another REDEFINE does not.
RECURSIVE StandsIn(_, _)
StandsIn(fields, k) == k # 0 /\ IsRedefine(fields[k]) /\ ~StandsIn(fields, OwnerOf(fields, k))

RedefinedBy(fields, k) ==
  {j \in 1..(k - 1) : /\ OwnerOf(fields, j) = OwnerOf(fields, k)
                      /\ fields[j].name = fields[k].redefines}

RECURSIVE Kept(_, _)
Kept(fields, k) == \/ k = 0
                   \/ /\ StandsIn(fields, k) => RedefinedBy(fields, k) # {}
                      /\ Kept(fields, OwnerOf(fields, k))

\* The definitions of a tree, each with the name of the one that holds it.
RECURSIVE Flat(_, _)
Flat(defs, holder) ==
  FlattenSeq([k \in DOMAIN defs |-> <<[def |-> defs[k], holder |-> holder]>>
                                      \o Flat(defs[k].children, defs[k].name)])

\* Every named field of DEFINE DATA whose REDEFINEs have a target is defined
\* exactly once, held by the field its level puts it under or by the one that is
\* redefined, and a click on its name finds it; the fields of a REDEFINE without
\* a target are nowhere (parseDataFields, extractDefinitions, extractStructure).
FieldsAreKept ==
  LET sections == OfKind(analysis.ast.nodes, "SECTION")
      flat     == Flat(analysis.definitions, <<>>)
  IN  \A s \in DOMAIN sections : \A k \in DOMAIN sections[s].fields :
        LET fields == sections[s].fields
            f      == fields[k]
            owner  == OwnerOf(fields, k)
            holder == CASE owner = 0                 -> <<>>
                        [] owner # 0 /\ StandsIn(fields, owner) -> fields[owner].redefines
                        [] OTHER                     -> fields[owner].name
            defined == {n \in DOMAIN flat : flat[n].def.nameRange = f.nameRange}
            found  == findDeclarationTarget(analysis, f.nameRange.end)
        IN  f.name # <<>> =>
              IF ~Kept(fields, k) THEN defined = {}
              ELSE /\ Cardinality(defined) = 1
                   /\ \A n \in defined : flat[n].def.name = f.name /\ flat[n].holder = holder
                   /\ found # <<>> /\ found[1].name = f.name /\ found[1].selection = f.nameRange

-----------------------------------------------------------------------------
(* A claim of the source.                                                    *)

\* The statements of a program and, at any depth, of its loops.
RECURSIVE AllNodes(_)
AllNodes(nodes) ==
  FlattenSeq([k \in DOMAIN nodes |->
    <<nodes[k]>> \o (IF "body" \in DOMAIN nodes[k] /\ nodes[k].kind # "PROCESSSQL"
                     THEN AllNodes(nodes[k].body) ELSE <<>>)])

\* Every call statement the parser recognized has its edge (calls.go says of
\* extractEdges that it returns edges "for every recognized call statement").
EveryCallHasAnEdge ==
  LET all == AllNodes(analysis.ast.nodes)
  IN  \A k \in DOMAIN all :
        all[k].kind = "CALLNAT" =>
          \E e \in DOMAIN analysis.edges : analysis.edges[e].source.start = all[k].start

=============================================================================
