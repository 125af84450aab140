------------------------------ MODULE Analysis -------------------------------
(***************************************************************************)
(* What the analyzer extracts from a parsed program (calls.go, sql.go,     *)
(* data.go, structure.go, variablerefs.go and analyzer.go of               *)
(* internal/analysis/natural), and how the server finds what a cursor      *)
(* stands on (internal/server/cursor.go).  The extractors read the         *)
(* statements of the program itself; none reads the body of a loop.        *)
(***************************************************************************)
EXTENDS Parser

OfKind(nodes, kind) == SelectSeq(nodes, LAMBDA n : n.kind = kind)

\* The entries each of the kinds yields, kind after kind.
Extract(nodes, kinds, Entries(_)) ==
  FlattenSeq([k \in DOMAIN kinds |->
    LET of == OfKind(nodes, kinds[k]) IN FlattenSeq([j \in DOMAIN of |-> Entries(of[j])])])

\* The stable sort on the start of the range.
InSourceOrder(entries, SpanOf(_)) ==
  LET first(j, k) == \/ Before(SpanOf(entries[j]).start, SpanOf(entries[k]).start)
                     \/ /\ SpanOf(entries[j]).start = SpanOf(entries[k]).start
                        /\ j < k
      order == SortSeq([k \in DOMAIN entries |-> k], first)
  IN  [k \in DOMAIN order |-> entries[order[k]]]

Single(condition, entry) == IF condition THEN <<entry>> ELSE <<>>

-----------------------------------------------------------------------------
(* Calls and dependencies.                                                  *)

\* A literal with a runtime placeholder names no object.  A piece holds "&" only
\* as its first character here.
isStaticLiteral(target) ==
  target.literal /\ \A k \in DOMAIN target.name : Initial(target.name[k]) # "&"

edgeKind(n) ==
  CASE n.kind \in {"CALLNAT", "CALLDBPROC"} ->
         IF isStaticLiteral(n.target) THEN "calls" ELSE "callsDynamic"
    [] n.kind \in {"FETCH", "RUN"} ->
         IF isStaticLiteral(n.target) THEN "navigatesTo" ELSE "navigatesToDynamic"
    [] n.kind = "PERFORM" -> "performs"
    [] n.kind = "INCLUDE" -> "includes"

\* The extent of the last subroutine with the name, for a PERFORM inside the file.
InlineSubroutine(nodes, name) ==
  LET subs == SelectSeq(nodes, LAMBDA n : n.kind = "SUBROUTINE" /\ n.target.name = name)
  IN  IF subs = <<>> THEN NoSpan ELSE Span(subs[Len(subs)].start, subs[Len(subs)].end)

Edge(n, source, target) ==
  [kind |-> edgeKind(n), name |-> n.target.name, source |-> source, target |-> target,
   library |-> IF n.kind = "RUN" THEN n.library ELSE <<>>]

\* The source of a call ends with its operand; that of INCLUDE and CALLDBPROC
\* ends where the last token skipped after it starts.
extractEdges(nodes) ==
  LET Entries(n) ==
        LET call == Span(n.start, n.target.range.end)
        IN  Single(n.target.name # <<>>,
              CASE n.kind \in {"CALLNAT", "FETCH", "RUN"} -> Edge(n, call, n.target.range)
                [] n.kind = "PERFORM" -> Edge(n, call, InlineSubroutine(nodes, n.target.name))
                [] n.kind = "INCLUDE" -> Edge(n, Span(n.start, n.end), n.target.range))
  IN  Extract(nodes, <<"CALLNAT", "PERFORM", "INCLUDE", "FETCH", "RUN">>, Entries)

extractSQLCalls(nodes) ==
  Extract(nodes, <<"CALLDBPROC">>, LAMBDA n :
    Single(n.target.name # <<>>, Edge(n, Span(n.start, n.end), NoSpan)))

extractDataAreaRefs(nodes) ==
  Extract(nodes, <<"SECTION">>, LAMBDA n :
    Single(n.target.name # <<>>,
           [name |-> n.target.name, section |-> n.section, range |-> n.target.range]))

DataAreaEdges(refs) ==
  [k \in DOMAIN refs |-> [kind |-> "usesDataArea", name |-> refs[k].name, source |-> refs[k].range,
                          target |-> NoSpan, library |-> <<>>]]

-----------------------------------------------------------------------------
(* Data accesses and host variables.                                        *)

Access(kind, name, range, n) ==
  [kind |-> kind, name |-> name, nameRange |-> range, source |-> Span(n.start, n.end)]

Tables(kind, n) ==
  [k \in DOMAIN n.tables |-> Access(kind, n.tables[k].name, n.tables[k].range, n)]

extractDataAccess(nodes) ==
  LET Named(kind, n) ==
        Single(n.target.name # <<>>, Access(kind, n.target.name, n.target.range, n))
      Entries(n) == CASE n.kind \in {"READ", "FIND", "GET"} -> Named("reads", n)
                      [] n.kind = "STORE"                   -> Named("writes", n)
                      [] n.kind \in {"UPDATE", "DELETE"}    -> <<Access("writes", <<>>, NoSpan, n)>>
  IN  Extract(nodes, <<"READ", "STORE", "FIND", "GET", "UPDATE", "DELETE">>, Entries)

extractSQLAccess(nodes) ==
  LET Entries(n) ==
        CASE n.kind \in {"SELECT", "SELECTSINGLE"} -> Tables("reads", n)
          [] n.kind = "READRESULTSET" -> <<Access("reads", <<>>, NoSpan, n)>>
          [] n.kind = "PROCESSSQL"    -> <<Access("reads", n.target.name, n.target.range, n)>>
          [] OTHER                    -> Tables("writes", n)
  IN  Extract(nodes, <<"SELECT", "SELECTSINGLE", "INSERT", "SQLUPDATE", "SQLDELETE", "MERGE",
                       "READRESULTSET", "PROCESSSQL">>, Entries)

hasNaturalSigil(name) == Initial(name[1]) \in {"#", "&", "+", "@"}

\* The host variables of a raw body, from lexer state lx on: ":" and a name,
\* behind an optional qualifier and indicator, with an optional subscript.
RECURSIVE scanOpaqueHostVars(_, _, _)
scanOpaqueHostVars(body, lx, refs) ==
  LET piece(k)    == IF k =< Len(body) THEN body[k] ELSE "LF"
      past(l, n)  == Past(body, l, n)
      blanks(l)   == past(l, First(body, l.at, LAMBDA k : body[k] # " ") - l.at)
      name(l)     == IF piece(l.at) = "+" /\ IsWord(piece(l.at + 1)) THEN 2
                     ELSE IF piece(l.at) = "+" \/ IsWord(piece(l.at)) \/ IsNumeral(piece(l.at))
                     THEN 1 ELSE 0
      colon       == past(lx, 1)
      found(second, named, end) ==
        scanOpaqueHostVars(body, end,
          Append(refs, [name  |-> SubSeq(body, second.at, named.at - 1),
                        range |-> Span(Pos(lx.line, lx.col), Pos(end.line, end.col))]))
      close(l)    == Clamp(First(body, l.at, LAMBDA k : body[k] = ")"), Len(body))
      subscript(l) == IF piece(l.at) = "(" THEN RawTo(body, l, close(l)) ELSE l
      named(second, l) == found(second, l, subscript(l))
      start(second)    == named(second, past(second, name(second)))
      indicated(first, second) ==
        IF piece(first.at) # ":" THEN scanOpaqueHostVars(body, first, refs)
        ELSE IF name(second) = 0 THEN scanOpaqueHostVars(body, second, refs)
        ELSE start(second)
      behind(first) == indicated(first, past(first, 1))
      qualified(l) ==
        IF IsNumeral(piece(l.at)) \/ name(l) = 0 THEN scanOpaqueHostVars(body, l, refs)
        ELSE IF name(l) = 1 /\ piece(l.at) \in {"INDICATOR", "LINDICATOR"}
        THEN behind(blanks(past(l, 1)))
        ELSE start(l)
  IN  CASE lx.at > Len(body)        -> refs
        [] piece(lx.at) \in LineEnds /\ lx.at =< Len(body) ->
             scanOpaqueHostVars(body, PastLineEnd(body, lx), refs)
        [] piece(lx.at) \notin LineEnds \cup {":"} -> scanOpaqueHostVars(body, past(lx, 1), refs)
        [] piece(lx.at) = ":" ->
             qualified(IF piece(colon.at) \in {"U", "G", "T"} /\ piece(colon.at + 1) = ":"
                       THEN past(colon, 2) ELSE colon)

extractHostVarRefs(nodes) ==
  LET All(refs)  == [k \in DOMAIN refs |-> [name |-> refs[k].name, range |-> refs[k].range]]
      Hosts(n)   == All(SelectSeq(n.hosts, LAMBDA r : r.hostVar \/ hasNaturalSigil(r.name)))
      Entries(n) ==
        CASE n.kind \in {"SELECT", "SELECTSINGLE"} -> All(n.into) \o Hosts(n)
          [] n.kind = "PROCESSSQL" ->
               LET from == n.bodyRange.start
               IN  scanOpaqueHostVars(n.body,
                     [NewLexer EXCEPT !.line = from.line, !.col = from.column + 2], <<>>)
          [] OTHER -> Hosts(n)
  IN  InSourceOrder(Extract(nodes, <<"SELECT", "SELECTSINGLE", "INSERT", "SQLUPDATE", "SQLDELETE",
                                     "PROCESSSQL">>, Entries),
                    LAMBDA r : r.range)

-----------------------------------------------------------------------------
(* Data definitions: the fields as a tree, the children of a REDEFINE under  *)
(* the field it redefines.                                                   *)

Kids(fields, k) == SelectSeq([j \in DOMAIN fields |-> j], LAMBDA j : fields[j].parent = k)

\* A nameless REDEFINE folds into the field it names, and is dropped with its
\* children when there is none; under a folded one it stays a field of its own.
RECURSIVE Folded(_, _)
Folded(fields, k) ==
  /\ k # 0
  /\ fields[k].name = <<>> /\ fields[k].redefines # <<>>
  /\ ~Folded(fields, fields[k].parent)

\* The sibling before c that c redefines: the first with the name inside a
\* group, the last at the top of a section.  0 when there is none.
RedefineTarget(fields, c) ==
  LET named == {j \in 1..(c - 1) : /\ fields[j].parent = fields[c].parent
                                   /\ fields[j].name = fields[c].redefines}
  IN  IF named = {} THEN 0
      ELSE IF fields[c].parent = 0 THEN CHOOSE j \in named : \A i \in named : i =< j
      ELSE CHOOSE j \in named : \A i \in named : j =< i

RECURSIVE fieldToDefinition(_, _, _, _)
fieldToDefinition(fields, k, section, redefines) ==
  LET f     == fields[k]
      own   == SelectSeq(Kids(fields, k), LAMBDA c : ~Folded(fields, c))
      folds == SelectSeq([c \in DOMAIN fields |-> c],
                         LAMBDA c : /\ Folded(fields, c)
                                    /\ RedefineTarget(fields, c) = k
                                    /\ ~Folded(fields, f.parent))
      adopted(c) == LET kids == Kids(fields, c)
                    IN  [j \in DOMAIN kids |->
                          fieldToDefinition(fields, kids[j], "", fields[c].redefines)]
  IN  [name |-> f.name, level |-> f.level, type |-> f.type, view |-> f.view, section |-> section,
       redefines |-> redefines, range |-> Span(f.start, f.end), nameRange |-> f.nameRange,
       children |-> [j \in DOMAIN own |-> fieldToDefinition(fields, own[j], "", <<>>)]
                      \o FlattenSeq([j \in DOMAIN folds |-> adopted(folds[j])])]

extractDefinitions(nodes) ==
  Extract(nodes, <<"SECTION">>, LAMBDA n :
    LET top == SelectSeq(Kids(n.fields, 0), LAMBDA k : ~Folded(n.fields, k))
    IN  [j \in DOMAIN top |-> fieldToDefinition(n.fields, top[j], n.section, <<>>)])

extractWorkFiles(nodes) ==
  InSourceOrder(Extract(nodes, <<"WORKFILE">>, LAMBDA n :
                  <<[number |-> n.number, name |-> n.target.name, range |-> Span(n.start, n.end)]>>),
                LAMBDA w : w.range)

-----------------------------------------------------------------------------
(* The outline: symbols of the sections, subroutines, maps and accesses.     *)

Symbol(kind, name, range, selection, children) ==
  [kind |-> kind, name |-> name, range |-> range, selection |-> selection, children |-> children,
   view |-> <<>>]

Caret(pos) == Span(pos, pos)

RECURSIVE dataDefinitionToSymbol(_)
dataDefinitionToSymbol(def) ==
  [Symbol("field", def.name, def.range,
          IF def.nameRange = NoSpan THEN Caret(def.range.start) ELSE def.nameRange,
          [k \in DOMAIN def.children |-> dataDefinitionToSymbol(def.children[k])])
     EXCEPT !.view = def.view]

RECURSIVE dataFieldToSymbol(_, _)
dataFieldToSymbol(fields, k) ==
  LET f == fields[k]
      kids == Kids(fields, k)
  IN  Symbol("field", f.name, Span(f.start, f.end), Caret(f.start),
             [j \in DOMAIN kids |-> dataFieldToSymbol(fields, kids[j])])

\* A definition belongs to the first section whose extent holds its start, and
\* failing that to the first of its kind.
SectionOf(sections, def) ==
  LET holds == {k \in DOMAIN sections :
                  rangeContains(Span(sections[k].start, sections[k].end), def.range.start)}
      alike == {k \in DOMAIN sections : sections[k].section = def.section}
      set   == IF holds # {} THEN holds ELSE alike
  IN  IF set = {} THEN 0 ELSE CHOOSE k \in set : \A j \in set : k =< j

extractStructure(prog, defs, access) ==
  LET sections == OfKind(prog.nodes, "SECTION")
      section(k) ==
        LET mine == SelectSeq(defs, LAMBDA d : SectionOf(sections, d) = k)
        IN  Symbol("section", <<sections[k].section>>, Span(sections[k].start, sections[k].end),
                   Caret(sections[k].start),
                   [j \in DOMAIN mine |-> dataDefinitionToSymbol(mine[j])])
      block(n) ==
        IF n.kind = "SUBROUTINE"
        THEN <<Symbol("subroutine", n.target.name, Span(n.start, n.end), n.target.range, <<>>)>>
        ELSE LET top == Kids(n.fields, 0)
             IN  <<Symbol("map", n.target.name, Span(n.start, n.end), Caret(n.start),
                          [j \in DOMAIN top |-> dataFieldToSymbol(n.fields, top[j])])>>
      named == SelectSeq(access, LAMBDA a : a.name # <<>>)
      ddm(a) == Symbol("ddm", a.name,
                       Span(a.source.start,
                            IF Before(a.source.end, a.nameRange.end) THEN a.nameRange.end
                            ELSE a.source.end),
                       a.nameRange, <<>>)
  IN  Symbol("object", <<>>, Span(prog.start, prog.end), Caret(prog.start),
             InSourceOrder([k \in DOMAIN sections |-> section(k)]
                             \o Extract(prog.nodes, <<"SUBROUTINE", "MAP">>, block)
                             \o [k \in DOMAIN named |-> ddm(named[k])],
                           LAMBDA s : s.range))

-----------------------------------------------------------------------------
(* Variable uses, from the tokens alone: everything between DEFINE DATA and   *)
(* END-DEFINE or END-DATA is left out, and the token after any DEFINE.        *)

VariableRefsOf(toks) ==
  LET \* What the scan makes of token k: a DEFINE consumes the token after it.
      peeked[k \in 0..Len(toks)] ==
        IF k =< 1 THEN FALSE ELSE IsToken(toks[k - 1], "keyword", "DEFINE") /\ ~peeked[k - 1]
      inData[k \in 0..Len(toks)] ==
        CASE k = 0 -> FALSE
          [] k > 0 /\ peeked[k] -> inData[k - 1] \/ IsToken(toks[k], "keyword", "DATA")
          [] k > 0 /\ ~peeked[k] ->
               inData[k - 1] /\ ~(/\ toks[k].type = "identifier"
                                  /\ Word(toks[k]) \in {"END-DEFINE", "END-DATA"})
      uses == SelectSeq([k \in DOMAIN toks |-> k], LAMBDA k :
                /\ ~peeked[k] /\ ~inData[k]
                /\ toks[k].type = "identifier"
                /\ Word(toks[k]) \notin {"END-DEFINE", "END-DATA"}
                /\ Initial(Word(toks[k])) # "&")
  IN  [k \in DOMAIN uses |-> [name |-> toks[uses[k]].lit, range |-> tokenRange(toks[uses[k]])]]

ExtractVariableRefs(text) == VariableRefsOf(Tokens(text, NewLexer))

-----------------------------------------------------------------------------
(* Analyze, and what the cursor is on.                                       *)

Analyze(text) ==
  LET all(prog, areas, defs, access) ==
        [ast         |-> prog,
         diagnostics |-> prog.diags,
         edges       |-> InSourceOrder(extractEdges(prog.nodes) \o extractSQLCalls(prog.nodes)
                                         \o DataAreaEdges(areas), LAMBDA e : e.source),
         access      |-> access,
         definitions |-> defs,
         workFiles   |-> extractWorkFiles(prog.nodes),
         hostVars    |-> extractHostVarRefs(prog.nodes),
         dataAreas   |-> areas,
         structure   |-> extractStructure(prog, defs, access)]
      of(prog) ==
        all(prog, extractDataAreaRefs(prog.nodes), extractDefinitions(prog.nodes),
            InSourceOrder(extractDataAccess(prog.nodes) \o extractSQLAccess(prog.nodes),
                          LAMBDA a : a.source))
  IN  of(Parse(text))

\* Fewer lines, then fewer columns.
isSmallerSpan(r, s) ==
  LET lines(x) == x.end.line - x.start.line
      cols(x)  == x.end.column - x.start.column
  IN  lines(r) < lines(s) \/ (lines(r) = lines(s) /\ cols(r) < cols(s))

\* The first of the smallest entries whose range holds the position, as a
\* sequence of at most one.
Smallest(entries, SpanOf(_), pos) ==
  LET hits == {k \in DOMAIN entries : rangeContains(SpanOf(entries[k]), pos)}
      best == {k \in hits : \A j \in hits :
                 \/ isSmallerSpan(SpanOf(entries[k]), SpanOf(entries[j]))
                 \/ ~isSmallerSpan(SpanOf(entries[j]), SpanOf(entries[k])) /\ k =< j}
  IN  IF hits = {} THEN <<>> ELSE <<entries[CHOOSE k \in best : TRUE]>>

\* An edge first, then an access by its name, then a variable.
findCursorTarget(analysis, pos, text) ==
  LET edge == Smallest(analysis.edges, LAMBDA e : e.source, pos)
      read == Smallest(analysis.access, LAMBDA a : a.nameRange, pos)
      var  == Smallest(ExtractVariableRefs(text) \o analysis.hostVars, LAMBDA v : v.range, pos)
  IN  CASE edge # <<>>                 -> [on |-> "edge", what |-> edge]
        [] edge = <<>> /\ read # <<>>  -> [on |-> "access", what |-> read]
        [] edge = <<>> /\ read = <<>>  -> [on |-> "variable", what |-> var]

\* The symbols of an outline in the order the walk visits them.
RECURSIVE Symbols(_)
Symbols(symbol) ==
  <<symbol>> \o FlattenSeq([k \in DOMAIN symbol.children |-> Symbols(symbol.children[k])])

\* findDeclarationTarget: the symbol whose name the cursor is on.
findDeclarationTarget(analysis, pos) ==
  Smallest(Symbols(analysis.structure), LAMBDA s : s.selection, pos)

=============================================================================
