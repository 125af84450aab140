------------------------------- MODULE Parser --------------------------------
(***************************************************************************)
(* The recursive-descent parser, internal/analysis/natural/parser.go.      *)
(*                                                                         *)
(* A state p of the parser holds the text, its tokens, the index of the    *)
(* current one, the statements built so far (the slices of Program, in the *)
(* order they are appended) and the diagnostics.  Each parse function maps *)
(* a state to the state after it.  The code keeps one token of lookahead:  *)
(* where it restores the current token without moving the lexer back, the  *)
(* token in between is lost, and where it lexes raw text, the tokens after *)
(* it are lexed again.                                                     *)
(***************************************************************************)
EXTENDS Lexer, FieldLevels, SequencesExt, TLC

NewParser(text) ==
  [text |-> text, toks |-> Tokens(text, NewLexer), i |-> 1, nodes |-> <<>>, diags |-> <<>>]

Cur(p) == p.toks[p.i]
Prev(p) == p.toks[IF p.i = 1 THEN 1 ELSE p.i - 1]

\* At the end of the file the lexer returns the end-of-file token again.
advance(p) ==
  [p EXCEPT !.i = @ + 1, !.toks = IF p.i = Len(@) THEN Append(@, @[p.i]) ELSE @]

\* The current and previous tokens are put back, the lexer is not.
LoseNext(p) ==
  [p EXCEPT !.toks = IF @[p.i + 1].type = "eof" THEN @ ELSE RemoveAt(@, p.i + 1)]

Start(t) == Pos(t.line, t.col)
tokenRange(t) == Span(Start(t), Pos(t.line, t.col + t.len - 1))

Word(t) == IF Len(t.lit) = 1 THEN t.lit[1] ELSE ""
Reads(p, words) == Word(Cur(p)) \in words
AtEOF(p) == Cur(p).type = "eof"
IsToken(t, type, word) == t.type = type /\ Word(t) = word
Is(p, type, word) == IsToken(Cur(p), type, word)
SameLine(p, t) == ~AtEOF(p) /\ Cur(p).line = t.line

IsName(t) == t.type \in {"identifier", "keyword"}
isNameToken(p) == IsName(Cur(p))

StatementKeywords ==
  {"DEFINE", "CALLNAT", "PERFORM", "INCLUDE", "FETCH", "RUN", "READ", "FIND", "FINDNAT",
   "STORE", "GET", "COMMIT", "ROLLBACK", "CALLDBPROC", "SELECT", "INSERT", "UPDATE",
   "DELETE", "MERGE", "PROCESS"}

isStatementKeyword(t) == Word(t) \in StatementKeywords
StartsStatement(t) == t.type = "keyword" /\ isStatementKeyword(t)
isProgramBoundary(t) == Word(t) \in {"END", "END-DEFINE"}
EndsLoop(t) == Word(t) \in {"END-SELECT", "LOOP", "END-RESULT"}

\* A bug isSelectStopKeyword could have: a copy of the statement keywords that one
\* was not added to.
isSelectStopKeywordStale(t) ==
  \/ Word(t) \in {"END-SELECT", "LOOP"}
  \/ isProgramBoundary(t)
  \/ StartsStatement(t) /\ Word(t) # "INSERT"

isSelectStopKeyword(t) ==
  Word(t) \in {"END-SELECT", "LOOP"} \/ isProgramBoundary(t) \/ StartsStatement(t)

\* The loop that advances until a token satisfies Stop, or to the end of file.
Until(p, Stop(_)) ==
  LET stops == {k \in p.i..Len(p.toks) : p.toks[k].type = "eof" \/ Stop(p.toks[k])}
  IN  [p EXCEPT !.i = CHOOSE k \in stops : \A j \in stops : k =< j]

Between(p, q) == SubSeq(p.toks, p.i, q.i - 1)

skipToNextStatement(p) ==
  Until(p, LAMBDA t : t.type = "keyword" /\ (isStatementKeyword(t) \/ EndsLoop(t)
                                              \/ isProgramBoundary(t)))

skipToNextLoopBody(p) == Until(p, LAMBDA t : StartsStatement(t) \/ EndsLoop(t))

\* An optional (...) clause; an unclosed one takes the rest of the file.
SkipParens(p) ==
  IF ~Is(p, "punctuation", "(") THEN p
  ELSE LET q == Until(advance(p), LAMBDA t : IsToken(t, "punctuation", ")"))
       IN  IF AtEOF(q) THEN q ELSE advance(q)

Optional(p, words) == IF Reads(p, words) THEN advance(p) ELSE p

-----------------------------------------------------------------------------
(* Diagnostics, operands and statement nodes.                               *)

addDiagnostic(p, what, start, end) ==
  [p EXCEPT !.diags = Append(@, [what |-> what, range |-> Span(start, end)])]

\* The keyword's own range, for a missing operand.
Missing(p, key) == addDiagnostic(p, "missing operand", Start(key), tokenRange(key).end)

isTerminatedString(lit) == Len(lit) >= 2 /\ lit[1] = "'" /\ lit[Len(lit)] = "'"
unquoteString(lit) == IF isTerminatedString(lit) THEN SubSeq(lit, 2, Len(lit) - 1) ELSE lit

consumeStringTarget(p) ==
  advance(IF isTerminatedString(Cur(p).lit) THEN p
          ELSE addDiagnostic(p, "unterminated string", Start(Cur(p)), Start(Cur(p))))

NoOperand == [name |-> <<>>, literal |-> FALSE, range |-> NoSpan]

\* The operand at p if its token has one of the types, and the state past it.
Operand(p, types) ==
  LET t == Cur(p)
  IN  IF t.type \notin types THEN [found |-> FALSE, operand |-> NoOperand, rest |-> p]
      ELSE [found   |-> TRUE,
            operand |-> [name    |-> unquoteString(t.lit),
                         literal |-> t.type = "string",
                         range   |-> tokenRange(t)],
            rest    |-> IF t.type = "string" THEN consumeStringTarget(p) ELSE advance(p)]

\* A statement that began at token key and was parsed up to p.
Statement(kind, key, p, target) ==
  [kind |-> kind, start |-> Start(key), end |-> Start(Prev(p)), target |-> target]

Emit(p, node) == [p EXCEPT !.nodes = Append(@, node)]

\* The rest of a statement is skipped, then its node is appended.
Finish(p, kind, key, target) ==
  LET q == skipToNextStatement(p) IN Emit(q, Statement(kind, key, q, target))

Ref(t, hostVar) == [name |-> t.lit, range |-> tokenRange(t), hostVar |-> hostVar]
Refs(toks) == [k \in DOMAIN SelectSeq(toks, IsName) |-> Ref(SelectSeq(toks, IsName)[k], FALSE)]

-----------------------------------------------------------------------------
(* Statements that name another object.                                     *)

parseCallStatement(p) ==
  LET key == Cur(p)
      q   == advance(p)
      op  == Operand(q, {"string", "identifier"})
  IN  IF ~SameLine(q, key) \/ ~op.found THEN Missing(q, key)
      ELSE IF op.operand.name = <<>> THEN skipToNextStatement(op.rest)
      ELSE Finish(op.rest, "CALLNAT", key, op.operand)

\* PERFORM BREAK is another statement; any other word may be a name.
parsePerformStatement(p) ==
  LET key == Cur(p)
      q   == advance(p)
      op  == Operand(q, {"identifier", "keyword"})
  IN  IF ~SameLine(q, key) THEN Missing(q, key)
      ELSE IF Is(q, "keyword", "BREAK") THEN Finish(q, "PERFORM", key, NoOperand)
      ELSE Finish(op.rest, "PERFORM", key, op.operand)

parseIncludeStatement(p) ==
  LET key == Cur(p)
      q   == advance(p)
      op  == Operand(q, {"string", "identifier"})
  IN  IF ~SameLine(q, key) THEN Missing(q, key)
      ELSE Finish(op.rest, "INCLUDE", key, op.operand)

parseFetchStatement(p) ==
  LET key == Cur(p)
      q0  == advance(p)
      q   == IF Cur(q0).line = key.line THEN Optional(q0, {"REPEAT", "RETURN"}) ELSE q0
      op  == Operand(q, {"string", "identifier"})
  IN  IF ~SameLine(q, key)
      THEN LET m == Missing(q, key) IN Emit(m, Statement("FETCH", key, m, NoOperand))
      ELSE Finish(op.rest, "FETCH", key, op.operand)

\* A second operand on the line of RUN is the library.
parseRunStatement(p) ==
  LET key == Cur(p)
      q   == advance(p)
      op  == Operand(q, {"string", "identifier"})
      lib == Operand(op.rest, IF SameLine(op.rest, key) THEN {"string", "identifier"} ELSE {})
      r   == skipToNextStatement(lib.rest)
  IN  IF ~SameLine(q, key) THEN Missing(q, key)
      ELSE Emit(r, Statement("RUN", key, r, op.operand) @@ [library |-> lib.operand.name])

\* The only operand that may stand on a later line.
parseCallDBProcStatement(p) ==
  LET op == Operand(advance(p), {"string", "identifier"})
  IN  Finish(op.rest, "CALLDBPROC", Cur(p), op.operand)

-----------------------------------------------------------------------------
(* Adabas statements.                                                       *)

\* From q on: the view must stand on the line of the keyword.
View(q) == Operand(q, {"identifier"})

parseFindStatement(p) ==
  LET key == Cur(p)
      q0  == advance(p)
      q1  == IF Cur(q0).line = key.line THEN SkipParens(q0) ELSE q0
      q   == IF Cur(q1).line = key.line THEN Optional(q1, {"NUMBER"}) ELSE q1
  IN  IF ~SameLine(q, key)
      THEN addDiagnostic(q, "missing operand", Start(key), Pos(key.line, key.col + 3))
      ELSE Finish(View(q).rest, "FIND", key, View(q).operand)

parseGetStatement(p) ==
  LET key  == Cur(p)
      q    == advance(p)
      rest == View(q).rest
      past == IF Cur(rest).line = key.line THEN SkipParens(rest) ELSE rest
  IN  IF Cur(q).line = key.line /\ Reads(q, {"SAME"})
      THEN Finish(advance(q), "GET", key, NoOperand)
      ELSE IF ~SameLine(q, key) THEN Missing(q, key)
      ELSE Finish(past, "GET", key, View(q).operand)

parseStoreStatement(p) ==
  LET key == Cur(p)
      q   == Until(advance(p),
                   LAMBDA t : t.line # key.line \/ Word(t) \notin {"RECORD", "IN", "FILE"})
  IN  IF ~SameLine(q, key)
      THEN LET m == Missing(q, key) IN Emit(m, Statement("STORE", key, m, NoOperand))
      ELSE Finish(View(q).rest, "STORE", key, View(q).operand)

parseCommitStatement(p) ==
  LET key == Cur(p)
      q   == skipToNextStatement(advance(p))
  IN  Emit(q, [Statement(Word(key), key, q, NoOperand) EXCEPT !.end = tokenRange(key).end])

parseLabelParens(p) == SkipParens(p)

\* A record UPDATE or DELETE ends where its optional label ends.
RecordWrite(p, kind, key) ==
  LET q == parseLabelParens(p)
  IN  skipToNextStatement(Emit(q, Statement(kind, key, q, NoOperand)))

-----------------------------------------------------------------------------
(* SQL statements.                                                          *)

\* The names up to the next of the words or the end of the clause.
Clause(p, words) ==
  LET q == Until(p, LAMBDA t : isSelectStopKeyword(t) \/ Word(t) \in words)
  IN  [refs |-> Refs(Between(p, q)), rest |-> q]

skipSQLClause(p) ==
  Until(Optional(advance(p), {"BY"}),
        LAMBDA t : isSelectStopKeyword(t)
                     \/ Word(t) \in {"GROUP", "HAVING", "ORDER", "WHERE", "FROM", "INTO"})

\* Operands with an optional colon each: the WHERE of SELECT and DELETE and the
\* VALUES of INSERT.  What follows a colon is taken whatever it is.
ClauseEnds(t, clause) ==
  CASE clause = "select" -> isSelectStopKeyword(t)
    [] clause = "delete" -> isStatementKeyword(t) \/ isProgramBoundary(t)
    [] clause = "values" -> IsToken(t, "punctuation", ")")

RECURSIVE HostOperands(_, _, _)
HostOperands(p, clause, refs) ==
  LET host == Is(p, "punctuation", ":")
      q    == IF host THEN advance(p) ELSE p
      name == isNameToken(q) \/ (clause = "values" /\ Cur(q).type = "numeric")
  IN  IF AtEOF(p) \/ ClauseEnds(Cur(p), clause) THEN [refs |-> refs, rest |-> p]
      ELSE IF clause = "select" /\ Reads(p, {"GROUP", "HAVING", "ORDER"})
      THEN HostOperands(skipSQLClause(p), clause, refs)
      ELSE HostOperands(advance(q), clause, IF name THEN Append(refs, Ref(Cur(q), host)) ELSE refs)

\* The operands of UPDATE: a colon is kept for the next name, past anything else.
PendingOperands(p, words) ==
  LET q     == Until(p, LAMBDA t : isStatementKeyword(t) \/ isProgramBoundary(t)
                                     \/ Word(t) \in words)
      toks  == Between(p, q)
      names == SelectSeq([k \in DOMAIN toks |-> k], LAMBDA k : IsName(toks[k]))
      host(k) == \E j \in 1..(k - 1) :
                   /\ IsToken(toks[j], "punctuation", ":")
                   /\ \A m \in j..(k - 1) : ~IsName(toks[m])
  IN  [refs |-> [k \in DOMAIN names |-> Ref(toks[names[k]], host(names[k]))], rest |-> q]

NoClause(p) == [refs |-> <<>>, rest |-> p]

\* The clauses of a SELECT, in order; a clause may be missing.
SelectClauses(p) ==
  LET into(q)  == IF Reads(q, {"INTO"}) THEN Clause(advance(q), {"FROM", "WHERE"}) ELSE NoClause(q)
      from(q)  == IF Reads(q, {"FROM"}) THEN Clause(advance(q), {"WHERE"}) ELSE NoClause(q)
      where(q) == IF Reads(q, {"WHERE"}) THEN HostOperands(advance(q), "select", <<>>) ELSE NoClause(q)
      all(targets, tables, hosts) ==
        [into |-> targets.refs, tables |-> tables.refs, hosts |-> hosts.refs, rest |-> hosts.rest]
      behindFrom(targets, tables) == all(targets, tables, where(tables.rest))
      behindInto(targets) == behindFrom(targets, from(targets.rest))
  IN  behindInto(into(Clause(p, {"INTO", "FROM", "WHERE"}).rest))

\* The table of INSERT INTO, MERGE INTO, DELETE FROM.
Table(p) ==
  IF Cur(p).type = "identifier" THEN [refs |-> <<Ref(Cur(p), FALSE)>>, rest |-> advance(p)]
  ELSE NoClause(p)

SQLWrite(p, kind, key, table, hosts) ==
  LET q == skipToNextStatement(p)
  IN  Emit(q, Statement(kind, key, q, NoOperand) @@ [tables |-> table, hosts |-> hosts])

parseInsertStatement(p) ==
  LET key    == Cur(p)
      q      == advance(p)
      table  == Table(advance(q))
      v      == Until(table.rest, LAMBDA t : Word(t) = "VALUES" \/ isProgramBoundary(t)
                                               \/ StartsStatement(t))
      v1     == Optional(v, {"VALUES"})
      opened == Reads(v, {"VALUES"}) /\ Is(v1, "punctuation", "(")
      values == IF opened THEN HostOperands(advance(v1), "values", <<>>) ELSE NoClause(v1)
      closed == IF opened THEN Optional(values.rest, {")"}) ELSE values.rest
  IN  IF ~Reads(q, {"INTO"}) THEN skipToNextStatement(q)
      ELSE SQLWrite(closed, "INSERT", key, table.refs, values.refs)

\* UPDATE <identifier> SET or WHERE is SQL, UPDATE <identifier> alone is nothing.
parseUpdateStatement(p) ==
  LET key   == Cur(p)
      q     == advance(p)
      r     == advance(q)
      set   == IF Reads(r, {"SET"}) THEN PendingOperands(advance(r), {"WHERE"}) ELSE NoClause(r)
      where == IF Reads(set.rest, {"WHERE"}) THEN PendingOperands(advance(set.rest), {})
               ELSE NoClause(set.rest)
  IN  IF Cur(q).type # "identifier" THEN RecordWrite(q, "UPDATE", key)
      ELSE IF ~Reads(r, {"SET", "WHERE"}) THEN skipToNextStatement(r)
      ELSE SQLWrite(where.rest, "SQLUPDATE", key, <<Ref(Cur(q), FALSE)>>, set.refs \o where.refs)

parseDeleteStatement(p) ==
  LET key   == Cur(p)
      q     == advance(p)
      table == Table(advance(q))
      where == IF Reads(table.rest, {"WHERE"})
               THEN HostOperands(advance(table.rest), "delete", <<>>) ELSE NoClause(table.rest)
  IN  IF ~Reads(q, {"FROM"}) THEN RecordWrite(q, "DELETE", key)
      ELSE SQLWrite(where.rest, "SQLDELETE", key, table.refs, where.refs)

parseMergeStatement(p) ==
  LET key   == Cur(p)
      q     == advance(p)
      table == Table(advance(q))
  IN  IF ~Reads(q, {"INTO"}) THEN skipToNextStatement(q)
      ELSE SQLWrite(table.rest, "MERGE", key, table.refs, <<>>)

\* PROCESS SQL <ddm> << ... >>: the body is taken raw and the tokens after it
\* are lexed from its end.
parseProcessSQLStatement(p) ==
  LET key  == Cur(p)
      q    == advance(p)
      ddm  == advance(q)
      past == advance(ddm)
      malformed(at) == addDiagnostic(at, "malformed PROCESS SQL", Start(key), Start(Prev(at)))
      node(body, range, end) ==
        [kind |-> "PROCESSSQL", start |-> Start(key), end |-> end,
         target |-> Operand(ddm, {"identifier"}).operand, body |-> body, bodyRange |-> range]
      statement(after, scan, range) ==
        Emit(IF scan.unterminated
             THEN addDiagnostic(after, "unterminated PROCESS SQL", range.start, range.end)
             ELSE after,
             node(scan.body, range, range.end))
      opaque(scan) ==
        statement([past EXCEPT !.toks = SubSeq(@, 1, past.i - 1) \o Tokens(p.text, scan.lexer)], scan,
                  Span(Start(Cur(past)), Pos(scan.lexer.line, scan.lexer.col - 1)))
  IN  IF ~SameLine(q, key) THEN malformed(q)
      ELSE IF ~Reads(q, {"SQL"}) THEN skipToNextStatement(q)
      ELSE IF ~SameLine(ddm, key) \/ Cur(ddm).type # "identifier" THEN malformed(ddm)
      ELSE IF Is(past, "operator", "<")
      THEN opaque(ScanOpaqueSpanFrom(p.text, Cur(past)))
      ELSE Emit(addDiagnostic(past, "PROCESS SQL requires a body", Start(key),
                              tokenRange(Cur(ddm)).end),
                node(<<>>, NoSpan, Start(Prev(past))))

-----------------------------------------------------------------------------
(* Data definitions.  Fields are kept flat, in source order, each with the  *)
(* index of its parent (0 for none).                                        *)

Atoi(numeral) == IF \E n \in 0..99 : ToString(n) = numeral
                 THEN CHOOSE n \in 0..99 : ToString(n) = numeral ELSE 0

\* parseTypeSpec: everything to the parenthesis that closes the first one.
TypeSpec(p) ==
  LET count(k, sign) == Cardinality({j \in p.i..k : IsToken(p.toks[j], "punctuation", sign)})
      closes == {k \in p.i..Len(p.toks) : p.toks[k].type = "eof" \/ count(k, ")") > count(k, "(")}
      close  == CHOOSE k \in closes : \A j \in closes : k =< j
      q      == [p EXCEPT !.i = close]
  IN  [type |-> FlattenSeq([k \in 1..(close - p.i) |-> p.toks[p.i + k - 1].lit]),
       rest |-> Optional(q, {")"})]

\* The format of FILLER stands without parentheses: a count and, on its line, a letter.
FillerSpec(p) ==
  LET q == advance(p)
      letter == Cur(q).type = "identifier" /\ Cur(q).line = Cur(p).line
  IN  IF Cur(p).type # "numeric" THEN [type |-> <<>>, rest |-> p]
      ELSE [type |-> Cur(p).lit \o (IF letter THEN Cur(q).lit ELSE <<>>),
            rest |-> IF letter THEN advance(q) ELSE q]

\* The field that starts with the level at p.  "+" makes a name only with the
\* word that touches it; otherwise the token after it is lost.
FieldName(p) ==
  LET q == advance(p)
      joined == isNameToken(q) /\ Cur(q).line = Cur(p).line /\ Cur(q).col = Cur(p).col + 1
  IN  IF Is(p, "operator", "+")
      THEN IF joined
           THEN [name |-> <<"+">> \o Cur(q).lit, rest |-> advance(q), start |-> Start(Cur(p)),
                 range |-> Span(Start(Cur(p)), tokenRange(Cur(q)).end)]
           ELSE [name |-> <<>>, rest |-> LoseNext(p), start |-> NoPos, range |-> NoSpan]
      ELSE IF isNameToken(p)
      THEN [name |-> Cur(p).lit, rest |-> q, start |-> NoPos, range |-> tokenRange(Cur(p))]
      ELSE [name |-> <<>>, rest |-> p, start |-> NoPos, range |-> NoSpan]

\* VIEW [OF] <ddm>, the name on the line of VIEW.
ViewOf(p) ==
  LET q == Optional(advance(p), {"OF"})
      named == isNameToken(q) /\ Cur(q).line = Cur(p).line
  IN  IF ~Reads(p, {"VIEW"}) THEN [ddm |-> <<>>, rest |-> p]
      ELSE [ddm |-> IF named THEN Cur(q).lit ELSE <<>>, rest |-> IF named THEN advance(q) ELSE q]

parseDataField(p) ==
  LET q == advance(p)
      target == advance(q)
      targeted == isNameToken(target)
      field(named, redefines, view, spec) ==
        [found |-> TRUE, rest |-> spec.rest,
         field |-> [level     |-> Atoi(Word(Cur(p))),
                    name      |-> named.name,
                    redefines |-> redefines,
                    view      |-> view,
                    type      |-> spec.type,
                    start     |-> IF named.start = NoPos THEN Start(Cur(p)) ELSE named.start,
                    end       |-> tokenRange(Prev(spec.rest)).end,
                    nameRange |-> named.range]]
      viewed(named, view) ==
        field(named, <<>>, view.ddm,
              IF Is(view.rest, "punctuation", "(") THEN TypeSpec(advance(view.rest))
              ELSE IF named.name = <<"FILLER">> THEN FillerSpec(view.rest)
              ELSE [type |-> <<>>, rest |-> view.rest])
      plain(named) == IF named.name = <<>> THEN [found |-> FALSE, rest |-> named.rest]
                      ELSE viewed(named, ViewOf(named.rest))
  IN  IF Is(q, "keyword", "REDEFINE")
      THEN field([name |-> <<>>, start |-> NoPos, range |-> NoSpan],
                 IF targeted THEN Cur(target).lit ELSE <<>>, <<>>,
                 [type |-> <<>>, rest |-> IF targeted THEN advance(target) ELSE target])
      ELSE plain(FieldName(q))

isSectionKeyword(t) ==
  Word(t) \in {"LOCAL", "PARAMETER", "GLOBAL", "LINKAGE", "INDEPENDENT", "CONTEXT", "OBJECT"}

FieldsEnd(t, inMap) ==
  IF inMap THEN IsToken(t, "keyword", "END") \/ IsToken(t, "identifier", "END-MAP")
  ELSE isSectionKeyword(t) \/ isProgramBoundary(t) \/ StartsStatement(t)

RECURSIVE parseDataFields(_, _, _, _)
parseDataFields(p, inMap, fields, stack) ==
  LET under(one, above) ==
        parseDataFields(one.rest, inMap,
          Append(fields, one.field @@ [parent |-> ParentUnder(above)]),
          Append(above, Len(fields) + 1))
      after(one) == IF one.found THEN under(one, Pushed(fields, stack, one.field.level))
                    ELSE parseDataFields(one.rest, inMap, fields, stack)
      from(q) == IF AtEOF(q) \/ FieldsEnd(Cur(q), inMap) THEN [fields |-> fields, rest |-> q]
                 ELSE after(parseDataField(q))
  IN  from(Until(p, LAMBDA t : FieldsEnd(t, inMap) \/ t.type = "numeric"))

\* The first section of a DEFINE DATA starts at DEFINE, the others at their keyword.
RECURSIVE parseDataSections(_, _)
parseDataSections(p, start) ==
  LET q     == advance(p)
      using == Reads(q, {"USING"})
      named == using /\ isNameToken(advance(q))
      r     == IF named THEN advance(advance(q)) ELSE IF using THEN advance(q) ELSE q
      area  == IF named THEN Operand(advance(q), {"identifier", "keyword"}).operand ELSE NoOperand
      section(body) ==
        parseDataSections(
          Emit(body.rest, [kind |-> "SECTION", start |-> start,
                           end |-> Start(Prev(body.rest)), section |-> Word(Cur(p)),
                           target |-> area, fields |-> body.fields]),
          Start(Cur(body.rest)))
  IN  IF ~isSectionKeyword(Cur(p)) THEN p
      ELSE section(parseDataFields(r, FALSE, <<>>, <<>>))

\* END or END-<word> closes a block; END may be followed by the word.
Close(p, word) == IF AtEOF(p) THEN p
                  ELSE IF Is(p, "keyword", "END") THEN Optional(advance(p), {word})
                  ELSE advance(p)

\* Everything in a subroutine up to its end is skipped, statements included.
parseSubroutine(p, key) ==
  LET op == Operand(advance(p), {"identifier", "keyword"})
      q  == Close(Until(op.rest, LAMBDA t : \/ IsToken(t, "keyword", "END")
                                            \/ IsToken(t, "identifier", "END-SUBROUTINE")),
                  "SUBROUTINE")
  IN  Emit(q, Statement("SUBROUTINE", key, q, op.operand))

parseMap(p, key) ==
  LET op   == Operand(advance(p), {"string", "identifier"})
      map(body) ==
        LET q == Close(body.rest, "MAP")
        IN  Emit(q, Statement("MAP", key, q, op.operand) @@ [fields |-> body.fields])
  IN  map(parseDataFields(op.rest, TRUE, <<>>, <<>>))

\* DEFINE WORK FILE <number> <name>; the name of a string is not checked for its quote.
parseWorkFile(p, key) ==
  LET file == advance(p)
      num  == advance(file)
      name == advance(num)
      fail(at) == skipToNextStatement(addDiagnostic(at, "malformed DEFINE WORK FILE", Start(key),
                                                    Start(Prev(at))))
      q    == advance(name)
  IN  IF ~Reads(file, {"FILE"}) THEN fail(file)
      ELSE IF Cur(num).type # "numeric" THEN fail(num)
      ELSE IF Cur(name).type \notin {"string", "identifier"} THEN fail(name)
      ELSE skipToNextStatement(
             Emit(q, Statement("WORKFILE", key, q,
                               [name |-> unquoteString(Cur(name).lit), literal |-> TRUE,
                                range |-> tokenRange(Cur(name))])
                       @@ [number |-> Atoi(Word(Cur(num)))]))

parseDefine(p) ==
  LET key == Cur(p)
      q   == advance(p)
  IN  CASE Is(q, "keyword", "DATA")      -> parseDataSections(advance(q), Start(key))
        [] Reads(q, {"SUBROUTINE"})      -> parseSubroutine(q, key)
        [] Reads(q, {"MAP"})             -> parseMap(q, key)
        [] Reads(q, {"WORK"})            -> parseWorkFile(q, key)
        [] OTHER                         -> skipToNextStatement(q)

-----------------------------------------------------------------------------
(* Loops and the dispatch.                                                  *)

RECURSIVE dispatchStatement(_), LoopBody(_, _, _)

\* The nodes firstStatementNode looks for in the throwaway Program of one
\* statement of a loop body; the node of any other statement is dropped.
KeptInLoops ==
  {"CALLNAT", "PERFORM", "INCLUDE", "FETCH", "RUN", "READ", "STORE", "COMMIT", "ROLLBACK",
   "CALLDBPROC", "SELECT", "SELECTSINGLE", "READRESULTSET", "PROCESSSQL", "INSERT",
   "SQLUPDATE", "SQLDELETE", "MERGE"}

firstStatementNode(nodes) == SelectSeq(nodes, LAMBDA n : n.kind \in KeptInLoops)

\* DEFINE is not allowed in a loop body; the skip stops at it, and the loop
\* forces one token forward.
parseStatement(p) ==
  IF Is(p, "keyword", "DEFINE") THEN [rest |-> skipToNextLoopBody(p), body |-> <<>>]
  ELSE LET kept(q) == [rest |-> [q EXCEPT !.nodes = p.nodes], body |-> firstStatementNode(q.nodes)]
       IN  kept(dispatchStatement([p EXCEPT !.nodes = <<>>]))

LoopBody(p, terminators, body) ==
  LET stuck(q) == ~AtEOF(q) /\ Start(Cur(q)) = Start(Cur(p))
      after(one) == LoopBody(IF stuck(one.rest) THEN advance(one.rest) ELSE one.rest, terminators,
                             body \o one.body)
  IN  IF AtEOF(p) \/ Reads(p, terminators) THEN [body |-> body, rest |-> p]
      ELSE after(parseStatement(p))

\* A loop that meets the end of the file is diagnosed and kept.
ClosedLoop(p, terminators, key) ==
  LET closed(loop) ==
        [body |-> loop.body,
         rest |-> IF AtEOF(loop.rest)
                  THEN addDiagnostic(loop.rest, "unterminated loop", Start(key),
                                     Start(Prev(loop.rest)))
                  ELSE advance(loop.rest)]
  IN  closed(LoopBody(p, terminators, <<>>))

\* READ RESULT SET is a loop; READ RESULT without SET is a plain READ that has
\* lost the token after RESULT.
parseReadStatement(p) ==
  LET key    == Cur(p)
      q      == advance(p)
      set    == advance(advance(q))
      op     == Operand(set, {"identifier"})
      closed(loop) == Emit(loop.rest, Statement("READRESULTSET", key, loop.rest, op.operand)
                                        @@ [body |-> loop.body])
      from(q1) == IF Cur(q1).line = key.line THEN SkipParens(q1) ELSE q1
      read(r)  == IF SameLine(r, key) THEN Finish(View(r).rest, "READ", key, View(r).operand)
                  ELSE LET m == Missing(r, key) IN Emit(m, Statement("READ", key, m, NoOperand))
  IN  IF Reads(q, {"RESULT"}) /\ Reads(advance(q), {"SET"})
      THEN closed(ClosedLoop(skipToNextLoopBody(op.rest), {"END-RESULT", "LOOP"}, key))
      ELSE read(from(IF Reads(q, {"RESULT"}) THEN LoseNext(q) ELSE q))

parseSelectStatement(p) ==
  LET key    == Cur(p)
      q      == advance(p)
      sql(kind, r, clause) == Statement(kind, key, r, NoOperand)
                                @@ [tables |-> clause.tables, into |-> clause.into,
                                    hosts |-> clause.hosts]
      single(clause, past) == Emit(past, sql("SELECTSINGLE", past, clause))
      cursor(clause, loop) == Emit(loop.rest, sql("SELECT", loop.rest, clause)
                                                @@ [body |-> loop.body])
      from(clause) ==
        IF Reads(q, {"SINGLE"}) THEN single(clause, skipToNextStatement(clause.rest))
        ELSE cursor(clause, ClosedLoop(clause.rest, {"END-SELECT", "LOOP"}, key))
  IN  from(SelectClauses(Optional(q, {"SINGLE"})))

dispatchStatement(p) ==
  LET on(word) == Is(p, "keyword", word)
  IN  CASE on("DEFINE")                    -> parseDefine(p)
        [] on("CALLNAT")                   -> parseCallStatement(p)
        [] on("PERFORM")                   -> parsePerformStatement(p)
        [] on("INCLUDE")                   -> parseIncludeStatement(p)
        [] on("FETCH")                     -> parseFetchStatement(p)
        [] on("RUN")                       -> parseRunStatement(p)
        [] on("READ")                      -> parseReadStatement(p)
        [] on("FIND") \/ on("FINDNAT")     -> parseFindStatement(p)
        [] on("GET")                       -> parseGetStatement(p)
        [] on("STORE")                     -> parseStoreStatement(p)
        [] on("COMMIT") \/ on("ROLLBACK")  -> parseCommitStatement(p)
        [] on("CALLDBPROC")                -> parseCallDBProcStatement(p)
        [] on("SELECT")                    -> parseSelectStatement(p)
        [] on("INSERT")                    -> parseInsertStatement(p)
        [] on("UPDATE")                    -> parseUpdateStatement(p)
        [] on("DELETE")                    -> parseDeleteStatement(p)
        [] on("MERGE")                     -> parseMergeStatement(p)
        [] on("PROCESS")                   -> parseProcessSQLStatement(p)
        [] OTHER                           -> advance(p)

RECURSIVE Dispatched(_)
Dispatched(p) == IF AtEOF(p) THEN p ELSE Dispatched(dispatchStatement(p))

\* Parse: the statements, the diagnostics and the extent of the program.
Program(p) ==
  LET parsed(q) ==
        [nodes |-> q.nodes, diags |-> q.diags, start |-> Start(Cur(p)), end |-> Start(Prev(q))]
  IN  parsed(Dispatched(p))

Parse(text) == Program(NewParser(text))

=============================================================================
