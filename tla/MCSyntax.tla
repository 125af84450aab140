------------------------------ MODULE MCSyntax -------------------------------
(***************************************************************************)
(* Alphabets for Syntax: one of statements and loops, one of statements    *)
(* whose clauses swallow what follows, one of data definitions, and one of *)
(* calls among characters of several bytes.                                *)
(***************************************************************************)
EXTENDS Syntax

\* "e2" takes two bytes and one code unit, "g4" four bytes and two.
MCForeignBytes == [f \in {"e2", "g4"} |-> IF f = "e2" THEN 2 ELSE 4]
MCForeignUnits == [f \in {"e2", "g4"} |-> IF f = "e2" THEN 1 ELSE 2]

Blank == <<" ">>
EOL == <<"LF">>
CRLF == <<"CR", "LF">>
Quoted(piece) == <<"'", piece, "'">>

\* Words with a blank after each.
Words(words) == FlattenSeq([k \in DOMAIN words |-> <<words[k], " ">>])
Typed(words) == Words(words) \o EOL

Statements ==
  {<<"CALLNAT", " ">> \o Quoted("X") \o <<" ", "#P", "LF">>,
   Typed(<<"PERFORM", "S">>),
   Typed(<<"SELECT", "Q", "INTO", "#A", "FROM", "T">>),
   Typed(<<"END-SELECT">>),
   Typed(<<"READ", "RESULT", "SET", "#R">>),
   Typed(<<"DEFINE", "SUBROUTINE", "S">>),
   Typed(<<"END-SUBROUTINE">>),
   Words(<<"PROCESS", "SQL", "D">>) \o <<"<", "<", ":", "U", ":", "#H", ">", ">", "LF">>}

Clauses ==
  {Typed(<<"READ", "RESULT">>),
   Typed(<<"FIND", "(", "5", ")", "EMP", "WITH", "K">>),
   Typed(<<"GET", "EMP", "(">>),
   Typed(<<"INSERT", "INTO", "T", "VALUES", "(", ":", "A">>),
   Typed(<<"UPDATE", "T", "SET", "C", "=", ":">>),
   Typed(<<"DELETE", "FROM", "T", "WHERE", "K", "=", ":">>),
   Typed(<<"SELECT", "SINGLE", "Q", "FROM", "T", "WHERE", "K", "=", ":", "A", "ORDER", "BY", "K">>),
   Typed(<<"DEFINE", "WORK", "FILE", "1">>) \o <<"#F", "LF">>,
   Typed(<<")">>)}

Definitions ==
  {Typed(<<"DEFINE", "DATA", "LOCAL", "1", "A", "(", "A3", ")">>),
   Typed(<<"2", "B", "VIEW", "OF", "D">>),
   Typed(<<"2", "REDEFINE", "B">>),
   Typed(<<"1", "REDEFINE", "A">>),
   Typed(<<"3", "C">>),
   <<"1", " ", "+", "V", "LF">>,
   Typed(<<"GLOBAL", "USING">>),
   Typed(<<"END-DEFINE">>)}

Calls ==
  {<<"CALLNAT", " ", "'", "e2", "g4", "'">>,
   <<"PERFORM", " ", "SUB", " ">>,
   <<"RUN", " ", "PROG", " ">> \o Quoted("LIB"),
   <<"INCLUDE", " ", "COPY", " ", "WRITE", " ">>,
   <<"WRITE", " ", "'", "g4", "'", " ">>,
   <<"*", "e2", " ">>,
   <<"e2">>,
   EOL, CRLF}

Alphabet == {Statements, Clauses, Definitions, Calls}

=============================================================================
