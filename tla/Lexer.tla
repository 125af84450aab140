-------------------------------- MODULE Lexer --------------------------------
(***************************************************************************)
(* The lexer, internal/analysis/natural/lexer.go, over the texts of        *)
(* Positions.  A word piece is a whole identifier or keyword, hyphens and  *)
(* prefix included and already in upper case; a numeral piece is a whole   *)
(* number.  The lexer ends a line at CR, LF and CRLF, whereas the          *)
(* conversions of Positions end one at LF alone.                           *)
(***************************************************************************)
EXTENDS Positions

LineEnds == {"LF", "CR"}

Operators == {"=", "+", "-", "*", "/", "|", "!", "^", "<", ">"}
Punctuation == {",", ";", ":", "(", ")", "[", "]", "{", "}", "."}
DoubleOperators == {<<"<", ">">>, <<"<", "=">>, <<">", "=">>, <<":", "=">>}

Digits == {"0", "1", "2", "3", "4", "5", "6", "7", "8", "9"}

Initial(p) == SubSeq(p, 1, 1)

IsNumeral(p) == p \notin Foreign /\ Initial(p) \in Digits

IsWord(p) ==
  p \notin Foreign \cup LineEnds \cup Operators \cup Punctuation \cup {" ", "'"} /\ ~IsNumeral(p)

Keywords ==
  {"CALLNAT", "PERFORM", "INCLUDE", "FETCH", "RUN", "DEFINE", "END",
   "IF", "THEN", "ELSE", "ENDIF", "MOVE", "COMPUTE", "TO", "WRITE", "READ", "STORE",
   "DELETE", "UPDATE", "INSERT", "SELECT", "FROM", "WHERE", "SET",
   "GET", "PUT", "EXIT", "RETURN", "WHILE", "WEND", "FOR", "NEXT",
   "DO", "LOOP", "UNTIL", "BREAK", "CONTINUE", "GOTO", "CALL", "EXITNAT", "PERFORMNAT",
   "DISPLAY", "PROMPT", "ACCEPT", "INPUT", "OUTPUT", "PRINT", "OPEN", "CLOSE",
   "LOCK", "UNLOCK", "LOCKNAT", "UNLOCKNAT", "SEARCH", "SEARCHNAT", "FIND", "FINDNAT",
   "REPLACE", "REPLACENAT", "SUBSTITUTE", "SUBST", "CONCAT", "CONCATENATE",
   "LENGTH", "LEN", "TRIM", "LTRIM", "RTRIM", "UPPER", "LOWER", "SUBSTR", "SUBSTRING",
   "INDEX", "POSITION", "ASSERT", "ASSERTNAT", "ERROR", "RAISE", "CATCH", "TRY",
   "ABORT", "TERMINATE", "STOP", "HALT", "RESUME", "RETRY", "RESTART", "REINIT",
   "RESET", "CLEAR", "FLUSH", "SYNC", "SYNCNAT", "FLUSHNAT", "ID", "IDNAT", "VERSION",
   "VERSIONNAT", "DATE", "DATENAT", "TIME", "TIMENAT", "DATETIME", "DATETIMENAT",
   "DATA", "LOCAL", "PARAMETER", "REDEFINE", "SINGLE", "INTO", "VALUES", "MERGE",
   "COMMIT", "ROLLBACK", "CALLDBPROC", "PROCESS", "RESULT", "END-SELECT", "END-RESULT"}

-----------------------------------------------------------------------------
(* The lexer's state: the next piece, its line and byte column, and whether *)
(* the line has produced no token yet.                                      *)

NewLexer == [at |-> 1, line |-> 1, col |-> 1, fresh |-> TRUE]

\* The lexer after n more pieces of one line, and after a line end.
Past(text, lx, n) ==
  [lx EXCEPT !.at = @ + n, !.col = @ + ByteLen(SubSeq(text, lx.at, lx.at + n - 1))]

PastLineEnd(text, lx) ==
  [at    |-> lx.at + (IF /\ text[lx.at] = "CR"
                         /\ lx.at < Len(text)
                         /\ text[lx.at + 1] = "LF" THEN 2 ELSE 1),
   line  |-> lx.line + 1,
   col   |-> 1,
   fresh |-> TRUE]

RECURSIVE skipWhitespace(_, _)
skipWhitespace(text, lx) ==
  CASE lx.at > Len(text)            -> lx
    [] text[lx.at] \in LineEnds     -> skipWhitespace(text, PastLineEnd(text, lx))
    [] text[lx.at] = " "            -> skipWhitespace(text, Past(text, lx, 1))
    [] OTHER                        -> lx

\* The first index at or after i that satisfies P, or the one past the end.
First(text, i, P(_)) ==
  LET found == {k \in i..Len(text) : P(k)}
  IN  IF found = {} THEN Len(text) + 1 ELSE CHOOSE k \in found : \A j \in found : k =< j

\* The piece at i and the one after it, if there is one.
Pair(text, i) == SubSeq(text, i, IF i < Len(text) THEN i + 1 ELSE i)

\* A token: its literal is a sequence of pieces and its length is in bytes.
Token(type, lit, lx) ==
  [type |-> type, lit |-> lit, line |-> lx.line, col |-> lx.col, len |-> ByteLen(lit),
   at |-> lx.at]

RECURSIVE NextToken(_, _)

\* NextToken at a piece that is no blank.
TokenAt(text, lx) ==
  LET p     == text[lx.at]
      pair  == Pair(text, lx.at)
      eol   == First(text, lx.at, LAMBDA k : text[k] \in LineEnds)
      quote == First(text, lx.at + 1, LAMBDA k : text[k] = "'")
      Take(type, lit, n) == [tok |-> Token(type, lit, lx),
                             lexer |-> [Past(text, lx, n) EXCEPT !.fresh = FALSE]]
      Pieces(n) == SubSeq(text, lx.at, lx.at + n - 1)
  IN  CASE lx.at > Len(text) ->
             [tok |-> Token("eof", <<>>, lx), lexer |-> lx]
        [] lx.at =< Len(text) /\ p = "*" /\ lx.fresh ->
             Take("comment", Pieces(eol - lx.at), eol - lx.at)
        [] lx.at =< Len(text) /\ IsWord(p) ->
             Take(IF p \in Keywords THEN "keyword" ELSE "identifier", <<p>>, 1)
        [] lx.at =< Len(text) /\ p = "'" ->
             \* A string runs over line ends without counting them; one that is
             \* never closed loses its opening quote.
             IF quote =< Len(text) THEN Take("string", Pieces(quote + 1 - lx.at), quote + 1 - lx.at)
             ELSE Take("string", SubSeq(text, lx.at + 1, Len(text)), Len(text) + 1 - lx.at)
        [] lx.at =< Len(text) /\ IsNumeral(p) ->
             Take("numeric", <<p>>, 1)
        [] lx.at =< Len(text) /\ pair = <<"/", "*">> ->
             Take("comment", Pieces(eol - lx.at), eol - lx.at)
        [] lx.at =< Len(text) /\ pair \in DoubleOperators ->
             Take("operator", <<pair[1] \o pair[2]>>, 2)
        [] lx.at =< Len(text) /\ p \in Operators /\ pair \notin DoubleOperators
             /\ pair # <<"/", "*">> /\ ~(p = "*" /\ lx.fresh) ->
             Take("operator", <<p>>, 1)
        [] lx.at =< Len(text) /\ p \in Punctuation /\ pair \notin DoubleOperators ->
             Take("punctuation", <<p>>, 1)
        [] lx.at =< Len(text) /\ p \in Foreign ->
             NextToken(text, Past(text, lx, 1))

NextToken(text, lexer) == TokenAt(text, skipWhitespace(text, lexer))

\* Every token from a state of the lexer on; the last one is the end of file.
RECURSIVE Tokens(_, _)
Tokens(text, lexer) ==
  LET from(next) == IF next.tok.type = "eof" THEN <<next.tok>>
                    ELSE <<next.tok>> \o Tokens(text, next.lexer)
  IN  from(NextToken(text, lexer))

-----------------------------------------------------------------------------
(* The raw span << ... >> of PROCESS SQL, whose interior is not tokenized.   *)

RECURSIVE RawTo(_, _, _)
RawTo(text, lx, last) ==
  CASE lx.at > last              -> lx
    [] text[lx.at] \in LineEnds  -> RawTo(text, PastLineEnd(text, lx), last)
    [] OTHER                     -> RawTo(text, Past(text, lx, 1), last)

\* ScanOpaqueSpanFrom: the parser holds the first "<" as its current token, so
\* the lexer goes back to it.  Without a second "<" next to it there is no span
\* and the "<" will be lexed again.
ScanOpaqueSpanFrom(text, opener) ==
  LET start  == [at |-> opener.at, line |-> opener.line, col |-> opener.col, fresh |-> FALSE]
      opened == Pair(text, opener.at) = <<"<", "<">>
      close  == First(text, opener.at + 2,
                      LAMBDA k : Pair(text, k) = <<">", ">">>)
      inside == RawTo(text, Past(text, start, 2), close - 1)
  IN  IF ~opened THEN [body |-> <<>>, unterminated |-> FALSE, lexer |-> start]
      ELSE [body         |-> SubSeq(text, opener.at + 2, close - 1),
            unterminated |-> close > Len(text),
            lexer        |-> IF close > Len(text) THEN inside
                             ELSE [Past(text, inside, 2) EXCEPT !.fresh = FALSE]]

=============================================================================
