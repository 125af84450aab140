----------------------------- MODULE MCServerSync -----------------------------
(***************************************************************************)
(* A workspace of a caller and two subprograms of one name, in a flat      *)
(* namespace: the caller's edge resolves, is ambiguous, or finds nothing,  *)
(* as files come and go.  A third subprogram lies out of the root.         *)
(***************************************************************************)
EXTENDS ServerSync

Caller == "CALLER.NSP"
Sub    == "SUB.NSN"
Twin   == "TWIN/SUB.NSN"
Out    == "../SUB.NSN"

MCPaths == {Caller, Sub, Twin}
MCAllPaths == {Caller, Sub, Twin, Out}

MCSegments == [p \in Paths |->
                 CASE p = Twin -> <<"TWIN", "SUB.NSN">>
                   [] p = Out  -> <<"..", "SUB.NSN">>
                   [] OTHER    -> <<p>>]

MCPathRank == [p \in Paths |-> CASE p = Out -> 0 [] p = Caller -> 1
                                 [] p = Sub -> 2 [] p = Twin -> 3]

MCNames == {"CALLER", "SUB", "sub", ""}
MCUpper == [n \in Names |-> IF n = "sub" THEN "SUB" ELSE n]
MCStartsWith == [n \in Names |-> IF n = "" THEN Names ELSE {n}]
MCSigils == {}
MCStem  == [p \in Paths |-> IF p = Caller THEN "CALLER" ELSE "SUB"]
MCSources == {"line1"}
MCNoLibraries == <<>>

\* "calls" holds a CALLNAT 'sub'; the analyzer fails on "bad" and the indexer
\* skips "huge".
MCContents == {"calls", "plain"}
MCHardContents == {"calls", "huge", "bad"}
MCTypeOf == [p \in Paths |-> IF p = Caller THEN "program" ELSE "subprogram"]
MCCall == [kind |-> "CALLS", target |-> "sub", library |-> "", inline |-> FALSE]
MCAnalysisOf ==
  [p \in Paths |-> [c \in Contents |->
     [ZeroAnalysis EXCEPT
        !.type  = MCTypeOf[p],
        !.edges = IF c = "calls" /\ p = Caller THEN [s \in Sources |-> MCCall]
                                               ELSE Nothing]]]
MCTooLarge  == {"huge"} \cap Contents
MCPanicking == {"bad"} \cap Contents
MCOutside   == {Out} \cap Paths
MCNoPaths   == {}
MCTwin      == {Twin}

\* The second subprogram does not exist yet.
MCInitialDisk ==
  [p \in Paths |-> IF p \in {Caller, Sub} THEN "calls" ELSE "absent"]
===============================================================================
