------------------------------- MODULE MCSession -------------------------------
(***************************************************************************)
(* A workspace with a configured directory inside a configured one, a      *)
(* directory whose file cannot be decoded and one without any.             *)
(***************************************************************************)
EXTENDS Session

CONSTANTS Token, Build, NoDir, Empty, BadType, Malformed

MCNames == {"home", "HOME", "outer", "inner", "broken", "node_modules"}

MCUpperOf ==
  [n \in MCNames |-> CASE n \in {"home", "HOME"} -> "HOME" [] OTHER -> n]

MCSpellings == {"nsp", ".NSP", ".NSN", "..", "."}

MCNormalOf ==
  [s \in MCSpellings |->
     CASE s \in {"nsp", ".NSP"} -> ".NSP" [] s = ".NSN" -> ".NSN" [] OTHER -> Empty]

MCKeyOf ==
  [s \in MCSpellings |->
     CASE s \in {"nsp", ".NSP"} -> ".NSP" [] s = "." -> Empty [] OTHER -> s]

MCRankOf ==
  [s \in MCSpellings |->
     CASE s = "." -> 0 [] s = ".." -> 1 [] s = ".NSN" -> 2 [] s = ".NSP" -> 3 [] s = "nsp" -> 4]

MCTypeNames == {"Program", "program", "nonsense"}

MCTypeNameOf ==
  [v \in MCTypeNames |-> IF v = "nonsense" THEN BadType ELSE "program"]

MCDefaultExtensions == {".NSP", ".NSN"}

MCDefaultExcludes == {"node_modules"}

MCOuter == [extensions |-> {"nsp", ".."}, maxFileSize |-> 0, minLength |-> 3]

MCInner ==
  [extensions |-> {".NSN"}, excludes |-> {"HOME"}, cachePath |-> "",
   extensionTypes |-> [s \in MCSpellings |->
                         CASE s = "nsp" -> "Program" [] s = ".NSP" -> "program"
                           [] s = ".NSN" -> "nonsense" [] OTHER -> "Program"],
   libraries |-> <<[name |-> "APP"], [name |-> ""], [name |-> "COM"]>>]

MCSentinels ==
  [d \in {<<"home", "outer">>, <<"home", "outer", "inner">>, <<"home", "broken">>} |->
     CASE d = <<"home", "outer">>  -> MCOuter
       [] d = <<"home", "broken">> -> Malformed
       [] OTHER                    -> MCInner]

\* A subdirectory of each, two folders, an unusable folder, and no root at all.
MCRequests ==
  {[folders |-> <<<<"home", "outer", "home">>>>, rootUri |-> NoDir, progress |-> TRUE],
   [folders |-> <<<<"home", "broken">>, <<"home", "outer">>>>, rootUri |-> NoDir, progress |-> FALSE],
   [folders |-> <<NoDir>>, rootUri |-> <<"home", "outer", "inner">>, progress |-> TRUE],
   [folders |-> <<>>, rootUri |-> NoDir, progress |-> TRUE]}

MCCwd == <<"home">>

\* Validate leaves nothing to report about what it returns, and repeats nothing.
ASSUME \A d \in DOMAIN MCSentinels \ {<<"home", "broken">>} :
         /\ Problems(ConfigOf(d)) = {}
         /\ Validated(ConfigOf(d)) = ConfigOf(d)
         /\ Problems(Decoded(MCSentinels[d])) # {}

===============================================================================
