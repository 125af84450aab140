---------------------------- MODULE MCSharedIndex -----------------------------
(***************************************************************************)
(* Two files of one name in two libraries, and three threads: the dispatch *)
(* loop, the background build, and a reader of the index such as the tests *)
(* start.                                                                  *)
(***************************************************************************)
EXTENDS SharedIndex

CONSTANTS loop, builder, reader, appFile, comFile, full, zero, bytes, serverCfg, otherCfg

MCNames == [p \in Paths |-> "MYSUB"]

\* The other configuration declares no library.
MCLibraryOf ==
  [cfg \in Configs |->
     [p \in Paths |-> IF cfg = otherCfg THEN "" ELSE IF p = appFile THEN "APP" ELSE "COM"]]

\* The analysis of a deleted file has no type.
MCTypes == [a \in Analyses |-> IF a = full THEN "subprogram" ELSE ""]

Change(p, a, c) == [path |-> p, analysis |-> a, content |-> c]
Lookup(type, cfg) == [kind |-> "lookup", name |-> "MYSUB", type |-> type, cfg |-> cfg]

\* didChange of one file and the deletion of the other; the replay of both.
MCCalls ==
  [t \in Threads |->
     CASE t = loop    -> {UpdateOf(<<Change(appFile, full, bytes)>>),
                          UpdateOf(<<Change(comFile, zero, Absent)>>),
                          Lookup("subprogram", serverCfg)}
       [] t = builder -> {UpdateOf(<<Change(comFile, full, bytes), Change(appFile, zero, bytes)>>)}
       [] t = reader  -> {Lookup(AnyType, otherCfg), [kind |-> "sweep"],
                          [kind |-> "get", path |-> appFile],
                          [kind |-> "range", path |-> comFile]}]

===============================================================================
