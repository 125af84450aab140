------------------------------- MODULE MCQueries -------------------------------
(***************************************************************************)
(* Libraries APP (steplib BASE), BASE (steplib CORE) and CORE, the latter  *)
(* in a directory below BASE's, and a file outside every library.  A       *)
(* caller of APP and one outside call the subprogram SUB, which APP, BASE  *)
(* and CORE have, and perform SUB: BASE has an external subroutine of the  *)
(* name, and the caller of APP in one of its versions one of its own.      *)
(* USING clauses and accesses name AREA, a parameter data area and a DDM   *)
(* of BASE, a local data area and a DDM of CORE.  They have a field FLD in *)
(* a group and one outside it, and the caller has one in each of two.      *)
(***************************************************************************)
EXTENDS Queries

MCPathList ==
  <<"base/AREA.NSA", "base/AREA.NSD", "base/SUB.NSN", "base/SUB.NSS",
    "base/core/AREA.NSD", "base/core/AREA.NSL", "base/core/SUB.NSN",
    "out/MAIN.NSP", "prog/MAIN.NSP", "prog/SUB.NSN">>

MCPaths == Range(MCPathList)

MCPathRank ==
  [p \in Paths |-> CHOOSE i \in DOMAIN MCPathList : MCPathList[i] = p]

MCCallers     == {"out/MAIN.NSP", "prog/MAIN.NSP"}
MCSubprograms == {"base/SUB.NSN", "base/core/SUB.NSN", "prog/SUB.NSN"}
MCDDMs        == {"base/AREA.NSD", "base/core/AREA.NSD"}

MCSegments ==
  [p \in Paths |->
     CASE p \in {"prog/MAIN.NSP", "prog/SUB.NSN"} -> <<"prog", "FILE">>
       [] p = "out/MAIN.NSP"                      -> <<"out", "FILE">>
       [] p \in {"base/core/AREA.NSD", "base/core/AREA.NSL",
                 "base/core/SUB.NSN"}             -> <<"base", "core", "FILE">>
       [] OTHER                                   -> <<"base", "FILE">>]

MCNames == {"MAIN", "S", "SUB", "sub", "AREA", "FLD", "GRP", "GRP2", "NONE",
            "#", "#INIT", ""}

MCStartsWith ==
  [n \in Names |->
     CASE n = ""    -> Names
       [] n = "S"   -> {"S", "SUB"}
       [] n = "#"   -> {"#", "#INIT"}
       [] n = "GRP" -> {"GRP", "GRP2"}
       [] OTHER     -> {n}]
MCSigils == {"#", "#INIT"}

MCUpper == [n \in Names |-> IF n = "sub" THEN "SUB" ELSE n]
MCStem  == [p \in Paths |->
              CASE p \in MCCallers                           -> "MAIN"
                [] p \in MCSubprograms \cup {"base/SUB.NSS"} -> "sub"
                [] OTHER                                     -> "AREA"]
MCSources == {"line1", "line2", "line3", "line4", "line5", "line6", "line7",
              "line8", "line9", "line10"}

MCLibraries ==
  <<[name |-> "APP",  path |-> <<"prog">>,         steplibs |-> <<"BASE">>],
    [name |-> "BASE", path |-> <<"base">>,         steplibs |-> <<"CORE">>],
    [name |-> "CORE", path |-> <<"base", "core">>, steplibs |-> <<>>]>>

MCEdge(kind, target, library) ==
  [kind |-> kind, target |-> target, library |-> library, inline |-> FALSE]

\* A file without a structure of interest, and one that declares the field.
MCBare(type) ==
  [type |-> type, edges |-> Nothing, subs |-> {}, fields |-> {},
   accesses |-> Nothing, uses |-> Nothing, using |-> <<>>]

MCField(name, level, at) == [name |-> name, level |-> level, at |-> at]

MCWithField(type) ==
  [MCBare(type) EXCEPT
     !.fields = {MCField("AREA", 1, <<1>>), MCField("FLD", 2, <<1, 1>>),
                 MCField("FLD", 1, <<2>>)}]

MCUse(group) == [name |-> "FLD", group |-> group]

\* A caller that calls, performs and navigates to other objects, and one with
\* subroutines and a field of its own that fetches itself.
MCCaller ==
  [MCBare("program") EXCEPT
     !.edges    = ("line1" :> MCEdge("CALLS", "sub", "")) @@
                  ("line2" :> MCEdge("CALLS", "SUB", "CORE")) @@
                  ("line3" :> MCEdge("USES_DATA_AREA", "AREA", "")) @@
                  ("line4" :> MCEdge("PERFORMS", "SUB", "")),
     !.accesses = ("line5" :> "AREA"),
     !.uses     = ("line6" :> MCUse("")) @@ ("line10" :> MCUse("NONE")),
     !.using    = <<"AREA">>]

MCStructuredCaller ==
  [MCCaller EXCEPT
     !.edges  = ("line3" :> MCEdge("NAVIGATES_TO", "MAIN", "")) @@
                ("line4" :> [MCEdge("PERFORMS", "SUB", "") EXCEPT
                               !.inline = TRUE]) @@
                ("line7" :> [MCEdge("PERFORMS", "#INIT", "") EXCEPT
                               !.inline = TRUE]) @@
                ("line2" :> MCEdge("CALLS_DYNAMIC", "SUB", "")),
     !.subs   = {"SUB", "MAIN", "#INIT"},
     !.uses   = ("line6" :> MCUse(""))      @@ ("line8" :> MCUse("GRP")) @@
                ("line9" :> MCUse("GRP2")) @@ ("line10" :> MCUse("NONE")),
     !.fields = {MCField("GRP", 1, <<1>>),  MCField("FLD", 2, <<1, 1>>),
                 MCField("GRP2", 1, <<2>>), MCField("FLD", 2, <<2, 1>>)}]

\* A file is what its extension says, a subprogram of APP or BASE also the zero
\* analysis when it grew too large.
MCAnalyses ==
  [p \in Paths |->
     CASE p = "prog/MAIN.NSP"         -> {MCCaller, MCStructuredCaller}
       [] p = "out/MAIN.NSP"          -> {MCCaller}
       [] p = "base/core/SUB.NSN"     -> {MCBare("subprogram")}
       [] p \in {"base/SUB.NSN", "prog/SUB.NSN"}
                                      -> {MCBare("subprogram"), MCBare("")}
       [] p = "base/SUB.NSS"          -> {MCBare("externalsubroutine")}
       [] p = "base/AREA.NSA"         -> {MCWithField("parameterdataarea")}
       [] p = "base/core/AREA.NSL"    -> {MCWithField("localdataarea")}
       [] p \in MCDDMs                -> {MCWithField("ddm")}]
===============================================================================
