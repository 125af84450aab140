------------------------------ MODULE MCWarmStart ------------------------------
(***************************************************************************)
(* Two files, and the contents the properties tell apart: a clean one, one  *)
(* with diagnostics, one the analyzer fails on and one that is too large.   *)
(***************************************************************************)
EXTENDS WarmStart

MCFiles == 1 .. 2

MCContents == {"clean", "deadly", "large"}

MCDiagnosedContents == {"clean", "faulty"}

MCTooLarge == {"large"}

MCPanicking == {"deadly"}

MCDiagnosed == {"faulty"}

MCNone == {}
===============================================================================
