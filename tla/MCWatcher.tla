------------------------------- MODULE MCWatcher -------------------------------
(***************************************************************************)
(* A file in the root, one in a directory that is created later, and an     *)
(* excluded directory that is created later, too.                           *)
(***************************************************************************)
EXTENDS Watcher, TLC

MCFiles == {"top", "deep"}

MCDirs == {"root", "lib", "target"}

MCDirOf == "top" :> "root" @@ "deep" :> "lib"

MCParent == [d \in Dirs |-> "root"]

MCExisting == {"root"}

MCExcluded == {"target"}

MCContents == {"text", "large"}

MCTooLarge == {"large"}
===============================================================================
