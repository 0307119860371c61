--------------------------- MODULE MCE2EHarness ---------------------------
(***************************************************************************)
(* Small instances of E2EHarness.tla: two runs that may overlap, the       *)
(* committed bake and a new one, a gate of two attempts, and a fresh clone *)
(* or a tree without artifacts.                                            *)
(***************************************************************************)
EXTENDS E2EHarness

FreshClone == {{"schema", "metadata"}}
AnyTree    == {{"schema", "metadata"}, {}}
NotKept    == {FALSE}
Either     == BOOLEAN
NoFault    == {}
EveryFault == FaultKinds
=============================================================================
