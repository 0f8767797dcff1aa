------------------------------- MODULE MCBoot -------------------------------
(***************************************************************************)
(* Every machine of a few slots.                                           *)
(***************************************************************************)
EXTENDS Boot

MCMachines == [Slots -> SlotKind]
=============================================================================
