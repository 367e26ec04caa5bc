------------------------------- MODULE MCAta -------------------------------
(***************************************************************************)
(* Instances of Ata for TLC: the boot thread, two process slots, a sector. *)
(***************************************************************************)
EXTENDS Ata
=============================================================================
