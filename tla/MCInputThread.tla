--------------------------- MODULE MCInputThread ----------------------------
(***************************************************************************)
(* Instances of InputThread for TLC.                                       *)
(***************************************************************************)
EXTENDS InputThread

=============================================================================
