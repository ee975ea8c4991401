---------------------------- MODULE MCEpochLoop ----------------------------
(***************************************************************************)
(* Instances of EpochLoop for TLC; the bounds are in the .cfg files.       *)
(***************************************************************************)
EXTENDS EpochLoop

=============================================================================
