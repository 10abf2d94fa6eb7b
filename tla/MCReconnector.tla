---------------------------- MODULE MCReconnector ----------------------------
(***************************************************************************)
(* Instances of the reconnector for TLC.  Names of connections and loops   *)
(* are given out again when nobody refers to them; TLC reports an error    *)
(* when a step needs one more than there are.                              *)
(***************************************************************************)
EXTENDS ReconnectorProperties
=============================================================================
