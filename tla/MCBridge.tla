------------------------------ MODULE MCBridge ------------------------------
(***************************************************************************)
(* The instances of Bridge.                                                *)
(***************************************************************************)
EXTENDS Bridge

BothChannels == {"web", "mobile"}
=============================================================================
