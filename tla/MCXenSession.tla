---------------------------- MODULE MCXenSession ----------------------------
(* The instance of XenSession for TLC; the constants are in the .cfg.        *)
EXTENDS XenSession
=============================================================================
