------------------------- MODULE MCFrontendSession -------------------------
(* An instance of FrontendSession for TLC.                                  *)
EXTENDS FrontendSession
=============================================================================
