----------------------- MODULE MCFrontendIntegration -----------------------
(***************************************************************************)
(* The instances of FrontendIntegration that TLC checks: each .cfg names   *)
(* the outside events that happen in it and how many of them.              *)
(***************************************************************************)
EXTENDS FrontendIntegration, TLC
=============================================================================
