------------------------ MODULE MCFrontendExtension ------------------------
(***************************************************************************)
(* FrontendExtension for TLC.  The configurations give the constants their *)
(* values.  No property tells one source from another as long as the       *)
(* renderer accepts all of them, nor one rebuild token or one output of    *)
(* the build service from another, nor one id of a publish request, so     *)
(* that the runs that check safety take these sets up to permutation.      *)
(***************************************************************************)
EXTENDS FrontendExtension, TLC

Symmetry ==
    Permutations(Sources) \cup Permutations(Tokens) \cup Permutations(Variants)
    \cup Permutations(PublishIds)
=============================================================================
