-------------------------- MODULE MCChannelClient --------------------------
(***************************************************************************)
(* Small instances of ChannelClient and of its refinement of Submission.   *)
(* Calls and peers are model values; without symmetry, as liveness is      *)
(* checked.                                                                *)
(***************************************************************************)
EXTENDS ClientRefinement
=============================================================================
