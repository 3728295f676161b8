------------------------------ MODULE MCDiscover ------------------------------
(***************************************************************************)
(* Two sessions; two directories of sessions and archived_sessions.        *)
(***************************************************************************)
EXTENDS Discover

MCSession == {1, 2}

=============================================================================
