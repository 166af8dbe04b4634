-------------------------- MODULE MCMeetingCleanup --------------------------
(* Small instances of MeetingCleanup. *)
EXTENDS MeetingCleanup, TLC

Symmetry == Permutations(Windows)
=============================================================================
