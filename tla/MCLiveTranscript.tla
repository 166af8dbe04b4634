--------------------------- MODULE MCLiveTranscript ---------------------------
(* Small instances of LiveTranscript. *)
EXTENDS LiveTranscript, TLC

Symmetry == Permutations(Turns) \union Permutations(Speakers)
=============================================================================
