----------------------- MODULE MCTranscriptRefinement -----------------------
(* Small instances of TranscriptRefinement. *)
EXTENDS TranscriptRefinement, TLC

Symmetry == Permutations(Windows)
=============================================================================
