------------------------------- MODULE MCAgent -------------------------------
(* Small instances of Agent for TLC.                                       *)
EXTENDS Agent, TLC

\* Sound for the safety runs only: their properties never name an element.
Symmetry == Permutations(Ids) \cup Permutations(Attempts) \cup Permutations(Workers)
=============================================================================
