----------------------------- MODULE MCClientPin -----------------------------
(* Instance of ClientPin for TLC: PINs and keys are interchangeable.       *)
EXTENDS ClientPin, TLC

Symmetry == Permutations(Pins) \cup Permutations(Keys)
=============================================================================
