---------------------------- MODULE MCObjectTxn -----------------------------
(***************************************************************************)
(* Small instances of ObjectTxn. Three generations are enough for every    *)
(* slot to be used, reused and, at the last one, refused.                  *)
(***************************************************************************)
EXTENDS ObjectTxn

\* The redo journal makes core 0's write-out one piece.
MCJournaled == {Files}

\* Without the journal every file reaches flash on its own.
MCUnjournaled == {{f} : f \in Files}

=============================================================================
