----------------------------- MODULE MCUrbPump -----------------------------
(* Small instances of UrbPump for TLC. *)
EXTENDS UrbPump, TLC

\* Submits are interchangeable: no action orders them.
SeqSymmetry == Permutations(Seqs)
=============================================================================
