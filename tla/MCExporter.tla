----------------------------- MODULE MCExporter -----------------------------
(* Small instances of Exporter for TLC. *)
EXTENDS Exporter, TLC

\* Connections are interchangeable, and so are devices: no action orders them.
ConnSymmetry == Permutations(Conns) \cup Permutations(Devs)
=============================================================================
