--------------------------- MODULE MCOCPPService ---------------------------
(* Sessions on the connectors of one station. *)
EXTENDS OCPPService, TLC

\* The connectors are interchangeable: sound for invariants and step
\* properties, and used where no liveness property is checked.
MCSymmetry == Permutations(Connectors)
=============================================================================
