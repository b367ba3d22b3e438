-------------------------- MODULE MCServerRestarts --------------------------
(* The server under arbitrary callers, and restarts. *)
EXTENDS ServerRestarts, TLC

\* Slots are interchangeable: no action or invariant tells them apart.
SlotSymmetry == Permutations(Calls)
=============================================================================
