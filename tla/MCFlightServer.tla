--------------------------- MODULE MCFlightServer ---------------------------
(***************************************************************************)
(* The server under arbitrary callers: every RPC, in every order, on two   *)
(* slots.                                                                  *)
(***************************************************************************)
EXTENDS FlightServer, TLC

\* Slots are interchangeable: no action or invariant tells them apart.
SlotSymmetry == Permutations(Calls)
=============================================================================
