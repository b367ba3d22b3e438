--------------------------- MODULE MCFlightSystem ---------------------------
(***************************************************************************)
(* Small numbers of clients, each running one flow.                        *)
(***************************************************************************)
EXTENDS FlightSystem, TLC

\* Clients are interchangeable in every safety property.
ClientSymmetry == Permutations(Calls)
=============================================================================
