--------------------------- MODULE OldestFirstMap ---------------------------
(***************************************************************************)
(* What the prepared-statement cache promises to its users, with none of   *)
(* its bookkeeping: a map from handles to query strings that never holds   *)
(* more than MaxPrepared entries and makes room by dropping its oldest     *)
(* entry.  Handles are fresh UUIDs in the code; the nth one minted is the  *)
(* number n here, so that "older" is "<".                                  *)
(***************************************************************************)
EXTENDS Integers, FiniteSets

CONSTANTS
  MaxPrepared,  \* capacity of the map
  Queries,      \* query strings
  MaxMinted     \* bound of the model: how many handles are ever minted

VARIABLES
  map,     \* live entries: handle -> query
  minted   \* number of handles minted so far

absVars == <<map, minted>>

AbsInit ==
  /\ map = [h \in {} |-> h]
  /\ minted = 0

IsOldest(h, S) == h \in S /\ \A g \in S : h <= g

\* A new entry under a fresh handle; a full map gives up its oldest entry.
AbsPut(q) ==
  /\ minted < MaxMinted
  /\ minted' = minted + 1
  /\ LET all == DOMAIN map \cup {minted + 1}
     IN  \E gone \in SUBSET all :
           /\ IF Cardinality(all) <= MaxPrepared
                THEN gone = {}
                ELSE \E h \in all : IsOldest(h, all) /\ gone = {h}
           /\ map' = [h \in all \ gone |-> IF h = minted + 1 THEN q ELSE map[h]]

AbsDrop(h) ==
  /\ map' = [g \in DOMAIN map \ {h} |-> map[g]]
  /\ UNCHANGED minted

AbsNext ==
  \/ \E q \in Queries : AbsPut(q)
  \/ \E h \in 0..minted : AbsDrop(h)

AbsSpec == AbsInit /\ [][AbsNext]_absVars
=============================================================================
