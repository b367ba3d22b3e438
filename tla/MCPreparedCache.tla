--------------------------- MODULE MCPreparedCache ---------------------------
(***************************************************************************)
(* The cache alone, driven by every sequence of inserts and removes.       *)
(***************************************************************************)
EXTENDS PreparedCache

\* The rank-based definition of VecDeque::retain is the usual filter, on every
\* deque of at most four markers out of three.
ASSUME RetainIsFilter ==
  \A n \in 0..4 : \A ord \in [1..n -> 1..3] : \A live \in SUBSET (1..3) :
    Retain(ord, live) = SelectSeq(ord, LAMBDA h : h \in live)
=============================================================================
