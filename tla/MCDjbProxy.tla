----------------------------- MODULE MCDjbProxy -----------------------------
(***************************************************************************)
(* Instances of DjbProxy for TLC.  The configurations give the sets their  *)
(* model values; connections, workers and internal requests of one kind    *)
(* are interchangeable wherever no liveness property is checked.           *)
(***************************************************************************)
EXTENDS DjbProxy, TLC

CONSTANTS c1, c2, p1, p2, p3

\* Breakable connections
NoConns == {}
AllConns == Clients \cup Pullers

\* Internal requests are made once: acs.c makes the next one when the answer of
\* the last one is there, with a connection of its own.
InternalOnce == \A a \in Internals : reqid[a] <= 1

Symmetry == Permutations(Clients) \cup Permutations(Pullers) \cup Permutations(Workers)
=============================================================================
