----------------------------- MODULE MCAcsDance -----------------------------
(***************************************************************************)
(* Instances of AcsDance for TLC: two NETs that can be danced, and one for *)
(* each thing that may be wrong with a NET.                                *)
(***************************************************************************)
EXTENDS AcsDance, TLC

CONSTANTS n1, n2, badType, tooLong, expired, noInitial, noDelay, noWindow, noRedirect

Missing(n) == CASE n \in {n1, n2}  -> {}
                [] n = badType    -> {"object"}
                [] n = tooLong    -> {"short"}
                [] n = expired    -> {"when"}
                [] n = noInitial  -> {"initial"}
                [] n = noDelay    -> {"delay"}
                [] n = noWindow   -> {"window"}
                [] n = noRedirect -> {"redirect"}

MCHas == [n \in Nets |-> Parts \ Missing(n)]

Symmetry == Permutations(Pushers)
=============================================================================
