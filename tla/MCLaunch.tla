------------------------------ MODULE MCLaunch ------------------------------
(***************************************************************************)
(* An instance of Launch for TLC: preferences with more circuits and a     *)
(* secret, some that leave keys out, and a number of circuits no form      *)
(* offers.  With 32 values for an unsigned int, -3 makes an argc of 1 as   *)
(* it does with 2^32.                                                      *)
(***************************************************************************)
EXTENDS Launch

SomeBodies == { [circuits |-> 2, trace |-> 1, secret |-> 1],
                [secret |-> 0, strings |-> 1],
                [circuits |-> -3] }
=============================================================================
