---------------------------- MODULE MCRendezvous ----------------------------
(***************************************************************************)
(* Instances of Rendezvous for TLC: onions with the layers in question.    *)
(***************************************************************************)
EXTENDS Rendezvous

PowOnions == { <<"pow", "captcha", "base">>, <<"signed", "collection">> }

SignedOnions == { <<"signed", "base">> }
=============================================================================
