-------------------------- MODULE RendezvousService --------------------------
(***************************************************************************)
(* What the rendezvous promises: an image a server sent gives an onion,    *)
(* whose layers come off one at a time, from the outside in.  A proof of   *)
(* work comes off only after a search for it that is over and found        *)
(* something, and the NET handed to the ACS dance is that of an innermost  *)
(* layer.  Once djb was disturbed (a reset during a search, or an image    *)
(* without a reset) a proof of work may give way to what is inside another *)
(* one; all the rest still holds.  Pages, requests, threads and files are  *)
(* the business of Rendezvous, which implements this module.               *)
(***************************************************************************)
EXTENDS Naturals, Sequences

CONSTANTS Onions,     \* the onions a server may hide: sequences of layers
          MaxLoads,   \* bound: how often the page is loaded
          None

Loads == 1 .. MaxLoads

VARIABLES
  given,      \* load -> the onion its image hides, <<>> until it has one
  at,         \* <<load, how many layers are off>>, or None
  pow,        \* what was done about the proof of work on the outside
  net,        \* where the NET that was handed over comes from
  disturbed   \* see above

vars == <<given, at, pow, net, disturbed>>

Init == /\ given = [l \in Loads |-> <<>>]
        /\ at = None /\ pow = "none" /\ net = None /\ disturbed = FALSE

Layer == given[at[1]][at[2] + 1]

\* The images are fetched in the order of the loads, each once.
Fetch(l) == /\ \A m \in Loads : m >= l => given[m] = <<>>
            /\ \E o \in Onions : given' = [given EXCEPT ![l] = o]
            /\ UNCHANGED <<at, pow, net, disturbed>>

Extract(l) == /\ given[l] # <<>>
              /\ at' = <<l, 0>>
              /\ disturbed' = (disturbed \/ at # None)
              /\ pow' = "none" \/ disturbed'
              /\ UNCHANGED <<given, net>>

Attempts == { <<"none", "on">>, <<"on", "solved">>, <<"on", "failed">> }

Search == /\ at # None /\ Layer = "pow"
          /\ <<pow, pow'>> \in Attempts \/ disturbed
          /\ UNCHANGED <<given, at, net, disturbed>>

\* What is inside some proof of work: its place is <<l, d>> if it is layer d.
InsidePow == UNION {{<<l, d>> : d \in {i \in 1 .. Len(given[l]) : given[l][i] = "pow"}} :
                    l \in Loads}

Peel == /\ at # None
        /\ Layer \in {"signed", "captcha"} \/ (Layer = "pow" /\ pow = "solved")
        /\ \/ at' = <<at[1], at[2] + 1>>
           \/ disturbed /\ Layer = "pow" /\ at' \in InsidePow
        /\ pow' = "none" \/ disturbed
        /\ UNCHANGED <<given, net, disturbed>>

HandOver == /\ at # None /\ Layer = "base"
            /\ net' = at
            /\ UNCHANGED <<given, at, pow, disturbed>>

\* The onion is given up, and the page starts over.
Drop == /\ at # None /\ at' = None /\ pow' = "none"
        /\ disturbed' \in {disturbed, TRUE}
        /\ UNCHANGED <<given, net>>

Next == \/ \E l \in Loads : Fetch(l) \/ Extract(l)
        \/ Search \/ Peel \/ HandOver \/ Drop

Spec == Init /\ [][Next]_vars
=============================================================================
