---------------------------- MODULE DanceService ----------------------------
(***************************************************************************)
(* What the ACS promises: a dance goes from one gateway of the NET to the  *)
(* next, in that order, with the NET it began with.  It may end at any     *)
(* step; it ends with bridges only after the second gateway answered, and  *)
(* "done" is told of no other dance.                                       *)
(***************************************************************************)
CONSTANTS Nets, None

VARIABLES
  net,      \* the NET to dance with
  stage,    \* how far the dance is; "rest": there is none
  bridges,  \* the NET the bridges came from
  done      \* is the last dance reported to be complete?

vars == <<net, stage, bridges, done>>

Init == net = None /\ stage = "rest" /\ bridges = None /\ done = FALSE

\* A NET is set, or rejected.
Replace == /\ stage = "rest"
           /\ net' \in Nets \cup {None}
           /\ done' = FALSE
           /\ UNCHANGED <<stage, bridges>>

Begin == /\ stage = "rest" /\ net # None
         /\ stage' = "begun"
         /\ UNCHANGED <<net, bridges, done>>

\* A message that is not "done".
Report == done' = FALSE /\ UNCHANGED <<net, stage, bridges>>

\* From one stage to the next: Initial is asked, and answers; after the wait
\* Redirect is asked, and answers, the second time with the body of its answer.
Order == { <<"begun", "initial">>, <<"initial", "between">>, <<"between", "redirect">>,
           <<"redirect", "answer">>, <<"answer", "redirect">> }

Advance == /\ <<stage, stage'>> \in Order
           /\ UNCHANGED <<net, bridges, done>>

\* The list of bridges is stored, or cannot be parsed.
Store == /\ stage = "answer"
         /\ \/ stage' = "stored" /\ bridges' = net
            \/ stage' = "over" /\ bridges' = None
         /\ UNCHANGED <<net, done>>

Complete == /\ stage = "stored" /\ stage' = "over"
            /\ done' \in BOOLEAN
            /\ UNCHANGED <<net, bridges>>

GiveUp == /\ stage # "rest" /\ stage' \in {"over", "rest"}
          /\ done' \in {done, FALSE}
          /\ UNCHANGED <<net, bridges>>

Next == Replace \/ Begin \/ Report \/ Advance \/ Store \/ Complete \/ GiveUp

Spec == Init /\ [][Next]_vars
=============================================================================
