---------------------------- MODULE ProxyService ----------------------------
(***************************************************************************)
(* What djb's proxy promises to the programs that send requests through    *)
(* it: a connection carries one request at a time, and a request gets at   *)
(* most one response, which is the answer the plugin fetched for this very *)
(* request or a local error.  How pullers, pushes, worker threads and      *)
(* closed connections bring that about is the business of DjbProxy, which  *)
(* implements this module.                                                 *)
(***************************************************************************)
EXTENDS Naturals, Sequences

CONSTANTS Requesters,   \* connections (or internal clients) that send requests
          MaxReq,       \* bound: requests one requester sends
          Err500        \* the local answer "500 Out of memory"

VARIABLES reqid,        \* requester -> number of its current request
          cst,          \* requester -> "idle" | "waiting" | "forward"
          answers       \* request -> the responses it was given

vars == <<reqid, cst, answers>>

Req == Requesters \X (1 .. MaxReq)

Init == /\ reqid = [c \in Requesters |-> 0]
        /\ cst = [c \in Requesters |-> "idle"]
        /\ answers = [r \in Req |-> <<>>]

\* A requester sends its next request.
Accept(c) == /\ cst[c] = "idle"
             /\ reqid[c] < MaxReq
             /\ reqid' = [reqid EXCEPT ![c] = @ + 1]
             /\ cst' = [cst EXCEPT ![c] = "waiting"]
             /\ UNCHANGED answers

\* A request is turned down with a local error.
Refuse(c) == /\ cst[c] = "idle"
             /\ reqid[c] < MaxReq
             /\ reqid' = [reqid EXCEPT ![c] = @ + 1]
             /\ answers' = [answers EXCEPT ![<<c, reqid[c] + 1>>] = <<Err500>>]
             /\ UNCHANGED cst

\* The waiting request gets the answer that belongs to it; its body may still
\* have to follow.
Answer(c) == /\ cst[c] = "waiting"
             /\ answers[<<c, reqid[c]>>] = <<>>
             /\ answers' = [answers EXCEPT ![<<c, reqid[c]>>] = <<<<c, reqid[c]>>>>]
             /\ \E body \in BOOLEAN :
                   cst' = [cst EXCEPT ![c] = IF body THEN "forward" ELSE "idle"]
             /\ UNCHANGED reqid

\* The body of the answer has been delivered.
Complete(c) == /\ cst[c] = "forward"
               /\ cst' = [cst EXCEPT ![c] = "idle"]
               /\ UNCHANGED <<reqid, answers>>

Next == \E c \in Requesters : Accept(c) \/ Refuse(c) \/ Answer(c) \/ Complete(c)

Spec == Init /\ [][Next]_vars
=============================================================================
