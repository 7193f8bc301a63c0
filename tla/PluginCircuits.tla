--------------------------- MODULE PluginCircuits ---------------------------
(***************************************************************************)
(* The circuits of the browser plugin (plugin circuit.js).                 *)
(*                                                                         *)
(* A circuit is a tab that repeats three XHRs: it asks the daemon for a    *)
(* job (a request of StegoTorus), makes the request, and brings the answer *)
(* to the daemon; the response to that is the next job.  It asks again,    *)
(* after a while, when the daemon cannot be reached, and stops for good    *)
(* with any other error.                                                   *)
(*                                                                         *)
(* The daemon is the one circuit.js was written for: it serves /next/, and *)
(* keeps jobs the way djb does for its /pull/ and /push/.                  *)
(***************************************************************************)
EXTENDS Integers, Sequences, FiniteSets

CONSTANTS Tabs,         \* tabs of the browser
          Jobs,         \* requests of StegoTorus
          Unusable,     \* jobs that are neither GET nor POST
          Budget,       \* bound: clicks, crashes and closed connections
          None

ASSUME JobsAssumption == Unusable \subseteq Jobs /\ None \notin Jobs
ASSUME BudgetAssumption == Budget \in Nat

VARIABLES
  leg,    \* tab -> what its circuit does, or "closed": no circuit
  carry,  \* tab -> the job in hand: to be fetched, or fetched
  job,    \* job -> where it is in the daemon
  up,     \* is the daemon running?
  left    \* what is left of the Budget

circuitVars == <<leg, carry>>
daemonVars == <<job, up>>

CircuitsInit ==
  /\ carry = [t \in Tabs |-> None]
  /\ job = [j \in Jobs |-> "new"] /\ up = TRUE
  /\ left = Budget

-----------------------------------------------------------------------------
\* Helpers

Spend == left > 0 /\ left' = left - 1

Goto(t, at, j) == /\ leg' = [leg EXCEPT ![t] = at]
                  /\ carry' = [carry EXCEPT ![t] = j]

\* handle_jb_next_response(): what becomes of a circuit whose request is
\* answered.  Without an answer (status 0) it is restarted by a timer; with
\* any other status than 200 nothing happens any more.
AfterStatus(status) == IF status = 0 THEN "timer" ELSE "stopped"

\* Tabs whose circuit goes on.
Alive == {t \in Tabs : leg[t] \in {"ask", "fetch", "timer"}}

\* The job is in the hands of one of them.
Held(j) == \E t \in Alive : carry[t] = j

-----------------------------------------------------------------------------
\* The daemon, as circuit.js sees it

\* StegoTorus sends a request.
Enter(j) == /\ up /\ job[j] = "new"
            /\ job' = [job EXCEPT ![j] = "queued"]
            /\ UNCHANGED <<circuitVars, up, left>>

\* A response with a job.  jb_response2request() throws when the request cannot
\* be made from it, and the circuit ends there.
Give(t, j) ==
  /\ up /\ leg[t] = "ask" /\ carry[t] = None
  /\ job[j] = "queued"
  /\ job' = [job EXCEPT ![j] = "out"]
  /\ Goto(t, IF j \in Unusable THEN "stopped" ELSE "fetch", j)
  /\ UNCHANGED <<up, left>>

\* The answer to an outstanding job arrives; the circuit waits for the next one.
TakeAnswer(t) ==
  /\ up /\ leg[t] = "ask" /\ carry[t] # None
  /\ job[carry[t]] = "out"
  /\ job' = [job EXCEPT ![carry[t]] = "answered"]
  /\ Goto(t, "ask", None)
  /\ UNCHANGED <<up, left>>

\* 404: no such job outstanding.
Refuse(t) ==
  /\ up /\ leg[t] = "ask"
  /\ carry[t] # None /\ job[carry[t]] # "out"
  /\ Goto(t, AfterStatus(404), None)
  /\ UNCHANGED <<daemonVars, left>>

\* Any other error, for one that waits for a job too: 404 (no such path, as djb has no
\* /next/), 500 (no memory), or an answer that is turned down.
Error(t) ==
  /\ up /\ leg[t] = "ask"
  /\ Goto(t, AfterStatus(500), None)
  /\ UNCHANGED <<daemonVars, left>>

\* A connection of the plugin closes, and a job handed out on it may be queued
\* again, even if its circuit is still at work: djb_close().
Reschedule(j) ==
  /\ up /\ job[j] = "out"
  /\ IF Held(j) THEN Spend ELSE UNCHANGED left
  /\ job' = [job EXCEPT ![j] = "queued"]
  /\ UNCHANGED <<circuitVars, up>>

\* The daemon dies: its jobs are gone, and the requests it had fail.
Crash ==
  LET asking == {t \in Tabs : leg[t] = "ask"} IN
  /\ up /\ Spend
  /\ up' = FALSE
  /\ job' = [j \in Jobs |-> IF job[j] \in {"queued", "out"} THEN "gone" ELSE job[j]]
  /\ leg' = [t \in Tabs |-> IF t \in asking THEN AfterStatus(0) ELSE leg[t]]
  /\ carry' = [t \in Tabs |-> IF t \in asking THEN None ELSE carry[t]]

Recover == ~up /\ up' = TRUE /\ UNCHANGED <<circuitVars, job, left>>

-----------------------------------------------------------------------------
\* circuit.js

\* The daemon cannot be reached, or the connection to it is lost.
Unreached(t) == /\ leg[t] = "ask"
                /\ IF up THEN Spend ELSE UNCHANGED left
                /\ Goto(t, AfterStatus(0), None)
                /\ UNCHANGED daemonVars

\* Restart(): the timer fires, and jb_next() asks without an answer to bring.
\* (Mutated form: the timer only starts another one.)
AfterTimer_Waits == "timer"
AfterTimer == "ask"
Restart(t) == /\ leg[t] = "timer"
              /\ Goto(t, AfterTimer, None)
              /\ UNCHANGED <<daemonVars, left>>

\* handle_ss_push_response(): the request was answered, with whatever status.
Fetched(t) == /\ leg[t] = "fetch"
              /\ Goto(t, "ask", carry[t])
              /\ UNCHANGED <<daemonVars, left>>

\* The request failed (status 0): there is no response, and ss_response2request()
\* throws when it reads the size of it, before the 555 is sent.
FetchFailed(t) == /\ leg[t] = "fetch"
                  /\ Goto(t, "stopped", carry[t])
                  /\ UNCHANGED <<daemonVars, left>>

-----------------------------------------------------------------------------
Circuit(t) == \/ TakeAnswer(t) \/ Refuse(t) \/ Error(t) \/ Unreached(t) \/ Restart(t)
              \/ Fetched(t) \/ FetchFailed(t) \/ \E j \in Jobs : Give(t, j)

Daemon == Crash \/ Recover \/ \E j \in Jobs : Enter(j) \/ Reschedule(j)
=============================================================================
