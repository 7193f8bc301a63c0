------------------------------ MODULE AcsDance ------------------------------
(***************************************************************************)
(* The ACS dance of the djb daemon (server/acs.c).                         *)
(*                                                                         *)
(* A NET names the gateways that hand out bridges.  The plugin's ACS page  *)
(* sets it with POST /acs/setup/, or the rendezvous module sets it; then   *)
(* the page polls GET /acs/progress/ until it is told "error" or "done".   *)
(* The first poll starts the dance: an Initial request is injected into    *)
(* the proxy, its answer is handled by the thread that serves the plugin's *)
(* /push/, which waits and injects the Redirect request, and the thread    *)
(* that serves the push of that answer stores the bridges.  Each           *)
(* acs_status() sets l_status and queues a message; each poll takes one.   *)
(*                                                                         *)
(* What can be wrong with a NET is kept as the set of its good parts.      *)
(***************************************************************************)
EXTENDS Naturals, Sequences

CONSTANTS Pages,    \* ACS pages of the plugin: one HTTP request each
          Pushers,  \* threads that serve /push/
          Rdv,      \* the thread that serves the rendezvous page
          Nets,     \* the NETs somebody may provide
          Has,      \* NET -> its good parts
          Budget,   \* bound: clicks, failures, lost replies and reschedules
          MaxDances,  \* bound: dances with one NET
          None

Parts == {"object",    \* it is a JSON object
          "short",     \* it fits in a status message of DJB_MSGLEN
          "when",      \* no "when", or one that holds now
          "initial",   \* names the Initial gateway
          "delay",     \* "window" and "wait" are numbers
          "window",    \* "window" is not zero
          "redirect"}  \* names the Redirect gateway

Threads == Pages \cup Pushers \cup {Rdv}
Kinds == {"initial", "redirect"}

ASSUME ThreadsAssumption == /\ Pages \cap Pushers = {}
                            /\ Rdv \notin Pages \cup Pushers
                            /\ Threads \cap Kinds = {}
ASSUME NetsAssumption == Has \in [Nets -> SUBSET Parts] /\ None \notin Nets
ASSUME BudgetAssumption == Budget \in Nat /\ MaxDances \in Nat

VARIABLES
  status,    \* l_status
  messages,  \* l_messages: <<status, NET it was about>>
  dancing,   \* l_dancing
  net,       \* l_net
  dances,    \* how often it was danced (history)
  out,       \* kind -> internal requests of this kind the proxy has
  stranded,  \* is the one it has outstanding without a circuit?
  pc,        \* thread -> where it stands
  bridges,   \* the NET the bridge access list came from
  got,       \* page -> the last message it was sent
  left,      \* what is left of the Budget
  running,   \* thread_keep_running()
  crashed    \* the process died

danceVars == <<dancing, net, dances, out, stranded, bridges>>
ctlVars   == <<running, crashed>>
vars == <<status, messages, danceVars, pc, got, left, ctlVars>>

\* acs_init()
Init ==
  /\ status = "ok" /\ messages = << <<"ok", None>> >>
  /\ dancing = FALSE /\ net = None /\ dances = 0 /\ bridges = None
  /\ out = [k \in Kinds |-> 0] /\ stranded = FALSE
  /\ pc = [t \in Threads |-> "idle"]
  /\ got = [p \in Pages |-> None]
  /\ left = Budget /\ running = TRUE /\ crashed = FALSE

-----------------------------------------------------------------------------
\* Helpers

Goto(t, at) == pc' = [pc EXCEPT ![t] = at]

Spend == left > 0 /\ left' = left - 1

\* acs_status(): sets l_status and queues the message, or has no memory for it.
Post(st) == \/ /\ status' = st
               /\ messages' = Append(messages, <<st, net>>)
               /\ UNCHANGED left
            \/ /\ status' = "error"
               /\ Spend
               /\ UNCHANGED messages

\* A thread posts a status and goes on.
Report(t, st, at) == Post(st) /\ Goto(t, at) /\ UNCHANGED <<danceVars, got, ctlVars>>

Lacks(part) == part \notin Has[net]

\* The test of acs_set_net().  (Mutated form: the NET can always be replaced.)
MayReplace_Always == TRUE
MayReplace == ~dancing

\* The test of acs_progress().  (Mutated form: l_dancing is not looked at.)
MayStart_Again == status = "ok"
MayStart == ~dancing /\ status = "ok"

\* acs_sitdown().  (Mutated form: l_dancing stays set.)
SatDown_Not == dancing
SatDown == FALSE

\* When acs_progress() answers: at once, or after the 5 seconds of cond_wait().
\* (Mutated form: it waits for a message.)
ReplyDue_Message == messages # <<>>
ReplyDue == TRUE

\* prf_set_bridge_access_list() told whether it could parse the list.
\* (Mutated form: its result is not looked at.)
Verdict_Always(ok) == "complete"
Verdict(ok) == IF ok THEN "complete" ELSE "failed"

-----------------------------------------------------------------------------
\* POST /acs/setup/: acs_setup(), acs_set_net(); the rendezvous calls the latter

\* Where a page or the rendezvous goes once the NET is set: the page polls.
Accepted(t) == IF t = Rdv THEN "idle" ELSE "ask"

\* l_dancing_mutex is free: acs_set_net() posts "NET: ..." and "Ready to Dance"
\* with it held.
DancingUnlocked == \A t \in Threads : pc[t] # "ready"

\* The NET is taken, and the first of the two messages posted; json_dumps() may
\* have no memory for the first one, or acs_status() for either.  Until then only
\* this thread, which has the mutex, looks at l_net.
SetNet(t, n) ==
  /\ pc[t] = "idle" /\ left > 0 /\ DancingUnlocked
  /\ MayReplace /\ "object" \in Has[n]
  /\ net' = n /\ dances' = 0
  /\ \/ /\ status' = IF "short" \in Has[n] THEN "ok" ELSE "error"
        /\ messages' = Append(messages, <<status', n>>)
        /\ left' = left - 1 /\ Goto(t, "ready")
     \/ /\ status' = "error" /\ UNCHANGED messages
        /\ left > 1 /\ left' = left - 2 /\ Goto(t, "ready")
     \/ /\ status' = "ok" /\ messages' = Append(messages, <<"ok", n>>)
        /\ left > 1 /\ left' = left - 2 /\ Goto(t, Accepted(t))
  /\ UNCHANGED <<dancing, out, stranded, bridges, got, ctlVars>>

NetReady(t) == pc[t] = "ready" /\ Report(t, "ok", Accepted(t))

\* acs_check_net() rejects it; the page is told that the setup was successful.
SetNetRejected(t, n) ==
  /\ pc[t] = "idle" /\ Spend /\ DancingUnlocked
  /\ MayReplace /\ "object" \notin Has[n]
  /\ net' = None /\ dances' = 0
  /\ status' = "error"
  /\ messages' = Append(messages, <<"error", n>>)
  /\ Goto(t, Accepted(t))
  /\ UNCHANGED <<dancing, out, stranded, bridges, got, ctlVars>>

\* "Already dancing": the status is posted after the unlock (NetBusyReport).
SetNetBusy(t) ==
  /\ pc[t] = "idle" /\ Spend /\ DancingUnlocked
  /\ ~MayReplace
  /\ Goto(t, "busy")
  /\ UNCHANGED <<status, messages, danceVars, got, ctlVars>>

NetBusyReport(t) == pc[t] = "busy" /\ Report(t, "error", "idle")

\* The body of the setup is no JSON: the page never gets an answer.
SetupUnparsable(p) ==
  /\ pc[p] = "idle" /\ Spend
  /\ Goto(p, "hung")
  /\ UNCHANGED <<status, messages, danceVars, got, ctlVars>>

-----------------------------------------------------------------------------
\* GET /acs/progress/: acs_progress()

\* The user asks for the dance with the NET of the rendezvous.
ClickProgress(p) ==
  /\ pc[p] = "idle" /\ Spend
  /\ Goto(p, "ask")
  /\ UNCHANGED <<status, messages, danceVars, got, ctlVars>>

\* With both mutexes held: start the dance, if there is none.
Progress(p) ==
  /\ pc[p] = "ask" /\ DancingUnlocked
  /\ MayStart /\ net # None => dances < MaxDances
  /\ IF ~MayStart
       THEN Goto(p, "reply") /\ UNCHANGED <<dancing, dances>>
       ELSE IF net = None
              THEN Goto(p, "nonet") /\ UNCHANGED <<dancing, dances>>
              ELSE Goto(p, "when") /\ dancing' = TRUE /\ dances' = dances + 1
  /\ UNCHANGED <<status, messages, net, out, stranded, bridges, got, left, ctlVars>>

NoNet(p) == pc[p] = "nonet" /\ Report(p, "error", "reply")

\* acs_when()
When(p) == /\ pc[p] = "when"
           /\ \/ Lacks("when")  /\ Report(p, "error", "sit")
              \/ ~Lacks("when") /\ Report(p, "ok", "start")

Start(p) == pc[p] = "start" /\ Report(p, "ok", "initial")

\* One message, or the current status when there is none: djb_result().
Reply(p) ==
  /\ pc[p] = "reply" /\ ReplyDue
  /\ LET m == IF messages # <<>> THEN Head(messages) ELSE <<status, net>> IN
       \/ /\ got' = [got EXCEPT ![p] = m]
          /\ Goto(p, IF m[1] = "ok" THEN "ask" ELSE "idle")   \* process_response()
          /\ UNCHANGED left
       \/ /\ Spend                                            \* the page was closed
          /\ Goto(p, "idle")
          /\ UNCHANGED got
  /\ messages' = IF messages # <<>> THEN Tail(messages) ELSE messages
  /\ UNCHANGED <<status, danceVars, ctlVars>>

-----------------------------------------------------------------------------
\* The dance: acs_initial() in the thread of the poll that started it,
\* acs_initial_answer(), acs_wait() and acs_redirect() in the thread of the
\* push, acs_redirect_answer() in the thread of the next push.

\* acs_net_string(): the NET lacks this gateway.
RequestUnnamed(t, k) == pc[t] = k /\ Lacks(k) /\ Report(t, "error", "sit")

\* httpsrv_newcl() or djb_create_userdata() fails.
RequestFailed(t, k) ==
  /\ pc[t] = k /\ ~Lacks(k) /\ running /\ Spend
  /\ status' = "error"
  /\ messages' = Append(messages, <<"error", net>>)
  /\ Goto(t, "sit")
  /\ UNCHANGED <<danceVars, got, ctlVars>>

\* acs_keep_running() fails in acs_request(), which returns true all the same;
\* in acs_wait(), before the Redirect, it ends the dance.
RequestStopped(t, k) ==
  /\ pc[t] = k /\ ~running
  /\ \/ ~Lacks(k) /\ Report(t, "error", "slip")
     \/ k = "redirect" /\ Report(t, "error", "sit")

\* djb_proxy_add() fails: acs_sitdown() without a status.
RequestNoMemory(t, k) ==
  /\ pc[t] = k /\ ~Lacks(k) /\ running /\ Spend
  /\ Goto(t, "sit")
  /\ UNCHANGED <<status, messages, danceVars, got, ctlVars>>

\* acs_request(): the request is in the proxy, and may be answered at once.
Request(t, k) ==
  /\ pc[t] = k /\ ~Lacks(k) /\ running
  /\ out' = [out EXCEPT ![k] = @ + 1]
  /\ Goto(t, "sent")
  /\ UNCHANGED <<status, messages, dancing, net, dances, stranded, bridges, got, left, ctlVars>>

\* Where a thread that is through with its part of the dance goes.
Finished(t) == IF t \in Pages THEN "reply" ELSE "idle"

\* "Dancing: ... Request sent"
Sent(t) == pc[t] = "sent" /\ Report(t, "ok", Finished(t))

\* acs_sitdown()
SitDown(t) ==
  /\ pc[t] \in {"sit", "slip"} /\ DancingUnlocked
  /\ dancing' = SatDown
  /\ Goto(t, IF pc[t] = "slip" THEN "sent" ELSE Finished(t))
  /\ UNCHANGED <<status, messages, net, dances, out, stranded, bridges, got, left, ctlVars>>

\* acs_initial_answer() or acs_redirect_answer(): what dh->push is for it.
\* (Mutated form: the latter, for both.)
Answered_Redirect(k) == "redirectAnswer"
Answered(k) == IF k = "initial" THEN "initialAnswer" ELSE "redirectAnswer"

\* The plugin pushes the answer of an internal request: dh->push is called.  Its
\* code is 200, or not.  While one push has its body read, there is another one
\* only if the request was rescheduled by djb_close().
Answer(h, k) ==
  /\ pc[h] = "idle" /\ out[k] > 0
  /\ out' = [out EXCEPT ![k] = @ - 1] /\ stranded' = FALSE
  /\ \E at \in {Answered(k), "failed"} : Goto(h, at)
  /\ IF \E g \in Pushers : k = "redirect" /\ pc[g] = "body" THEN Spend ELSE UNCHANGED left
  /\ UNCHANGED <<status, messages, dancing, net, dances, bridges, got, ctlVars>>

\* The code is not 200, there is no body or no memory for it, it cannot be
\* decoded, or the list of bridges cannot be parsed.
AnswerFailed(h) == pc[h] = "failed" /\ Report(h, "error", "sit")

\* acs_initial_answer()
InitialAnswer(h) == pc[h] = "initialAnswer" /\ Report(h, "ok", "wait")

\* acs_keep_running(), then acs_wait() up to its sleep.
Wait(h) ==
  /\ pc[h] = "wait"
  /\ \/ (~running \/ Lacks("delay")) /\ Report(h, "error", "sit")
     \/ running /\ ~Lacks("delay") /\ ~Lacks("window") /\ Report(h, "ok", "sleep")

\* w % d_window with a window of zero.
WaitDivides(h) ==
  /\ pc[h] = "wait" /\ running /\ ~Lacks("delay") /\ Lacks("window")
  /\ crashed' = TRUE
  /\ UNCHANGED <<status, messages, danceVars, pc, got, left, running>>

\* thread_sleep() ends, or is interrupted by the shutdown: no acs_sitdown().
Wake(h) ==
  /\ pc[h] = "sleep"
  /\ \/ running  /\ Report(h, "ok", "redirect")
     \/ ~running /\ Report(h, "error", "idle")

\* acs_redirect_answer() wants the body: djb_push() puts the request back on
\* lst_proxy_out while it is read.
RedirectBody(h) ==
  /\ pc[h] = "redirectAnswer"
  /\ \/ /\ out' = [out EXCEPT !["redirect"] = @ + 1]
        /\ Goto(h, "body")
     \/ /\ Goto(h, "failed")
        /\ UNCHANGED out
  /\ UNCHANGED <<status, messages, dancing, net, dances, stranded, bridges, got, left, ctlVars>>

\* The body is there, and the request is still on lst_proxy_out.
RedirectFound(h) ==
  /\ pc[h] = "body" /\ out["redirect"] > 0
  /\ out' = [out EXCEPT !["redirect"] = @ - 1] /\ stranded' = FALSE
  /\ \E at \in {"decoded", "failed"} : Goto(h, at)
  /\ UNCHANGED <<status, messages, dancing, net, dances, bridges, got, left, ctlVars>>

\* 404: another push has taken the request meanwhile, or djb_close() has moved it
\* to lst_proxy_new.
RedirectGone(h) ==
  /\ pc[h] = "body"
  /\ IF out["redirect"] = 0 THEN UNCHANGED left ELSE Spend
  /\ Goto(h, "idle")
  /\ UNCHANGED <<status, messages, danceVars, got, ctlVars>>

\* The connection of the push closes before the body is there: djb_push() is not
\* called again, and unless the connection that took the request closes as well,
\* nobody else will push its answer.
RedirectClosed(h) ==
  /\ pc[h] = "body" /\ Spend
  /\ stranded' = (out["redirect"] > 0)
  /\ Goto(h, "idle")
  /\ UNCHANGED <<status, messages, dancing, net, dances, out, bridges, got, ctlVars>>

RedirectAnswer(h) == pc[h] = "decoded" /\ Report(h, "ok", "store")

\* prf_set_bridge_access_list()
Store(h) ==
  /\ pc[h] = "store"
  /\ \E ok \in BOOLEAN : /\ bridges' = IF ok THEN net ELSE None
                         /\ Goto(h, Verdict(ok))
  /\ UNCHANGED <<status, messages, dancing, net, dances, out, stranded, got, left, ctlVars>>

Complete(h) == pc[h] = "complete" /\ Report(h, "ok", "done")

Done(h) == pc[h] = "done" /\ Report(h, "done", "sit")

\* /shutdown/
Shutdown ==
  /\ running /\ Spend
  /\ running' = FALSE
  /\ UNCHANGED <<status, messages, danceVars, pc, got, crashed>>

-----------------------------------------------------------------------------
Users == \/ \E t \in Pages \cup {Rdv} :
              SetNetBusy(t) \/ \E n \in Nets : SetNet(t, n) \/ SetNetRejected(t, n)
         \/ \E p \in Pages : SetupUnparsable(p) \/ ClickProgress(p)
         \/ Shutdown

Poll(p) == Progress(p) \/ NoNet(p) \/ When(p) \/ Start(p) \/ Reply(p)

Push(h) == \/ AnswerFailed(h) \/ InitialAnswer(h) \/ Wait(h) \/ WaitDivides(h)
           \/ Wake(h) \/ RedirectBody(h) \/ RedirectFound(h) \/ RedirectGone(h)
           \/ RedirectClosed(h) \/ RedirectAnswer(h)
           \/ Store(h) \/ Complete(h) \/ Done(h)

Step(t) == \/ NetReady(t) \/ NetBusyReport(t) \/ Sent(t) \/ SitDown(t)
           \/ \E k \in Kinds : \/ RequestUnnamed(t, k) \/ RequestFailed(t, k)
                               \/ RequestStopped(t, k) \/ RequestNoMemory(t, k)
                               \/ Request(t, k)
           \/ t \in Pages /\ Poll(t)
           \/ t \in Pushers /\ Push(t)

Next == ~crashed /\ \/ Users
                    \/ \E t \in Threads : Step(t)
                    \/ \E h \in Pushers, k \in Kinds : Answer(h, k)

Spec == Init /\ [][Next]_vars

\* Threads run, and before a shutdown the proxy answers what is not stranded
\* (DjbProxy!EveryRequestAnswered).
Fairness ==
  /\ \A t \in Threads : WF_vars(~crashed /\ Step(t))
  /\ WF_vars(~crashed /\ running /\ ~stranded /\ \E h \in Pushers, k \in Kinds : Answer(h, k))

FairSpec == Spec /\ Fairness

-----------------------------------------------------------------------------
(***************************************************************************)
(* Properties                                                              *)
(***************************************************************************)

Statuses == {"ok", "error", "done"}
Message == Statuses \X (Nets \cup {None})

\* A thread that dances: it reads l_net, and l_dancing must stay set.
Steps == {"when", "start", "initial", "sit", "slip", "initialAnswer",
          "redirectAnswer", "failed", "wait", "sleep", "redirect",
          "decoded", "store", "complete", "done"}

\* Where a thread is that does not dance.
Rests == {"idle", "ask", "reply", "hung", "ready", "busy", "nonet", "sent", "body"}

\* Every variable has its type.
TypeOK ==
  /\ status \in Statuses /\ messages \in Seq(Message)
  /\ dancing \in BOOLEAN /\ dances \in 0 .. MaxDances /\ net \in Nets \cup {None}
  /\ out \in [Kinds -> 0 .. 1] /\ stranded \in BOOLEAN
  /\ bridges \in Nets \cup {None}
  /\ pc \in [Threads -> Steps \cup Rests]
  /\ got \in [Pages -> Message \cup {None}]
  /\ left \in 0 .. Budget /\ running \in BOOLEAN /\ crashed \in BOOLEAN

\* Who has the dance: a thread, or an internal request in the proxy.
Dancers == {t \in Threads : pc[t] \in Steps} \cup {k \in Kinds : out[k] > 0}

\* There is one dance at a time: l_dancing is set for as long as a thread or a
\* request is part of it, and they never are two.
OneDance == /\ Dancers # {} => dancing
            /\ \A a, b \in Dancers : a = b

\* l_dancing is never left behind, before the shutdown: the dance it stands for
\* is still going on, and will end with acs_sitdown().
NobodyLeftDancing == dancing /\ running => Dancers # {}

\* The NET does not change under a dance (acs_set_net() checks l_dancing).
NetStable == [][Dancers # {} => net' = net]_vars

\* "done" is only reported for bridges that came from the current NET.
DoneHasBridges == status = "done" => bridges # None /\ bridges = net

\* Everything acs.c asks of a NET on the way to "done".  (One that is too long to
\* be put in a message is danced as well.)
Danceable(n) == n # None /\ Parts \ {"short"} \subseteq Has[n]

\* Messages outlive their dance: they stay queued when another NET is set, and the
\* next poll is sent the oldest.  However late a page is told "done", the NET
\* it is told of is one that could be danced to the end, no gateway left out.
DoneWasDanced ==
  /\ \A i \in DOMAIN messages : messages[i][1] = "done" => Danceable(messages[i][2])
  /\ \A p \in Pages : got[p] # None /\ got[p][1] = "done" => Danceable(got[p][2])

\* How far the dance is, for DanceService.
AtOneOf(S) == \E t \in Threads : pc[t] \in S
Stage == IF out["initial"] > 0 THEN "initial"
         ELSE IF out["redirect"] > 0 THEN "redirect"
         ELSE IF AtOneOf({"when", "start", "initial"}) THEN "begun"
         ELSE IF AtOneOf({"initialAnswer", "wait", "sleep", "redirect"}) THEN "between"
         ELSE IF AtOneOf({"redirectAnswer", "decoded", "store"}) THEN "answer"
         ELSE IF AtOneOf({"complete", "done"}) THEN "stored"
         ELSE IF AtOneOf({"failed", "sit", "slip"}) THEN "over"
         ELSE "rest"

\* What the ACS promises its page, whatever threads, polls, failures and NETs
\* come together.
Service == INSTANCE DanceService WITH stage <- Stage, done <- (status = "done")
ServiceSpec == Service!Spec

\* The ways out of the promises below: djb is shut down, and its workers answer
\* nothing any more; a window of zero kills it; or the answer of the Redirect
\* request was lost over its body, and djb waits for it without a timeout.
GivenUp == ~running \/ crashed \/ stranded

\* Each dance ends.
DanceEnds == dancing ~> ~dancing \/ GivenUp

\* Only MaxDances keeps a poll from starting the dance again.
AtBound == dances = MaxDances /\ net # None /\ MayStart

\* A page that polls is told "done" or "error" in the end.
PollEnds == \A p \in Pages : pc[p] = "ask" ~> pc[p] = "idle" \/ GivenUp \/ AtBound

\* What doc/DESIGN.txt says of the polls; the code does not provide it.

\* doc/DESIGN.txt:163: the first poll triggers the dance, and no later one does
\* until a NET is set again.
DancedOnce == dances <= 1
=============================================================================
