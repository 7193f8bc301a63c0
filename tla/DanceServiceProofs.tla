------------------------- MODULE DanceServiceProofs -------------------------
(***************************************************************************)
(* AcsDance implements DanceService.                                       *)
(*                                                                         *)
(* As there is only one dancer (OneDance), the stage of the dance is where *)
(* that dancer is: every step moves the dancer along Order or out of the   *)
(* dance, or is a step of somebody else, which leaves the stage alone.     *)
(***************************************************************************)
EXTENDS AcsDanceProofs

\* The stage of a thread that is at this place.
StageOf(at) == IF at \in {"when", "start", "initial"} THEN "begun"
               ELSE IF at \in {"initialAnswer", "wait", "sleep", "redirect"} THEN "between"
               ELSE IF at \in {"redirectAnswer", "decoded", "store"} THEN "answer"
               ELSE IF at \in {"complete", "done"} THEN "stored"
               ELSE IF at \in {"failed", "sit", "slip"} THEN "over"
               ELSE "rest"

-----------------------------------------------------------------------------
\* The stage

\* With nothing in the proxy, the stage is that of the only thread that may
\* be at a step of the dance; before a step and after it.
LEMMA StageOfThread ==
  ASSUME NEW t \in Threads, \A u \in Threads \ {t} : pc[u] \notin Steps,
         \A k \in Kinds : out[k] = 0
  PROVE  Stage = StageOf(pc[t])
BY DEF Stage, StageOf, AtOneOf, Steps, Kinds

LEMMA StageOfThreadAfter ==
  ASSUME NEW t \in Threads, \A u \in Threads \ {t} : pc'[u] \notin Steps,
         \A k \in Kinds : out'[k] = 0
  PROVE  Stage' = StageOf(pc'[t])
BY DEF Stage, StageOf, AtOneOf, Steps, Kinds

\* A request in the proxy is the stage.
LEMMA StageOfRequest ==
  ASSUME NEW k \in Kinds, out[k] > 0, \A m \in Kinds \ {k} : out[m] = 0
  PROVE  Stage = k
BY DEF Stage, Kinds

LEMMA StageOfRequestAfter ==
  ASSUME NEW k \in Kinds, out'[k] > 0, \A m \in Kinds \ {k} : out'[m] = 0
  PROVE  Stage' = k
BY DEF Stage, Kinds

\* A thread that is not part of the dance does not change the stage.
LEMMA StageKept ==
  ASSUME TypeOK, NEW t \in Threads, NEW at \in Rests, Goto(t, at),
         pc[t] \notin Steps, out' = out
  PROVE  Stage' = Stage
<1>1. at \notin Steps
  BY DEF Rests, Steps
<1>2. pc'[t] = at /\ \A u \in Threads \ {t} : pc'[u] = pc[u]
  BY DEF Goto, TypeOK
<1>3. \A S \in SUBSET Steps : AtOneOf(S)' = AtOneOf(S)
  BY <1>1, <1>2 DEF AtOneOf
<1> QED BY <1>2, <1>1 DEF Stage, AtOneOf, Steps

\* A thread that dances takes the stage with it.
LEMMA StageMoves ==
  ASSUME IInv, NEW t \in Threads, pc[t] \in Steps, NEW at, Goto(t, at), out' = out
  PROVE  Stage = StageOf(pc[t]) /\ Stage' = StageOf(at)
<1>0. TypeOK /\ OneDance
  BY DEF IInv, DanceInv
<1>1. (\A u \in Threads \ {t} : pc[u] \notin Steps) /\ \A k \in Kinds : out[k] = 0
  BY <1>0, OnlyDancer
<1>2. pc'[t] = at /\ \A u \in Threads \ {t} : pc'[u] = pc[u]
  BY <1>0, Moved
<1> QED BY <1>1, <1>2, StageOfThread, StageOfThreadAfter

\* When nobody dances.
LEMMA StageRests ==
  ASSUME IInv, ~dancing
  PROVE  Stage = "rest"
<1>1. (\A u \in Threads : pc[u] \notin Steps) /\ \A k \in Kinds : out[k] = 0
  BY NoDancer DEF IInv, DanceInv
<1> QED BY <1>1 DEF Stage, AtOneOf, Steps, Kinds

-----------------------------------------------------------------------------
\* The kinds of steps

\* Reports: of no consequence, or the end of the dance.
LEMMA ReportImplements ==
  ASSUME IInv, NEW t \in Threads, NEW at \in Steps \cup Rests, NEW st \in {"ok", "error"},
         Report(t, st, at),
         \/ pc[t] \notin Steps /\ at \in Rests
         \/ pc[t] \in Steps /\ StageOf(at) \in {StageOf(pc[t]), "over"}
         \/ pc[t] = "sleep" /\ at = "idle"
  PROVE  Service!Next
<1>1. /\ Goto(t, at) /\ (status = "done")' = FALSE
      /\ UNCHANGED <<net, out, bridges>>
  BY DEF Report, Post, danceVars
<1>2. CASE pc[t] \notin Steps /\ at \in Rests
  <2>1. Stage' = Stage
    BY <1>1, <1>2, StageKept DEF IInv
  <2> QED BY <1>1, <2>1 DEF Service!Next, Service!Report
<1>3. CASE pc[t] \in Steps /\ StageOf(at) = StageOf(pc[t])
  <2>1. Stage' = Stage
    BY <1>1, <1>3, StageMoves
  <2> QED BY <1>1, <2>1 DEF Service!Next, Service!Report
<1>4. CASE pc[t] \in Steps /\ StageOf(at) = "over"
  <2>1. Stage = StageOf(pc[t]) /\ Stage' = "over"
    BY <1>1, <1>4, StageMoves
  <2>2. Stage # "rest"
    BY <1>4, <2>1 DEF StageOf, Steps
  <2> QED BY <1>1, <2>1, <2>2 DEF Service!Next, Service!GiveUp
<1>5. CASE pc[t] = "sleep" /\ at = "idle"
  <2>1. Stage = "between" /\ Stage' = "rest"
    BY <1>1, <1>5, StageMoves DEF StageOf, Steps
  <2> QED BY <1>1, <2>1 DEF Service!Next, Service!GiveUp
<1> QED BY <1>2, <1>3, <1>4, <1>5

\* A dancer ends the dance without a status.
LEMMA EndImplements ==
  ASSUME IInv, NEW t \in Threads, NEW at, Goto(t, at), pc[t] \in Steps,
         StageOf(at) \in {"over", "rest"}, UNCHANGED <<status, net, out, bridges>>
  PROVE  Service!Next
<1>1. Stage = StageOf(pc[t]) /\ Stage' \in {"over", "rest"}
  BY StageMoves
<1>2. Stage # "rest"
  BY <1>1 DEF StageOf, Steps
<1> QED BY <1>1, <1>2 DEF Service!Next, Service!GiveUp

\* A thread outside of the dance changes nothing the service shows.
LEMMA OutsideImplements ==
  ASSUME IInv, NEW t \in Threads, NEW at \in Rests, Goto(t, at), pc[t] \notin Steps,
         UNCHANGED <<status, net, out, bridges>>
  PROVE  UNCHANGED Service!vars
<1>1. Stage' = Stage
  BY StageKept DEF IInv
<1> QED BY <1>1 DEF Service!vars

\* A thread takes over from a request in the proxy.
LEMMA TakeImplements ==
  ASSUME IInv, NEW h \in Threads, pc[h] \notin Steps, NEW k \in Kinds, out[k] > 0,
         NEW at \in Steps, Goto(h, at), out' = [out EXCEPT ![k] = @ - 1],
         <<k, StageOf(at)>> \in Service!Order \/ StageOf(at) = "over",
         UNCHANGED <<status, net, bridges>>
  PROVE  Service!Next
<1>0. TypeOK /\ OneDance
  BY DEF IInv, DanceInv
<1>1. /\ out[k] = 1 /\ \A m \in Kinds \ {k} : out[m] = 0
      /\ \A u \in Threads : pc[u] \notin Steps
  BY <1>0, OnlyOut
<1>2. Stage = k
  BY <1>1, StageOfRequest
<1>3. /\ pc'[h] = at /\ \A u \in Threads \ {h} : pc'[u] = pc[u]
      /\ \A m \in Kinds : out'[m] = 0
  <2>1. out \in [Kinds -> 0 .. 1]
    BY <1>0 DEF TypeOK
  <2>2. \A m \in Kinds : out'[m] = 0
    BY <1>1, <2>1
  <2> QED BY <1>0, <2>2, Moved
<1>4. Stage' = StageOf(at)
  BY <1>1, <1>3, StageOfThreadAfter
<1>5. k # "rest"
  BY DEF Kinds
<1> QED BY <1>2, <1>4, <1>5 DEF Service!Next, Service!Advance, Service!GiveUp

\* A thread gives the dance to a request in the proxy.
LEMMA GiveImplements ==
  ASSUME IInv, NEW t \in Threads, pc[t] \in Steps, NEW k \in Kinds,
         NEW at \in Rests, Goto(t, at), out' = [out EXCEPT ![k] = @ + 1],
         <<StageOf(pc[t]), k>> \in Service!Order, UNCHANGED <<status, net, bridges>>
  PROVE  Service!Next
<1>0. TypeOK /\ OneDance
  BY DEF IInv, DanceInv
<1>1. (\A u \in Threads \ {t} : pc[u] \notin Steps) /\ \A m \in Kinds : out[m] = 0
  BY <1>0, OnlyDancer
<1>2. Stage = StageOf(pc[t])
  BY <1>1, StageOfThread
<1>3. out \in [Kinds -> 0 .. 1]
  BY <1>0 DEF TypeOK
<1>4. out'[k] > 0 /\ \A m \in Kinds \ {k} : out'[m] = 0
  BY <1>1, <1>3
<1>5. Stage' = k
  BY <1>4, StageOfRequestAfter
<1> QED BY <1>2, <1>5 DEF Service!Next, Service!Advance

-----------------------------------------------------------------------------
\* The steps

\* What the service shows of a step it takes no notice of.
Unseen == UNCHANGED Service!vars

\* acs_set_net() replaces the NET of no dance.
LEMMA SetNetImplements ==
  ASSUME IInv, NEW t \in Threads, NEW n \in Nets, SetNet(t, n) \/ SetNetRejected(t, n)
  PROVE  Service!Next
<1>1. /\ pc[t] = "idle" /\ ~dancing /\ net' \in Nets \cup {None}
      /\ status' \in {"ok", "error"} /\ out' = out /\ bridges' = bridges
      /\ \E at \in Rests : Goto(t, at)
  BY DEF SetNet, SetNetRejected, MayReplace, Accepted, Rests
<1>2. Stage = "rest"
  BY <1>1, StageRests
<1>3. Stage' = Stage
  BY <1>1, StageKept DEF IInv, Steps
<1> QED BY <1>1, <1>2, <1>3 DEF Service!Next, Service!Replace

LEMMA UsersImplement ==
  ASSUME IInv, Users
  PROVE  Service!Next \/ Unseen
<1>1. Pages \cup {Rdv} \subseteq Threads
  BY DEF Threads
<1>2. ASSUME NEW t \in Threads, NEW n \in Nets, SetNet(t, n) \/ SetNetRejected(t, n)
      PROVE  Service!Next
  BY <1>2, SetNetImplements
<1>3. ASSUME NEW t \in Threads, SetNetBusy(t) \/ SetupUnparsable(t) \/ ClickProgress(t)
      PROVE  Unseen
  <2>1. /\ pc[t] = "idle" /\ \E at \in Rests : Goto(t, at)
        /\ UNCHANGED <<status, net, out, bridges>>
    BY <1>3 DEF SetNetBusy, SetupUnparsable, ClickProgress, danceVars, Rests
  <2> QED BY <2>1, OutsideImplements DEF Unseen, Steps
<1>4. CASE Shutdown
  <2>1. UNCHANGED <<status, net, out, bridges, pc>>
    BY <1>4 DEF Shutdown, danceVars
  <2> QED BY <2>1 DEF Unseen, Service!vars, Stage, AtOneOf
<1> QED BY <1>1, <1>2, <1>3, <1>4 DEF Users

\* acs_progress()
LEMMA PollImplements ==
  ASSUME IInv, NEW p \in Pages, Poll(p)
  PROVE  Service!Next \/ Unseen
<1>0. p \in Threads
  BY DEF Threads
<1>1. CASE Progress(p)
  <2>1. pc[p] = "ask" /\ UNCHANGED <<status, net, out, bridges>>
    BY <1>1 DEF Progress
  <2>2. CASE Goto(p, "reply") \/ Goto(p, "nonet")
    BY <1>0, <2>1, <2>2, OutsideImplements DEF Unseen, Steps, Rests
  <2>3. CASE Goto(p, "when") /\ ~dancing /\ net # None
    <3>1. Stage = "rest"
      BY <2>3, StageRests
    <3>2. /\ \A u \in Threads : pc[u] \notin Steps
          /\ \A k \in Kinds : out[k] = 0
      BY <2>3, NoDancer DEF IInv, DanceInv
    <3>3. pc'[p] = "when" /\ \A u \in Threads \ {p} : pc'[u] = pc[u]
      BY <1>0, <2>3, Moved DEF IInv
    <3>4. Stage' = "begun"
      BY <1>0, <2>1, <3>2, <3>3, StageOfThreadAfter DEF StageOf
    <3> QED BY <2>1, <2>3, <3>1, <3>4 DEF Service!Next, Service!Begin
  <2> QED BY <1>1, <2>2, <2>3 DEF Progress, MayStart
<1>2. CASE NoNet(p)
  BY <1>0, <1>2, ReportImplements DEF NoNet, Steps, Rests
<1>3. CASE When(p)
  BY <1>0, <1>3, ReportImplements DEF When, Steps, Rests, StageOf
<1>4. CASE Start(p)
  BY <1>0, <1>4, ReportImplements DEF Start, Steps, Rests, StageOf
<1>5. CASE Reply(p)
  <2>1. /\ pc[p] = "reply" /\ \E at \in Rests : Goto(p, at)
        /\ UNCHANGED <<status, net, out, bridges>>
    BY <1>5 DEF Reply, danceVars, Rests
  <2> QED BY <1>0, <2>1, OutsideImplements DEF Unseen, Steps
<1> QED BY <1>1, <1>2, <1>3, <1>4, <1>5 DEF Poll

\* acs_redirect_answer(), and prf_set_bridge_access_list().
LEMMA RedirectImplements ==
  ASSUME IInv, NEW h \in Threads,
         \/ RedirectBody(h) \/ RedirectFound(h) \/ RedirectGone(h) \/ RedirectClosed(h)
         \/ Store(h)
  PROVE  Service!Next \/ Unseen
<1>0. TypeOK /\ OneDance /\ UNCHANGED <<status, net>>
  BY DEF IInv, DanceInv, RedirectBody, RedirectFound, RedirectGone, RedirectClosed, Store, danceVars
<1>1. CASE RedirectBody(h)
  <2>1. pc[h] = "redirectAnswer" /\ bridges' = bridges
    BY <1>1 DEF RedirectBody
  <2>2. CASE Goto(h, "body") /\ out' = [out EXCEPT !["redirect"] = @ + 1]
    BY <1>0, <2>1, <2>2, GiveImplements
       DEF Steps, Rests, Kinds, StageOf, Service!Order
  <2>3. CASE Goto(h, "failed") /\ out' = out
    BY <1>0, <2>1, <2>3, EndImplements DEF Steps, StageOf
  <2> QED BY <1>1, <2>2, <2>3 DEF RedirectBody
<1>2. CASE RedirectFound(h)
  <2>1. /\ pc[h] = "body" /\ bridges' = bridges
        /\ out["redirect"] > 0 /\ out' = [out EXCEPT !["redirect"] = @ - 1]
        /\ Goto(h, "decoded") \/ Goto(h, "failed")
    BY <1>2 DEF RedirectFound
  <2> QED BY <1>0, <2>1, TakeImplements DEF Steps, Kinds, StageOf, Service!Order
<1>4. CASE RedirectGone(h) \/ RedirectClosed(h)
  <2>1. pc[h] = "body" /\ Goto(h, "idle") /\ UNCHANGED <<out, bridges>>
    BY <1>4 DEF RedirectGone, RedirectClosed, danceVars
  <2> QED BY <1>0, <2>1, OutsideImplements DEF Unseen, Steps, Rests
<1>3. CASE Store(h)
  <2>1. pc[h] = "store" /\ out' = out
    BY <1>3 DEF Store
  <2>2. PICK ok \in BOOLEAN : bridges' = (IF ok THEN net ELSE None) /\ Goto(h, Verdict(ok))
    BY <1>3 DEF Store
  <2>3. Stage = "answer" /\ Stage' = IF ok THEN "stored" ELSE "over"
    BY <2>1, <2>2, StageMoves DEF Verdict, StageOf, Steps
  <2> QED BY <1>0, <2>2, <2>3 DEF Service!Next, Service!Store
<1> QED BY <1>1, <1>2, <1>3, <1>4

\* The thread of a push of an internal answer.
LEMMA PushImplements ==
  ASSUME IInv, NEW h \in Pushers, Push(h)
  PROVE  Service!Next \/ Unseen
<1>0. h \in Threads
  BY DEF Threads
<1>1. CASE AnswerFailed(h) \/ InitialAnswer(h)
  BY <1>0, <1>1, ReportImplements DEF AnswerFailed, InitialAnswer, Steps, StageOf
<1>2. CASE Wait(h)
  BY <1>0, <1>2, ReportImplements DEF Wait, Steps, StageOf
<1>3. CASE WaitDivides(h)
  <2>1. UNCHANGED <<status, net, out, bridges, pc>>
    BY <1>3 DEF WaitDivides, danceVars
  <2> QED BY <2>1 DEF Unseen, Service!vars, Stage, AtOneOf
<1>4. CASE Wake(h)
  BY <1>0, <1>4, ReportImplements DEF Wake, Steps, Rests, StageOf
<1>5. CASE \/ RedirectBody(h) \/ RedirectFound(h) \/ RedirectGone(h) \/ RedirectClosed(h)
            \/ Store(h)
  BY <1>0, <1>5, RedirectImplements
<1>6. CASE RedirectAnswer(h) \/ Complete(h)
  BY <1>0, <1>6, ReportImplements DEF RedirectAnswer, Complete, Steps, StageOf
<1>7. CASE Done(h)
  <2>1. pc[h] = "done" /\ Goto(h, "sit") /\ UNCHANGED <<net, out, bridges>>
    BY <1>7 DEF Done, Report, danceVars
  <2>2. Stage = "stored" /\ Stage' = "over"
    BY <1>0, <2>1, StageMoves DEF StageOf, Steps
  <2> QED BY <2>1, <2>2 DEF Service!Next, Service!Complete
<1> QED BY <1>1, <1>2, <1>3, <1>4, <1>5, <1>6, <1>7 DEF Push

\* acs_request()
LEMMA RequestImplements ==
  ASSUME IInv, NEW t \in Threads, NEW k \in Kinds,
         \/ RequestUnnamed(t, k) \/ RequestFailed(t, k) \/ RequestStopped(t, k)
         \/ RequestNoMemory(t, k) \/ Request(t, k)
  PROVE  Service!Next
<1>1. pc[t] = k /\ pc[t] \in Steps
  BY DEF RequestUnnamed, RequestFailed, RequestStopped, RequestNoMemory, Request,
         Kinds, Steps
<1>2. CASE RequestUnnamed(t, k) \/ RequestStopped(t, k)
  BY <1>1, <1>2, ReportImplements DEF RequestUnnamed, RequestStopped, Steps, StageOf
<1>3. CASE RequestFailed(t, k)
  <2>1. status' = "error" /\ Goto(t, "sit") /\ UNCHANGED <<net, out, bridges>>
    BY <1>3 DEF RequestFailed, danceVars
  <2>2. Stage = StageOf(pc[t]) /\ Stage' = "over"
    BY <1>1, <2>1, StageMoves DEF StageOf
  <2>3. Stage # "rest"
    BY <1>1, <2>2 DEF Kinds, StageOf
  <2> QED BY <2>1, <2>2, <2>3 DEF Service!Next, Service!GiveUp
<1>4. CASE RequestNoMemory(t, k)
  <2>1. Goto(t, "sit") /\ UNCHANGED <<status, net, out, bridges>>
    BY <1>4 DEF RequestNoMemory, danceVars
  <2> QED BY <1>1, <2>1, EndImplements DEF StageOf
<1>5. CASE Request(t, k)
  <2>1. /\ Goto(t, "sent") /\ out' = [out EXCEPT ![k] = @ + 1]
        /\ UNCHANGED <<status, net, bridges>>
    BY <1>5 DEF Request
  <2>2. <<StageOf(pc[t]), k>> \in Service!Order
    BY <1>1 DEF Kinds, StageOf, Service!Order
  <2> QED BY <1>1, <2>1, <2>2, GiveImplements DEF Rests
<1> QED BY <1>2, <1>3, <1>4, <1>5

LEMMA ThreadImplements ==
  ASSUME IInv, NEW t \in Threads, Step(t)
  PROVE  Service!Next \/ Unseen
<1>1. CASE NetReady(t) \/ NetBusyReport(t) \/ Sent(t)
  BY <1>1, ReportImplements
     DEF NetReady, NetBusyReport, Sent, Accepted, Finished, Steps, Rests
<1>2. CASE SitDown(t)
  <2>1. /\ pc[t] \in Steps /\ UNCHANGED <<status, net, out, bridges>>
        /\ \E at \in {"sent", "reply", "idle"} : Goto(t, at)
    BY <1>2 DEF SitDown, Finished, Steps
  <2> QED BY <2>1, EndImplements DEF StageOf
<1>3. ASSUME NEW k \in Kinds, \/ RequestUnnamed(t, k) \/ RequestFailed(t, k)
                              \/ RequestStopped(t, k) \/ RequestNoMemory(t, k)
                              \/ Request(t, k)
      PROVE  Service!Next
  BY <1>3, RequestImplements
<1>4. CASE t \in Pages /\ Poll(t)
  BY <1>4, PollImplements
<1>5. CASE t \in Pushers /\ Push(t)
  BY <1>5, PushImplements
<1> QED BY <1>1, <1>2, <1>3, <1>4, <1>5 DEF Step

\* The plugin pushes the answer of an internal request.
LEMMA AnswerImplements ==
  ASSUME IInv, NEW h \in Pushers, NEW k \in Kinds, Answer(h, k)
  PROVE  Service!Next
<1>1. /\ h \in Threads /\ pc[h] = "idle" /\ out[k] > 0
      /\ out' = [out EXCEPT ![k] = @ - 1]
      /\ UNCHANGED <<status, net, bridges>>
  BY DEF Answer, Threads
<1>2. PICK at \in {Answered(k), "failed"} : Goto(h, at)
  BY DEF Answer
<1>3. at \in Steps /\ (<<k, StageOf(at)>> \in Service!Order \/ StageOf(at) = "over")
  BY DEF Answered, Kinds, Steps, StageOf, Service!Order
<1> QED BY <1>1, <1>2, <1>3, TakeImplements DEF Steps

-----------------------------------------------------------------------------
\* acs.c keeps the promise of DanceService, with any number of pages and
\* threads, whatever a NET lacks and whatever fails: one dance at a time, in the
\* order of its gateways, with the NET it began with, and "done" only at its end.
THEOREM Implements == Spec => ServiceSpec
<1>1. Init => Service!Init
  BY DEF Init, Service!Init, Stage, AtOneOf, Kinds
<1>2. IInv /\ [Next]_vars => [Service!Next]_(Service!vars)
  <2> SUFFICES ASSUME IInv, [Next]_vars PROVE Service!Next \/ Unseen
    BY DEF Unseen
  <2>1. CASE Users
    BY <2>1, UsersImplement
  <2>2. ASSUME NEW t \in Threads, Step(t) PROVE Service!Next \/ Unseen
    BY <2>2, ThreadImplements
  <2>3. ASSUME NEW h \in Pushers, NEW k \in Kinds, Answer(h, k) PROVE Service!Next
    BY <2>3, AnswerImplements
  <2>4. CASE UNCHANGED vars
    BY <2>4 DEF vars, danceVars, Unseen, Service!vars, Stage, AtOneOf
  <2> QED BY <2>1, <2>2, <2>3, <2>4 DEF Next
<1>3. Spec => []IInv
  BY Invariance
<1> QED BY <1>1, <1>2, <1>3, PTL DEF Spec, ServiceSpec, Service!Spec
=============================================================================
