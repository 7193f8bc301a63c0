-------------------------- MODULE ProxyWorkProofs --------------------------
(***************************************************************************)
(* Proofs about DjbProxy, continued: which circuit has a request, what is  *)
(* freed, and who may leave a request without a circuit.                   *)
(*                                                                         *)
(* The argument: phcl_id names the last plugin connection a request was    *)
(* handed to, and that one is the only circuit with a live connection that *)
(* has it (Owned); a request waits to be handed out again only once that   *)
(* connection has gone (Waiting).  What a worker publishes is paired with  *)
(* the puller that was told its number (PublishesPaired), so from then on  *)
(* that circuit works on it, until its answer is lost.                     *)
(***************************************************************************)
EXTENDS DjbProxyProofs

\* The puller is being given the request its sequence number says.
Handed(p) == \/ pst[p] = "fwdbody"
             \/ \E w \in Workers : war[w] = p /\ wpc[w] \in {"publish", "send"}

\* The request waits for a puller, or is about to.
Waits(r) == \/ InNew(r)
            \/ \E w \in Workers : wpr[w] = r /\ wpc[w] \in {"pull", "check"}
            \/ \E x \in Conns : ByClose(x, r)

\* No circuit with a live connection has the request.
Abandoned(r) == phcl[r] = None \/ conn[phcl[r]] # "open"

Owned == /\ \A p \in Pullers : Handed(p) /\ conn[p] = "open" => phcl[seqno[p]] = p
         /\ \A j \in held : conn[j.by] = "open" => phcl[j.req] = j.by
Waiting == /\ \A r \in Req : Waits(r) => Abandoned(r)
           /\ \A r \in Req : r[2] > reqid[r[1]] => phcl[r] = None

\* What was freed has been answered.
FreedAnswered == \A r \in freed : answers[r] # <<>>

\* The invariants of this module, on top of IInv.
WorkInv == Owned /\ Waiting /\ FreedAnswered

-----------------------------------------------------------------------------
\* What was freed

\* Responses are only ever added.
LEMMA AnswersGrow ==
  ASSUME IInv, [Next]_vars, NEW r \in Req, answers[r] # <<>>
  PROVE  answers'[r] # <<>>
<1>0. answers \in [Req -> Seq(Req \cup {Err500})]
  BY DEF IInv, TypeOK, TypeClients
<1>1. ASSUME NEW m \in Req, NEW a \in Req \cup {Err500},
             answers' = [answers EXCEPT ![m] = Append(@, a)]
      PROVE  answers'[r] # <<>>
  <2>1. answers[r] \in Seq(Req \cup {Err500})
    BY <1>0
  <2>2. Append(answers[r], a) # <<>>
    BY <2>1
  <2>3. answers'[r] = IF r = m THEN Append(answers[r], a) ELSE answers[r]
    BY <1>0, <1>1
  <2> QED BY <2>2, <2>3
<1>2. ASSUME NEW c \in Requesters, RequestNoMemory(c) PROVE answers'[r] # <<>>
  <2>1. <<c, reqid[c] + 1>> \in Req
    BY <1>2, BoundAssumption DEF RequestNoMemory, Req, IInv, TypeOK, TypeClients
  <2> QED BY <1>1, <1>2, <2>1 DEF RequestNoMemory
<1>3. ASSUME NEW q \in Pullers,
             PushInternal(q) \/ \E body \in BOOLEAN : PushAnswer(q, body)
      PROVE  answers'[r] # <<>>
  <2>1. ppr[q] \in Req /\ seqno[q] \in Req
    BY <1>3 DEF PushInternal, PushAnswer, IInv, TypeOK, TypePlugin
  <2> QED BY <1>1, <1>3, <2>1 DEF PushInternal, PushAnswer
<1>4. answers' = answers \/ (\E c \in Requesters : RequestNoMemory(c))
        \/ \E q \in Pullers : PushInternal(q) \/ \E body \in BOOLEAN : PushAnswer(q, body)
  BY DEF Next, vars, clientVars, Environment, Worker, Handler, Closer, PushJob, Request, Pull,
     PullNoMemory, TakeRequest, TakePuller, ForwardClosed, ForwardStart, Publish, SendDone,
     SendBody, ForwardDone, WorkerExit, Push, PushRejected, PushFind, PushUnknown,
     PushInternalBody, PushClientGone, PushClosed, PushForwardDone, Break, HandleClose, Requeue,
     DropJob, Shutdown
<1> QED BY <1>2, <1>3, <1>4

\* djb_push() frees what it has just answered.
LEMMA FreedStep ==
  ASSUME IInv, FreedAnswered, [Next]_vars
  PROVE  FreedAnswered'
<1>0. freed \subseteq Req /\ answers \in [Req -> Seq(Req \cup {Err500})]
  BY DEF IInv, TypeOK, TypeEntries, TypeClients
<1>1. ASSUME NEW q \in Pullers, PushInternal(q) \/ \E body \in BOOLEAN : PushAnswer(q, body)
      PROVE  FreedAnswered'
  <2>1. ppr[q] \in Req /\ seqno[q] \in Req /\ freed' = freed \cup {ppr[q]}
        /\ answers' = [answers EXCEPT ![ppr[q]] = Append(@, seqno[q])]
    BY <1>1 DEF PushInternal, PushAnswer, IInv, TypeOK, TypePlugin
  <2>2. answers'[ppr[q]] = Append(answers[ppr[q]], seqno[q])
    BY <1>0, <2>1
  <2>3. answers'[ppr[q]] # <<>>
    <3>1. answers[ppr[q]] \in Seq(Req \cup {Err500}) /\ seqno[q] \in Req \cup {Err500}
      BY <1>0, <2>1
    <3> QED BY <2>2, <3>1
  <2> QED BY <1>0, <2>1, <2>3, AnswersGrow DEF FreedAnswered
<1>2. freed' = freed \/ \E q \in Pullers :
                          PushInternal(q) \/ \E body \in BOOLEAN : PushAnswer(q, body)
  BY DEF Next, vars, entryVars, Environment, Worker, Handler, Closer, PushJob,
     Request, RequestNoMemory, Pull, PullNoMemory, TakeRequest, TakePuller, ForwardClosed,
     ForwardStart, Publish, SendDone, SendBody, ForwardDone, WorkerExit, Push, PushRejected,
     PushFind, PushUnknown, PushInternalBody, PushClientGone, PushClosed, PushForwardDone, Break,
     HandleClose, Requeue, DropJob, Shutdown
<1> QED BY <1>0, <1>1, <1>2, AnswersGrow DEF FreedAnswered

-----------------------------------------------------------------------------
\* Who has a request

\* A step that pairs no request.  Jobs are new only if a puller was being given
\* them; a request begins to wait only when its circuit has gone.
LEMMA OwnersKept ==
  ASSUME IInv, Owned, Waiting, phcl' = phcl, conn \in [Conns -> {"open", "broken", "closed"}],
         \A x \in Conns : conn'[x] = "open" => conn[x] = "open",
         \A p \in Pullers : Handed(p)' /\ conn'[p] = "open"
                              => Handed(p) /\ seqno'[p] = seqno[p],
         held' \subseteq Job,
         \A j \in held' : j \in held \/ (Handed(j.by) /\ j.req = seqno[j.by]),
         \A r \in Req : Waits(r)' => Waits(r) \/ phcl[r] = None \/ conn'[phcl[r]] # "open",
         \A c \in Requesters : reqid'[c] >= reqid[c],
         reqid' \in [Requesters -> Nat]
  PROVE  Owned' /\ Waiting'
<1>0. /\ Pullers \subseteq Conns /\ phcl \in [Req -> Pullers \cup {None}]
      /\ reqid \in [Requesters -> Nat]
      /\ \A r \in Req : r[1] \in Requesters /\ r[2] \in Nat
  BY BoundAssumption DEF IInv, TypeOK, TypeEntries, TypeClients, Conns, Req
<1>1. Owned'
  <2>1. ASSUME NEW p \in Pullers, Handed(p)', conn'[p] = "open" PROVE phcl'[seqno'[p]] = p
    BY <1>0, <2>1 DEF Owned
  <2>2. ASSUME NEW j \in held', conn'[j.by] = "open" PROVE phcl'[j.req] = j.by
    <3>1. j.by \in Pullers /\ conn[j.by] = "open"
      BY <1>0, <2>2 DEF Job
    <3> QED BY <2>2, <3>1 DEF Owned
  <2> QED BY <2>1, <2>2 DEF Owned
<1>2. Waiting'
  <2>1. ASSUME NEW r \in Req, Waits(r)' PROVE Abandoned(r)'
    <3>1. phcl[r] \in Conns \/ phcl[r] = None
      BY <1>0
    <3>2. CASE Waits(r)
      BY <1>0, <3>1, <3>2 DEF Waiting, Abandoned
    <3> QED BY <2>1, <3>2 DEF Abandoned
  <2>2. ASSUME NEW r \in Req, r[2] > reqid'[r[1]] PROVE phcl'[r] = None
    <3>1. reqid'[r[1]] >= reqid[r[1]] /\ reqid'[r[1]] \in Nat /\ reqid[r[1]] \in Nat
          /\ r[2] \in Nat
      BY <1>0
    <3>2. r[2] > reqid[r[1]]
      BY <2>2, <3>1
    <3> QED BY <3>2 DEF Waiting
  <2> QED BY <2>1, <2>2 DEF Waiting
<1> QED BY <1>1, <1>2

\* What every step that leaves the lists and the workers alone keeps.
LEMMA WaitsKept ==
  ASSUME UNCHANGED <<proxyNew, wpr, wpc, moved>>, NEW r \in Req
  PROVE  Waits(r)' => Waits(r)
BY DEF Waits, InNew, ByClose

\* A plugin connection that is busy with a push is given nothing.
LEMMA NotHanded ==
  ASSUME IInv, NEW q \in Pullers, pst[q] \notin {"parked", "fwdbody"}
  PROVE  ~Handed(q)
<1>1. \A w \in Workers : war[w] # q
  BY DEF IInv, PullerInv, PullerServedOnce
<1> QED BY <1>1 DEF Handed

-----------------------------------------------------------------------------
\* One lemma per group of actions

\* The types the steps below need.
LEMMA Types ==
  ASSUME IInv
  PROVE  /\ conn \in [Conns -> {"open", "broken", "closed"}]
         /\ moved \in [Conns -> Req \cup {None}]
         /\ reqid \in [Requesters -> Nat] /\ held \subseteq Job
         /\ proxyNew \in Seq(Req) /\ proxyOut \in Seq(Req)
         /\ seqno \in [Pullers -> Req \cup {None}]
         /\ pst \in [Pullers -> {"idle", "parked", "fwdbody", "push", "found",
                                 "push2", "found2", "fwdpush"}]
         /\ wpr \in [Workers -> Req \cup {None}] /\ war \in [Workers -> Pullers \cup {None}]
         /\ wpc \in [Workers -> {"new", "pull", "check", "publish", "send", "exit"}]
         /\ phcl \in [Req -> Pullers \cup {None}]
         /\ Pullers \subseteq Conns
BY BoundAssumption DEF IInv, TypeOK, TypeQueues, TypeEntries, TypeWorkers, TypeConns, TypeClients,
                       TypePlugin, Conns

\* A step that leaves plugin connections, workers, lists and jobs alone.
LEMMA EnvironmentOwns ==
  ASSUME IInv, Owned, Waiting, Environment
  PROVE  Owned' /\ Waiting'
<1>0. /\ conn \in [Conns -> {"open", "broken", "closed"}] /\ reqid \in [Requesters -> Nat]
      /\ held \subseteq Job /\ proxyNew \in Seq(Req) /\ Pullers \subseteq Conns
      /\ seqno \in [Pullers -> Req \cup {None}]
      /\ pst \in [Pullers -> {"idle", "parked", "fwdbody", "push", "found",
                              "push2", "found2", "fwdpush"}]
  BY Types
<1>1. ASSUME NEW c \in Requesters, NEW body \in BOOLEAN, Request(c, body)
      PROVE  Owned' /\ Waiting'
  <2>1. /\ UNCHANGED <<phcl, conn, moved, wpc, wpr, war, pst, seqno, held>>
        /\ reqid' = [reqid EXCEPT ![c] = @ + 1]
    BY <1>1 DEF Request, entryVars, workerVars, connVars, pluginVars
  <2> PICK m \in Req : m = <<c, reqid[c] + 1>> /\ proxyNew' = Append(proxyNew, m)
    BY <1>1, BoundAssumption DEF Request, Req, IInv, TypeOK, TypeClients
  <2>2. ToSet(proxyNew)' = ToSet(proxyNew) \cup {m}
    BY <1>0, AppendSet
  <2>3. m[2] > reqid[m[1]]
    BY <1>0
  <2>4. \A r \in Req : Waits(r)' => Waits(r) \/ phcl[r] = None
    BY <2>1, <2>2, <2>3 DEF Waits, InNew, ByClose, Waiting
  <2>5. reqid' \in [Requesters -> Nat] /\ \A d \in Requesters : reqid'[d] >= reqid[d]
    BY <1>0, <2>1
  <2> QED BY <1>0, <2>1, <2>4, <2>5, OwnersKept DEF Handed
<1>2. ASSUME UNCHANGED <<phcl, proxyNew, wpr, wpc, war, moved, pst, seqno>>, held' \subseteq held,
             \A x \in Conns : conn'[x] = "open" => conn[x] = "open",
             reqid' \in [Requesters -> Nat], \A d \in Requesters : reqid'[d] >= reqid[d]
      PROVE  Owned' /\ Waiting'
  BY <1>0, <1>2, OwnersKept, WaitsKept DEF Handed
<1>3. ASSUME NEW x \in Conns, ErrorSent(x) \/ conn' = [conn EXCEPT ![x] = "broken"]
                              \/ conn' = conn
      PROVE  \A y \in Conns : conn'[y] = "open" => conn[y] = "open"
  BY <1>0, <1>3 DEF ErrorSent
<1>4. ASSUME NEW c \in Requesters, RequestNoMemory(c)
      PROVE  Owned' /\ Waiting'
  <2>1. /\ UNCHANGED <<phcl, proxyNew, wpr, wpc, war, moved, pst, seqno, held>>
        /\ reqid' = [reqid EXCEPT ![c] = @ + 1]
    BY <1>4 DEF RequestNoMemory, queueVars, entryVars, workerVars, pluginVars
  <2>2. \A y \in Conns : conn'[y] = "open" => conn[y] = "open"
    BY <1>3, <1>4 DEF RequestNoMemory, Conns
  <2>3. reqid' \in [Requesters -> Nat] /\ \A d \in Requesters : reqid'[d] >= reqid[d]
    BY <1>0, <2>1
  <2> QED BY <1>2, <2>1, <2>2, <2>3
<1>5. \A d \in Requesters : reqid[d] >= reqid[d]
  BY <1>0
<1>6. ASSUME NEW p \in Pullers, PullNoMemory(p)
      PROVE  Owned' /\ Waiting'
  <2>1. UNCHANGED <<phcl, proxyNew, wpr, wpc, war, moved, pst, seqno, held, reqid>>
    BY <1>6 DEF PullNoMemory, queueVars, entryVars, workerVars, pluginVars, clientVars
  <2> QED BY <1>0, <1>2, <1>3, <1>5, <1>6, <2>1 DEF PullNoMemory
<1>7. ASSUME NEW p \in Pullers, PushRejected(p)
      PROVE  Owned' /\ Waiting'
  <2>1. UNCHANGED <<phcl, proxyNew, wpr, wpc, war, moved, held, reqid>>
    BY <1>7 DEF PushRejected, queueVars, entryVars, workerVars, clientVars
  <2>2. \A q \in Pullers : Handed(q)' => Handed(q) /\ seqno'[q] = seqno[q]
    <3>1. pst[p] = "push" /\ ~Handed(p)
      BY <1>7, NotHanded DEF PushRejected
    <3>2. pst'[p] = "idle" /\ \A q \in Pullers \ {p} : pst'[q] = pst[q] /\ seqno'[q] = seqno[q]
      BY <1>0, <1>7 DEF PushRejected, PullerDone
    <3> QED BY <2>1, <3>1, <3>2 DEF Handed
  <2>3. \A y \in Conns : conn'[y] = "open" => conn[y] = "open"
    BY <1>0, <1>3, <1>7 DEF PushRejected
  <2> QED BY <1>0, <1>5, <2>1, <2>2, <2>3, OwnersKept, WaitsKept
<1>8. ASSUME NEW j \in Job, DropJob(j)
      PROVE  Owned' /\ Waiting'
  <2>1. UNCHANGED <<phcl, proxyNew, wpr, wpc, war, moved, pst, seqno, conn, reqid>>
        /\ held' \subseteq held
    BY <1>8 DEF DropJob, queueVars, entryVars, workerVars, connVars, clientVars
  <2> QED BY <1>0, <1>2, <1>5, <2>1
<1>9. ASSUME NEW x \in Conns, Break(x)
      PROVE  Owned' /\ Waiting'
  <2>1. UNCHANGED <<phcl, proxyNew, wpr, wpc, war, moved, pst, seqno, held, reqid>>
    BY <1>9 DEF Break, queueVars, entryVars, workerVars, pluginVars, clientVars
  <2> QED BY <1>0, <1>2, <1>3, <1>5, <1>9, <2>1 DEF Break
<1>10. CASE Shutdown
  <2>1. UNCHANGED <<phcl, proxyNew, wpr, wpc, war, moved, pst, seqno, held, conn, reqid>>
    BY <1>10 DEF Shutdown, queueVars, entryVars, workerVars, connVars, pluginVars, clientVars
  <2> QED BY <1>0, <1>2, <1>5, <2>1
<1> QED BY <1>1, <1>4, <1>6, <1>7, <1>8, <1>9, <1>10 DEF Environment

\* A worker that pairs a request takes one that waited: no circuit has it.
LEMMA ForwardStartOwns ==
  ASSUME IInv, Owned, Waiting, NEW w \in Workers, ForwardStart(w)
  PROVE  Owned' /\ Waiting'
<1>0. /\ seqno \in [Pullers -> Req \cup {None}] /\ held \subseteq Job
      /\ wpc \in [Workers -> {"new", "pull", "check", "publish", "send", "exit"}]
      /\ phcl \in [Req -> Pullers \cup {None}] /\ Pullers \subseteq Conns
      /\ wpr \in [Workers -> Req \cup {None}]
  BY Types
<1> DEFINE pr == wpr[w]
           ar == war[w]
<1>1. /\ pr \in Req /\ ar \in Pullers /\ wpc[w] = "check"
      /\ UNCHANGED <<proxyNew, moved, wpr, war, pst, held, conn, reqid>>
      /\ wpc' = [wpc EXCEPT ![w] = "publish"] /\ phcl' = [phcl EXCEPT ![pr] = ar]
      /\ seqno' = [seqno EXCEPT ![ar] = <<pr[1], reqid[pr[1]]>>]
  BY DEF ForwardStart, IInv, TypeOK, TypeWorkers, queueVars, connVars, clientVars
<1> HIDE DEF pr, ar
<1>2. Waits(pr) /\ Abandoned(pr)
  BY <1>1 DEF pr, Waits, Waiting
<1>3. <<pr[1], reqid[pr[1]]>> = pr
  <2>1. Tracked(pr)
    <3>1. ByWorker(w, pr)
      BY <1>1 DEF pr, ByWorker
    <3> QED BY <1>1, <3>1, OnlyWorker DEF IInv
  <2> QED BY <1>1, <2>1, ReqFacts DEF IInv, SeqNoIsCurrent
<1>4. \A p \in Pullers \ {ar} : Handed(p)' => Handed(p) /\ seqno'[p] = seqno[p]
  BY <1>0, <1>1 DEF Handed, ar
<1>5. Owned'
  <2>1. phcl'[seqno'[ar]] = ar
    BY <1>0, <1>1, <1>3
  <2>2. ASSUME NEW p \in Pullers \ {ar}, Handed(p)', conn[p] = "open"
        PROVE  phcl'[seqno'[p]] = p
    <3>1. phcl[seqno[p]] = p /\ seqno'[p] = seqno[p]
      BY <1>4, <2>2 DEF Owned
    <3>2. seqno[p] # pr
      BY <1>2, <2>2, <3>1, NoneAssumption DEF Abandoned
    <3> QED BY <1>0, <1>1, <3>1, <3>2
  <2>3. ASSUME NEW j \in held, conn[j.by] = "open" PROVE phcl'[j.req] = j.by
    <3>1. phcl[j.req] = j.by /\ j.by \in Pullers /\ j.req \in Req
      BY <1>0, <2>3 DEF Owned, Job
    <3>2. j.req # pr
      BY <1>2, <2>3, <3>1, NoneAssumption DEF Abandoned
    <3> QED BY <1>0, <1>1, <3>1, <3>2
  <2> QED BY <1>1, <2>1, <2>2, <2>3 DEF Owned
<1>6. Waiting'
  <2>1. ASSUME NEW r \in Req, Waits(r)' PROVE r # pr /\ Waits(r)
    <3>1. ByWorker(w, pr) /\ SinglePlace
      BY <1>1 DEF pr, ByWorker, IInv
    <3>2. /\ ~InNew(pr) /\ \A v \in Workers \ {w} : ~ByWorker(v, pr)
          /\ \A x \in Conns : ~ByClose(x, pr)
      BY <1>1, <3>1, OnlyWorker
    <3>3. wpc'[w] = "publish" /\ \A v \in Workers \ {w} : wpc'[v] = wpc[v]
      BY <1>0, <1>1
    <3> QED BY <1>1, <2>1, <3>2, <3>3 DEF Waits, InNew, ByClose, ByWorker
  <2>2. \A r \in Req : Waits(r)' => Abandoned(r)'
    BY <1>0, <1>1, <2>1 DEF Waiting, Abandoned
  <2>3. pr[2] \in Nat /\ ~(pr[2] > reqid[pr[1]])
    BY <1>1, <1>3, ReqFacts
  <2>4. \A r \in Req : r[2] > reqid'[r[1]] => phcl'[r] = None
    BY <1>0, <1>1, <2>3 DEF Waiting
  <2> QED BY <2>2, <2>4 DEF Waiting
<1> QED BY <1>5, <1>6

\* The other steps of a worker: what it served its puller is what it paired.
LEMMA WorkerOwns ==
  ASSUME IInv, Owned, Waiting, NEW w \in Workers, Worker(w)
  PROVE  Owned' /\ Waiting'
<1>0. /\ conn \in [Conns -> {"open", "broken", "closed"}] /\ reqid \in [Requesters -> Nat]
      /\ held \subseteq Job /\ proxyNew \in Seq(Req)
      /\ seqno \in [Pullers -> Req \cup {None}]
      /\ pst \in [Pullers -> {"idle", "parked", "fwdbody", "push", "found",
                              "push2", "found2", "fwdpush"}]
      /\ wpr \in [Workers -> Req \cup {None}] /\ war \in [Workers -> Pullers \cup {None}]
      /\ wpc \in [Workers -> {"new", "pull", "check", "publish", "send", "exit"}]
      /\ \A d \in Requesters : reqid[d] >= reqid[d]
  BY Types
<1>1. CASE TakeRequest(w)
  <2>1. UNCHANGED <<phcl, war, moved, pst, seqno, held, conn, reqid>>
    BY <1>1 DEF TakeRequest, entryVars, connVars, clientVars, pluginVars
  <2>2. /\ wpc[w] = "new" /\ wpc'[w] = "pull" /\ wpr'[w] = Head(proxyNew)
        /\ \A v \in Workers \ {w} : wpc'[v] = wpc[v] /\ wpr'[v] = wpr[v]
    BY <1>0, <1>1 DEF TakeRequest
  <2>3. ToSet(proxyNew) = ToSet(proxyNew)' \cup {Head(proxyNew)}
    BY <1>0, <1>1, TailSet DEF TakeRequest
  <2>4. \A r \in Req : Waits(r)' => Waits(r)
    BY <2>1, <2>2, <2>3 DEF Waits, InNew, ByClose
  <2>5. \A p \in Pullers : Handed(p)' => Handed(p)
    BY <2>1, <2>2 DEF Handed
  <2> QED BY <1>0, <2>1, <2>4, <2>5, OwnersKept
<1>2. CASE TakePuller(w) \/ Publish(w) \/ WorkerExit(w)
  <2>1. UNCHANGED <<phcl, proxyNew, moved, pst, seqno, held, conn, reqid>>
    BY <1>2 DEF TakePuller, Publish, WorkerExit, queueVars, entryVars, connVars, clientVars,
                pluginVars
  <2>2. /\ \/ wpc[w] = "pull" /\ wpc'[w] = "check" /\ wpr' = wpr
           \/ wpc[w] = "publish" /\ wpc'[w] = "send" /\ wpr' = wpr /\ war' = war
           \/ wpc'[w] = "exit" /\ \A v \in Workers \ {w} : wpr'[v] = wpr[v]
        /\ \A v \in Workers \ {w} : wpc'[v] = wpc[v] /\ war'[v] = war[v]
    BY <1>0, <1>2 DEF TakePuller, Publish, WorkerExit
  <2>3. \A r \in Req : Waits(r)' => Waits(r)
    BY <2>1, <2>2 DEF Waits, InNew, ByClose
  <2>4. \A p \in Pullers : Handed(p)' => Handed(p)
    BY <2>1, <2>2 DEF Handed
  <2> QED BY <1>0, <2>1, <2>3, <2>4, OwnersKept
<1>3. CASE ForwardClosed(w) \/ SendDone(w) \/ SendBody(w)
  <2> PICK ar \in Pullers : ar = war[w]
    BY <1>3 DEF ForwardClosed, SendDone, SendBody, IInv, TypeOK, TypeWorkers
  <2>1. UNCHANGED <<phcl, proxyNew, moved, conn, reqid>>
    BY <1>3 DEF ForwardClosed, SendDone, SendBody, queueVars, entryVars, connVars, clientVars
  <2>2. /\ \/ wpc' = wpc /\ wpr' = wpr /\ war' = war
           \/ wpc'[w] = "new" /\ wpr'[w] = None /\ war'[w] = None
        /\ \A v \in Workers \ {w} : /\ wpc'[v] = wpc[v] /\ wpr'[v] = wpr[v]
                                    /\ war'[v] = war[v]
    BY <1>0, <1>3 DEF ForwardClosed, SendDone, SendBody, WorkerDone, workerVars
  <2>3. \A r \in Req : Waits(r)' => Waits(r)
    BY <2>1, <2>2, NoneAssumption DEF Waits, InNew, ByClose
  <2>4. \A p \in Pullers \ {ar} : pst'[p] = pst[p] /\ seqno'[p] = seqno[p]
    BY <1>0, <1>3 DEF ForwardClosed, SendDone, SendBody, PullerDone, pluginVars
  <2>5. Handed(ar)' => Handed(ar) /\ seqno'[ar] = seqno[ar]
    <3>1. CASE UNCHANGED <<pst, workerVars, seqno>>
      BY <3>1 DEF Handed, workerVars
    <3>2. CASE PullerDone(ar) /\ WorkerDone(w)
      <4>1. pst'[ar] = "idle"
        BY <1>0, <2>1, <3>2 DEF PullerDone
      <4>2. war'[w] = None /\ \A v \in Workers \ {w} : war'[v] # ar
        BY <1>0, <3>2, NoneAssumption DEF WorkerDone, IInv, PullerInv, PullerServedOnce
      <4> QED BY <4>1, <4>2, NoneAssumption DEF Handed
    <3>3. CASE wpc[w] = "send" /\ UNCHANGED seqno
      BY <3>3 DEF Handed
    <3> QED BY <1>3, <3>1, <3>2, <3>3 DEF ForwardClosed, SendDone, SendBody, pluginVars
  <2>6. \A p \in Pullers : Handed(p)' => Handed(p) /\ seqno'[p] = seqno[p]
    BY <2>2, <2>4, <2>5, NoneAssumption DEF Handed
  <2>7. /\ held' \subseteq Job
        /\ \A j \in held' : j \in held \/ (Handed(j.by) /\ j.req = seqno[j.by])
    <3>1. CASE held' = held
      BY <1>0, <3>1
    <3>2. CASE SendDone(w)
      <4>1. seqno[ar] \in Req
        BY <1>0, <2>1, <3>2 DEF SendDone, IInv, PullerInv, SeqNoGiven
      <4>2. Handed(ar)
        BY <3>2 DEF SendDone, Handed
      <4> QED BY <1>0, <2>1, <3>2, <4>1, <4>2 DEF SendDone, Deliver, Job
    <3> QED BY <1>3, <3>1, <3>2 DEF ForwardClosed, SendBody, pluginVars
  <2> QED BY <1>0, <2>1, <2>3, <2>6, <2>7, OwnersKept
<1> QED BY <1>1, <1>2, <1>3, ForwardStartOwns DEF Worker

\* djb_push(), and the end of a copied body.
LEMMA PluginOwns ==
  ASSUME IInv, Owned, Waiting, NEW q \in Pullers,
         Pull(q) \/ Handler(q) \/ \E j \in Job : Push(q, j)
  PROVE  Owned' /\ Waiting'
<1>0. /\ conn \in [Conns -> {"open", "broken", "closed"}] /\ reqid \in [Requesters -> Nat]
      /\ held \subseteq Job /\ Pullers \subseteq Conns
      /\ seqno \in [Pullers -> Req \cup {None}]
      /\ pst \in [Pullers -> {"idle", "parked", "fwdbody", "push", "found",
                              "push2", "found2", "fwdpush"}]
      /\ \A d \in Requesters : reqid[d] >= reqid[d]
  BY Types
<1>1. UNCHANGED <<phcl, proxyNew, moved, wpc, wpr, war, reqid>>
  BY DEF Pull, Handler, Push, ForwardDone, PushFind, PushUnknown, PushInternalBody, PushInternal,
         PushClientGone, PushClosed, PushForwardDone, PushAnswer, queueVars, entryVars, connVars,
         workerVars, clientVars
<1>2. \A x \in Conns : conn'[x] = "open" => conn[x] = "open"
  BY <1>0 DEF Pull, Handler, Push, ForwardDone, PushFind, PushUnknown, PushInternalBody,
              PushInternal, PushClientGone, PushClosed, PushForwardDone, PushAnswer, ErrorSent,
              connVars
<1>3. \A p \in Pullers \ {q} : pst'[p] = pst[p] /\ seqno'[p] = seqno[p]
  BY <1>0 DEF Pull, Handler, Push, ForwardDone, PushFind, PushUnknown, PushInternalBody,
              PushInternal, PushClientGone, PushClosed, PushForwardDone, PushAnswer, PullerDone
<1>4. ~Handed(q)'
  <2>1. pst'[q] # "fwdbody"
    BY <1>0 DEF Pull, Handler, Push, ForwardDone, PushFind, PushUnknown, PushInternalBody,
                PushInternal, PushClientGone, PushClosed, PushForwardDone, PushAnswer, PullerDone
  <2>2. pst[q] # "parked"
    BY DEF Pull, Handler, Push, ForwardDone, PushFind, PushCalled, PushUnknown, PushInternalBody,
           PushInternal, PushClientGone, PushClosed, PushForwardDone, PushAnswer
  <2>3. \A w \in Workers : war[w] # q
    BY <2>2 DEF IInv, PullerInv, PullerServedOnce
  <2> QED BY <1>1, <2>1, <2>3 DEF Handed
<1>5. \A p \in Pullers : Handed(p)' => Handed(p) /\ seqno'[p] = seqno[p]
  BY <1>1, <1>3, <1>4 DEF Handed
<1>6. /\ held' \subseteq Job
      /\ \A j \in held' : j \in held \/ (Handed(j.by) /\ j.req = seqno[j.by])
  <2>1. CASE held' \subseteq held
    BY <1>0, <2>1
  <2>2. CASE ForwardDone(q)
    <3>1. Handed(q) /\ seqno[q] \in Req
      BY <1>0, <2>2 DEF ForwardDone, Handed, IInv, TypeOK, TypePlugin
    <3> QED BY <1>0, <2>2, <3>1 DEF ForwardDone, Deliver, Job
  <2> QED BY <2>1, <2>2
          DEF Pull, Handler, Push, PushFind, PushUnknown, PushInternalBody, PushInternal,
              PushClientGone, PushClosed, PushForwardDone, PushAnswer
<1> QED BY <1>0, <1>1, <1>2, <1>5, <1>6, OwnersKept, WaitsKept

\* djb_close(): what it moves was paired with the connection that closes.
LEMMA CloserOwns ==
  ASSUME IInv, Owned, Waiting, NEW x \in Conns, Closer(x)
  PROVE  Owned' /\ Waiting'
<1>0. /\ conn \in [Conns -> {"open", "broken", "closed"}] /\ reqid \in [Requesters -> Nat]
      /\ moved \in [Conns -> Req \cup {None}] /\ held \subseteq Job
      /\ proxyNew \in Seq(Req) /\ proxyOut \in Seq(Req)
      /\ \A d \in Requesters : reqid[d] >= reqid[d]
  BY Types
<1>1. UNCHANGED <<phcl, wpc, wpr, war, pst, seqno, held, reqid>>
  BY DEF Closer, HandleClose, Requeue, entryVars, workerVars, clientVars, pluginVars
<1>2. \A y \in Conns : conn'[y] = "open" => conn[y] = "open"
  BY <1>0 DEF Closer, HandleClose, Requeue
<1>3. \A p \in Pullers : Handed(p)' => Handed(p) /\ seqno'[p] = seqno[p]
  BY <1>1 DEF Handed
<1>4. \A r \in Req : Waits(r)' => Waits(r) \/ phcl[r] = None \/ conn'[phcl[r]] # "open"
  <2>1. CASE HandleClose(x)
    <3>1. proxyNew' = proxyNew /\ conn'[x] = "closed"
      BY <1>0, <2>1 DEF HandleClose
    <3>2. CASE moved' = moved
      BY <1>1, <3>1, <3>2, WaitsKept
    <3>3. ASSUME NEW i \in DOMAIN proxyOut, IsFirst(i, Paired(x)),
                 moved' = [moved EXCEPT ![x] = proxyOut[i]]
          PROVE  \A r \in Req : Waits(r)' => Waits(r) \/ phcl[r] = None \/ conn'[phcl[r]] # "open"
      <4>1. phcl[proxyOut[i]] = x
        BY <3>3 DEF IsFirst, Paired
      <4>2. \A r \in Req : Waits(r)' => Waits(r) \/ r = proxyOut[i]
        BY <1>0, <1>1, <3>1, <3>3 DEF Waits, InNew, ByClose
      <4> QED BY <3>1, <4>1, <4>2
    <3> QED BY <2>1, <3>2, <3>3 DEF HandleClose
  <2>2. CASE Requeue(x)
    <3>1. moved[x] \in Req /\ moved' = [moved EXCEPT ![x] = None]
      BY <1>0, <2>2 DEF Requeue
    <3>2. ToSet(proxyNew)' = ToSet(proxyNew) \cup {moved[x]}
      BY <1>0, <2>2, <3>1, AppendSet DEF Requeue
    <3>3. \A r \in Req : Waits(r)' => Waits(r)
      BY <1>0, <1>1, <3>1, <3>2, NoneAssumption DEF Waits, InNew, ByClose
    <3> QED BY <3>3
  <2> QED BY <2>1, <2>2 DEF Closer
<1> QED BY <1>0, <1>1, <1>2, <1>3, <1>4, OwnersKept

-----------------------------------------------------------------------------
\* The theorems

LEMMA InitWork == Init => WorkInv
<1> SUFFICES ASSUME Init PROVE WorkInv
  OBVIOUS
<1>1. /\ proxyNew = <<>> /\ freed = {} /\ held = {}
      /\ \A r \in Req : phcl[r] = None /\ \A x \in Conns : moved[x] # r
      /\ \A p \in Pullers : pst[p] # "fwdbody"
      /\ \A w \in Workers : wpc[w] = "new"
  BY NoneAssumption DEF Init
<1>2. Owned
  BY <1>1 DEF Owned, Handed
<1>3. Waiting
  BY <1>1 DEF Waiting, Waits, InNew, ByClose, ToSet, Abandoned
<1> QED BY <1>1, <1>2, <1>3 DEF WorkInv, FreedAnswered

LEMMA NextWork == IInv /\ WorkInv /\ [Next]_vars => WorkInv'
<1> SUFFICES ASSUME IInv, WorkInv, [Next]_vars PROVE WorkInv'
  OBVIOUS
<1>0. Owned /\ Waiting /\ FreedAnswered'
  BY FreedStep DEF WorkInv
<1>1. ASSUME Environment PROVE Owned' /\ Waiting'
  BY <1>0, <1>1, EnvironmentOwns
<1>2. ASSUME NEW w \in Workers, Worker(w) PROVE Owned' /\ Waiting'
  BY <1>0, <1>2, WorkerOwns
<1>3. ASSUME NEW p \in Pullers, Pull(p) \/ Handler(p) PROVE Owned' /\ Waiting'
  BY <1>0, <1>3, PluginOwns
<1>4. ASSUME NEW j \in Job, PushJob(j) PROVE Owned' /\ Waiting'
  BY <1>0, <1>4, PluginOwns DEF PushJob
<1>5. ASSUME NEW x \in Conns, Closer(x) PROVE Owned' /\ Waiting'
  BY <1>0, <1>5, CloserOwns
<1>6. ASSUME UNCHANGED vars PROVE Owned' /\ Waiting'
  <2>1. UNCHANGED <<proxyNew, phcl, wpc, wpr, war, conn, moved, reqid, pst, seqno, held>>
    BY <1>6 DEF vars, queueVars, entryVars, workerVars, connVars, clientVars, pluginVars
  <2>2. Owned'
    BY <1>0, <2>1 DEF Owned, Handed
  <2>3. \A r \in Req : (Waits(r)' => Waits(r)) /\ (Abandoned(r) => Abandoned(r)')
    BY <2>1 DEF Waits, InNew, ByClose, Abandoned
  <2>4. Waiting'
    BY <1>0, <2>1, <2>3 DEF Waiting
  <2> QED BY <2>2, <2>4
<1>7. Owned' /\ Waiting'
  BY <1>1, <1>2, <1>3, <1>4, <1>5, <1>6 DEF Next
<1> QED BY <1>0, <1>7 DEF WorkInv

LEMMA WorkInvariance == Spec => []WorkInv
BY InitWork, NextWork, Invariance, PTL DEF Spec

\* Two circuits with live connections never have the same request in hand,
\* whatever is rescheduled, dropped or late (djb_close(), phcl_id).
THEOREM WorkDoneOnce == Spec => []NoDoubleWork
<1>1. IInv /\ WorkInv => NoDoubleWork
  <2> SUFFICES ASSUME IInv, WorkInv, NEW j \in held, NEW k \in held, j # k, j.req = k.req,
                      conn[j.by] = "open", conn[k.by] = "open"
               PROVE  FALSE
    BY DEF NoDoubleWork
  <2>1. j.by = k.by
    BY DEF WorkInv, Owned
  <2>2. j \in Job /\ k \in Job
    BY Types
  <2> QED BY <2>1, <2>2 DEF Job
<1> QED BY <1>1, Invariance, WorkInvariance, PTL

\* What djb_push() frees is in no place it could be found again.
THEOREM FreedIsGone == Spec => []FreedUntracked
<1>1. IInv /\ WorkInv => FreedUntracked
  BY DEF IInv, WorkInv, FreedAnswered, SeqNoIsCurrent, FreedUntracked, TypeOK, TypeEntries
<1> QED BY <1>1, Invariance, WorkInvariance, PTL

-----------------------------------------------------------------------------
(***************************************************************************)
(* Nobody but the plugin makes djb wait for nothing.  What may change a    *)
(* plugin connection, a worker, a job, a pairing or lst_proxy_out is said  *)
(* first; then each kind of circuit that works on a request goes on        *)
(* working on it, or hands it to the next kind.                            *)
(***************************************************************************)

\* The request a worker publishes is paired with the puller it was sent to, and
\* that puller was told its number.
PublishesPaired == \A w \in Workers : wpc[w] = "publish" =>
  phcl[wpr[w]] = war[w] /\ seqno[war[w]] = wpr[w]

\* What is outstanding, or was found by a push, has been paired with a connection.
OutPaired == \A r \in Req : InOut(r) \/ (\E q \in Pullers : ByPush(q, r)) => phcl[r] \in Pullers

\* What a worker does to the connection of its puller.
Serves(w, p) == war[w] = p /\ (ForwardClosed(w) \/ ForwardStart(w) \/ SendDone(w) \/ SendBody(w))

\* What the plugin does on a connection, or djb for what was sent on it.
Uses(p) == Pull(p) \/ Handler(p) \/ PushRejected(p) \/ \E j \in Job : Push(p, j)

LEMMA PluginTouched ==
  ASSUME IInv, [Next]_vars, NEW p \in Pullers
  PROVE  \/ pst'[p] = pst[p] /\ seqno'[p] = seqno[p]
         \/ Uses(p) \/ \E w \in Workers : Serves(w, p)
<1>0. /\ seqno \in [Pullers -> Req \cup {None}]
      /\ pst \in [Pullers -> {"idle", "parked", "fwdbody", "push", "found",
                              "push2", "found2", "fwdpush"}]
  BY Types
<1>1. ASSUME Environment PROVE (pst'[p] = pst[p] /\ seqno'[p] = seqno[p]) \/ Uses(p)
  BY <1>0, <1>1 DEF Environment, Request, RequestNoMemory, PullNoMemory, PushRejected, DropJob,
                    Break, Shutdown, pluginVars, PullerDone, Uses
<1>2. ASSUME NEW w \in Workers, Worker(w)
      PROVE  (pst'[p] = pst[p] /\ seqno'[p] = seqno[p]) \/ Serves(w, p)
  BY <1>0, <1>2 DEF Worker, TakeRequest, TakePuller, ForwardClosed, ForwardStart, Publish,
                    SendDone, SendBody, WorkerExit, pluginVars, PullerDone, Serves
<1>3. ASSUME NEW q \in Pullers, q # p,
             Pull(q) \/ Handler(q) \/ \E j \in Job : Push(q, j)
      PROVE  pst'[p] = pst[p] /\ seqno'[p] = seqno[p]
  BY <1>0, <1>3 DEF Pull, Handler, Push, ForwardDone, PushFind, PushUnknown, PushInternalBody,
                    PushInternal, PushClientGone, PushClosed, PushForwardDone, PushAnswer,
                    PullerDone
<1>4. ASSUME NEW x \in Conns, Closer(x) PROVE pst'[p] = pst[p] /\ seqno'[p] = seqno[p]
  BY <1>4 DEF Closer, HandleClose, Requeue, pluginVars
<1>5. ASSUME UNCHANGED vars PROVE pst'[p] = pst[p] /\ seqno'[p] = seqno[p]
  BY <1>5 DEF vars, pluginVars
<1> QED BY <1>1, <1>2, <1>3, <1>4, <1>5 DEF Next, PushJob, Uses

\* Only its own steps change a worker.
LEMMA WorkerTouched ==
  ASSUME IInv, [Next]_vars, NEW w \in Workers
  PROVE  \/ wpc'[w] = wpc[w] /\ wpr'[w] = wpr[w] /\ war'[w] = war[w]
         \/ Worker(w)
<1>0. /\ wpr \in [Workers -> Req \cup {None}] /\ war \in [Workers -> Pullers \cup {None}]
      /\ wpc \in [Workers -> {"new", "pull", "check", "publish", "send", "exit"}]
  BY Types
<1>1. ASSUME NEW v \in Workers, v # w, Worker(v)
      PROVE  wpc'[w] = wpc[w] /\ wpr'[w] = wpr[w] /\ war'[w] = war[w]
  BY <1>0, <1>1 DEF Worker, TakeRequest, TakePuller, ForwardClosed, ForwardStart, Publish,
                    SendDone, SendBody, WorkerExit, workerVars, WorkerDone
<1>2. UNCHANGED workerVars \/ \E v \in Workers : Worker(v)
  BY DEF Next, vars, Environment, Handler, Closer, PushJob, Request, RequestNoMemory, Pull,
     PullNoMemory, ForwardDone, Push, PushRejected, PushFind, PushUnknown, PushInternalBody,
     PushInternal, PushClientGone, PushClosed, PushAnswer, PushForwardDone, Break, HandleClose,
     Requeue, DropJob, Shutdown
<1> QED BY <1>1, <1>2 DEF workerVars

\* A job leaves the plugin by a push or because the plugin loses it.
LEMMA HeldTouched ==
  ASSUME IInv, [Next]_vars, NEW j \in held
  PROVE  j \in held' \/ PushJob(j) \/ DropJob(j)
<1>1. ASSUME NEW k \in Job, DropJob(k) \/ PushJob(k) PROVE j \in held' \/ k = j
  BY <1>1 DEF DropJob, PushJob, Push
<1>2. held \subseteq held' \/ \E k \in Job : DropJob(k) \/ PushJob(k)
  BY DEF Next, vars, pluginVars, Environment, Worker, Handler, Closer, Deliver, Request,
     RequestNoMemory, Pull, PullNoMemory, TakeRequest, TakePuller, ForwardClosed, ForwardStart,
     Publish, SendDone, SendBody, ForwardDone, WorkerExit, PushRejected, PushFind, PushUnknown,
     PushInternalBody, PushInternal, PushClientGone, PushClosed, PushAnswer, PushForwardDone,
     Break, HandleClose, Requeue, Shutdown
<1> QED BY <1>1, <1>2

\* Only djb_handle_forward() pairs a request.
LEMMA PairingTouched ==
  ASSUME IInv, [Next]_vars, NEW r \in Req
  PROVE  phcl'[r] = phcl[r] \/ \E w \in Workers : wpr[w] = r /\ ForwardStart(w)
<1>0. phcl \in [Req -> Pullers \cup {None}]
  BY Types
<1>1. phcl' = phcl \/ \E w \in Workers : ForwardStart(w)
  BY DEF Next, vars, entryVars, Environment, Worker, Handler, Closer, PushJob, Request,
     RequestNoMemory, Pull, PullNoMemory, TakeRequest, TakePuller, ForwardClosed, Publish,
     SendDone, SendBody, ForwardDone, WorkerExit, Push, PushRejected, PushFind, PushUnknown,
     PushInternalBody, PushInternal, PushClientGone, PushClosed, PushAnswer, PushForwardDone,
     Break, HandleClose, Requeue, DropJob, Shutdown
<1> QED BY <1>0, <1>1 DEF ForwardStart

\* A connection that has gone does not come back.
LEMMA ConnStaysGone ==
  ASSUME IInv, [Next]_vars, NEW x \in Conns, conn'[x] = "open"
  PROVE  conn[x] = "open"
<1>0. conn \in [Conns -> {"open", "broken", "closed"}] /\ Pullers \subseteq Conns
  BY Types
<1>1. \/ conn' = conn
      \/ \E y \in Conns : ErrorSent(y) \/ Break(y) \/ HandleClose(y)
  BY <1>0 DEF Next, vars, connVars, Environment, Worker, Handler, Closer, PushJob, Conns,
     Request, RequestNoMemory, Pull, PullNoMemory, TakeRequest, TakePuller, ForwardClosed,
     ForwardStart, Publish, SendDone, SendBody, ForwardDone, WorkerExit, Push, PushRejected,
     PushFind, PushUnknown, PushInternalBody, PushInternal, PushClientGone, PushClosed,
     PushAnswer, PushForwardDone, Requeue, DropJob, Shutdown
<1> QED BY <1>0, <1>1 DEF ErrorSent, Break, HandleClose

\* A request gets on lst_proxy_out by a worker, or back from a push.
LEMMA OutTouched ==
  ASSUME IInv, [Next]_vars, NEW r \in Req, InOut(r)', ~InOut(r)
  PROVE  \/ \E w \in Workers : wpr[w] = r /\ Publish(w)
         \/ \E q \in Pullers : ppr[q] = r /\ PushInternalBody(q)
<1>0. /\ proxyOut \in Seq(Req) /\ IsInjective(proxyOut)
      /\ wpr \in [Workers -> Req \cup {None}]
  BY Types DEF IInv, SinglePlace
<1>1. ASSUME NEW i \in DOMAIN proxyOut, proxyOut' = Unlink(proxyOut, i) PROVE FALSE
  BY <1>0, <1>1, UnlinkSet DEF InOut
<1>2. ASSUME NEW m \in Req, proxyOut' = Append(proxyOut, m) PROVE m = r
  BY <1>0, <1>2, AppendSet DEF InOut
<1>3. ASSUME NEW w \in Workers, Publish(w) PROVE wpr[w] = r
  BY <1>0, <1>2, <1>3 DEF Publish, IInv, TypeOK, TypeWorkers
<1>4. ASSUME NEW q \in Pullers, PushInternalBody(q) PROVE ppr[q] = r
  BY <1>2, <1>4 DEF PushInternalBody, IInv, TypeOK, TypePlugin
<1>5. \/ proxyOut' = proxyOut
      \/ \E i \in DOMAIN proxyOut : proxyOut' = Unlink(proxyOut, i)
      \/ \E w \in Workers : Publish(w)
      \/ \E q \in Pullers : PushInternalBody(q)
  BY DEF Next, vars, queueVars, Environment, Worker, Handler, Closer, PushJob,
     Request, RequestNoMemory, Pull, PullNoMemory, TakeRequest, TakePuller, ForwardClosed,
     ForwardStart, SendDone, SendBody, ForwardDone, WorkerExit, Push, PushRejected,
     PushFind, PushUnknown, PushInternal, PushClientGone, PushClosed, PushAnswer,
     PushForwardDone, Break, HandleClose, Requeue, DropJob, Shutdown
<1> QED BY <1>1, <1>3, <1>4, <1>5 DEF InOut

\* A worker tells its puller the number of the request it pairs with it, and
\* nobody else touches either before the request is published.
LEMMA PairedStep ==
  ASSUME IInv, PublishesPaired, [Next]_vars
  PROVE  PublishesPaired'
<1> SUFFICES ASSUME NEW w \in Workers, wpc'[w] = "publish"
             PROVE  phcl'[wpr'[w]] = war'[w] /\ seqno'[war'[w]] = wpr'[w]
  BY DEF PublishesPaired
<1>0. /\ seqno \in [Pullers -> Req \cup {None}]
      /\ wpc \in [Workers -> {"new", "pull", "check", "publish", "send", "exit"}]
      /\ phcl \in [Req -> Pullers \cup {None}]
  BY Types
<1>1. CASE ForwardStart(w)
  <2>1. /\ wpr[w] \in Req /\ war[w] \in Pullers /\ wpc[w] = "check"
        /\ UNCHANGED <<wpr, war>>
        /\ phcl' = [phcl EXCEPT ![wpr[w]] = war[w]]
        /\ seqno' = [seqno EXCEPT ![war[w]] = <<wpr[w][1], reqid[wpr[w][1]]>>]
    BY <1>1 DEF ForwardStart, IInv, TypeOK, TypeWorkers
  <2>2. <<wpr[w][1], reqid[wpr[w][1]]>> = wpr[w]
    <3>1. ByWorker(w, wpr[w])
      BY <2>1 DEF ByWorker
    <3>2. Tracked(wpr[w])
      BY <2>1, <3>1, OnlyWorker DEF IInv
    <3> QED BY <2>1, <3>2, ReqFacts DEF IInv, SeqNoIsCurrent
  <2>3. phcl'[wpr[w]] = war[w] /\ seqno'[war[w]] = wpr[w]
    BY <1>0, <2>1, <2>2
  <2> QED BY <2>1, <2>3
<1>2. CASE ~ForwardStart(w)
  <2>1. wpc[w] = "publish" /\ wpr'[w] = wpr[w] /\ war'[w] = war[w]
    <3>1. CASE Worker(w)
      BY <1>0, <1>2, <3>1 DEF Worker, TakeRequest, TakePuller, ForwardClosed, Publish, SendDone,
                              SendBody, WorkerExit, WorkerDone, workerVars
    <3> QED BY <3>1, WorkerTouched
  <2>2. /\ wpr[w] \in Req /\ war[w] \in Pullers
        /\ phcl[wpr[w]] = war[w] /\ seqno[war[w]] = wpr[w]
    BY <2>1 DEF PublishesPaired, IInv, TypeOK, TypeWorkers
  <2>3. phcl'[wpr[w]] = phcl[wpr[w]]
    <3>1. ASSUME NEW v \in Workers, wpr[v] = wpr[w], ForwardStart(v) PROVE FALSE
      <4>1. ByWorker(w, wpr[w]) /\ ByWorker(v, wpr[w]) /\ v # w
        BY <1>2, <2>1, <3>1 DEF ByWorker, ForwardStart
      <4> QED BY <2>2, <4>1, OnlyWorker DEF IInv
    <3> QED BY <2>2, <3>1, PairingTouched
  <2>4. seqno'[war[w]] = seqno[war[w]]
    <3>1. pst[war[w]] = "parked" /\ \A v \in Workers \ {w} : war[v] # war[w]
      BY <2>2, NoneAssumption DEF IInv, PullerInv, PullerServedOnce
    <3>2. ~Uses(war[w])
      BY <3>1 DEF Uses, Pull, Handler, Push, ForwardDone, PushFind, PushCalled, PushUnknown,
                  PushRejected, PushInternalBody, PushInternal, PushClientGone, PushClosed,
                  PushForwardDone, PushAnswer
    <3>3. ASSUME NEW v \in Workers, Serves(v, war[w]) PROVE FALSE
      BY <2>1, <3>1, <3>3 DEF Serves, ForwardClosed, ForwardStart, SendDone, SendBody
    <3> QED BY <2>2, <3>2, <3>3, PluginTouched
  <2> QED BY <2>1, <2>2, <2>3, <2>4
<1> QED BY <1>1, <1>2

\* A push has in hand what it has found on lst_proxy_out.
LEMMA FoundOnList ==
  ASSUME IInv, [Next]_vars, NEW r \in Req, NEW q \in Pullers, ByPush(q, r)'
  PROVE  ByPush(q, r) \/ InOut(r)
<1>0. /\ ppr \in [Pullers -> Req \cup {None}] /\ proxyOut \in Seq(Req)
      /\ pst \in [Pullers -> {"idle", "parked", "fwdbody", "push", "found",
                              "push2", "found2", "fwdpush"}]
  BY Types DEF IInv, TypeOK, TypePlugin
<1>1. ASSUME NEW p \in Pullers, PushFind(p) PROVE ByPush(q, r) \/ InOut(r)
  BY <1>0, <1>1 DEF PushFind, ByPush, InOut, ToSet
<1>2. ASSUME NEW p \in Pullers, PullerDone(p) PROVE ByPush(q, r)
  BY <1>0, <1>2 DEF PullerDone, ByPush
<1>3. ASSUME NEW p \in Pullers,
             \/ Pull(p) \/ PushInternalBody(p)
             \/ \E j \in Job : Push(p, j)
             \/ \E body \in BOOLEAN : PushAnswer(p, body)
      PROVE  ByPush(q, r)
  BY <1>0, <1>2, <1>3 DEF Pull, PushInternalBody, Push, PushAnswer, ByPush
<1>4. ASSUME NEW w \in Workers, Worker(w) PROVE ByPush(q, r)
  <2>1. CASE war[w] \in Pullers /\ PullerDone(war[w])
    BY <1>2, <2>1
  <2>2. CASE ppr' = ppr /\ \A p \in Pullers : pst'[p] \in {pst[p], "fwdbody"}
    BY <2>2 DEF ByPush
  <2> QED BY <1>0, <1>4, <2>1, <2>2
          DEF Worker, TakeRequest, TakePuller, ForwardClosed, ForwardStart, Publish, SendDone,
              SendBody, WorkerExit, pluginVars, IInv, TypeOK, TypeWorkers
<1>5. \/ UNCHANGED <<pst, ppr>>
      \/ \E w \in Workers : Worker(w)
      \/ \E p \in Pullers : \/ PullerDone(p) \/ PushFind(p) \/ Pull(p) \/ PushInternalBody(p)
                            \/ \E j \in Job : Push(p, j)
                            \/ \E body \in BOOLEAN : PushAnswer(p, body)
  BY DEF Next, vars, pluginVars, Environment, Handler, Closer, PushJob,
     Request, RequestNoMemory, PullNoMemory, ForwardDone, PushRejected, PushUnknown, PushInternal,
     PushClientGone, PushClosed, PushForwardDone, Break, HandleClose, Requeue, DropJob, Shutdown
<1> QED BY <1>1, <1>2, <1>3, <1>4, <1>5 DEF ByPush

\* A pairing is replaced, never undone.
LEMMA OutPairedStep ==
  ASSUME IInv, PublishesPaired, OutPaired, [Next]_vars
  PROVE  OutPaired'
<1> SUFFICES ASSUME NEW r \in Req, InOut(r)' \/ \E q \in Pullers : ByPush(q, r)'
             PROVE  phcl'[r] \in Pullers
  BY DEF OutPaired
<1>0. phcl \in [Req -> Pullers \cup {None}]
  BY Types
<1>1. CASE phcl[r] \in Pullers
  <2>1. ASSUME NEW w \in Workers, wpr[w] = r, ForwardStart(w) PROVE phcl'[r] \in Pullers
    BY <1>0, <2>1 DEF ForwardStart, IInv, TypeOK, TypeWorkers
  <2> QED BY <1>1, <2>1, PairingTouched
<1>2. CASE phcl[r] \notin Pullers
  <2>1. ~InOut(r) /\ \A q \in Pullers : ~ByPush(q, r)
    BY <1>2 DEF OutPaired
  <2>2. InOut(r)'
    BY <2>1, FoundOnList
  <2>3. ASSUME NEW w \in Workers, wpr[w] = r, Publish(w) PROVE FALSE
    BY <1>2, <2>3 DEF Publish, PublishesPaired, IInv, TypeOK, TypeWorkers
  <2>4. ASSUME NEW q \in Pullers, ppr[q] = r, PushInternalBody(q) PROVE FALSE
    BY <2>1, <2>4 DEF PushInternalBody, ByPush
  <2> QED BY <2>1, <2>2, <2>3, <2>4, OutTouched
<1> QED BY <1>1, <1>2

-----------------------------------------------------------------------------
\* A circuit that works on a request

\* djb is sending r on the connection p.
SentOn(p, r) == /\ conn[p] = "open" /\ seqno[p] = r
                /\ pst[p] = "fwdbody" \/ \E w \in Workers : war[w] = p /\ wpc[w] = "send"

\* What is being sent on a connection that stays open goes on, or is a job.
LEMMA SentKept ==
  ASSUME IInv, [Next]_vars, NEW r \in Req, NEW p \in Pullers, SentOn(p, r), conn'[p] = "open"
  PROVE  WorkedOn(r)'
<1>0. /\ seqno \in [Pullers -> Req \cup {None}]
      /\ wpc \in [Workers -> {"new", "pull", "check", "publish", "send", "exit"}]
      /\ pst \in [Pullers -> {"idle", "parked", "fwdbody", "push", "found",
                              "push2", "found2", "fwdpush"}]
  BY Types
<1>1. ASSUME Deliver(p) PROVE WorkedOn(r)'
  <2>1. [by |-> p, req |-> r] \in held' /\ [by |-> p, req |-> r].req = r
    BY <1>1 DEF Deliver, SentOn
  <2> QED BY <2>1 DEF WorkedOn
<1>2. CASE pst[p] = "fwdbody"
  <2>1. CASE pst'[p] = pst[p] /\ seqno'[p] = seqno[p]
    BY <1>2, <2>1 DEF SentOn, WorkedOn
  <2>2. CASE Uses(p)
    <3>1. ForwardDone(p)
      BY <1>2, <2>2 DEF Uses, Pull, Handler, Push, PushFind, PushCalled, PushUnknown,
                        PushRejected, PushInternalBody, PushInternal, PushClientGone, PushClosed,
                        PushForwardDone, PushAnswer
    <3> QED BY <1>1, <3>1 DEF ForwardDone
  <2>3. \A w \in Workers : war[w] # p
    BY <1>2 DEF IInv, PullerInv, PullerServedOnce
  <2> QED BY <2>1, <2>2, <2>3, PluginTouched DEF Serves
<1>3. ASSUME NEW w \in Workers, war[w] = p, wpc[w] = "send"
      PROVE  WorkedOn(r)'
  <2>1. pst[p] = "parked" /\ \A v \in Workers \ {w} : war[v] # p
    BY <1>3, NoneAssumption DEF IInv, PullerInv, PullerServedOnce
  <2>2. CASE SendDone(w)
    BY <1>1, <1>3, <2>2 DEF SendDone
  <2>3. CASE SendBody(w)
    <3>1. seqno' = seqno
      BY <2>3 DEF SendBody
    <3>2. pst'[p] = "fwdbody" \/ UNCHANGED <<wpc, war>>
      BY <1>0, <1>3, <2>3 DEF SendBody, workerVars
    <3> QED BY <1>3, <3>1, <3>2 DEF SentOn, WorkedOn
  <2>4. CASE ~SendDone(w) /\ ~SendBody(w)
    <3>1. ~Worker(w)
      BY <1>3, <2>4 DEF Worker, TakeRequest, TakePuller, ForwardClosed, ForwardStart, Publish,
                        WorkerExit, StopPoints
    <3>2. ~Uses(p)
      BY <2>1 DEF Uses, Pull, Handler, Push, ForwardDone, PushFind, PushCalled, PushUnknown,
                  PushRejected, PushInternalBody, PushInternal, PushClientGone, PushClosed,
                  PushForwardDone, PushAnswer
    <3>3. \A v \in Workers : ~Serves(v, p)
      BY <1>3, <2>1, <2>4 DEF Serves, ForwardClosed, ForwardStart
    <3>4. /\ wpc'[w] = "send" /\ war'[w] = p /\ seqno'[p] = r
      BY <1>3, <3>1, <3>2, <3>3, PluginTouched, WorkerTouched DEF SentOn
    <3> QED BY <3>4 DEF WorkedOn
  <2> QED BY <2>2, <2>3, <2>4
<1> QED BY <1>2, <1>3 DEF SentOn

\* A job stays with the plugin until it is pushed or lost.
LEMMA JobKept ==
  ASSUME IInv, [Next]_vars, NEW j \in held, ~DropJob(j)
  PROVE  WorkedOn(j.req)'
<1>0. /\ seqno \in [Pullers -> Req \cup {None}] /\ j \in Job
      /\ pst \in [Pullers -> {"idle", "parked", "fwdbody", "push", "found",
                              "push2", "found2", "fwdpush"}]
  BY Types
<1>1. ASSUME NEW q \in Pullers, Push(q, j) PROVE WorkedOn(j.req)'
  <2>1. pst'[q] = "push" /\ seqno'[q] = j.req
    BY <1>0, <1>1 DEF Push
  <2> QED BY <2>1 DEF WorkedOn
<1> QED BY <1>1, HeldTouched DEF PushJob, WorkedOn

\* A push finds its request on lst_proxy_out, takes it off, or is turned down.
LEMMA PushKept ==
  ASSUME IInv, [Next]_vars, NEW r \in Req, NEW q \in Pullers, pst[q] \in {"push", "push2"},
         seqno[q] = r, InOut(r), InOut(r)', ~PushRejected(q), ~PushClosed(q)
  PROVE  WorkedOn(r)'
<1>0. proxyOut \in Seq(Req) /\ IsInjective(proxyOut)
  BY Types DEF IInv, SinglePlace
<1>1. Tracked(r) /\ reqid[r[1]] = r[2]
  BY OnlyOut DEF IInv, SeqNoIsCurrent
<1>2. CASE pst'[q] = pst[q] /\ seqno'[q] = seqno[q]
  BY <1>2 DEF WorkedOn
<1>3. ~PushUnknown(q)
  <2>1. PICK i \in DOMAIN proxyOut : proxyOut[i] = r
    BY DEF InOut, ToSet
  <2>2. i \in Matching(r)
    BY <1>1, <2>1 DEF Matching
  <2> QED BY <2>2 DEF PushUnknown
<1>4. ~PushFind(q)
  <2> SUFFICES ASSUME PushFind(q) PROVE FALSE
    OBVIOUS
  <2>1. PICK i \in DOMAIN proxyOut : i \in Matching(r) /\ proxyOut' = Unlink(proxyOut, i)
    BY DEF PushFind, IsFirst
  <2>2. proxyOut[i] \in Req /\ proxyOut[i] \in ToSet(proxyOut)
    BY <1>0, UnlinkSet
  <2>3. Tracked(proxyOut[i])
    BY <2>2, OnlyOut DEF IInv, InOut
  <2>4. proxyOut[i] = r
    BY <1>1, <2>1, <2>2, <2>3, ReqFacts DEF Matching, IInv, SeqNoIsCurrent
  <2> QED BY <1>0, <2>1, <2>4, UnlinkSet DEF InOut
<1>5. CASE Uses(q)
  BY <1>3, <1>4, <1>5 DEF Uses, Pull, Handler, Push, ForwardDone, PushInternalBody, PushInternal,
                          PushClientGone, PushClosed, PushForwardDone, PushAnswer
<1>6. \A w \in Workers : war[w] # q
  BY DEF IInv, PullerInv, PullerServedOnce
<1> QED BY <1>2, <1>5, <1>6, PluginTouched DEF Serves

-----------------------------------------------------------------------------
\* A request that nobody works on is one whose answer was lost.
LEMMA NeglectStep ==
  ASSUME IInv, WorkInv, PublishesPaired, OutPaired, [Next]_vars, NEW r \in Req,
         Neglected(r)', ~Neglected(r)
  PROVE  AnswerLost(r)
<1> SUFFICES ASSUME \A j \in Job : j.req = r => ~DropJob(j),
                    \A q \in Pullers : seqno[q] = r => ~PushRejected(q) /\ ~PushClosed(q)
             PROVE  FALSE
  BY DEF AnswerLost
<1>0. /\ InOut(r)' /\ ~WorkedOn(r)' /\ conn'[phcl'[r]] = "open"
      /\ held \subseteq Job /\ Pullers \subseteq Conns
      /\ phcl \in [Req -> Pullers \cup {None}]
  BY Types DEF Neglected
<1>1. CASE InOut(r)
  <2>1. phcl'[r] = phcl[r]
    <3>1. ASSUME NEW w \in Workers, wpr[w] = r, ForwardStart(w) PROVE FALSE
      BY <1>1, <3>1, OnlyOut DEF ForwardStart, ByWorker, IInv
    <3> QED BY <3>1, PairingTouched
  <2>2. phcl[r] \in Conns /\ conn[phcl[r]] = "open"
    BY <1>0, <1>1, <2>1, ConnStaysGone DEF OutPaired
  <2>3. WorkedOn(r)
    BY <1>1, <2>2 DEF Neglected
  <2>4. ASSUME NEW p \in Pullers, SentOn(p, r) PROVE FALSE
    <3>1. Handed(p)
      BY <2>4 DEF SentOn, Handed
    <3>2. phcl[r] = p
      BY <2>4, <3>1 DEF SentOn, WorkInv, Owned
    <3> QED BY <1>0, <2>1, <2>4, <3>2, SentKept
  <2>5. ASSUME NEW j \in held, j.req = r PROVE FALSE
    BY <1>0, <2>5, JobKept
  <2>6. ASSUME NEW q \in Pullers, pst[q] \in {"push", "push2"}, seqno[q] = r PROVE FALSE
    BY <1>0, <1>1, <2>6, PushKept
  <2> QED BY <2>3, <2>4, <2>5, <2>6 DEF WorkedOn, SentOn
<1>2. ASSUME NEW w \in Workers, wpr[w] = r, Publish(w) PROVE FALSE
  <2>1. war[w] \in Pullers /\ phcl[r] = war[w] /\ seqno[war[w]] = r
    BY <1>2 DEF Publish, PublishesPaired, IInv, TypeOK, TypeWorkers
  <2>2. /\ wpc'[w] = "send" /\ war' = war /\ phcl' = phcl /\ conn' = conn /\ seqno' = seqno
    BY <1>2, Types DEF Publish, entryVars, connVars, pluginVars
  <2> QED BY <1>0, <2>1, <2>2 DEF WorkedOn
<1>3. ASSUME NEW q \in Pullers, ppr[q] = r, PushInternalBody(q) PROVE FALSE
  <2>1. ByPush(q, r)
    BY <1>3 DEF PushInternalBody, ByPush
  <2>2. seqno[q] = r
    BY <2>1 DEF IInv, AnswersInv, FoundMatches
  <2>3. pst'[q] = "push2" /\ seqno' = seqno
    BY <1>3, Types DEF PushInternalBody
  <2> QED BY <1>0, <2>2, <2>3 DEF WorkedOn
<1> QED BY <1>0, <1>1, <1>2, <1>3, OutTouched

LEMMA PairedAlways == Spec => [](PublishesPaired /\ OutPaired)
<1>1. Init => PublishesPaired /\ OutPaired
  <2> SUFFICES ASSUME Init PROVE PublishesPaired /\ OutPaired
    OBVIOUS
  <2>1. /\ proxyOut = <<>> /\ \A w \in Workers : wpc[w] = "new"
        /\ \A q \in Pullers : pst[q] = "idle"
    BY DEF Init
  <2> QED BY <2>1 DEF PublishesPaired, OutPaired, InOut, ByPush, ToSet
<1>2. IInv /\ PublishesPaired /\ OutPaired /\ [Next]_vars => (PublishesPaired /\ OutPaired)'
  BY PairedStep, OutPairedStep
<1> QED BY <1>1, <1>2, Invariance, PTL DEF Spec

\* Only a lost answer leaves djb waiting for nothing: no other step, in whatever
\* order pulls, pushes, closes and reschedules come, makes an outstanding request
\* one that no circuit works on while the connection it was handed out on is open.
THEOREM NeglectIsALostAnswer == Spec => OnlyLostAnswersNeglect
<1> DEFINE Keeps == \A r \in Req : Neglected(r)' /\ ~Neglected(r) => AnswerLost(r)
<1>1. IInv /\ WorkInv /\ PublishesPaired /\ OutPaired /\ [Next]_vars => [Keeps]_vars
  BY NeglectStep
<1>2. Spec => [][Keeps]_vars
  BY <1>1, Invariance, WorkInvariance, PairedAlways, PTL DEF Spec
<1> QED BY <1>2 DEF OnlyLostAnswersNeglect
=============================================================================
