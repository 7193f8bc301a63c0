------------------------------ MODULE DjbProxy ------------------------------
(***************************************************************************)
(* The proxy of the djb daemon (server/djb.c).                             *)
(*                                                                         *)
(* A client sends a request; djb queues it on lst_proxy_new.  The browser  *)
(* plugin parks GET /pull/ connections on lst_api_pull.  Worker threads    *)
(* pair the two lists: the puller gets the request as its response, with   *)
(* the sequence number <client, reqid>, and the request moves to           *)
(* lst_proxy_out.  The plugin fetches the real answer and sends it with    *)
(* POST /push/ and the sequence number; djb finds the request on           *)
(* lst_proxy_out and relays the answer.  When the connection a request was *)
(* handed to closes, djb_close puts the request back on lst_proxy_new.     *)
(*                                                                         *)
(* A djb_req_t of a request is identified with the request, <<c, n>>: an   *)
(* hcl has one current request, numbered by hcl->reqid.                    *)
(***************************************************************************)
EXTENDS Naturals, FiniteSets, SequencesExt

CONSTANTS Clients,       \* connections of proxy clients (StegoTorus)
          Internals,     \* clients made by acs_request(), answered by dh->push
          Pullers,       \* connections of the browser plugin
          Workers,       \* the DJBWorker threads
          MaxReq,        \* bound: requests sent on one client connection
          Circuits,      \* plugin_circuit_count: jobs the plugin has in hand
          Breakable,     \* connections that may break
          BusyMayBreak,  \* may a plugin connection break while djb uses it?
          MayDrop,       \* may the plugin lose a job or push a bad answer?
          MayFail,       \* may mcalloc() fail?
          MayShutdown,   \* may /shutdown/ be called?
          Fassert,       \* is fassert() compiled in (the default build)?
          None, Err500

Requesters == Clients \cup Internals
Conns == Clients \cup Pullers
Req == Requesters \X (1 .. MaxReq)
Job == [by : Pullers, req : Req]

ASSUME NoneAssumption == None \notin Req \cup Pullers
ASSUME Err500Assumption == Err500 \notin Req
ASSUME RequestersAssumption == Clients \cap Internals = {}
ASSUME PullersAssumption == Clients \cap Pullers = {}
ASSUME BoundAssumption == MaxReq \in Nat \ {0} /\ Circuits \in Nat
ASSUME BreakAssumption == Breakable \subseteq Conns
ASSUME FlagAssumption ==
  {BusyMayBreak, MayDrop, MayFail, MayShutdown, Fassert} \subseteq BOOLEAN

VARIABLES
  proxyNew,   \* lst_proxy_new: requests that wait for a puller
  proxyOut,   \* lst_proxy_out: requests that wait for a push
  apiPull,    \* lst_api_pull: parked pull connections
  phcl,       \* request -> pr->phcl_id, the plugin connection it was paired with
  freed,      \* requests whose djb_req_t was released with free()
  wpc,        \* worker -> where djb_worker_thread() stands
  wpr, war,   \* worker -> its pr and its ar
  conn,       \* connection -> "open" | "broken" (not yet noticed) | "closed"
  moved,      \* connection -> the request its djb_close() has in hand
  reqid,      \* requester -> hcl->reqid
  cst,        \* requester -> "idle" | "waiting" | "forward" (body on its way)
  hasBody,    \* request -> is it a POST with a body?
  answers,    \* request -> the responses sent for it
  pst,        \* plugin connection -> what djb is doing for it
  seqno,      \* plugin connection -> DJB-SeqNo it is given or pushes
  ppr,        \* plugin connection -> pr of the push it serves
  held,       \* jobs the plugin has fetched and not yet pushed
  running,    \* thread_keep_running()
  aborted     \* the process died: a failed fassert(), or a use after free()

queueVars  == <<proxyNew, proxyOut, apiPull>>
entryVars  == <<phcl, freed>>
workerVars == <<wpc, wpr, war>>
connVars   == <<conn, moved>>
clientVars == <<reqid, cst, hasBody, answers>>
pluginVars == <<pst, seqno, ppr, held>>
ctlVars    == <<running, aborted>>
vars == <<queueVars, entryVars, workerVars, connVars, clientVars, pluginVars, ctlVars>>

Init ==
  /\ proxyNew = <<>> /\ proxyOut = <<>> /\ apiPull = <<>>
  /\ phcl = [r \in Req |-> None] /\ freed = {}
  /\ wpc = [w \in Workers |-> "new"]
  /\ wpr = [w \in Workers |-> None] /\ war = [w \in Workers |-> None]
  /\ conn = [x \in Conns |-> "open"] /\ moved = [x \in Conns |-> None]
  /\ reqid = [c \in Requesters |-> 0] /\ cst = [c \in Requesters |-> "idle"]
  /\ hasBody = [r \in Req |-> FALSE] /\ answers = [r \in Req |-> <<>>]
  /\ pst = [p \in Pullers |-> "idle"] /\ seqno = [p \in Pullers |-> None]
  /\ ppr = [p \in Pullers |-> None] /\ held = {}
  /\ running = TRUE /\ aborted = FALSE

-----------------------------------------------------------------------------
\* Helpers

\* The first index in I: a list_for() with a break takes this one.
IsFirst(i, I) == i \in I /\ \A k \in I : i <= k

\* djb_find_req(): r->hcl->id == id && r->hcl->reqid == reqid, both read from
\* the live hcl.  (Mutated form: the client connection alone decides.)
Matching_AnyReqid(sn) == {i \in DOMAIN proxyOut : proxyOut[i][1] = sn[1]}
Matching(sn) ==
  {i \in DOMAIN proxyOut : proxyOut[i][1] = sn[1] /\ reqid[proxyOut[i][1]] = sn[2]}

\* djb_find_phcl(): r->phcl_id == phcl_id.  (Mutated form: any request.)
Paired_Any(x) == DOMAIN proxyOut
Paired(x) == {i \in DOMAIN proxyOut : phcl[proxyOut[i]] = x}

\* list_remove().  (Mutated form: the entry stays on the list.)
Unlink_Kept(s, i) == s
Unlink(s, i) == RemoveAt(s, i)

\* A client that can be sent an answer: conn_is_valid(&pr->hcl->conn), or ACS.
Reachable(c) == c \in Clients => conn[c] = "open"

\* httpsrv_done() for a plugin connection: it is free for its next request.
\* (Mutated form: the connection is never given back.)
PullerDone_Kept(p) == UNCHANGED <<pst, seqno, ppr>>
PullerDone(p) == /\ pst' = [pst EXCEPT ![p] = "idle"]
                 /\ seqno' = [seqno EXCEPT ![p] = None]
                 /\ ppr' = [ppr EXCEPT ![p] = None]

\* djb_error() has answered: httpsrv may keep the connection, or give it up.
ErrorSent(x) ==
  conn' \in {conn, [conn EXCEPT ![x] = IF @ = "open" THEN "broken" ELSE @]}

-----------------------------------------------------------------------------
\* Requests come in

\* A client sends its next request, or ACS injects one:
\* djb_handle_proxy() + djb_proxy_add().
Request(c, body) ==
  LET r == <<c, reqid[c] + 1>> IN
  /\ ~aborted /\ running
  /\ cst[c] = "idle" /\ Reachable(c) /\ reqid[c] < MaxReq
  /\ c \in Internals => ~body
  /\ reqid' = [reqid EXCEPT ![c] = @ + 1]
  /\ hasBody' = [hasBody EXCEPT ![r] = body]
  /\ cst' = [cst EXCEPT ![c] = "waiting"]
  /\ proxyNew' = Append(proxyNew, r)
  /\ UNCHANGED <<proxyOut, apiPull, answers>>
  /\ UNCHANGED <<entryVars, workerVars, connVars, pluginVars, ctlVars>>

\* djb_proxy_add() when mcalloc() fails.
RequestNoMemory(c) ==
  /\ ~aborted /\ running /\ MayFail
  /\ cst[c] = "idle" /\ Reachable(c) /\ reqid[c] < MaxReq
  /\ reqid' = [reqid EXCEPT ![c] = @ + 1]
  /\ answers' = [answers EXCEPT ![<<c, reqid[c] + 1>>] = Append(@, Err500)]
  /\ IF c \in Clients THEN ErrorSent(c) ELSE UNCHANGED conn
  /\ UNCHANGED <<cst, hasBody, moved>>
  /\ UNCHANGED <<queueVars, entryVars, workerVars, pluginVars, ctlVars>>

\* The circuits that are busy with a pull or a push on a live connection.
BusyCircuits == Cardinality({p \in Pullers : conn[p] = "open" /\ pst[p] # "idle"})
                  + Cardinality(held)

\* GET /pull/: djb_pull() + djb_pull_post().
Pull(p) ==
  /\ ~aborted /\ running
  /\ conn[p] = "open" /\ pst[p] = "idle" /\ BusyCircuits < Circuits
  /\ pst' = [pst EXCEPT ![p] = "parked"]
  /\ apiPull' = Append(apiPull, p)
  /\ UNCHANGED <<proxyNew, proxyOut, seqno, ppr, held>>
  /\ UNCHANGED <<entryVars, workerVars, connVars, clientVars, ctlVars>>

\* djb_pull_post() when mcalloc() fails.
PullNoMemory(p) ==
  /\ ~aborted /\ running /\ MayFail
  /\ conn[p] = "open" /\ pst[p] = "idle" /\ BusyCircuits < Circuits
  /\ ErrorSent(p)
  /\ UNCHANGED moved
  /\ UNCHANGED <<queueVars, entryVars, workerVars, clientVars, pluginVars, ctlVars>>

-----------------------------------------------------------------------------
\* djb_worker_thread() and djb_handle_forward()

\* pr = list_getnext(&lst_proxy_new)
TakeRequest(w) ==
  /\ ~aborted /\ running
  /\ wpc[w] = "new" /\ proxyNew # <<>>
  /\ wpr' = [wpr EXCEPT ![w] = Head(proxyNew)]
  /\ proxyNew' = Tail(proxyNew)
  /\ wpc' = [wpc EXCEPT ![w] = "pull"]
  /\ UNCHANGED <<proxyOut, apiPull, war>>
  /\ UNCHANGED <<entryVars, connVars, clientVars, pluginVars, ctlVars>>

\* ar = list_getnext(&lst_api_pull)
TakePuller(w) ==
  /\ ~aborted /\ running
  /\ wpc[w] = "pull" /\ apiPull # <<>>
  /\ war' = [war EXCEPT ![w] = Head(apiPull)]
  /\ apiPull' = Tail(apiPull)
  /\ wpc' = [wpc EXCEPT ![w] = "check"]
  /\ UNCHANGED <<proxyNew, proxyOut, wpr>>
  /\ UNCHANGED <<entryVars, connVars, clientVars, pluginVars, ctlVars>>

\* The end of the loop in djb_worker_thread(): free(ar).
\* (Mutated form: the worker keeps the puller it has served.)
WorkerDone_KeepsAr(w) == /\ wpc' = [wpc EXCEPT ![w] = "new"]
                         /\ wpr' = [wpr EXCEPT ![w] = None]
                         /\ UNCHANGED war
WorkerDone(w) == /\ wpc' = [wpc EXCEPT ![w] = "new"]
                 /\ wpr' = [wpr EXCEPT ![w] = None]
                 /\ war' = [war EXCEPT ![w] = None]

\* !conn_is_valid(&ar->hcl->conn): fassert(false); without it the puller is
\* done with and pr is not put anywhere.
ForwardClosed(w) ==
  /\ ~aborted
  /\ wpc[w] = "check" /\ conn[war[w]] # "open"
  /\ IF Fassert
       THEN /\ aborted' = TRUE
            /\ UNCHANGED <<workerVars, pluginVars>>
       ELSE /\ PullerDone(war[w]) /\ WorkerDone(w)
            /\ UNCHANGED <<held, aborted>>
  /\ UNCHANGED running
  /\ UNCHANGED <<queueVars, entryVars, connVars, clientVars>>

\* The puller is still there: the headers of its response are written and the
\* request is paired with it.
ForwardStart(w) ==
  LET pr == wpr[w]
      ar == war[w] IN
  /\ ~aborted
  /\ wpc[w] = "check" /\ conn[ar] = "open"
  /\ seqno' = [seqno EXCEPT ![ar] = <<pr[1], reqid[pr[1]]>>]
  /\ phcl' = [phcl EXCEPT ![pr] = ar]
  /\ wpc' = [wpc EXCEPT ![w] = "publish"]
  /\ UNCHANGED <<freed, wpr, war, pst, ppr, held>>
  /\ UNCHANGED <<queueVars, connVars, clientVars, ctlVars>>

\* list_addtail_l(&lst_proxy_out, &pr->node)
Publish(w) ==
  /\ ~aborted
  /\ wpc[w] = "publish"
  /\ proxyOut' = Append(proxyOut, wpr[w])
  /\ wpc' = [wpc EXCEPT ![w] = "send"]
  /\ UNCHANGED <<proxyNew, apiPull, wpr, war>>
  /\ UNCHANGED <<entryVars, connVars, clientVars, pluginVars, ctlVars>>

\* The puller's response reaches the plugin, unless its connection is gone.
Deliver(p) == held' = IF conn[p] = "open" THEN held \cup {[by |-> p, req |-> seqno[p]]}
                                          ELSE held

\* No body: httpsrv_done(ar->hcl).
SendDone(w) ==
  /\ ~aborted
  /\ wpc[w] = "send" /\ ~hasBody[wpr[w]]
  /\ Deliver(war[w]) /\ PullerDone(war[w]) /\ WorkerDone(w)
  /\ UNCHANGED <<queueVars, entryVars, connVars, clientVars, ctlVars>>

\* A POST body: httpsrv_forward(pr->hcl, ar->hcl).  pr is read after it was
\* published: once freed, the read may kill the process or find the old value.
SendBody(w) ==
  /\ ~aborted
  /\ wpc[w] = "send" /\ hasBody[wpr[w]]
  /\ \/ /\ pst' = [pst EXCEPT ![war[w]] = "fwdbody"]
        /\ WorkerDone(w)
        /\ UNCHANGED aborted
     \/ /\ wpr[w] \in freed
        /\ aborted' = TRUE
        /\ UNCHANGED <<pst, workerVars>>
  /\ UNCHANGED <<seqno, ppr, held, running>>
  /\ UNCHANGED <<queueVars, entryVars, connVars, clientVars>>

\* httpsrv has copied the body; djb_bodyfwd_done() for a proxy POST.
ForwardDone(p) ==
  /\ ~aborted
  /\ pst[p] = "fwdbody"
  /\ Deliver(p) /\ PullerDone(p)
  /\ UNCHANGED <<queueVars, entryVars, workerVars, connVars, clientVars, ctlVars>>

\* Where a worker notices that it has to stop.
\* (Mutated form: list_getnext(&lst_api_pull) does not wake up.)
StopPoints_New == {"new"}
StopPoints == {"new", "pull"}

\* list_getnext() returns NULL, or the loop condition fails, at shutdown.
WorkerExit(w) ==
  /\ ~aborted /\ ~running
  /\ wpc[w] \in StopPoints
  /\ wpc' = [wpc EXCEPT ![w] = "exit"]
  /\ wpr' = [wpr EXCEPT ![w] = None]
  /\ UNCHANGED war
  /\ UNCHANGED <<queueVars, entryVars, connVars, clientVars, pluginVars, ctlVars>>

-----------------------------------------------------------------------------
\* POST /push/: djb_push() and djb_find_req_dh()

\* The plugin pushes the answer of a job it holds, on any free connection.
Push(q, j) ==
  /\ ~aborted /\ running
  /\ conn[q] = "open" /\ pst[q] = "idle" /\ j \in held
  /\ held' = held \ {j}
  /\ pst' = [pst EXCEPT ![q] = "push"]
  /\ seqno' = [seqno EXCEPT ![q] = j.req]
  /\ UNCHANGED ppr
  /\ UNCHANGED <<queueVars, entryVars, workerVars, connVars, clientVars, ctlVars>>

\* 504: no DJB-HTTPCode, no DJB-HTTPText (an empty HTTP reason phrase) or a
\* malformed DJB-SeqNo.  The answer is gone, the request stays outstanding.
PushRejected(q) ==
  /\ ~aborted /\ MayDrop
  /\ pst[q] = "push"
  /\ PullerDone(q) /\ ErrorSent(q)
  /\ UNCHANGED <<moved, held>>
  /\ UNCHANGED <<queueVars, entryVars, workerVars, clientVars, ctlVars>>

\* httpsrv calls djb_push(): for the headers of a push, and a second time once
\* its body was read, which takes a connection that has not been closed.
PushCalled(q) == pst[q] = "push" \/ (pst[q] = "push2" /\ conn[q] # "closed")

\* djb_find_req(): the first outstanding request with this number, taken off
\* the list.
PushFind(q) ==
  /\ ~aborted
  /\ PushCalled(q)
  /\ \E i \in DOMAIN proxyOut :
       /\ IsFirst(i, Matching(seqno[q]))
       /\ ppr' = [ppr EXCEPT ![q] = proxyOut[i]]
       /\ proxyOut' = Unlink(proxyOut, i)
  /\ pst' = [pst EXCEPT ![q] = IF @ = "push" THEN "found" ELSE "found2"]
  /\ UNCHANGED <<proxyNew, apiPull, seqno, held>>
  /\ UNCHANGED <<entryVars, workerVars, connVars, clientVars, ctlVars>>

\* 404: no such request outstanding.
PushUnknown(q) ==
  /\ ~aborted
  /\ PushCalled(q)
  /\ Matching(seqno[q]) = {}
  /\ PullerDone(q) /\ ErrorSent(q)
  /\ UNCHANGED <<moved, held>>
  /\ UNCHANGED <<queueVars, entryVars, workerVars, clientVars, ctlVars>>

\* pdh->push() returned false: it wants the body of the push.  The request
\* goes back on the list until httpsrv has read it.
PushInternalBody(q) ==
  /\ ~aborted
  /\ pst[q] = "found" /\ ppr[q][1] \in Internals
  /\ proxyOut' = Append(proxyOut, ppr[q])
  /\ pst' = [pst EXCEPT ![q] = "push2"]
  /\ ppr' = [ppr EXCEPT ![q] = None]
  /\ UNCHANGED <<proxyNew, apiPull, seqno, held>>
  /\ UNCHANGED <<entryVars, workerVars, connVars, clientVars, ctlVars>>

\* The connection breaks before the body is there: httpsrv drops the push, and
\* djb_push() is not called again.  The request stays on lst_proxy_out.
PushClosed(q) ==
  /\ ~aborted
  /\ pst[q] = "push2" /\ conn[q] # "open"
  /\ PullerDone(q)
  /\ UNCHANGED held
  /\ UNCHANGED <<queueVars, entryVars, workerVars, connVars, clientVars, ctlVars>>

\* pdh->push() returned true: the internal request is over.
PushInternal(q) ==
  LET pr == ppr[q] IN
  /\ ~aborted
  /\ pst[q] \in {"found", "found2"} /\ pr[1] \in Internals
  /\ answers' = [answers EXCEPT ![pr] = Append(@, seqno[q])]
  /\ cst' = [cst EXCEPT ![pr[1]] = "idle"]
  /\ freed' = freed \cup {pr}
  /\ PullerDone(q)
  /\ UNCHANGED <<phcl, reqid, hasBody, held>>
  /\ UNCHANGED <<queueVars, workerVars, connVars, ctlVars>>

\* The client has gone: "Remote closed connection"; pr is neither freed nor kept.
PushClientGone(q) ==
  /\ ~aborted
  /\ pst[q] = "found" /\ ppr[q][1] \in Clients /\ conn[ppr[q][1]] # "open"
  /\ PullerDone(q)
  /\ UNCHANGED held
  /\ UNCHANGED <<queueVars, entryVars, workerVars, connVars, clientVars, ctlVars>>

\* The state of the client once the headers of its answer are out.
\* (Mutated form: it may send its next request before the body is copied.)
Answered_Early(body) == "idle"
Answered(body) == IF body THEN "forward" ELSE "idle"

\* The answer goes to the client; with a body, httpsrv_forward() copies it.
PushAnswer(q, body) ==
  LET pr == ppr[q] IN
  /\ ~aborted
  /\ pst[q] = "found" /\ pr[1] \in Clients /\ conn[pr[1]] = "open"
  /\ answers' = [answers EXCEPT ![pr] = Append(@, seqno[q])]
  /\ freed' = freed \cup {pr}
  /\ cst' = [cst EXCEPT ![pr[1]] = Answered(body)]
  /\ IF body
       THEN /\ pst' = [pst EXCEPT ![q] = "fwdpush"]
            /\ UNCHANGED <<seqno, ppr>>
       ELSE PullerDone(q)
  /\ UNCHANGED <<phcl, reqid, hasBody, held>>
  /\ UNCHANGED <<queueVars, workerVars, connVars, ctlVars>>

\* The body is copied: djb_bodyfwd_done() for a push.
PushForwardDone(q) ==
  /\ ~aborted
  /\ pst[q] = "fwdpush"
  /\ cst' = [cst EXCEPT ![ppr[q][1]] = "idle"]
  /\ PullerDone(q)
  /\ UNCHANGED <<reqid, hasBody, answers, held>>
  /\ UNCHANGED <<queueVars, entryVars, workerVars, connVars, ctlVars>>

-----------------------------------------------------------------------------
\* Connections close

\* A peer goes away.
Break(x) ==
  /\ ~aborted
  /\ x \in Breakable /\ conn[x] = "open"
  /\ x \in Pullers => (pst[x] = "idle" \/ BusyMayBreak)
  /\ conn' = [conn EXCEPT ![x] = "broken"]
  /\ UNCHANGED moved
  /\ UNCHANGED <<queueVars, entryVars, workerVars, clientVars, pluginVars, ctlVars>>

\* djb_find_phcl() in djb_close(): the first request paired with x, if any.
HandleClose(x) ==
  /\ ~aborted
  /\ conn[x] = "broken"
  /\ conn' = [conn EXCEPT ![x] = "closed"]
  /\ \/ \E i \in DOMAIN proxyOut :
          /\ IsFirst(i, Paired(x))
          /\ moved' = [moved EXCEPT ![x] = proxyOut[i]]
          /\ proxyOut' = Unlink(proxyOut, i)
     \/ /\ Paired(x) = {}
        /\ UNCHANGED <<moved, proxyOut>>
  /\ UNCHANGED <<proxyNew, apiPull>>
  /\ UNCHANGED <<entryVars, workerVars, clientVars, pluginVars, ctlVars>>

\* list_addtail_l(&lst_proxy_new, &pr->node) in djb_close().
\* (Mutated form: the list node is not added to any list.)
Requeue_Dropped(x) ==
  /\ ~aborted
  /\ moved[x] # None
  /\ moved' = [moved EXCEPT ![x] = None]
  /\ UNCHANGED <<queueVars, conn>>
  /\ UNCHANGED <<entryVars, workerVars, clientVars, pluginVars, ctlVars>>
Requeue(x) ==
  /\ ~aborted
  /\ moved[x] # None
  /\ proxyNew' = Append(proxyNew, moved[x])
  /\ moved' = [moved EXCEPT ![x] = None]
  /\ UNCHANGED <<proxyOut, apiPull, conn>>
  /\ UNCHANGED <<entryVars, workerVars, clientVars, pluginVars, ctlVars>>

\* The plugin loses a job: its tab is closed or its request never returns.
DropJob(j) ==
  /\ ~aborted /\ MayDrop
  /\ j \in held
  /\ held' = held \ {j}
  /\ UNCHANGED <<pst, seqno, ppr>>
  /\ UNCHANGED <<queueVars, entryVars, workerVars, connVars, clientVars, ctlVars>>

\* /shutdown/: thread_stop_running().
Shutdown ==
  /\ ~aborted /\ running /\ MayShutdown
  /\ running' = FALSE
  /\ UNCHANGED aborted
  /\ UNCHANGED <<queueVars, entryVars, workerVars, connVars, clientVars, pluginVars>>

-----------------------------------------------------------------------------
Worker(w) == \/ TakeRequest(w) \/ TakePuller(w) \/ ForwardClosed(w)
             \/ ForwardStart(w) \/ Publish(w) \/ SendDone(w) \/ SendBody(w)
             \/ WorkerExit(w)

Handler(q) == \/ ForwardDone(q) \/ PushFind(q) \/ PushUnknown(q)
              \/ PushInternalBody(q) \/ PushClosed(q) \/ PushInternal(q) \/ PushClientGone(q)
              \/ PushForwardDone(q) \/ \E body \in BOOLEAN : PushAnswer(q, body)

Closer(x) == HandleClose(x) \/ Requeue(x)

PushJob(j) == \E q \in Pullers : Push(q, j)

Environment == \/ \E c \in Requesters :
                    RequestNoMemory(c) \/ \E body \in BOOLEAN : Request(c, body)
               \/ \E p \in Pullers : PullNoMemory(p) \/ PushRejected(p)
               \/ \E j \in Job : DropJob(j)
               \/ \E x \in Conns : Break(x)
               \/ Shutdown

Next == \/ Environment
        \/ \E w \in Workers : Worker(w)
        \/ \E p \in Pullers : Pull(p) \/ Handler(p)
        \/ \E j \in Job : PushJob(j)
        \/ \E x \in Conns : Closer(x)

Spec == Init /\ [][Next]_vars

\* Threads and the plugin keep going; what the environment may do, it need not.
Fairness == /\ \A w \in Workers : WF_vars(Worker(w))
            /\ \A p \in Pullers : WF_vars(Handler(p))
            /\ WF_vars(\E p \in Pullers : Pull(p))
            /\ \A j \in Job : WF_vars(PushJob(j))
            /\ \A x \in Conns : WF_vars(Closer(x))

FairSpec == Spec /\ Fairness

-----------------------------------------------------------------------------
(***************************************************************************)
(* Properties                                                              *)
(***************************************************************************)

TypeQueues == proxyNew \in Seq(Req) /\ proxyOut \in Seq(Req) /\ apiPull \in Seq(Pullers)

TypeEntries == phcl \in [Req -> Pullers \cup {None}] /\ freed \subseteq Req

TypeWorkers ==
  /\ wpc \in [Workers -> {"new", "pull", "check", "publish", "send", "exit"}]
  /\ wpr \in [Workers -> Req \cup {None}] /\ war \in [Workers -> Pullers \cup {None}]
  /\ \A w \in Workers : /\ wpr[w] = None <=> wpc[w] \in {"new", "exit"}
                        /\ war[w] = None <=> wpc[w] \in {"new", "pull", "exit"}

TypeConns == /\ conn \in [Conns -> {"open", "broken", "closed"}]
             /\ moved \in [Conns -> Req \cup {None}]
             /\ \A x \in Conns : moved[x] # None => conn[x] = "closed"

TypeClients ==
  /\ reqid \in [Requesters -> 0 .. MaxReq]
  /\ cst \in [Requesters -> {"idle", "waiting", "forward"}]
  /\ hasBody \in [Req -> BOOLEAN]
  /\ answers \in [Req -> Seq(Req \cup {Err500})]

TypePlugin ==
  /\ pst \in [Pullers -> {"idle", "parked", "fwdbody", "push", "found",
                          "push2", "found2", "fwdpush"}]
  /\ seqno \in [Pullers -> Req \cup {None}] /\ ppr \in [Pullers -> Req \cup {None}]
  /\ \A q \in Pullers :
       /\ seqno[q] = None => pst[q] \in {"idle", "parked"}
       /\ ppr[q] = None <=> pst[q] \notin {"found", "found2", "fwdpush"}
  /\ held \subseteq Job

TypeCtl == running \in BOOLEAN /\ aborted \in BOOLEAN

\* Every variable has its type, and a thread or connection that is in the
\* middle of a request knows which one.
TypeOK == /\ TypeQueues /\ TypeEntries /\ TypeWorkers /\ TypeConns
          /\ TypeClients /\ TypePlugin /\ TypeCtl

\* Whatever is rescheduled, repeated or late: a request is answered at most
\* once, and with the answer the plugin fetched for that very request or with
\* djb's own error (djb_find_req() matching the live id and reqid).
AnswersMatch == \A r \in Req : answers[r] \in {<<>>, <<r>>, <<Err500>>}

\* The places a request can be in: the two lists, or the hands of a worker, of
\* a push or of a close.
InNew(r) == r \in ToSet(proxyNew)
InOut(r) == r \in ToSet(proxyOut)
ByWorker(w, r) == wpr[w] = r /\ wpc[w] \in {"pull", "check", "publish"}
ByPush(q, r) == ppr[q] = r /\ pst[q] \in {"found", "found2"}
ByClose(x, r) == moved[x] = r

Places(r) == (IF InNew(r) THEN {<<"new", None>>} ELSE {})
                \cup (IF InOut(r) THEN {<<"out", None>>} ELSE {})
                \cup {<<"worker", w>> : w \in {v \in Workers : ByWorker(v, r)}}
                \cup {<<"push", q>> : q \in {p \in Pullers : ByPush(p, r)}}
                \cup {<<"close", x>> : x \in {y \in Conns : ByClose(y, r)}}

Tracked(r) == Places(r) # {}

\* A request is in at most one place and at most once on a list: two workers,
\* a push and a close can never have the same djb_req_t in hand.
SinglePlace == /\ IsInjective(proxyNew) /\ IsInjective(proxyOut)
               /\ \A r \in Req : \A a, b \in Places(r) : a = b

\* A request in any of these places is the one its requester is waiting for,
\* and it has no response yet: the sequence number read from the live hcl is
\* the number the request was made with.
SeqNoIsCurrent == \A r \in Req : Tracked(r) =>
  reqid[r[1]] = r[2] /\ cst[r[1]] = "waiting" /\ answers[r] = <<>>

\* A request is forgotten if its client waits and can be reached, and djb runs,
\* but it is in none of these places.
Forgotten(c) == /\ cst[c] = "waiting" /\ Reachable(c) /\ running
                /\ ~Tracked(<<c, reqid[c]>>)

\* A worker has a puller for the request, but its connection has gone.
GonePuller(w, r) == wpc[w] = "check" /\ wpr[w] = r /\ conn[war[w]] # "open"

\* A request is only ever forgotten in a build without fassert(), and there by
\* one step: djb_handle_forward() returns because the puller has gone (djb.c:1220).
OnlyGonePullerLoses == [][\A c \in Requesters : Forgotten(c)' /\ ~Forgotten(c) =>
  ~Fassert /\ \E w \in Workers : GonePuller(w, <<c, reqid[c]>>)]_vars

\* In the default build no request is ever forgotten.
NoRequestLost == \A c \in Requesters : ~Forgotten(c)

\* A request is given to a second circuit only once the connection that took
\* it first has gone (djb_close() reschedules what was paired with hcl->id).
NoDoubleWork == \A j, k \in held :
  j # k /\ j.req = k.req => conn[j.by] # "open" \/ conn[k.by] # "open"

\* A circuit works on r: djb is sending it r on a connection that is open, it has
\* fetched r, or djb has its push of the answer and has not dropped it.
WorkedOn(r) ==
  \/ \E p \in Pullers : /\ conn[p] = "open" /\ seqno[p] = r
                        /\ pst[p] = "fwdbody" \/ \E w \in Workers : war[w] = p /\ wpc[w] = "send"
  \/ \E j \in held : j.req = r
  \/ \E q \in Pullers : pst[q] \in {"push", "push2"} /\ seqno[q] = r

\* An outstanding request is neglected if nobody works on it, and no close will
\* ever bring it back, as the connection it was handed out on is open.
Neglected(r) == InOut(r) /\ ~WorkedOn(r) /\ conn[phcl[r]] = "open"

\* The answer to r is lost on its way: the plugin loses the job, pushes what djb
\* turns down (504), or the connection of its push is closed over the body.
AnswerLost(r) ==
  \/ \E j \in Job : j.req = r /\ DropJob(j)
  \/ \E q \in Pullers : seqno[q] = r /\ (PushRejected(q) \/ PushClosed(q))

\* Only a lost answer makes djb wait for nothing.  No other step does, whatever is
\* rescheduled, and however many circuits have had the request: what is
\* outstanding with an open connection has a circuit that will push its answer.
OnlyLostAnswersNeglect == [][\A r \in Req :
  Neglected(r)' /\ ~Neglected(r) => AnswerLost(r)]_vars

\* A parked pull waits in exactly one place: on the list or with one worker.
PullerServedOnce ==
  /\ IsInjective(apiPull)
  /\ \A p \in Pullers : pst[p] = "parked" <=>
       (p \in ToSet(apiPull) \/ \E w \in Workers : war[w] = p)
  /\ \A w \in Workers : war[w] # None =>
       war[w] \notin ToSet(apiPull) /\ \A v \in Workers \ {w} : war[v] # war[w]

\* What a push frees is on no list and in nobody's hands, except for the worker
\* that published it: "Free it up, not tracked anymore" (djb_push()).
FreedUntracked == \A r \in freed : ~Tracked(r)

\* What the proxy promises its clients.
Service == INSTANCE ProxyService
ServiceSpec == Service!Spec

\* With a plugin and connections that keep working, every request is answered,
\* unless djb is shut down.
EveryRequestAnswered == \A c \in Requesters :
  cst[c] = "waiting" ~> cst[c] = "idle" \/ ~running

\* /shutdown/ stops every worker, whatever it waits for.
ShutdownStopsWorkers == ~running ~> \A w \in Workers : wpc[w] = "exit"

\* What the comments in djb.c take for granted; the code does not provide it.

\* djb.c:1216: the fassert(false) for a puller that has gone is never reached.
PullerIsThere == \A w \in Workers : wpc[w] = "check" => conn[war[w]] = "open"

\* djb.c:1250: a request whose plugin connection was closed is restarted.
RestartOnClose == \A r \in Req : InOut(r) => conn[phcl[r]] # "closed"
=============================================================================
