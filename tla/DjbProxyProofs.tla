--------------------------- MODULE DjbProxyProofs ---------------------------
(***************************************************************************)
(* Proofs about DjbProxy, for every number of clients, pullers, workers    *)
(* and requests, whatever breaks, is dropped or fails.                     *)
(*                                                                         *)
(* The argument: a request is in one place at a time (SinglePlace), and    *)
(* where it is, it is the current request of its hcl (SeqNoIsCurrent);     *)
(* therefore a push that finds a request finds the one its number was      *)
(* made for (FoundMatches), and the answer it relays is the right one.     *)
(* The places are preserved one action at a time.  Then DjbProxy           *)
(* implements ProxyService, and no request is lost.                        *)
(***************************************************************************)
EXTENDS DjbProxy, SequenceTheorems, TLAPS

\* Append() adds one element (list_addtail_l()).
LEMMA AppendSet ==
  ASSUME NEW S, NEW s \in Seq(S), NEW e \in S
  PROVE  /\ Append(s, e) \in Seq(S)
         /\ ToSet(Append(s, e)) = ToSet(s) \cup {e}
         /\ IsInjective(s) /\ e \notin ToSet(s) => IsInjective(Append(s, e))
<1>1. /\ Append(s, e) \in Seq(S)
      /\ DOMAIN Append(s, e) = 1 .. (Len(s) + 1)
      /\ \A i \in 1 .. Len(s) : Append(s, e)[i] = s[i]
      /\ Append(s, e)[Len(s) + 1] = e
      /\ DOMAIN s = 1 .. Len(s) /\ Len(s) \in Nat
  OBVIOUS
<1>2. ToSet(Append(s, e)) = ToSet(s) \cup {e}
  BY <1>1 DEF ToSet
<1>3. ASSUME IsInjective(s), e \notin ToSet(s)
      PROVE  IsInjective(Append(s, e))
  BY <1>1, <1>3 DEF ToSet, IsInjective
<1> QED BY <1>1, <1>2, <1>3

\* Head() and Tail() take the first element away (list_getnext()).
LEMMA TailSet ==
  ASSUME NEW S, NEW s \in Seq(S), s # <<>>
  PROVE  /\ Head(s) \in S /\ Tail(s) \in Seq(S)
         /\ Head(s) \in ToSet(s)
         /\ ToSet(Tail(s)) \subseteq ToSet(s)
         /\ IsInjective(s) => /\ IsInjective(Tail(s))
                              /\ Head(s) \notin ToSet(Tail(s))
         /\ ToSet(s) = ToSet(Tail(s)) \cup {Head(s)}
<1>1. /\ Head(s) \in S /\ Tail(s) \in Seq(S)
      /\ Head(s) = s[1]
      /\ DOMAIN s = 1 .. Len(s) /\ Len(s) \in Nat /\ Len(s) >= 1
      /\ Len(Tail(s)) = Len(s) - 1
      /\ DOMAIN Tail(s) = 1 .. (Len(s) - 1)
      /\ \A i \in 1 .. (Len(s) - 1) : Tail(s)[i] = s[i + 1]
  BY HeadTailProperties
<1>2. ToSet(s) = ToSet(Tail(s)) \cup {Head(s)}
  <2>1. ASSUME NEW i \in DOMAIN s PROVE s[i] \in ToSet(Tail(s)) \cup {Head(s)}
    <3>1. CASE i = 1
      BY <3>1, <1>1
    <3>2. CASE i # 1
      <4>1. i - 1 \in DOMAIN Tail(s) /\ Tail(s)[i - 1] = s[i]
        BY <3>2, <1>1
      <4> QED BY <4>1 DEF ToSet
    <3> QED BY <3>1, <3>2
  <2>2. ASSUME NEW i \in DOMAIN Tail(s) PROVE Tail(s)[i] \in ToSet(s)
    BY <1>1 DEF ToSet
  <2>3. Head(s) \in ToSet(s)
    BY <1>1 DEF ToSet
  <2> QED BY <2>1, <2>2, <2>3 DEF ToSet
<1>3. ASSUME IsInjective(s)
      PROVE  IsInjective(Tail(s)) /\ Head(s) \notin ToSet(Tail(s))
  BY <1>1, <1>3 DEF ToSet, IsInjective
<1> QED BY <1>1, <1>2, <1>3

\* Unlink() takes away the element it names and no other (list_remove()).
LEMMA UnlinkSet ==
  ASSUME NEW S, NEW s \in Seq(S), NEW i \in DOMAIN s
  PROVE  /\ s[i] \in S /\ s[i] \in ToSet(s)
         /\ Unlink(s, i) \in Seq(S)
         /\ ToSet(Unlink(s, i)) \subseteq ToSet(s)
         /\ IsInjective(s) => /\ IsInjective(Unlink(s, i))
                              /\ ToSet(Unlink(s, i)) = ToSet(s) \ {s[i]}
<1> DEFINE t == Unlink(s, i)
<1>1. /\ i \in 1 .. Len(s) /\ Len(s) \in Nat /\ DOMAIN s = 1 .. Len(s)
      /\ \A k \in 1 .. Len(s) : s[k] \in S
  OBVIOUS
<1> DEFINE front == SubSeq(s, 1, i - 1)
           back  == SubSeq(s, i + 1, Len(s))
<1>2. /\ front \in Seq(S) /\ Len(front) = i - 1
      /\ \A k \in 1 .. (i - 1) : front[k] = s[k]
  BY <1>1, SubSeqProperties
<1>3. /\ back \in Seq(S) /\ Len(back) = Len(s) - i
      /\ \A k \in 1 .. (Len(s) - i) : back[k] = s[k + i]
  BY <1>1, SubSeqProperties
<1>4. /\ t \in Seq(S) /\ Len(t) = Len(s) - 1 /\ DOMAIN t = 1 .. (Len(s) - 1)
      /\ \A k \in 1 .. (i - 1) : t[k] = s[k]
      /\ \A k \in i .. (Len(s) - 1) : t[k] = s[k + 1]
  <2>1. t = front \o back
    BY DEF Unlink, RemoveAt
  <2> HIDE DEF t, front, back
  <2>2. /\ t \in Seq(S) /\ Len(t) = Len(front) + Len(back)
        /\ \A k \in 1 .. Len(front) + Len(back) :
              t[k] = IF k <= Len(front) THEN front[k] ELSE back[k - Len(front)]
    BY <1>2, <1>3, <2>1, ConcatProperties
  <2>3. Len(t) = Len(s) - 1 /\ DOMAIN t = 1 .. (Len(s) - 1)
    BY <1>1, <1>2, <1>3, <2>2
  <2>4. ASSUME NEW k \in 1 .. (i - 1) PROVE t[k] = s[k]
    <3>1. k \in 1 .. Len(front) + Len(back) /\ k <= Len(front)
      BY <1>1, <1>2, <1>3
    <3> QED BY <1>2, <2>2, <3>1
  <2>5. ASSUME NEW k \in i .. (Len(s) - 1) PROVE t[k] = s[k + 1]
    <3>1. k \in 1 .. Len(front) + Len(back) /\ ~(k <= Len(front))
      BY <1>1, <1>2, <1>3
    <3>2. t[k] = back[k - Len(front)]
      BY <2>2, <3>1
    <3>3. /\ k - Len(front) \in 1 .. (Len(s) - i)
          /\ k - Len(front) + i = k + 1
      BY <1>1, <1>2
    <3> QED BY <1>3, <3>2, <3>3
  <2> QED BY <2>2, <2>3, <2>4, <2>5
<1> HIDE DEF front, back
<1> HIDE DEF t
<1>5. ToSet(t) \subseteq ToSet(s)
  BY <1>1, <1>4 DEF ToSet
<1>6. ASSUME IsInjective(s)
      PROVE  IsInjective(t) /\ ToSet(t) = ToSet(s) \ {s[i]}
  <2> DEFINE from(k) == IF k < i THEN k ELSE k + 1
  <2>0. ASSUME NEW k \in DOMAIN t
        PROVE  from(k) \in DOMAIN s /\ from(k) # i /\ t[k] = s[from(k)]
    <3>1. CASE k < i
      BY <3>1, <1>1, <1>4
    <3>2. CASE ~(k < i)
      BY <3>2, <1>1, <1>4
    <3> QED BY <3>1, <3>2
  <2>1. IsInjective(t)
    <3>1. ASSUME NEW k \in DOMAIN t, NEW l \in DOMAIN t, t[k] = t[l]
          PROVE  k = l
      <4>1. from(k) = from(l)
        BY <2>0, <3>1, <1>6 DEF IsInjective
      <4> QED BY <4>1, <1>1, <1>4
    <3> QED BY <3>1 DEF IsInjective
  <2>2. s[i] \notin ToSet(t)
    BY <2>0, <1>1, <1>6 DEF IsInjective, ToSet
  <2>3. ASSUME NEW k \in DOMAIN s, k # i PROVE s[k] \in ToSet(t)
    <3>1. CASE k < i
      <4>1. k \in DOMAIN t /\ t[k] = s[k]
        BY <3>1, <1>1, <1>4
      <4> QED BY <4>1 DEF ToSet
    <3>2. CASE k > i
      <4>1. k - 1 \in DOMAIN t /\ t[k - 1] = s[k]
        BY <3>2, <1>1, <1>4
      <4> QED BY <4>1 DEF ToSet
    <3> QED BY <2>3, <3>1, <3>2, <1>1
  <2> QED BY <2>1, <2>2, <2>3, <1>5 DEF ToSet
<1>7. s[i] \in S /\ s[i] \in ToSet(s)
  BY <1>1 DEF ToSet
<1> QED BY <1>4, <1>5, <1>6, <1>7 DEF t

-----------------------------------------------------------------------------
\* A worker that has begun to answer a puller has told it a sequence number.
SeqNoGiven == \A w \in Workers :
  wpc[w] \in {"publish", "send"} => seqno[war[w]] # None

\* A push has found the request whose number it carries.
FoundMatches == \A q \in Pullers : \A r \in Req : ByPush(q, r) => seqno[q] = r

\* A request that was not made yet has no response.
FutureUnanswered == \A r \in Req : r[2] > reqid[r[1]] => answers[r] = <<>>

\* A body is copied to a client that waits for it, by one push only.
Forwarding == \A q \in Pullers : pst[q] = "fwdpush" =>
  /\ cst[ppr[q][1]] = "forward"
  /\ \A p \in Pullers \ {q} : pst[p] = "fwdpush" => ppr[p][1] # ppr[q][1]

\* The inductive invariant.
PullerInv == PullerServedOnce /\ SeqNoGiven
AnswersInv == FoundMatches /\ FutureUnanswered /\ AnswersMatch
IInv == /\ TypeOK /\ PullerInv /\ SinglePlace /\ SeqNoIsCurrent
        /\ AnswersInv /\ Forwarding

\* A request is a pair of its requester and its number, and no null value.
LEMMA ReqFacts ==
  ASSUME NEW r \in Req
  PROVE  /\ r[1] \in Requesters /\ r[2] \in 1 .. MaxReq /\ r[2] \in Nat
         /\ r = <<r[1], r[2]>> /\ r # None /\ r # Err500
         /\ r[1] \in Clients \/ r[1] \in Internals
BY NoneAssumption, Err500Assumption, BoundAssumption DEF Req, Requesters

-----------------------------------------------------------------------------
\* What SinglePlace says of a request in each of the five kinds of places.

\* Each predicate that puts a request somewhere names one place.
LEMMA PlaceOf ==
  ASSUME NEW r \in Req
  PROVE  /\ InNew(r) => <<"new", None>> \in Places(r)
         /\ InOut(r) => <<"out", None>> \in Places(r)
         /\ \A w \in Workers : ByWorker(w, r) => <<"worker", w>> \in Places(r)
         /\ \A q \in Pullers : ByPush(q, r) => <<"push", q>> \in Places(r)
         /\ \A x \in Conns : ByClose(x, r) => <<"close", x>> \in Places(r)
BY DEF Places

\* What waits on lst_proxy_new is nowhere else.
LEMMA OnlyNew ==
  ASSUME SinglePlace, NEW r \in Req, InNew(r)
  PROVE  /\ Tracked(r) /\ ~InOut(r) /\ \A w \in Workers : ~ByWorker(w, r)
         /\ \A q \in Pullers : ~ByPush(q, r)
         /\ \A x \in Conns : ~ByClose(x, r)
BY PlaceOf DEF SinglePlace, Tracked

\* What waits on lst_proxy_out is nowhere else.
LEMMA OnlyOut ==
  ASSUME SinglePlace, NEW r \in Req, InOut(r)
  PROVE  /\ Tracked(r) /\ ~InNew(r) /\ \A w \in Workers : ~ByWorker(w, r)
         /\ \A q \in Pullers : ~ByPush(q, r)
         /\ \A x \in Conns : ~ByClose(x, r)
BY PlaceOf DEF SinglePlace, Tracked

\* What a worker has in hand is nowhere else.
LEMMA OnlyWorker ==
  ASSUME SinglePlace, NEW r \in Req, NEW w \in Workers, ByWorker(w, r)
  PROVE  /\ Tracked(r) /\ ~InNew(r) /\ ~InOut(r)
         /\ \A v \in Workers \ {w} : ~ByWorker(v, r)
         /\ \A q \in Pullers : ~ByPush(q, r)
         /\ \A x \in Conns : ~ByClose(x, r)
<1>1. <<"worker", w>> \in Places(r)
  BY PlaceOf
<1>2. \A a \in Places(r) : a = <<"worker", w>>
  BY <1>1 DEF SinglePlace
<1>3. ASSUME NEW v \in Workers \ {w} PROVE ~ByWorker(v, r)
  <2>1. <<"worker", v>> # <<"worker", w>>
    OBVIOUS
  <2> QED BY <2>1, <1>2, PlaceOf
<1> QED BY <1>1, <1>2, <1>3, PlaceOf DEF Tracked

\* What a push has in hand is nowhere else.
LEMMA OnlyPush ==
  ASSUME SinglePlace, NEW r \in Req, NEW q \in Pullers, ByPush(q, r)
  PROVE  /\ Tracked(r) /\ ~InNew(r) /\ ~InOut(r)
         /\ \A w \in Workers : ~ByWorker(w, r)
         /\ \A p \in Pullers \ {q} : ~ByPush(p, r)
         /\ \A x \in Conns : ~ByClose(x, r)
<1>1. <<"push", q>> \in Places(r)
  BY PlaceOf
<1>2. \A a \in Places(r) : a = <<"push", q>>
  BY <1>1 DEF SinglePlace
<1>3. ASSUME NEW p \in Pullers \ {q} PROVE ~ByPush(p, r)
  <2>1. <<"push", p>> # <<"push", q>>
    OBVIOUS
  <2> QED BY <2>1, <1>2, PlaceOf
<1> QED BY <1>1, <1>2, <1>3, PlaceOf DEF Tracked

\* What djb_close() has in hand is nowhere else.
LEMMA OnlyClose ==
  ASSUME SinglePlace, NEW r \in Req, NEW x \in Conns, ByClose(x, r)
  PROVE  /\ Tracked(r) /\ ~InNew(r) /\ ~InOut(r)
         /\ \A w \in Workers : ~ByWorker(w, r)
         /\ \A q \in Pullers : ~ByPush(q, r)
         /\ \A y \in Conns \ {x} : ~ByClose(y, r)
<1>1. <<"close", x>> \in Places(r)
  BY PlaceOf
<1>2. \A a \in Places(r) : a = <<"close", x>>
  BY <1>1 DEF SinglePlace
<1>3. ASSUME NEW y \in Conns \ {x} PROVE ~ByClose(y, r)
  <2>1. <<"close", y>> # <<"close", x>>
    OBVIOUS
  <2> QED BY <2>1, <1>2, PlaceOf
<1> QED BY <1>1, <1>2, <1>3, PlaceOf DEF Tracked

\* A step that changes none of the five predicates for r leaves r where it is.
LEMMA SamePlace ==
  ASSUME NEW r \in Req,
         InNew(r)' <=> InNew(r), InOut(r)' <=> InOut(r),
         \A w \in Workers : ByWorker(w, r)' <=> ByWorker(w, r),
         \A q \in Pullers : ByPush(q, r)' <=> ByPush(q, r),
         \A x \in Conns : ByClose(x, r)' <=> ByClose(x, r)
  PROVE  Places(r)' = Places(r)
BY DEF Places

\* A step that moves one request only, to one place at most, keeps SinglePlace.
LEMMA MoveStep ==
  ASSUME SinglePlace, IsInjective(proxyNew)', IsInjective(proxyOut)',
         NEW m \in Req, NEW CONSTANT to, Places(m)' \subseteq {to},
         \A r \in Req \ {m} : Places(r)' = Places(r)
  PROVE  SinglePlace'
<1>1. ASSUME NEW r \in Req, NEW a \in Places(r)', NEW b \in Places(r)' PROVE a = b
  <2>1. CASE r = m
    BY <2>1
  <2>2. CASE r # m
    BY <2>2 DEF SinglePlace
  <2> QED BY <2>1, <2>2
<1> QED BY <1>1 DEF SinglePlace

\* A step that moves no request and changes no client.
LEMMA QuietStep ==
  ASSUME SinglePlace, SeqNoIsCurrent,
         UNCHANGED <<proxyNew, proxyOut, moved, reqid, cst, answers>>,
         \A w \in Workers, r \in Req : ByWorker(w, r)' <=> ByWorker(w, r),
         \A q \in Pullers, r \in Req : ByPush(q, r)' <=> ByPush(q, r)
  PROVE  SinglePlace' /\ SeqNoIsCurrent'
<1>1. ASSUME NEW r \in Req PROVE Places(r)' = Places(r)
  BY SamePlace DEF InNew, InOut, ByClose
<1>2. SinglePlace'
  BY <1>1 DEF SinglePlace
<1>3. SeqNoIsCurrent'
  BY <1>1 DEF SeqNoIsCurrent, Tracked
<1> QED BY <1>2, <1>3

\* A step that leaves the parked pulls alone.
LEMMA PullersKept ==
  ASSUME PullerInv, UNCHANGED <<apiPull, war>>,
         \A p \in Pullers : pst'[p] = "parked" <=> pst[p] = "parked",
         \A w \in Workers : wpc'[w] \in {"publish", "send"} =>
            wpc[w] \in {"publish", "send"} /\ seqno'[war[w]] = seqno[war[w]]
  PROVE  PullerInv'
BY DEF PullerInv, PullerServedOnce, SeqNoGiven

\* A step that answers nothing and finds nothing.
LEMMA AnswersKept ==
  ASSUME AnswersInv, UNCHANGED <<reqid, answers>>,
         \A q \in Pullers, r \in Req :
            ByPush(q, r)' => ByPush(q, r) /\ seqno'[q] = seqno[q]
  PROVE  AnswersInv'
BY DEF AnswersInv, FoundMatches, FutureUnanswered, AnswersMatch

\* A step that begins no copy of a body and leaves the clients alone.
LEMMA ForwardingKept ==
  ASSUME Forwarding, UNCHANGED cst,
         \A q \in Pullers : pst'[q] = "fwdpush" =>
            pst[q] = "fwdpush" /\ ppr'[q] = ppr[q]
  PROVE  Forwarding'
BY DEF Forwarding

-----------------------------------------------------------------------------
\* One lemma per action: it preserves the inductive invariant.

\* A new request is in no place yet; afterwards it is on lst_proxy_new.
LEMMA RequestStep ==
  ASSUME IInv, NEW c \in Requesters, NEW body \in BOOLEAN, Request(c, body)
  PROVE  IInv'
<1>0. /\ <<c, reqid[c] + 1>> \in Req /\ reqid[c] \in Nat
      /\ reqid[c] + 1 \in 0 .. MaxReq
  BY BoundAssumption DEF IInv, TypeOK, TypeClients, Request, Req
<1> PICK new \in Req : new = <<c, reqid[c] + 1>>
  BY <1>0
<1>1. new[1] = c /\ new[2] = reqid[c] + 1
  OBVIOUS
<1>2. \A r \in Req : r[1] = c => ~Tracked(r)
  BY DEF IInv, SeqNoIsCurrent, Request
<1>3. ~Tracked(new) /\ answers[new] = <<>>
  BY <1>0, <1>1, <1>2 DEF IInv, AnswersInv, FutureUnanswered
<1>4. /\ proxyNew' = Append(proxyNew, new)
      /\ reqid' = [reqid EXCEPT ![c] = @ + 1]
      /\ cst' = [cst EXCEPT ![c] = "waiting"]
      /\ hasBody' = [hasBody EXCEPT ![new] = body]
      /\ UNCHANGED <<proxyOut, apiPull, answers, phcl, freed, wpc, wpr, war, conn,
                     moved, pst, seqno, ppr, held, running, aborted>>
  BY DEF Request, entryVars, workerVars, connVars, pluginVars, ctlVars
<1>5. ~InNew(new) /\ ~InOut(new) /\ Places(new) = {}
  BY <1>0, <1>1, <1>3, PlaceOf DEF Tracked
<1>6. /\ proxyNew' \in Seq(Req) /\ IsInjective(proxyNew')
      /\ ToSet(proxyNew') = ToSet(proxyNew) \cup {new}
  BY <1>0, <1>1, <1>4, <1>5, AppendSet DEF IInv, TypeOK, TypeQueues, SinglePlace, InNew
<1>7. ASSUME NEW r \in Req, r # new PROVE Places(r)' = Places(r)
  <2>1. InNew(r)' <=> InNew(r)
    BY <1>6, <1>7 DEF InNew
  <2> QED BY <2>1, <1>4, SamePlace DEF InOut, ByWorker, ByPush, ByClose
<1>8. Places(new)' \subseteq {<<"new", None>>}
  <2>1. /\ ~InOut(new)' /\ \A w \in Workers : ~ByWorker(w, new)'
        /\ \A q \in Pullers : ~ByPush(q, new)'
        /\ \A x \in Conns : ~ByClose(x, new)'
    BY <1>4, <1>5, PlaceOf DEF InOut, ByWorker, ByPush, ByClose
  <2> QED BY <2>1 DEF Places
<1>9. SinglePlace'
  <2>1. SinglePlace /\ IsInjective(proxyNew)' /\ IsInjective(proxyOut)'
    BY <1>4, <1>6 DEF IInv, SinglePlace
  <2> QED BY <2>1, <1>7, <1>8, MoveStep
<1>10. SeqNoIsCurrent'
  <2>1. reqid'[c] = reqid[c] + 1 /\ cst'[c] = "waiting"
    BY <1>4 DEF IInv, TypeOK, TypeClients
  <2>2. ASSUME NEW r \in Req, Tracked(r)', r # new
        PROVE  reqid'[r[1]] = r[2] /\ cst'[r[1]] = "waiting" /\ answers'[r] = <<>>
    <3>1. Tracked(r) /\ r[1] # c
      BY <1>2, <1>7, <2>2 DEF Tracked
    <3> QED BY <3>1, <1>4, ReqFacts DEF IInv, SeqNoIsCurrent, TypeOK, TypeClients
  <2> QED BY <1>0, <1>1, <1>3, <1>4, <2>1, <2>2 DEF SeqNoIsCurrent
<1>11. TypeOK'
  <2>1. TypeClients'
    BY <1>0, <1>1, <1>4 DEF IInv, TypeOK, TypeClients
  <2> QED BY <1>4, <1>6, <2>1 DEF IInv, TypeOK, TypeQueues, TypeEntries,
             TypeWorkers, TypeConns, TypePlugin, TypeCtl
<1>12. AnswersInv'
  BY <1>4, ReqFacts, <1>1 DEF IInv, TypeOK, TypeClients, AnswersInv, FoundMatches,
     FutureUnanswered, AnswersMatch, ByPush
<1>13. PullerInv'
  BY <1>4, PullersKept DEF IInv
<1>14. Forwarding'
  <2>1. ASSUME NEW q \in Pullers, pst[q] = "fwdpush" PROVE ppr[q][1] # c
    BY <2>1 DEF IInv, Forwarding, Request
  <2> QED BY <1>4, <2>1 DEF IInv, TypeOK, TypeClients, TypePlugin, Forwarding
<1> QED BY <1>9, <1>10, <1>11, <1>12, <1>13, <1>14 DEF IInv

\* djb_proxy_add() without memory answers a request that is in no place.
LEMMA RequestNoMemoryStep ==
  ASSUME IInv, NEW c \in Requesters, RequestNoMemory(c)
  PROVE  IInv'
<1>0. /\ <<c, reqid[c] + 1>> \in Req /\ reqid[c] \in Nat
      /\ reqid[c] + 1 \in 0 .. MaxReq
  BY BoundAssumption DEF IInv, TypeOK, TypeClients, RequestNoMemory, Req
<1> PICK new \in Req : new = <<c, reqid[c] + 1>>
  BY <1>0
<1>1. new[1] = c /\ new[2] = reqid[c] + 1
  OBVIOUS
<1>2. \A r \in Req : r[1] = c => ~Tracked(r)
  BY DEF IInv, SeqNoIsCurrent, RequestNoMemory
<1>3. answers[new] = <<>>
  BY <1>0, <1>1 DEF IInv, AnswersInv, FutureUnanswered
<1>4. /\ reqid' = [reqid EXCEPT ![c] = @ + 1]
      /\ answers' = [answers EXCEPT ![new] = Append(<<>>, Err500)]
      /\ UNCHANGED <<proxyNew, proxyOut, apiPull, cst, hasBody, phcl, freed, wpc, wpr,
                     war, moved, pst, seqno, ppr, held, running, aborted>>
      /\ IF c \in Clients THEN ErrorSent(c) ELSE UNCHANGED conn
  BY <1>3 DEF RequestNoMemory, queueVars, entryVars, workerVars, pluginVars, ctlVars
<1>5. answers' = [answers EXCEPT ![new] = <<Err500>>]
  BY <1>4
<1>6. ASSUME NEW r \in Req PROVE Places(r)' = Places(r)
  BY <1>4, SamePlace DEF InNew, InOut, ByWorker, ByPush, ByClose
<1>7. SinglePlace'
  BY <1>4, <1>6 DEF IInv, SinglePlace
<1>8. SeqNoIsCurrent'
  <2>1. ASSUME NEW r \in Req, Tracked(r)' PROVE r[1] # c /\ r # new /\ Tracked(r)
    BY <1>0, <1>1, <1>2, <1>6, <2>1 DEF Tracked
  <2> QED BY <1>4, <1>5, <2>1, ReqFacts DEF IInv, SeqNoIsCurrent, TypeOK, TypeClients
<1>9. TypeOK'
  <2>1. TypeClients'
    BY <1>0, <1>1, <1>4, <1>5 DEF IInv, TypeOK, TypeClients
  <2>2. TypeConns'
    BY <1>4 DEF IInv, TypeOK, TypeConns, ErrorSent, Conns
  <2> QED BY <1>4, <2>1, <2>2 DEF IInv, TypeOK, TypeQueues, TypeEntries,
             TypeWorkers, TypePlugin, TypeCtl
<1>10. AnswersInv'
  <2>1. FutureUnanswered'
    <3>1. ASSUME NEW r \in Req, r[2] > reqid'[r[1]]
          PROVE  r # new /\ r[2] > reqid[r[1]]
      BY <1>0, <1>1, <1>4, <3>1, ReqFacts DEF IInv, TypeOK, TypeClients
    <3> QED BY <1>5, <3>1 DEF IInv, TypeOK, TypeClients, AnswersInv, FutureUnanswered
  <2>2. AnswersMatch'
    BY <1>0, <1>1, <1>5 DEF IInv, TypeOK, TypeClients, AnswersInv, AnswersMatch
  <2>3. FoundMatches'
    BY <1>4 DEF IInv, AnswersInv, FoundMatches, ByPush
  <2> QED BY <2>1, <2>2, <2>3 DEF AnswersInv
<1>11. PullerInv' /\ Forwarding'
  BY <1>4, PullersKept, ForwardingKept DEF IInv
<1> QED BY <1>7, <1>8, <1>9, <1>10, <1>11 DEF IInv

\* djb_pull_post() parks an idle connection.
LEMMA PullStep ==
  ASSUME IInv, NEW p \in Pullers, Pull(p)
  PROVE  IInv'
<1>1. /\ pst[p] = "idle" /\ pst' = [pst EXCEPT ![p] = "parked"]
      /\ apiPull' = Append(apiPull, p)
      /\ UNCHANGED <<proxyNew, proxyOut, seqno, ppr, held, phcl, freed, wpc, wpr, war,
                     conn, moved, reqid, cst, hasBody, answers, running, aborted>>
  BY DEF Pull, entryVars, workerVars, connVars, clientVars, ctlVars
<1>2. p \notin ToSet(apiPull) /\ \A w \in Workers : war[w] # p
  BY <1>1 DEF IInv, PullerInv, PullerServedOnce
<1>3. /\ apiPull' \in Seq(Pullers) /\ IsInjective(apiPull')
      /\ ToSet(apiPull') = ToSet(apiPull) \cup {p}
  BY <1>1, <1>2, AppendSet DEF IInv, TypeOK, TypeQueues, PullerInv, PullerServedOnce
<1>4. TypeOK'
  <2>1. TypePlugin'
    BY <1>1 DEF IInv, TypeOK, TypePlugin
  <2> QED BY <1>1, <1>3, <2>1 DEF IInv, TypeOK, TypeQueues, TypeEntries,
             TypeWorkers, TypeConns, TypeClients, TypeCtl
<1>5. PullerInv'
  <2>1. ASSUME NEW q \in Pullers
        PROVE  pst'[q] = "parked" <=>
                 (q \in ToSet(apiPull') \/ \E w \in Workers : war'[w] = q)
    BY <1>1, <1>2, <1>3 DEF IInv, TypeOK, TypePlugin, PullerInv, PullerServedOnce
  <2>2. SeqNoGiven'
    BY <1>1 DEF IInv, PullerInv, SeqNoGiven
  <2> QED BY <1>1, <1>2, <1>3, <2>1, <2>2 DEF IInv, PullerInv, PullerServedOnce
<1>6. \A q \in Pullers, r \in Req : ByPush(q, r)' <=> ByPush(q, r)
  BY <1>1 DEF IInv, TypeOK, TypePlugin, ByPush
<1>7. SinglePlace' /\ SeqNoIsCurrent'
  BY <1>1, <1>6, QuietStep DEF IInv, ByWorker
<1>8. AnswersInv' /\ Forwarding'
  BY <1>1, <1>6, AnswersKept, ForwardingKept DEF IInv, TypeOK, TypePlugin
<1> QED BY <1>4, <1>5, <1>7, <1>8 DEF IInv

\* djb_pull_post() without memory changes connections only.
LEMMA PullNoMemoryStep ==
  ASSUME IInv, NEW p \in Pullers, PullNoMemory(p)
  PROVE  IInv'
<1>1. /\ conn' \in {conn, [conn EXCEPT ![p] = IF @ = "open" THEN "broken" ELSE @]}
      /\ UNCHANGED <<proxyNew, proxyOut, apiPull, phcl, freed, wpc, wpr, war, moved,
                     reqid, cst, hasBody, answers, pst, seqno, ppr, held, running, aborted>>
  BY DEF PullNoMemory, ErrorSent, queueVars, entryVars, workerVars, clientVars, pluginVars, ctlVars
<1>2. TypeConns'
  BY <1>1 DEF IInv, TypeOK, TypeConns
<1>3. TypeOK'
  BY <1>1, <1>2 DEF IInv, TypeOK, TypeQueues, TypeEntries, TypeWorkers,
     TypeClients, TypePlugin, TypeCtl
<1> QED BY <1>1, <1>3, PullersKept, QuietStep, AnswersKept, ForwardingKept
        DEF IInv, ByWorker, ByPush

\* Whatever a step moves, the numbers stay current when it leaves the clients
\* alone and brings in no request.
LEMMA CurrentKept ==
  ASSUME SeqNoIsCurrent, UNCHANGED <<reqid, cst, answers>>,
         \A r \in Req : Tracked(r)' => Tracked(r)
  PROVE  SeqNoIsCurrent'
BY DEF SeqNoIsCurrent

\* A worker takes the head of lst_proxy_new.
LEMMA TakeRequestStep ==
  ASSUME IInv, NEW w \in Workers, TakeRequest(w)
  PROVE  IInv'
<1>0. proxyNew \in Seq(Req) /\ proxyNew # <<>> /\ wpc[w] = "new" /\ SinglePlace
  BY DEF IInv, TypeOK, TypeQueues, TakeRequest
<1> PICK m \in Req : m = Head(proxyNew)
  BY <1>0, TailSet
<1>1. /\ wpr' = [wpr EXCEPT ![w] = m] /\ proxyNew' = Tail(proxyNew)
      /\ wpc' = [wpc EXCEPT ![w] = "pull"]
      /\ UNCHANGED <<proxyOut, apiPull, war, phcl, freed, conn, moved, reqid, cst, hasBody,
                     answers, pst, seqno, ppr, held, running, aborted>>
  BY DEF TakeRequest, entryVars, connVars, clientVars, pluginVars, ctlVars
<1>2. /\ proxyNew' \in Seq(Req) /\ IsInjective(proxyNew')
      /\ m \in ToSet(proxyNew) /\ m \notin ToSet(proxyNew')
      /\ ToSet(proxyNew) = ToSet(proxyNew') \cup {m}
  BY <1>0, <1>1, TailSet DEF SinglePlace
<1>3. /\ InNew(m) /\ Tracked(m) /\ ~InOut(m) /\ \A v \in Workers : ~ByWorker(v, m)
      /\ \A q \in Pullers : ~ByPush(q, m)
      /\ \A x \in Conns : ~ByClose(x, m)
  <2>1. InNew(m)
    BY <1>2 DEF InNew
  <2> QED BY <2>1, <1>0, OnlyNew
<1>4. ASSUME NEW r \in Req, r # m PROVE Places(r)' = Places(r)
  <2>1. InNew(r)' <=> InNew(r)
    BY <1>2, <1>4 DEF InNew
  <2>2. \A v \in Workers : ByWorker(v, r)' <=> ByWorker(v, r)
    BY <1>0, <1>1, <1>4 DEF IInv, TypeOK, TypeWorkers, ByWorker
  <2> QED BY <2>1, <2>2, <1>1, SamePlace DEF InOut, ByPush, ByClose
<1>5. Places(m)' \subseteq {<<"worker", w>>}
  <2>1. /\ ~InNew(m)' /\ ~InOut(m)' /\ \A v \in Workers \ {w} : ~ByWorker(v, m)'
        /\ \A q \in Pullers : ~ByPush(q, m)'
        /\ \A x \in Conns : ~ByClose(x, m)'
    BY <1>1, <1>2, <1>3 DEF IInv, TypeOK, TypeWorkers, InNew, InOut, ByWorker, ByPush, ByClose
  <2> QED BY <2>1 DEF Places
<1>6. SinglePlace'
  <2>1. IsInjective(proxyNew)' /\ IsInjective(proxyOut)'
    BY <1>0, <1>1, <1>2 DEF SinglePlace
  <2> QED BY <2>1, <1>0, <1>4, <1>5, MoveStep
<1>7. SeqNoIsCurrent'
  <2>1. ASSUME NEW r \in Req, Tracked(r)' PROVE Tracked(r)
    BY <2>1, <1>3, <1>4 DEF Tracked
  <2> QED BY <2>1, <1>1, CurrentKept DEF IInv
<1>8. TypeOK'
  <2>1. TypeWorkers'
    BY <1>0, <1>1, ReqFacts DEF IInv, TypeOK, TypeWorkers
  <2> QED BY <1>1, <1>2, <2>1 DEF IInv, TypeOK, TypeQueues, TypeEntries, TypeConns,
             TypeClients, TypePlugin, TypeCtl
<1>9. PullerInv'
  BY <1>1, PullersKept DEF IInv, TypeOK, TypeWorkers
<1>10. AnswersInv' /\ Forwarding'
  BY <1>1, AnswersKept, ForwardingKept DEF IInv, ByPush
<1> QED BY <1>6, <1>7, <1>8, <1>9, <1>10 DEF IInv

\* A worker takes the head of lst_api_pull.
LEMMA TakePullerStep ==
  ASSUME IInv, NEW w \in Workers, TakePuller(w)
  PROVE  IInv'
<1>0. apiPull \in Seq(Pullers) /\ apiPull # <<>> /\ wpc[w] = "pull"
  BY DEF IInv, TypeOK, TypeQueues, TakePuller
<1> PICK p \in Pullers : p = Head(apiPull)
  BY <1>0, TailSet
<1>1. /\ war' = [war EXCEPT ![w] = p] /\ apiPull' = Tail(apiPull)
      /\ wpc' = [wpc EXCEPT ![w] = "check"]
      /\ UNCHANGED <<proxyNew, proxyOut, wpr, phcl, freed, conn, moved, reqid, cst, hasBody,
                     answers, pst, seqno, ppr, held, running, aborted>>
  BY DEF TakePuller, entryVars, connVars, clientVars, pluginVars, ctlVars
<1>2. /\ apiPull' \in Seq(Pullers) /\ IsInjective(apiPull')
      /\ p \in ToSet(apiPull) /\ p \notin ToSet(apiPull')
      /\ ToSet(apiPull) = ToSet(apiPull') \cup {p}
  BY <1>0, <1>1, TailSet DEF IInv, PullerInv, PullerServedOnce
<1>3. war[w] = None /\ war'[w] = p /\ \A v \in Workers \ {w} : war'[v] = war[v]
  BY <1>0, <1>1 DEF IInv, TypeOK, TypeWorkers
<1>4. PullerInv'
  <2>1. p # None
    BY NoneAssumption
  <2>2. \A v \in Workers : war[v] # p
    BY <1>2, <2>1 DEF IInv, PullerInv, PullerServedOnce
  <2>3. ASSUME NEW q \in Pullers
        PROVE  pst'[q] = "parked" <=>
                 (q \in ToSet(apiPull') \/ \E v \in Workers : war'[v] = q)
    <3>1. pst[q] = "parked" <=>
            (q \in ToSet(apiPull) \/ \E v \in Workers : war[v] = q)
      BY DEF IInv, PullerInv, PullerServedOnce
    <3>2. q # None
      BY NoneAssumption
    <3> QED BY <3>1, <3>2, <1>1, <1>2, <1>3
  <2>4. ASSUME NEW u \in Workers, war'[u] # None
        PROVE  /\ war'[u] \notin ToSet(apiPull')
               /\ \A v \in Workers \ {u} : war'[v] # war'[u]
    BY <2>2, <2>4, <1>2, <1>3 DEF IInv, PullerInv, PullerServedOnce
  <2>5. SeqNoGiven'
    BY <1>1, <1>3 DEF IInv, TypeOK, TypeWorkers, PullerInv, SeqNoGiven
  <2> QED BY <1>2, <2>3, <2>4, <2>5 DEF PullerInv, PullerServedOnce
<1>5. TypeOK'
  <2>1. TypeWorkers'
    BY <1>0, <1>1, NoneAssumption DEF IInv, TypeOK, TypeWorkers
  <2> QED BY <1>1, <1>2, <2>1 DEF IInv, TypeOK, TypeQueues, TypeEntries, TypeConns,
             TypeClients, TypePlugin, TypeCtl
<1>6. \A v \in Workers, r \in Req : ByWorker(v, r)' <=> ByWorker(v, r)
  BY <1>0, <1>1 DEF IInv, TypeOK, TypeWorkers, ByWorker
<1>7. SinglePlace' /\ SeqNoIsCurrent'
  BY <1>1, <1>6, QuietStep DEF IInv, ByPush
<1>8. AnswersInv' /\ Forwarding'
  BY <1>1, AnswersKept, ForwardingKept DEF IInv, ByPush
<1> QED BY <1>4, <1>5, <1>7, <1>8 DEF IInv

\* The worker w lets go of its puller p, which is parked no longer.
LEMMA PullerReleased ==
  ASSUME TypeWorkers, PullerInv, NEW w \in Workers, NEW p \in Pullers, war[w] = p,
         apiPull' = apiPull, war' = [war EXCEPT ![w] = None],
         wpc' = [wpc EXCEPT ![w] = "new"], pst'[p] # "parked",
         \A q \in Pullers \ {p} : pst'[q] = pst[q] /\ seqno'[q] = seqno[q]
  PROVE  PullerInv'
<1>1. p # None /\ war'[w] = None /\ \A v \in Workers \ {w} : war'[v] = war[v]
  BY NoneAssumption DEF TypeWorkers
<1>2. p \notin ToSet(apiPull) /\ \A v \in Workers \ {w} : war[v] # p
  BY <1>1 DEF PullerInv, PullerServedOnce
<1>3. ASSUME NEW q \in Pullers
      PROVE  pst'[q] = "parked" <=>
               (q \in ToSet(apiPull') \/ \E v \in Workers : war'[v] = q)
  <2>1. CASE q = p
    BY <2>1, <1>1, <1>2
  <2>2. CASE q # p
    <3>1. q # None
      BY NoneAssumption
    <3>2. pst[q] = "parked" <=>
            (q \in ToSet(apiPull) \/ \E v \in Workers : war[v] = q)
      BY DEF PullerInv, PullerServedOnce
    <3> QED BY <2>2, <3>1, <3>2, <1>1
  <2> QED BY <2>1, <2>2
<1>4. SeqNoGiven'
  <2>1. ASSUME NEW v \in Workers, wpc'[v] \in {"publish", "send"}
        PROVE  seqno'[war'[v]] # None
    <3>1. v # w /\ wpc[v] \in {"publish", "send"} /\ war'[v] = war[v] /\ war[v] \in Pullers
      BY <2>1, <1>1 DEF TypeWorkers
    <3> QED BY <3>1, <1>2 DEF PullerInv, SeqNoGiven
  <2> QED BY <2>1 DEF SeqNoGiven
<1>5. ASSUME NEW u \in Workers, war'[u] # None
      PROVE  war'[u] \notin ToSet(apiPull') /\ \A v \in Workers \ {u} : war'[v] # war'[u]
  BY <1>5, <1>1 DEF PullerInv, PullerServedOnce
<1> QED BY <1>3, <1>4, <1>5 DEF PullerInv, PullerServedOnce

\* What the plugin holds is well typed after djb has answered a pull.
LEMMA DeliverType ==
  ASSUME TypePlugin, NEW p \in Pullers, seqno[p] # None, Deliver(p)
  PROVE  held' \subseteq Job
BY DEF Deliver, TypePlugin, Job

\* The puller has gone: the process stops, or the request leaves its place.
LEMMA ForwardClosedStep ==
  ASSUME IInv, NEW w \in Workers, ForwardClosed(w)
  PROVE  IInv'
<1>0. wpc[w] = "check" /\ war[w] \in Pullers /\ wpr[w] \in Req
  BY DEF IInv, TypeOK, TypeWorkers, ForwardClosed
<1> PICK p \in Pullers : p = war[w]
  BY <1>0
<1> PICK m \in Req : m = wpr[w]
  BY <1>0
<1>1. UNCHANGED <<proxyNew, proxyOut, apiPull, phcl, freed, conn, moved, reqid, cst,
                  hasBody, answers, running, held>>
  BY DEF ForwardClosed, PullerDone, WorkerDone, pluginVars, queueVars, entryVars, connVars,
         clientVars
<1>2. CASE Fassert
  <2>1. aborted' = TRUE /\ UNCHANGED <<wpc, wpr, war, pst, seqno, ppr>>
    BY <1>2 DEF ForwardClosed, workerVars, pluginVars
  <2>2. TypeOK'
    BY <2>1, <1>1 DEF IInv, TypeOK, TypeQueues, TypeEntries, TypeWorkers, TypeConns,
       TypeClients, TypePlugin, TypeCtl
  <2> QED BY <2>1, <2>2, <1>1, PullersKept, QuietStep, AnswersKept, ForwardingKept
          DEF IInv, ByWorker, ByPush
<1>3. CASE ~Fassert
  <2>1. /\ pst' = [pst EXCEPT ![p] = "idle"] /\ seqno' = [seqno EXCEPT ![p] = None]
        /\ ppr' = [ppr EXCEPT ![p] = None]
        /\ wpc' = [wpc EXCEPT ![w] = "new"] /\ wpr' = [wpr EXCEPT ![w] = None]
        /\ war' = [war EXCEPT ![w] = None] /\ UNCHANGED aborted
    BY <1>3 DEF ForwardClosed, PullerDone, WorkerDone
  <2>2. pst[p] = "parked" /\ ppr[p] = None
    BY <1>0 DEF IInv, PullerInv, PullerServedOnce, TypeOK, TypePlugin
  <2>3. \A q \in Pullers, r \in Req : ByPush(q, r)' <=> ByPush(q, r)
    BY <2>1, <2>2 DEF IInv, TypeOK, TypePlugin, ByPush
  <2>4. PullerInv'
    BY <1>1, <2>1, PullerReleased DEF IInv, TypeOK, TypePlugin
  <2>5. TypeOK'
    <3>1. TypeWorkers'
      BY <2>1 DEF IInv, TypeOK, TypeWorkers
    <3>2. TypePlugin'
      BY <2>1, <1>1 DEF IInv, TypeOK, TypePlugin
    <3> QED BY <1>1, <2>1, <3>1, <3>2 DEF IInv, TypeOK, TypeQueues, TypeEntries,
               TypeConns, TypeClients, TypeCtl
  <2>6. /\ ByWorker(w, m) /\ Tracked(m) /\ ~InNew(m) /\ ~InOut(m)
        /\ \A v \in Workers \ {w} : ~ByWorker(v, m)
        /\ \A q \in Pullers : ~ByPush(q, m)
        /\ \A x \in Conns : ~ByClose(x, m)
    <3>1. ByWorker(w, m)
      BY <1>0 DEF ByWorker
    <3> QED BY <3>1, OnlyWorker DEF IInv
  <2>7. ASSUME NEW r \in Req, r # m PROVE Places(r)' = Places(r)
    <3>1. \A v \in Workers : ByWorker(v, r)' <=> ByWorker(v, r)
      BY <2>1, <2>7, ReqFacts DEF IInv, TypeOK, TypeWorkers, ByWorker
    <3> QED BY <3>1, <2>3, <1>1, SamePlace DEF InNew, InOut, ByClose
  <2>8. Places(m)' \subseteq {None}
    <3>1. /\ ~InNew(m)' /\ ~InOut(m)' /\ \A v \in Workers : ~ByWorker(v, m)'
          /\ \A q \in Pullers : ~ByPush(q, m)'
          /\ \A x \in Conns : ~ByClose(x, m)'
      BY <1>1, <2>1, <2>3, <2>6, ReqFacts
         DEF IInv, TypeOK, TypeWorkers, InNew, InOut, ByWorker, ByClose
    <3> QED BY <3>1 DEF Places
  <2>9. SinglePlace'
    <3>1. SinglePlace /\ IsInjective(proxyNew)' /\ IsInjective(proxyOut)'
      BY <1>1 DEF IInv, SinglePlace
    <3> QED BY <3>1, <2>7, <2>8, MoveStep
  <2>10. SeqNoIsCurrent'
    <3>1. ASSUME NEW r \in Req, Tracked(r)' PROVE Tracked(r)
      BY <3>1, <2>6, <2>7 DEF Tracked
    <3> QED BY <3>1, <1>1, CurrentKept DEF IInv
  <2>11. AnswersInv'
    <3>1. \A q \in Pullers, r \in Req : ByPush(q, r) => seqno'[q] = seqno[q]
      BY <2>1, <2>2 DEF IInv, TypeOK, TypePlugin, ByPush
    <3> QED BY <3>1, <2>3, <1>1, AnswersKept DEF IInv
  <2>12. Forwarding'
    BY <1>1, <2>1, ForwardingKept DEF IInv, TypeOK, TypePlugin
  <2> QED BY <2>4, <2>5, <2>9, <2>10, <2>11, <2>12 DEF IInv
<1> QED BY <1>2, <1>3

\* djb_handle_forward() writes the headers and pairs the request.
LEMMA ForwardStartStep ==
  ASSUME IInv, NEW w \in Workers, ForwardStart(w)
  PROVE  IInv'
<1>0. wpc[w] = "check" /\ war[w] \in Pullers /\ wpr[w] \in Req
  BY DEF IInv, TypeOK, TypeWorkers, ForwardStart
<1> PICK p \in Pullers : p = war[w]
  BY <1>0
<1> PICK m \in Req : m = wpr[w]
  BY <1>0
<1>1. <<m[1], reqid[m[1]]>> = m
  <2>1. ByWorker(w, m)
    BY <1>0 DEF ByWorker
  <2>2. reqid[m[1]] = m[2]
    BY <2>1, OnlyWorker DEF IInv, SeqNoIsCurrent
  <2> QED BY <2>2, ReqFacts
<1>2. /\ seqno' = [seqno EXCEPT ![p] = m] /\ phcl' = [phcl EXCEPT ![m] = p]
      /\ wpc' = [wpc EXCEPT ![w] = "publish"]
      /\ UNCHANGED <<proxyNew, proxyOut, apiPull, freed, wpr, war, conn, moved, reqid, cst,
                     hasBody, answers, pst, ppr, held, running, aborted>>
  BY <1>1 DEF ForwardStart, queueVars, connVars, clientVars, ctlVars
<1>3. pst[p] = "parked" /\ ppr[p] = None
  BY <1>0 DEF IInv, PullerInv, PullerServedOnce, TypeOK, TypePlugin
<1>4. TypeOK'
  <2>1. TypeWorkers'
    BY <1>0, <1>2 DEF IInv, TypeOK, TypeWorkers
  <2>2. TypePlugin'
    BY <1>2, <1>3, ReqFacts DEF IInv, TypeOK, TypePlugin
  <2>3. TypeEntries'
    BY <1>2 DEF IInv, TypeOK, TypeEntries
  <2> QED BY <1>2, <2>1, <2>2, <2>3 DEF IInv, TypeOK, TypeQueues, TypeConns,
             TypeClients, TypeCtl
<1>5. PullerInv'
  <2>1. ASSUME NEW v \in Workers, wpc'[v] \in {"publish", "send"}
        PROVE  seqno'[war'[v]] # None
    <3>1. m # None
      BY ReqFacts
    <3>2. CASE v = w
      BY <3>1, <3>2, <1>2 DEF IInv, TypeOK, TypePlugin
    <3>3. CASE v # w
      <4>1. wpc[v] \in {"publish", "send"} /\ war'[v] = war[v] /\ war[v] \in Pullers
        BY <2>1, <3>3, <1>2 DEF IInv, TypeOK, TypeWorkers
      <4> QED BY <4>1, <3>1, <1>2 DEF IInv, TypeOK, TypePlugin, PullerInv, SeqNoGiven
    <3> QED BY <3>2, <3>3
  <2> QED BY <2>1, <1>2 DEF IInv, PullerInv, PullerServedOnce, SeqNoGiven
<1>6. \A v \in Workers, r \in Req : ByWorker(v, r)' <=> ByWorker(v, r)
  BY <1>0, <1>2 DEF IInv, TypeOK, TypeWorkers, ByWorker
<1>7. SinglePlace' /\ SeqNoIsCurrent'
  BY <1>2, <1>6, QuietStep DEF IInv, ByPush
<1>8. AnswersInv'
  <2>1. \A q \in Pullers, r \in Req :
           ByPush(q, r)' => ByPush(q, r) /\ seqno'[q] = seqno[q]
    BY <1>2, <1>3 DEF IInv, TypeOK, TypePlugin, ByPush
  <2> QED BY <2>1, <1>2, AnswersKept DEF IInv
<1>9. Forwarding'
  BY <1>2, ForwardingKept DEF IInv
<1> QED BY <1>4, <1>5, <1>7, <1>8, <1>9 DEF IInv

\* The request moves from the worker to lst_proxy_out.
LEMMA PublishStep ==
  ASSUME IInv, NEW w \in Workers, Publish(w)
  PROVE  IInv'
<1>0. wpc[w] = "publish" /\ wpr[w] \in Req /\ SinglePlace /\ proxyOut \in Seq(Req)
  BY DEF IInv, TypeOK, TypeWorkers, TypeQueues, Publish
<1> PICK m \in Req : m = wpr[w]
  BY <1>0
<1>1. /\ proxyOut' = Append(proxyOut, m) /\ wpc' = [wpc EXCEPT ![w] = "send"]
      /\ UNCHANGED <<proxyNew, apiPull, wpr, war, phcl, freed, conn, moved, reqid, cst,
                     hasBody, answers, pst, seqno, ppr, held, running, aborted>>
  BY DEF Publish, entryVars, connVars, clientVars, pluginVars, ctlVars
<1>2. /\ ByWorker(w, m) /\ Tracked(m) /\ ~InNew(m) /\ ~InOut(m)
      /\ \A v \in Workers \ {w} : ~ByWorker(v, m)
      /\ \A q \in Pullers : ~ByPush(q, m)
      /\ \A x \in Conns : ~ByClose(x, m)
  <2>1. ByWorker(w, m)
    BY <1>0 DEF ByWorker
  <2> QED BY <2>1, <1>0, OnlyWorker
<1>3. /\ proxyOut' \in Seq(Req) /\ IsInjective(proxyOut')
      /\ ToSet(proxyOut') = ToSet(proxyOut) \cup {m}
  BY <1>0, <1>1, <1>2, AppendSet DEF SinglePlace, InOut
<1>4. ASSUME NEW r \in Req, r # m PROVE Places(r)' = Places(r)
  <2>1. InOut(r)' <=> InOut(r)
    BY <1>3, <1>4 DEF InOut
  <2>2. \A v \in Workers : ByWorker(v, r)' <=> ByWorker(v, r)
    BY <1>0, <1>1, <1>4 DEF IInv, TypeOK, TypeWorkers, ByWorker
  <2> QED BY <2>1, <2>2, <1>1, SamePlace DEF InNew, ByPush, ByClose
<1>5. Places(m)' \subseteq {<<"out", None>>}
  <2>1. /\ ~InNew(m)' /\ \A v \in Workers : ~ByWorker(v, m)'
        /\ \A q \in Pullers : ~ByPush(q, m)'
        /\ \A x \in Conns : ~ByClose(x, m)'
    BY <1>1, <1>2 DEF IInv, TypeOK, TypeWorkers, InNew, ByWorker, ByPush, ByClose
  <2> QED BY <2>1 DEF Places
<1>6. SinglePlace'
  <2>1. IsInjective(proxyNew)' /\ IsInjective(proxyOut)'
    BY <1>0, <1>1, <1>3 DEF SinglePlace
  <2> QED BY <2>1, <1>0, <1>4, <1>5, MoveStep
<1>7. SeqNoIsCurrent'
  <2>1. ASSUME NEW r \in Req, Tracked(r)' PROVE Tracked(r)
    BY <2>1, <1>2, <1>4 DEF Tracked
  <2> QED BY <2>1, <1>1, CurrentKept DEF IInv
<1>8. TypeOK'
  <2>1. TypeWorkers'
    BY <1>0, <1>1 DEF IInv, TypeOK, TypeWorkers
  <2> QED BY <1>1, <1>3, <2>1 DEF IInv, TypeOK, TypeQueues, TypeEntries, TypeConns,
             TypeClients, TypePlugin, TypeCtl
<1>9. PullerInv'
  BY <1>0, <1>1, PullersKept DEF IInv, TypeOK, TypeWorkers
<1>10. AnswersInv' /\ Forwarding'
  BY <1>1, AnswersKept, ForwardingKept DEF IInv, ByPush
<1> QED BY <1>6, <1>7, <1>8, <1>9, <1>10 DEF IInv

\* The worker is done with a puller whose response has no body.
LEMMA SendDoneStep ==
  ASSUME IInv, NEW w \in Workers, SendDone(w)
  PROVE  IInv'
<1>0. wpc[w] = "send" /\ war[w] \in Pullers
  BY DEF IInv, TypeOK, TypeWorkers, SendDone
<1> PICK p \in Pullers : p = war[w]
  BY <1>0
<1>1. /\ pst' = [pst EXCEPT ![p] = "idle"] /\ seqno' = [seqno EXCEPT ![p] = None]
      /\ ppr' = [ppr EXCEPT ![p] = None]
      /\ wpc' = [wpc EXCEPT ![w] = "new"] /\ wpr' = [wpr EXCEPT ![w] = None]
      /\ war' = [war EXCEPT ![w] = None] /\ Deliver(p)
      /\ UNCHANGED <<proxyNew, proxyOut, apiPull, phcl, freed, conn, moved, reqid, cst,
                     hasBody, answers, running, aborted>>
  BY DEF SendDone, PullerDone, WorkerDone, queueVars, entryVars, connVars, clientVars, ctlVars
<1>2. pst[p] = "parked" /\ ppr[p] = None /\ seqno[p] # None
  BY <1>0 DEF IInv, PullerInv, PullerServedOnce, SeqNoGiven, TypeOK, TypePlugin
<1>3. PullerInv'
  BY <1>1, PullerReleased DEF IInv, TypeOK, TypePlugin
<1>4. TypeOK'
  <2>1. TypeWorkers'
    BY <1>1 DEF IInv, TypeOK, TypeWorkers
  <2>2. held' \subseteq Job
    BY <1>1, <1>2, DeliverType DEF IInv, TypeOK
  <2>3. TypePlugin'
    BY <1>1, <2>2 DEF IInv, TypeOK, TypePlugin
  <2> QED BY <1>1, <2>1, <2>3 DEF IInv, TypeOK, TypeQueues, TypeEntries, TypeConns,
             TypeClients, TypeCtl
<1>5. /\ \A v \in Workers, r \in Req : ByWorker(v, r)' <=> ByWorker(v, r)
      /\ \A q \in Pullers, r \in Req : ByPush(q, r)' <=> ByPush(q, r)
      /\ \A q \in Pullers, r \in Req : ByPush(q, r) => seqno'[q] = seqno[q]
  BY <1>0, <1>1, <1>2 DEF IInv, TypeOK, TypeWorkers, TypePlugin, ByWorker, ByPush
<1>6. SinglePlace' /\ SeqNoIsCurrent'
  BY <1>1, <1>5, QuietStep DEF IInv
<1>7. AnswersInv'
  BY <1>1, <1>5, AnswersKept DEF IInv
<1>8. Forwarding'
  BY <1>1, ForwardingKept DEF IInv, TypeOK, TypePlugin
<1> QED BY <1>3, <1>4, <1>6, <1>7, <1>8 DEF IInv

\* The worker leaves the copying of the body to httpsrv.
LEMMA SendBodyStep ==
  ASSUME IInv, NEW w \in Workers, SendBody(w)
  PROVE  IInv'
<1>0. wpc[w] = "send" /\ war[w] \in Pullers
  BY DEF IInv, TypeOK, TypeWorkers, SendBody
<1> PICK p \in Pullers : p = war[w]
  BY <1>0
<1>1. /\ UNCHANGED <<proxyNew, proxyOut, apiPull, phcl, freed, conn, moved, reqid, cst,
                     hasBody, answers, seqno, ppr, held, running>>
      /\ \/ /\ pst' = [pst EXCEPT ![p] = "fwdbody"]
            /\ wpc' = [wpc EXCEPT ![w] = "new"] /\ wpr' = [wpr EXCEPT ![w] = None]
            /\ war' = [war EXCEPT ![w] = None] /\ UNCHANGED aborted
         \/ aborted' = TRUE /\ UNCHANGED <<pst, wpc, wpr, war>>
  BY DEF SendBody, WorkerDone, workerVars, queueVars, entryVars, connVars, clientVars
<1>2. pst[p] = "parked" /\ ppr[p] = None /\ seqno[p] # None
  BY <1>0 DEF IInv, PullerInv, PullerServedOnce, SeqNoGiven, TypeOK, TypePlugin
<1>3. CASE aborted' = TRUE /\ UNCHANGED <<pst, wpc, wpr, war>>
  <2>1. TypeOK'
    BY <1>1, <1>3 DEF IInv, TypeOK, TypeQueues, TypeEntries, TypeWorkers, TypeConns,
       TypeClients, TypePlugin, TypeCtl
  <2> QED BY <2>1, <1>1, <1>3, PullersKept, QuietStep, AnswersKept, ForwardingKept
          DEF IInv, ByWorker, ByPush
<1>4. CASE /\ pst' = [pst EXCEPT ![p] = "fwdbody"]
           /\ wpc' = [wpc EXCEPT ![w] = "new"] /\ wpr' = [wpr EXCEPT ![w] = None]
           /\ war' = [war EXCEPT ![w] = None] /\ UNCHANGED aborted
  <2>1. PullerInv'
    BY <1>1, <1>4, PullerReleased DEF IInv, TypeOK, TypePlugin
  <2>2. TypeOK'
    <3>1. TypeWorkers'
      BY <1>4 DEF IInv, TypeOK, TypeWorkers
    <3>2. TypePlugin'
      BY <1>1, <1>2, <1>4 DEF IInv, TypeOK, TypePlugin
    <3> QED BY <1>1, <1>4, <3>1, <3>2 DEF IInv, TypeOK, TypeQueues, TypeEntries, TypeConns,
               TypeClients, TypeCtl
  <2>3. /\ \A v \in Workers, r \in Req : ByWorker(v, r)' <=> ByWorker(v, r)
        /\ \A q \in Pullers, r \in Req : ByPush(q, r)' <=> ByPush(q, r)
    BY <1>0, <1>1, <1>2, <1>4 DEF IInv, TypeOK, TypeWorkers, TypePlugin, ByWorker, ByPush
  <2>4. SinglePlace' /\ SeqNoIsCurrent'
    BY <1>1, <2>3, QuietStep DEF IInv
  <2>5. AnswersInv'
    BY <1>1, <2>3, AnswersKept DEF IInv
  <2>6. Forwarding'
    BY <1>1, <1>4, ForwardingKept DEF IInv, TypeOK, TypePlugin
  <2> QED BY <2>1, <2>2, <2>4, <2>5, <2>6 DEF IInv
<1> QED BY <1>1, <1>3, <1>4

\* A worker stops; the request in its hands goes with it.
LEMMA WorkerExitStep ==
  ASSUME IInv, NEW w \in Workers, WorkerExit(w)
  PROVE  IInv'
<1>1. /\ wpc[w] \in {"new", "pull"}
      /\ wpc' = [wpc EXCEPT ![w] = "exit"] /\ wpr' = [wpr EXCEPT ![w] = None]
      /\ UNCHANGED <<proxyNew, proxyOut, apiPull, war, phcl, freed, conn, moved, reqid, cst,
                     hasBody, answers, pst, seqno, ppr, held, running, aborted>>
  BY DEF WorkerExit, StopPoints, queueVars, entryVars, connVars, clientVars, pluginVars, ctlVars
<1>2. TypeOK'
  <2>1. TypeWorkers'
    BY <1>1 DEF IInv, TypeOK, TypeWorkers
  <2> QED BY <1>1, <2>1 DEF IInv, TypeOK, TypeQueues, TypeEntries, TypeConns,
             TypeClients, TypePlugin, TypeCtl
<1>3. PullerInv'
  BY <1>1, PullersKept DEF IInv, TypeOK, TypeWorkers
<1>4. AnswersInv' /\ Forwarding'
  BY <1>1, AnswersKept, ForwardingKept DEF IInv, ByPush
<1>5. ASSUME NEW r \in Req PROVE Places(r)' \subseteq Places(r)
  <2>1. \A v \in Workers : ByWorker(v, r)' => ByWorker(v, r)
    BY <1>1, ReqFacts DEF IInv, TypeOK, TypeWorkers, ByWorker
  <2> QED BY <2>1, <1>1 DEF Places, InNew, InOut, ByPush, ByClose
<1>6. SinglePlace'
  BY <1>1, <1>5 DEF IInv, SinglePlace
<1>7. SeqNoIsCurrent'
  BY <1>1, <1>5, CurrentKept DEF IInv, Tracked
<1> QED BY <1>2, <1>3, <1>4, <1>6, <1>7 DEF IInv

\* A step of the handler of q, which neither was nor becomes a parked pull.
LEMMA HandlerKeepsPullers ==
  ASSUME TypeWorkers, PullerInv, NEW q \in Pullers, UNCHANGED <<apiPull, war, wpc>>,
         pst[q] # "parked", pst'[q] # "parked",
         \A p \in Pullers \ {q} : pst'[p] = pst[p] /\ seqno'[p] = seqno[p]
  PROVE  PullerInv'
<1>1. ASSUME NEW w \in Workers, wpc'[w] \in {"publish", "send"}
      PROVE  wpc[w] \in {"publish", "send"} /\ seqno'[war[w]] = seqno[war[w]]
  <2>1. war[w] \in Pullers /\ pst[war[w]] = "parked"
    BY <1>1 DEF TypeWorkers, PullerInv, PullerServedOnce
  <2> QED BY <1>1, <2>1
<1> QED BY <1>1, PullersKept

\* The handler of q is done and nothing was found: no request moves.
LEMMA HandlerQuiet ==
  ASSUME IInv, NEW q \in Pullers, pst[q] \in {"idle", "push", "push2", "fwdbody"},
         pst'[q] \in {"idle", "push", "push2"},
         UNCHANGED <<proxyNew, proxyOut, apiPull, freed, phcl, wpc, wpr, war, moved, reqid, cst,
                     hasBody, answers, ppr, running, aborted>>,
         \A p \in Pullers \ {q} : pst'[p] = pst[p] /\ seqno'[p] = seqno[p],
         TypePlugin', TypeConns'
  PROVE  IInv'
<1>1. /\ \A p \in Pullers, r \in Req : ByPush(p, r)' <=> ByPush(p, r)
      /\ \A p \in Pullers, r \in Req : ByPush(p, r) => seqno'[p] = seqno[p]
  BY DEF ByPush
<1>2. PullerInv'
  BY HandlerKeepsPullers DEF IInv, TypeOK
<1>3. SinglePlace' /\ SeqNoIsCurrent'
  BY <1>1, QuietStep DEF IInv, ByWorker
<1>4. AnswersInv' /\ Forwarding'
  BY <1>1, AnswersKept, ForwardingKept DEF IInv
<1>5. TypeOK'
  BY DEF IInv, TypeOK, TypeQueues, TypeEntries, TypeWorkers, TypeClients, TypeCtl
<1> QED BY <1>2, <1>3, <1>4, <1>5 DEF IInv

\* djb_bodyfwd_done() for the body of a proxy request.
LEMMA ForwardDoneStep ==
  ASSUME IInv, NEW p \in Pullers, ForwardDone(p)
  PROVE  IInv'
<1>1. /\ pst[p] = "fwdbody" /\ Deliver(p)
      /\ pst' = [pst EXCEPT ![p] = "idle"] /\ seqno' = [seqno EXCEPT ![p] = None]
      /\ ppr' = [ppr EXCEPT ![p] = None]
      /\ UNCHANGED <<proxyNew, proxyOut, apiPull, freed, phcl, wpc, wpr, war, conn, moved,
                     reqid, cst, hasBody, answers, running, aborted>>
  BY DEF ForwardDone, PullerDone, queueVars, entryVars, workerVars, connVars, clientVars, ctlVars
<1>2. ppr[p] = None /\ seqno[p] # None /\ ppr' = ppr
  BY <1>1 DEF IInv, TypeOK, TypePlugin
<1>3. TypePlugin' /\ TypeConns'
  <2>1. held' \subseteq Job
    BY <1>1, <1>2, DeliverType DEF IInv, TypeOK
  <2> QED BY <1>1, <2>1 DEF IInv, TypeOK, TypePlugin, TypeConns
<1>4. /\ pst'[p] = "idle"
      /\ \A q \in Pullers \ {p} : pst'[q] = pst[q] /\ seqno'[q] = seqno[q]
  BY <1>1 DEF IInv, TypeOK, TypePlugin
<1> QED BY <1>1, <1>2, <1>3, <1>4, HandlerQuiet

\* POST /push/ arrives on an idle connection.
LEMMA PushStep ==
  ASSUME IInv, NEW q \in Pullers, NEW j \in Job, Push(q, j)
  PROVE  IInv'
<1>1. /\ pst[q] = "idle" /\ j.req \in Req /\ held' = held \ {j}
      /\ pst' = [pst EXCEPT ![q] = "push"] /\ seqno' = [seqno EXCEPT ![q] = j.req]
      /\ UNCHANGED <<proxyNew, proxyOut, apiPull, freed, phcl, wpc, wpr, war, conn, moved,
                     reqid, cst, hasBody, answers, ppr, running, aborted>>
  BY DEF Push, Job, queueVars, entryVars, workerVars, connVars, clientVars, ctlVars
<1>2. TypePlugin' /\ TypeConns'
  BY <1>1, ReqFacts DEF IInv, TypeOK, TypePlugin, TypeConns
<1>3. /\ pst'[q] = "push"
      /\ \A p \in Pullers \ {q} : pst'[p] = pst[p] /\ seqno'[p] = seqno[p]
  BY <1>1 DEF IInv, TypeOK, TypePlugin
<1> QED BY <1>1, <1>2, <1>3, HandlerQuiet

\* 504 and 404, djb_error() and no more; and a push that is closed over its body.
LEMMA PushErrorStep ==
  ASSUME IInv, NEW q \in Pullers, PushRejected(q) \/ PushUnknown(q) \/ PushClosed(q)
  PROVE  IInv'
<1>1. /\ pst[q] \in {"push", "push2"}
      /\ pst' = [pst EXCEPT ![q] = "idle"] /\ seqno' = [seqno EXCEPT ![q] = None]
      /\ ppr' = [ppr EXCEPT ![q] = None]
      /\ conn' \in {conn, [conn EXCEPT ![q] = IF @ = "open" THEN "broken" ELSE @]}
      /\ UNCHANGED <<proxyNew, proxyOut, apiPull, freed, phcl, wpc, wpr, war, moved, held,
                     reqid, cst, hasBody, answers, running, aborted>>
  BY DEF PushRejected, PushUnknown, PushCalled, PushClosed, PullerDone, ErrorSent, queueVars,
     entryVars, workerVars, connVars, clientVars, ctlVars
<1>2. ppr[q] = None /\ ppr' = ppr
  BY <1>1 DEF IInv, TypeOK, TypePlugin
<1>3. TypePlugin' /\ TypeConns'
  BY <1>1 DEF IInv, TypeOK, TypePlugin, TypeConns
<1>4. /\ pst'[q] = "idle"
      /\ \A p \in Pullers \ {q} : pst'[p] = pst[p] /\ seqno'[p] = seqno[p]
  BY <1>1 DEF IInv, TypeOK, TypePlugin
<1> QED BY <1>1, <1>2, <1>3, <1>4, HandlerQuiet

\* djb_find_req() moves the request it finds from lst_proxy_out to the push.
LEMMA PushFindStep ==
  ASSUME IInv, NEW q \in Pullers, PushFind(q)
  PROVE  IInv'
<1>0. pst[q] \in {"push", "push2"} /\ SinglePlace /\ proxyOut \in Seq(Req)
  BY DEF IInv, TypeOK, TypeQueues, PushFind, PushCalled
<1> PICK i \in DOMAIN proxyOut :
      /\ i \in Matching(seqno[q])
      /\ ppr' = [ppr EXCEPT ![q] = proxyOut[i]]
      /\ proxyOut' = Unlink(proxyOut, i)
  BY DEF PushFind, IsFirst
<1> PICK m \in Req : m = proxyOut[i]
  BY <1>0
<1>1. /\ ppr' = [ppr EXCEPT ![q] = m]
      /\ pst' = [pst EXCEPT ![q] = IF @ = "push" THEN "found" ELSE "found2"]
      /\ UNCHANGED <<proxyNew, apiPull, seqno, held, phcl, freed, wpc, wpr, war, conn, moved,
                     reqid, cst, hasBody, answers, running, aborted>>
  BY DEF PushFind, entryVars, workerVars, connVars, clientVars, ctlVars
<1>2. /\ proxyOut' \in Seq(Req) /\ IsInjective(proxyOut')
      /\ ToSet(proxyOut') = ToSet(proxyOut) \ {m} /\ m \in ToSet(proxyOut)
  BY <1>0, UnlinkSet DEF SinglePlace
<1>3. /\ InOut(m) /\ Tracked(m) /\ ~InNew(m) /\ \A v \in Workers : ~ByWorker(v, m)
      /\ \A p \in Pullers : ~ByPush(p, m)
      /\ \A x \in Conns : ~ByClose(x, m)
  <2>1. InOut(m)
    BY <1>2 DEF InOut
  <2> QED BY <2>1, <1>0, OnlyOut
<1>4. seqno[q] = m
  <2>1. m[1] = seqno[q][1] /\ reqid[m[1]] = seqno[q][2]
    BY DEF Matching
  <2>2. reqid[m[1]] = m[2]
    BY <1>3 DEF IInv, SeqNoIsCurrent
  <2>3. seqno[q] \in Req
    BY <1>0 DEF IInv, TypeOK, TypePlugin
  <2> QED BY <2>1, <2>2, <2>3, ReqFacts
<1>5. ppr[q] = None /\ pst'[q] \in {"found", "found2"} /\ ppr'[q] = m
  BY <1>0, <1>1 DEF IInv, TypeOK, TypePlugin
<1>6. \A p \in Pullers \ {q} : pst'[p] = pst[p] /\ ppr'[p] = ppr[p]
  BY <1>1 DEF IInv, TypeOK, TypePlugin
<1>7. ASSUME NEW r \in Req, r # m PROVE Places(r)' = Places(r)
  <2>1. InOut(r)' <=> InOut(r)
    BY <1>2, <1>7 DEF InOut
  <2>2. \A p \in Pullers : ByPush(p, r)' <=> ByPush(p, r)
    BY <1>0, <1>5, <1>6, <1>7 DEF ByPush
  <2> QED BY <2>1, <2>2, <1>1, SamePlace DEF InNew, ByWorker, ByClose
<1>8. Places(m)' \subseteq {<<"push", q>>}
  <2>1. /\ ~InNew(m)' /\ ~InOut(m)' /\ \A v \in Workers : ~ByWorker(v, m)'
        /\ \A p \in Pullers \ {q} : ~ByPush(p, m)'
        /\ \A x \in Conns : ~ByClose(x, m)'
    BY <1>1, <1>2, <1>3, <1>6 DEF InNew, InOut, ByWorker, ByPush, ByClose
  <2> QED BY <2>1 DEF Places
<1>9. SinglePlace'
  <2>1. IsInjective(proxyNew)' /\ IsInjective(proxyOut)'
    BY <1>0, <1>1, <1>2 DEF SinglePlace
  <2> QED BY <2>1, <1>0, <1>7, <1>8, MoveStep
<1>10. SeqNoIsCurrent'
  <2>1. ASSUME NEW r \in Req, Tracked(r)' PROVE Tracked(r)
    BY <2>1, <1>3, <1>7 DEF Tracked
  <2> QED BY <2>1, <1>1, CurrentKept DEF IInv
<1>11. TypeOK'
  <2>1. TypePlugin'
    BY <1>0, <1>1, ReqFacts DEF IInv, TypeOK, TypePlugin
  <2> QED BY <1>1, <1>2, <2>1 DEF IInv, TypeOK, TypeQueues, TypeEntries, TypeWorkers,
             TypeConns, TypeClients, TypeCtl
<1>12. PullerInv'
  BY <1>0, <1>1, <1>5, <1>6, HandlerKeepsPullers DEF IInv, TypeOK
<1>13. AnswersInv'
  <2>1. FoundMatches'
    BY <1>1, <1>4, <1>5, <1>6 DEF IInv, AnswersInv, FoundMatches, ByPush
  <2> QED BY <2>1, <1>1 DEF IInv, AnswersInv, FutureUnanswered, AnswersMatch
<1>14. Forwarding'
  BY <1>1, <1>5, <1>6, ForwardingKept DEF IInv
<1> QED BY <1>9, <1>10, <1>11, <1>12, <1>13, <1>14 DEF IInv

\* The request of a push whose body is still to be read goes back on the list.
LEMMA PushInternalBodyStep ==
  ASSUME IInv, NEW q \in Pullers, PushInternalBody(q)
  PROVE  IInv'
<1>0. pst[q] = "found" /\ ppr[q] \in Req /\ SinglePlace /\ proxyOut \in Seq(Req)
  BY DEF IInv, TypeOK, TypeQueues, TypePlugin, PushInternalBody
<1> PICK m \in Req : m = ppr[q]
  BY <1>0
<1>1. /\ proxyOut' = Append(proxyOut, m) /\ pst' = [pst EXCEPT ![q] = "push2"]
      /\ ppr' = [ppr EXCEPT ![q] = None]
      /\ UNCHANGED <<proxyNew, apiPull, seqno, held, phcl, freed, wpc, wpr, war, conn, moved,
                     reqid, cst, hasBody, answers, running, aborted>>
  BY DEF PushInternalBody, entryVars, workerVars, connVars, clientVars, ctlVars
<1>2. /\ ByPush(q, m) /\ Tracked(m) /\ ~InNew(m) /\ ~InOut(m)
      /\ \A w \in Workers : ~ByWorker(w, m)
      /\ \A p \in Pullers \ {q} : ~ByPush(p, m)
      /\ \A x \in Conns : ~ByClose(x, m)
  <2>1. ByPush(q, m)
    BY <1>0 DEF ByPush
  <2> QED BY <2>1, <1>0, OnlyPush
<1>3. /\ proxyOut' \in Seq(Req) /\ IsInjective(proxyOut')
      /\ ToSet(proxyOut') = ToSet(proxyOut) \cup {m}
  BY <1>0, <1>1, <1>2, AppendSet DEF SinglePlace, InOut
<1>4. /\ pst'[q] = "push2" /\ ppr'[q] = None
      /\ \A p \in Pullers \ {q} : pst'[p] = pst[p] /\ ppr'[p] = ppr[p]
  BY <1>1 DEF IInv, TypeOK, TypePlugin
<1>5. ASSUME NEW r \in Req, r # m PROVE Places(r)' = Places(r)
  <2>1. InOut(r)' <=> InOut(r)
    BY <1>3, <1>5 DEF InOut
  <2>2. \A p \in Pullers : ByPush(p, r)' <=> ByPush(p, r)
    BY <1>4, <1>5 DEF ByPush
  <2> QED BY <2>1, <2>2, <1>1, SamePlace DEF InNew, ByWorker, ByClose
<1>6. Places(m)' \subseteq {<<"out", None>>}
  <2>1. /\ ~InNew(m)' /\ \A v \in Workers : ~ByWorker(v, m)'
        /\ \A p \in Pullers : ~ByPush(p, m)'
        /\ \A x \in Conns : ~ByClose(x, m)'
    BY <1>1, <1>2, <1>4 DEF InNew, ByWorker, ByPush, ByClose
  <2> QED BY <2>1 DEF Places
<1>7. SinglePlace'
  <2>1. IsInjective(proxyNew)' /\ IsInjective(proxyOut)'
    BY <1>0, <1>1, <1>3 DEF SinglePlace
  <2> QED BY <2>1, <1>0, <1>5, <1>6, MoveStep
<1>8. SeqNoIsCurrent'
  <2>1. ASSUME NEW r \in Req, Tracked(r)' PROVE Tracked(r)
    BY <2>1, <1>2, <1>5 DEF Tracked
  <2> QED BY <2>1, <1>1, CurrentKept DEF IInv
<1>9. TypeOK'
  <2>1. TypePlugin'
    BY <1>0, <1>1 DEF IInv, TypeOK, TypePlugin
  <2> QED BY <1>1, <1>3, <2>1 DEF IInv, TypeOK, TypeQueues, TypeEntries, TypeWorkers,
             TypeConns, TypeClients, TypeCtl
<1>10. PullerInv'
  BY <1>0, <1>1, <1>4, HandlerKeepsPullers DEF IInv, TypeOK
<1>11. AnswersInv' /\ Forwarding'
  BY <1>1, <1>4, AnswersKept, ForwardingKept DEF IInv, ByPush
<1> QED BY <1>7, <1>8, <1>9, <1>10, <1>11 DEF IInv

\* A push that has found a request lets go of it: the request is in no place.
LEMMA PlacesReleased ==
  ASSUME IInv, NEW q \in Pullers, NEW m \in Req, ByPush(q, m),
         pst'[q] \notin {"found", "found2"},
         \A p \in Pullers \ {q} : pst'[p] = pst[p] /\ ppr'[p] = ppr[p],
         UNCHANGED <<proxyNew, proxyOut, wpc, wpr, moved>>
  PROVE  SinglePlace' /\ Tracked(m) /\ \A r \in Req : Tracked(r)' => Tracked(r) /\ r # m
<1>1. /\ Tracked(m) /\ ~InNew(m) /\ ~InOut(m)
      /\ \A w \in Workers : ~ByWorker(w, m)
      /\ \A p \in Pullers \ {q} : ~ByPush(p, m)
      /\ \A x \in Conns : ~ByClose(x, m)
  BY OnlyPush DEF IInv
<1>2. ASSUME NEW r \in Req PROVE Places(r)' \subseteq Places(r)
  <2>1. \A p \in Pullers : ByPush(p, r)' => ByPush(p, r)
    BY DEF ByPush
  <2> QED BY <2>1 DEF Places, InNew, InOut, ByWorker, ByClose
<1>3. Places(m)' = {}
  <2>1. /\ ~InNew(m)' /\ ~InOut(m)' /\ \A w \in Workers : ~ByWorker(w, m)'
        /\ \A p \in Pullers : ~ByPush(p, m)'
        /\ \A x \in Conns : ~ByClose(x, m)'
    BY <1>1 DEF InNew, InOut, ByWorker, ByPush, ByClose
  <2> QED BY <2>1 DEF Places
<1>4. SinglePlace'
  BY <1>2 DEF IInv, SinglePlace
<1> QED BY <1>1, <1>2, <1>3, <1>4 DEF Tracked

\* djb_push() finds that the client has gone.
LEMMA PushClientGoneStep ==
  ASSUME IInv, NEW q \in Pullers, PushClientGone(q)
  PROVE  IInv'
<1>0. pst[q] = "found" /\ ppr[q] \in Req
  BY DEF IInv, TypeOK, TypePlugin, PushClientGone
<1> PICK m \in Req : m = ppr[q]
  BY <1>0
<1>1. /\ pst' = [pst EXCEPT ![q] = "idle"] /\ seqno' = [seqno EXCEPT ![q] = None]
      /\ ppr' = [ppr EXCEPT ![q] = None]
      /\ UNCHANGED <<proxyNew, proxyOut, apiPull, held, phcl, freed, wpc, wpr, war, conn,
                     moved, reqid, cst, hasBody, answers, running, aborted>>
  BY DEF PushClientGone, PullerDone, queueVars, entryVars, workerVars, connVars, clientVars, ctlVars
<1>2. /\ ByPush(q, m) /\ pst'[q] = "idle"
      /\ \A p \in Pullers \ {q} : /\ pst'[p] = pst[p] /\ ppr'[p] = ppr[p]
                                  /\ seqno'[p] = seqno[p]
  BY <1>0, <1>1 DEF IInv, TypeOK, TypePlugin, ByPush
<1>3. SinglePlace' /\ \A r \in Req : Tracked(r)' => Tracked(r)
  BY <1>1, <1>2, PlacesReleased
<1>4. SeqNoIsCurrent'
  BY <1>1, <1>3, CurrentKept DEF IInv
<1>5. TypeOK'
  <2>1. TypePlugin'
    BY <1>1 DEF IInv, TypeOK, TypePlugin
  <2> QED BY <1>1, <2>1 DEF IInv, TypeOK, TypeQueues, TypeEntries, TypeWorkers,
             TypeConns, TypeClients, TypeCtl
<1>6. PullerInv'
  BY <1>0, <1>1, <1>2, HandlerKeepsPullers DEF IInv, TypeOK
<1>7. AnswersInv' /\ Forwarding'
  BY <1>1, <1>2, AnswersKept, ForwardingKept DEF IInv, ByPush
<1> QED BY <1>3, <1>4, <1>5, <1>6, <1>7 DEF IInv

\* A push answers the request m it has found.
LEMMA Answering ==
  ASSUME IInv, NEW q \in Pullers, NEW m \in Req, ByPush(q, m),
         NEW next \in {"idle", "forward"},
         answers' = [answers EXCEPT ![m] = Append(@, seqno[q])],
         cst' = [cst EXCEPT ![m[1]] = next],
         freed' = freed \cup {m},
         pst'[q] \in {"idle", "fwdpush"},
         \A p \in Pullers \ {q} : /\ pst'[p] = pst[p] /\ ppr'[p] = ppr[p]
                                  /\ seqno'[p] = seqno[p],
         UNCHANGED <<proxyNew, proxyOut, apiPull, held, phcl, wpc, wpr, war, conn, moved,
                     reqid, hasBody, running, aborted>>,
         TypePlugin'
  PROVE  /\ TypeOK' /\ PullerInv' /\ SinglePlace' /\ SeqNoIsCurrent' /\ AnswersInv'
         /\ cst[m[1]] = "waiting"
<1>1. /\ SinglePlace' /\ Tracked(m)
      /\ \A r \in Req : Tracked(r)' => Tracked(r) /\ r # m
  BY PlacesReleased
<1>2. reqid[m[1]] = m[2] /\ cst[m[1]] = "waiting" /\ answers[m] = <<>>
  BY <1>1 DEF IInv, SeqNoIsCurrent
<1>3. seqno[q] = m
  BY DEF IInv, AnswersInv, FoundMatches
<1>4. answers' = [answers EXCEPT ![m] = <<m>>]
  <2>1. answers' = [answers EXCEPT ![m] = Append(answers[m], m)]
    BY <1>3
  <2>2. Append(answers[m], m) = <<m>>
    BY <1>2
  <2> QED BY <2>1, <2>2
<1>5. TypeOK'
  <2>1. TypeClients'
    BY <1>4, ReqFacts DEF IInv, TypeOK, TypeClients
  <2> QED BY <2>1 DEF IInv, TypeOK, TypeQueues, TypeEntries, TypeWorkers,
             TypeConns, TypeCtl
<1>6. PullerInv'
  BY HandlerKeepsPullers DEF IInv, TypeOK, ByPush
<1>7. SeqNoIsCurrent'
  <2>1. ASSUME NEW r \in Req, Tracked(r)'
        PROVE  reqid'[r[1]] = r[2] /\ cst'[r[1]] = "waiting" /\ answers'[r] = <<>>
    <3>1. Tracked(r) /\ r # m /\ reqid[r[1]] = r[2]
      BY <1>1, <2>1 DEF IInv, SeqNoIsCurrent
    <3>2. r[1] # m[1]
      BY <3>1, <1>2, ReqFacts
    <3> QED BY <3>1, <3>2, <1>4, ReqFacts DEF IInv, SeqNoIsCurrent, TypeOK, TypeClients
  <2> QED BY <2>1 DEF SeqNoIsCurrent
<1>8. AnswersInv'
  <2>1. FoundMatches'
    BY DEF IInv, AnswersInv, FoundMatches, ByPush
  <2>2. FutureUnanswered'
    <3>1. \A r \in Req : r[2] > reqid[r[1]] => r # m
      BY <1>2, ReqFacts
    <3> QED BY <3>1, <1>4 DEF IInv, TypeOK, TypeClients, AnswersInv, FutureUnanswered
  <2>3. AnswersMatch'
    BY <1>4 DEF IInv, TypeOK, TypeClients, AnswersInv, AnswersMatch
  <2> QED BY <2>1, <2>2, <2>3 DEF AnswersInv
<1> QED BY <1>1, <1>2, <1>5, <1>6, <1>7, <1>8

\* dh->push() takes the answer to an internal request.
LEMMA PushInternalStep ==
  ASSUME IInv, NEW q \in Pullers, PushInternal(q)
  PROVE  IInv'
<1>0. pst[q] \in {"found", "found2"} /\ ppr[q] \in Req
  BY DEF IInv, TypeOK, TypePlugin, PushInternal
<1> PICK m \in Req : m = ppr[q]
  BY <1>0
<1>1. /\ pst' = [pst EXCEPT ![q] = "idle"] /\ seqno' = [seqno EXCEPT ![q] = None]
      /\ ppr' = [ppr EXCEPT ![q] = None]
      /\ answers' = [answers EXCEPT ![m] = Append(@, seqno[q])]
      /\ cst' = [cst EXCEPT ![m[1]] = "idle"] /\ freed' = freed \cup {m}
      /\ UNCHANGED <<proxyNew, proxyOut, apiPull, held, phcl, wpc, wpr, war, conn, moved,
                     reqid, hasBody, running, aborted>>
  BY DEF PushInternal, PullerDone, queueVars, workerVars, connVars, ctlVars
<1>2. /\ ByPush(q, m) /\ pst'[q] = "idle" /\ TypePlugin'
      /\ \A p \in Pullers \ {q} : /\ pst'[p] = pst[p] /\ ppr'[p] = ppr[p]
                                  /\ seqno'[p] = seqno[p]
  BY <1>0, <1>1 DEF IInv, TypeOK, TypePlugin, ByPush
<1>3. /\ TypeOK' /\ PullerInv' /\ SinglePlace' /\ SeqNoIsCurrent' /\ AnswersInv'
      /\ cst[m[1]] = "waiting"
  BY <1>1, <1>2, Answering
<1>4. Forwarding'
  BY <1>1, <1>2, <1>3 DEF IInv, TypeOK, TypeClients, Forwarding
<1> QED BY <1>3, <1>4 DEF IInv

\* djb_push() relays the answer to the client.
LEMMA PushAnswerStep ==
  ASSUME IInv, NEW q \in Pullers, NEW body \in BOOLEAN, PushAnswer(q, body)
  PROVE  IInv'
<1>0. pst[q] = "found" /\ ppr[q] \in Req
  BY DEF IInv, TypeOK, TypePlugin, PushAnswer
<1> PICK m \in Req : m = ppr[q]
  BY <1>0
<1>1. /\ answers' = [answers EXCEPT ![m] = Append(@, seqno[q])]
      /\ cst' = [cst EXCEPT ![m[1]] = Answered(body)] /\ freed' = freed \cup {m}
      /\ UNCHANGED <<proxyNew, proxyOut, apiPull, held, phcl, wpc, wpr, war, conn, moved,
                     reqid, hasBody, running, aborted>>
  BY DEF PushAnswer, queueVars, workerVars, connVars, ctlVars
<1>2. ByPush(q, m) /\ Answered(body) \in {"idle", "forward"}
  BY <1>0 DEF ByPush, Answered
<1>3. CASE body
  <2>1. /\ pst' = [pst EXCEPT ![q] = "fwdpush"] /\ UNCHANGED <<seqno, ppr>>
        /\ cst' = [cst EXCEPT ![m[1]] = "forward"]
    BY <1>1, <1>3 DEF PushAnswer, Answered
  <2>2. /\ pst'[q] = "fwdpush" /\ TypePlugin'
        /\ \A p \in Pullers \ {q} : /\ pst'[p] = pst[p] /\ ppr'[p] = ppr[p]
                                    /\ seqno'[p] = seqno[p]
    BY <2>1, <1>0, <1>1 DEF IInv, TypeOK, TypePlugin
  <2>3. /\ TypeOK' /\ PullerInv' /\ SinglePlace' /\ SeqNoIsCurrent' /\ AnswersInv'
        /\ cst[m[1]] = "waiting"
    BY <2>1, <2>2, <1>1, <1>2, Answering
  <2>4. Forwarding'
    <3>1. \A p \in Pullers \ {q} : pst[p] = "fwdpush" => ppr[p][1] # m[1]
      BY <2>3 DEF IInv, Forwarding
    <3>2. cst'[m[1]] = "forward"
      BY <2>1, ReqFacts DEF IInv, TypeOK, TypeClients
    <3> QED BY <3>1, <3>2, <2>1, <2>2 DEF IInv, TypeOK, TypeClients, Forwarding
  <2> QED BY <2>3, <2>4 DEF IInv
<1>4. CASE ~body
  <2>1. /\ pst' = [pst EXCEPT ![q] = "idle"] /\ seqno' = [seqno EXCEPT ![q] = None]
        /\ ppr' = [ppr EXCEPT ![q] = None]
        /\ cst' = [cst EXCEPT ![m[1]] = "idle"]
    BY <1>1, <1>4 DEF PushAnswer, PullerDone, Answered
  <2>2. /\ pst'[q] = "idle" /\ TypePlugin'
        /\ \A p \in Pullers \ {q} : /\ pst'[p] = pst[p] /\ ppr'[p] = ppr[p]
                                    /\ seqno'[p] = seqno[p]
    BY <2>1, <1>0, <1>1 DEF IInv, TypeOK, TypePlugin
  <2>3. /\ TypeOK' /\ PullerInv' /\ SinglePlace' /\ SeqNoIsCurrent' /\ AnswersInv'
        /\ cst[m[1]] = "waiting"
    BY <2>1, <2>2, <1>1, <1>2, Answering
  <2>4. Forwarding'
    BY <2>1, <2>2, <2>3 DEF IInv, TypeOK, TypeClients, Forwarding
  <2> QED BY <2>3, <2>4 DEF IInv
<1> QED BY <1>3, <1>4

\* djb_bodyfwd_done() for the body of a push.
LEMMA PushForwardDoneStep ==
  ASSUME IInv, NEW q \in Pullers, PushForwardDone(q)
  PROVE  IInv'
<1>0. pst[q] = "fwdpush" /\ ppr[q] \in Req
  BY DEF IInv, TypeOK, TypePlugin, PushForwardDone
<1> PICK m \in Req : m = ppr[q]
  BY <1>0
<1>1. /\ pst' = [pst EXCEPT ![q] = "idle"] /\ seqno' = [seqno EXCEPT ![q] = None]
      /\ ppr' = [ppr EXCEPT ![q] = None] /\ cst' = [cst EXCEPT ![m[1]] = "idle"]
      /\ UNCHANGED <<proxyNew, proxyOut, apiPull, held, phcl, freed, wpc, wpr, war, conn,
                     moved, reqid, hasBody, answers, running, aborted>>
  BY DEF PushForwardDone, PullerDone, queueVars, entryVars, workerVars, connVars, ctlVars
<1>2. /\ pst'[q] = "idle" /\ TypePlugin'
      /\ \A p \in Pullers \ {q} : /\ pst'[p] = pst[p] /\ ppr'[p] = ppr[p]
                                  /\ seqno'[p] = seqno[p]
  BY <1>1 DEF IInv, TypeOK, TypePlugin
<1>3. \A p \in Pullers, r \in Req : ByPush(p, r)' <=> ByPush(p, r)
  BY <1>0, <1>2 DEF ByPush
<1>4. ASSUME NEW r \in Req PROVE Places(r)' = Places(r)
  BY <1>1, <1>3, SamePlace DEF InNew, InOut, ByWorker, ByClose
<1>5. SinglePlace'
  BY <1>1, <1>4 DEF IInv, SinglePlace
<1>6. SeqNoIsCurrent'
  <2>1. ASSUME NEW r \in Req, Tracked(r)'
        PROVE  reqid'[r[1]] = r[2] /\ cst'[r[1]] = "waiting" /\ answers'[r] = <<>>
    <3>1. Tracked(r) /\ cst[r[1]] = "waiting" /\ cst[m[1]] = "forward"
      BY <2>1, <1>0, <1>4 DEF Tracked, IInv, SeqNoIsCurrent, Forwarding
    <3> QED BY <3>1, <1>1, ReqFacts DEF IInv, SeqNoIsCurrent, TypeOK, TypeClients
  <2> QED BY <2>1 DEF SeqNoIsCurrent
<1>7. TypeOK'
  <2>1. TypeClients'
    BY <1>1 DEF IInv, TypeOK, TypeClients
  <2> QED BY <1>1, <1>2, <2>1 DEF IInv, TypeOK, TypeQueues, TypeEntries, TypeWorkers,
             TypeConns, TypeCtl
<1>8. PullerInv'
  BY <1>0, <1>1, <1>2, HandlerKeepsPullers DEF IInv, TypeOK
<1>9. AnswersInv'
  BY <1>0, <1>1, <1>2, <1>3, AnswersKept DEF IInv, ByPush
<1>10. Forwarding'
  <2>1. \A p \in Pullers \ {q} : pst[p] = "fwdpush" => ppr[p][1] # m[1]
    BY <1>0 DEF IInv, Forwarding
  <2> QED BY <2>1, <1>1, <1>2 DEF IInv, TypeOK, TypeClients, Forwarding
<1> QED BY <1>5, <1>6, <1>7, <1>8, <1>9, <1>10 DEF IInv

\* Steps of the environment that touch connections, jobs and flags only.
LEMMA OutsideStep ==
  ASSUME IInv,
         \/ \E x \in Conns : Break(x)
         \/ \E j \in Job : DropJob(j)
         \/ Shutdown
  PROVE  IInv'
<1>1. /\ UNCHANGED <<proxyNew, proxyOut, apiPull, phcl, freed, wpc, wpr, war, moved, reqid,
                     cst, hasBody, answers, pst, seqno, ppr>>
      /\ TypeConns' /\ held' \subseteq held
      /\ running' \in BOOLEAN /\ UNCHANGED aborted
  BY DEF IInv, TypeOK, TypeConns, TypeCtl, Break, DropJob, Shutdown, queueVars, entryVars,
     workerVars, connVars, clientVars, pluginVars, ctlVars
<1>2. TypeOK'
  BY <1>1 DEF IInv, TypeOK, TypeQueues, TypeEntries, TypeWorkers, TypeConns,
     TypeClients, TypePlugin, TypeCtl
<1>3. SinglePlace' /\ SeqNoIsCurrent'
  BY <1>1, QuietStep DEF IInv, ByWorker, ByPush
<1> QED BY <1>1, <1>2, <1>3, PullersKept, AnswersKept, ForwardingKept DEF IInv, ByPush

\* djb_close() takes the request paired with the connection from lst_proxy_out.
LEMMA HandleCloseStep ==
  ASSUME IInv, NEW x \in Conns, HandleClose(x)
  PROVE  IInv'
<1>0. SinglePlace /\ proxyOut \in Seq(Req) /\ moved[x] = None
  BY DEF IInv, TypeOK, TypeQueues, TypeConns, HandleClose
<1>1. /\ conn' = [conn EXCEPT ![x] = "closed"]
      /\ UNCHANGED <<proxyNew, apiPull, phcl, freed, wpc, wpr, war, reqid, cst, hasBody,
                     answers, pst, seqno, ppr, held, running, aborted>>
  BY DEF HandleClose, entryVars, workerVars, clientVars, pluginVars, ctlVars
<1>2. PullerInv' /\ AnswersInv' /\ Forwarding'
  BY <1>1, PullersKept, AnswersKept, ForwardingKept DEF IInv, ByPush
<1>3. CASE UNCHANGED <<moved, proxyOut>>
  <2>1. TypeOK'
    BY <1>1, <1>3 DEF IInv, TypeOK, TypeQueues, TypeEntries, TypeWorkers, TypeConns,
       TypeClients, TypePlugin, TypeCtl
  <2> QED BY <2>1, <1>1, <1>2, <1>3, QuietStep DEF IInv, ByWorker, ByPush
<1>4. ASSUME NEW i \in DOMAIN proxyOut, moved' = [moved EXCEPT ![x] = proxyOut[i]],
             proxyOut' = Unlink(proxyOut, i)
      PROVE  IInv'
  <2> PICK m \in Req : m = proxyOut[i]
    BY <1>0
  <2>1. /\ proxyOut' \in Seq(Req) /\ IsInjective(proxyOut')
        /\ ToSet(proxyOut') = ToSet(proxyOut) \ {m} /\ m \in ToSet(proxyOut)
    BY <1>0, <1>4, UnlinkSet DEF SinglePlace
  <2>2. /\ InOut(m) /\ Tracked(m) /\ ~InNew(m) /\ \A v \in Workers : ~ByWorker(v, m)
        /\ \A p \in Pullers : ~ByPush(p, m)
        /\ \A y \in Conns : ~ByClose(y, m)
    <3>1. InOut(m)
      BY <2>1 DEF InOut
    <3> QED BY <3>1, <1>0, OnlyOut
  <2>3. moved'[x] = m /\ \A y \in Conns \ {x} : moved'[y] = moved[y]
    BY <1>4 DEF IInv, TypeOK, TypeConns
  <2>4. ASSUME NEW r \in Req, r # m PROVE Places(r)' = Places(r)
    <3>1. InOut(r)' <=> InOut(r)
      BY <2>1, <2>4 DEF InOut
    <3>2. \A y \in Conns : ByClose(y, r)' <=> ByClose(y, r)
      BY <1>0, <2>3, <2>4, ReqFacts DEF ByClose
    <3> QED BY <3>1, <3>2, <1>1, SamePlace DEF InNew, ByWorker, ByPush
  <2>5. Places(m)' \subseteq {<<"close", x>>}
    <3>1. /\ ~InNew(m)' /\ ~InOut(m)' /\ \A v \in Workers : ~ByWorker(v, m)'
          /\ \A p \in Pullers : ~ByPush(p, m)'
          /\ \A y \in Conns \ {x} : ~ByClose(y, m)'
      BY <1>1, <2>1, <2>2, <2>3 DEF InNew, InOut, ByWorker, ByPush, ByClose
    <3> QED BY <3>1 DEF Places
  <2>6. SinglePlace'
    <3>1. IsInjective(proxyNew)' /\ IsInjective(proxyOut)'
      BY <1>0, <1>1, <2>1 DEF SinglePlace
    <3> QED BY <3>1, <1>0, <2>4, <2>5, MoveStep
  <2>7. SeqNoIsCurrent'
    <3>1. ASSUME NEW r \in Req, Tracked(r)' PROVE Tracked(r)
      BY <3>1, <2>2, <2>4 DEF Tracked
    <3> QED BY <3>1, <1>1, CurrentKept DEF IInv
  <2>8. TypeOK'
    <3>1. TypeConns'
      BY <1>1, <1>4 DEF IInv, TypeOK, TypeConns
    <3> QED BY <1>1, <2>1, <3>1 DEF IInv, TypeOK, TypeQueues, TypeEntries, TypeWorkers,
               TypeClients, TypePlugin, TypeCtl
  <2> QED BY <2>6, <2>7, <2>8, <1>2 DEF IInv
<1> QED BY <1>3, <1>4 DEF HandleClose

\* djb_close() puts it on lst_proxy_new.
LEMMA RequeueStep ==
  ASSUME IInv, NEW x \in Conns, Requeue(x)
  PROVE  IInv'
<1>0. /\ SinglePlace /\ proxyNew \in Seq(Req) /\ moved[x] \in Req
  BY DEF IInv, TypeOK, TypeQueues, TypeConns, Requeue
<1> PICK m \in Req : m = moved[x]
  BY <1>0
<1>1. /\ proxyNew' = Append(proxyNew, m) /\ moved' = [moved EXCEPT ![x] = None]
      /\ UNCHANGED <<proxyOut, apiPull, phcl, freed, wpc, wpr, war, conn, reqid, cst, hasBody,
                     answers, pst, seqno, ppr, held, running, aborted>>
  BY DEF Requeue, entryVars, workerVars, clientVars, pluginVars, ctlVars
<1>2. /\ Tracked(m) /\ ~InNew(m) /\ ~InOut(m) /\ \A w \in Workers : ~ByWorker(w, m)
      /\ \A p \in Pullers : ~ByPush(p, m)
      /\ \A y \in Conns \ {x} : ~ByClose(y, m)
  <2>1. ByClose(x, m)
    BY DEF ByClose
  <2> QED BY <2>1, <1>0, OnlyClose
<1>3. /\ proxyNew' \in Seq(Req) /\ IsInjective(proxyNew')
      /\ ToSet(proxyNew') = ToSet(proxyNew) \cup {m}
  BY <1>0, <1>1, <1>2, AppendSet DEF SinglePlace, InNew
<1>4. moved'[x] = None /\ \A y \in Conns \ {x} : moved'[y] = moved[y]
  BY <1>1 DEF IInv, TypeOK, TypeConns
<1>5. ASSUME NEW r \in Req, r # m PROVE Places(r)' = Places(r)
  <2>1. InNew(r)' <=> InNew(r)
    BY <1>3, <1>5 DEF InNew
  <2>2. \A y \in Conns : ByClose(y, r)' <=> ByClose(y, r)
    BY <1>4, <1>5, ReqFacts DEF ByClose
  <2> QED BY <2>1, <2>2, <1>1, SamePlace DEF InOut, ByWorker, ByPush
<1>6. Places(m)' \subseteq {<<"new", None>>}
  <2>1. /\ ~InOut(m)' /\ \A w \in Workers : ~ByWorker(w, m)'
        /\ \A p \in Pullers : ~ByPush(p, m)'
        /\ \A y \in Conns : ~ByClose(y, m)'
    BY <1>1, <1>2, <1>4, ReqFacts DEF InOut, ByWorker, ByPush, ByClose
  <2> QED BY <2>1 DEF Places
<1>7. SinglePlace'
  <2>1. IsInjective(proxyNew)' /\ IsInjective(proxyOut)'
    BY <1>0, <1>1, <1>3 DEF SinglePlace
  <2> QED BY <2>1, <1>0, <1>5, <1>6, MoveStep
<1>8. SeqNoIsCurrent'
  <2>1. ASSUME NEW r \in Req, Tracked(r)' PROVE Tracked(r)
    BY <2>1, <1>2, <1>5 DEF Tracked
  <2> QED BY <2>1, <1>1, CurrentKept DEF IInv
<1>9. TypeOK'
  <2>1. TypeConns'
    BY <1>1 DEF IInv, TypeOK, TypeConns
  <2> QED BY <1>1, <1>3, <2>1 DEF IInv, TypeOK, TypeQueues, TypeEntries, TypeWorkers,
             TypeClients, TypePlugin, TypeCtl
<1>10. PullerInv' /\ AnswersInv' /\ Forwarding'
  BY <1>1, PullersKept, AnswersKept, ForwardingKept DEF IInv, ByPush
<1> QED BY <1>7, <1>8, <1>9, <1>10 DEF IInv

-----------------------------------------------------------------------------
\* The invariant holds initially and every step preserves it.

\* The daemon starts with empty lists.
LEMMA InitInv == Init => IInv
<1> SUFFICES ASSUME Init PROVE IInv
  OBVIOUS
<1>1. \A r \in Req : Places(r) = {}
  BY ReqFacts DEF Init, Places, InNew, InOut, ByWorker, ByPush, ByClose, ToSet
<1>2. SinglePlace /\ SeqNoIsCurrent
  BY <1>1 DEF Init, SinglePlace, SeqNoIsCurrent, Tracked, IsInjective
<1>3. TypeOK
  <2>1. TypeQueues
    <3>1. <<>> \in Seq(Req) /\ <<>> \in Seq(Pullers)
      OBVIOUS
    <3> QED BY <3>1 DEF Init, TypeQueues
  <2>6. TypeEntries /\ TypeCtl
    BY DEF Init, TypeEntries, TypeCtl
  <2>2. TypeWorkers
    BY NoneAssumption DEF Init, TypeWorkers
  <2>3. TypeConns
    BY DEF Init, TypeConns
  <2>4. TypeClients
    <3>1. <<>> \in Seq(Req \cup {Err500}) /\ 0 \in 0 .. MaxReq
      BY BoundAssumption
    <3> QED BY <3>1 DEF Init, TypeClients
  <2>5. TypePlugin
    BY DEF Init, TypePlugin
  <2> QED BY <2>1, <2>2, <2>3, <2>4, <2>5, <2>6 DEF TypeOK
<1>4. PullerInv
  BY NoneAssumption DEF Init, PullerInv, PullerServedOnce, SeqNoGiven, ToSet, IsInjective
<1>5. AnswersInv /\ Forwarding
  BY DEF Init, AnswersInv, FoundMatches, FutureUnanswered, AnswersMatch, Forwarding, ByPush
<1> QED BY <1>2, <1>3, <1>4, <1>5 DEF IInv

\* Every step of the daemon, its peers and the plugin preserves the invariant.
LEMMA NextInv == IInv /\ [Next]_vars => IInv'
<1> SUFFICES ASSUME IInv, [Next]_vars PROVE IInv'
  OBVIOUS
<1>1. CASE Environment
  BY <1>1, RequestStep, RequestNoMemoryStep, PullNoMemoryStep, PushErrorStep, OutsideStep
     DEF Environment
<1>2. ASSUME NEW w \in Workers, Worker(w) PROVE IInv'
  BY <1>2, TakeRequestStep, TakePullerStep, ForwardClosedStep, ForwardStartStep, PublishStep,
     SendDoneStep, SendBodyStep, WorkerExitStep DEF Worker
<1>3. ASSUME NEW p \in Pullers, Pull(p) \/ Handler(p) PROVE IInv'
  BY <1>3, PullStep, ForwardDoneStep, PushFindStep, PushErrorStep, PushInternalBodyStep,
     PushInternalStep, PushClientGoneStep, PushForwardDoneStep, PushAnswerStep DEF Handler
<1>4. ASSUME NEW j \in Job, PushJob(j) PROVE IInv'
  BY <1>4, PushStep DEF PushJob
<1>5. ASSUME NEW x \in Conns, Closer(x) PROVE IInv'
  BY <1>5, HandleCloseStep, RequeueStep DEF Closer
<1>6. CASE UNCHANGED vars
  <2>1. UNCHANGED <<proxyNew, proxyOut, apiPull, phcl, freed, wpc, wpr, war, conn, moved,
                    reqid, cst, hasBody, answers, pst, seqno, ppr, held, running, aborted>>
    BY <1>6 DEF vars, queueVars, entryVars, workerVars, connVars, clientVars, pluginVars, ctlVars
  <2>2. TypeOK'
    BY <2>1 DEF IInv, TypeOK, TypeQueues, TypeEntries, TypeWorkers, TypeConns,
       TypeClients, TypePlugin, TypeCtl
  <2> QED BY <2>1, <2>2, PullersKept, QuietStep, AnswersKept, ForwardingKept
          DEF IInv, ByWorker, ByPush
<1> QED BY <1>1, <1>2, <1>3, <1>4, <1>5, <1>6 DEF Next

\* The inductive invariant holds in every reachable state.
THEOREM Invariance == Spec => []IInv
BY InitInv, NextInv, PTL DEF Spec

-----------------------------------------------------------------------------
\* Every variable keeps its type, and a worker, push or close in the middle of
\* a request always knows which one (djb_worker_thread, djb_push, djb_close).
THEOREM TypeCorrect == Spec => []TypeOK
<1>1. IInv => TypeOK
  BY DEF IInv
<1> QED BY <1>1, Invariance, PTL

\* However requests are rescheduled, repeated or answered late: at most one
\* response each, and the right one (djb_find_req).
THEOREM AnswersCorrect == Spec => []AnswersMatch
<1>1. IInv => AnswersMatch
  BY DEF IInv, AnswersInv
<1> QED BY <1>1, Invariance, PTL

\* Two threads never have the same request in hand, and no list holds it twice
\* (the list_addtail_l() and list_remove() of djb_worker_thread, djb_push and
\* djb_close balance).
THEOREM OnePlace == Spec => []SinglePlace
<1>1. IInv => SinglePlace
  BY DEF IInv
<1> QED BY <1>1, Invariance, PTL

\* Wherever a request is, it is the current one of its hcl, so that the number
\* djb_handle_forward() reads from the live hcl is its own.
THEOREM SeqNoCurrent == Spec => []SeqNoIsCurrent
<1>1. IInv => SeqNoIsCurrent
  BY DEF IInv
<1> QED BY <1>1, Invariance, PTL

\* A parked pull is on lst_api_pull once or with one worker: it gets at most
\* one request (djb_pull_post, djb_worker_thread).
THEOREM OnePuller == Spec => []PullerServedOnce
<1>1. IInv => PullerServedOnce
  BY DEF IInv, PullerInv
<1> QED BY <1>1, Invariance, PTL

-----------------------------------------------------------------------------
\* DjbProxy implements ProxyService: each step is a step of the service for one
\* requester, or changes nothing the service shows.

\* Nothing was requested yet on either level.
LEMMA ServiceInit == Init => Service!Init
BY DEF Init, Service!Init, Req, Service!Req

\* djb_proxy_add() queues a request: the service accepts it.
LEMMA AcceptStep ==
  ASSUME NEW c \in Requesters, NEW body \in BOOLEAN, Request(c, body)
  PROVE  Service!Next
<1>1. Service!Accept(c)
  BY DEF Request, Service!Accept
<1> QED BY <1>1 DEF Service!Next

\* djb_proxy_add() answers 500: the service refuses the request.
LEMMA RefuseStep ==
  ASSUME IInv, NEW c \in Requesters, RequestNoMemory(c)
  PROVE  Service!Next
<1>1. /\ reqid[c] \in Nat /\ <<c, reqid[c] + 1>> \in Req
      /\ answers \in [Req -> Seq(Req \cup {Err500})]
  BY BoundAssumption DEF IInv, TypeOK, TypeClients, RequestNoMemory, Req
<1> PICK r \in Req : r = <<c, reqid[c] + 1>>
  BY <1>1
<1>2. answers[r] = <<>>
  <2>1. r[2] > reqid[r[1]]
    BY <1>1
  <2> QED BY <2>1 DEF IInv, AnswersInv, FutureUnanswered
<1>3. answers' = [answers EXCEPT ![r] = <<Err500>>]
  <2>1. answers' = [answers EXCEPT ![r] = Append(answers[r], Err500)]
    BY DEF RequestNoMemory
  <2>2. Append(<<>>, Err500) = <<Err500>>
    OBVIOUS
  <2> QED BY <2>1, <2>2, <1>2
<1>4. Service!Refuse(c)
  BY <1>3 DEF RequestNoMemory, Service!Refuse
<1> QED BY <1>4 DEF Service!Next

\* A push answers the request it has found, for the requester that waits.
LEMMA AnswerStep ==
  ASSUME IInv, NEW q \in Pullers, pst[q] \in {"found", "found2"},
         NEW body \in BOOLEAN,
         answers' = [answers EXCEPT ![ppr[q]] = Append(@, seqno[q])],
         cst' = [cst EXCEPT ![ppr[q][1]] = IF body THEN "forward" ELSE "idle"],
         UNCHANGED reqid
  PROVE  Service!Next
<1>1. ppr[q] \in Req
  BY DEF IInv, TypeOK, TypePlugin
<1> PICK r \in Req : r = ppr[q]
  BY <1>1
<1>2. ByPush(q, r)
  BY DEF ByPush
<1>3. seqno[q] = r
  BY <1>2 DEF IInv, AnswersInv, FoundMatches
<1>4. reqid[r[1]] = r[2] /\ cst[r[1]] = "waiting" /\ answers[r] = <<>>
  BY <1>2, OnlyPush DEF IInv, SeqNoIsCurrent
<1>5. r[1] \in Requesters /\ r = <<r[1], reqid[r[1]]>>
  BY <1>4, ReqFacts
<1>6. answers' = [answers EXCEPT ![r] = <<r>>]
  <2>1. Append(<<>>, r) = <<r>>
    OBVIOUS
  <2> QED BY <2>1, <1>3, <1>4
<1>7. Service!Answer(r[1])
  BY <1>4, <1>5, <1>6 DEF Service!Answer
<1> QED BY <1>5, <1>7 DEF Service!Next

\* djb_bodyfwd_done() ends an answer with a body.
LEMMA CompleteStep ==
  ASSUME IInv, NEW q \in Pullers, PushForwardDone(q)
  PROVE  Service!Next
<1>1. /\ ppr[q] \in Req /\ cst[ppr[q][1]] = "forward"
  BY DEF IInv, TypeOK, TypePlugin, Forwarding, PushForwardDone
<1>2. ppr[q][1] \in Requesters
  BY <1>1, ReqFacts
<1>3. Service!Complete(ppr[q][1])
  BY <1>1 DEF PushForwardDone, Service!Complete
<1> QED BY <1>2, <1>3 DEF Service!Next

\* Every step of the proxy is a step of the service or invisible.
LEMMA ServiceStep == IInv /\ [Next]_vars => [Service!Next]_<<reqid, cst, answers>>
<1> SUFFICES ASSUME IInv, [Next]_vars
             PROVE  Service!Next \/ UNCHANGED <<reqid, cst, answers>>
  OBVIOUS
<1>1. CASE Environment
  <2>1. ASSUME NEW c \in Requesters, NEW body \in BOOLEAN, Request(c, body)
        PROVE  Service!Next
    BY <2>1, AcceptStep
  <2>2. ASSUME NEW c \in Requesters, RequestNoMemory(c) PROVE Service!Next
    BY <2>2, RefuseStep
  <2>3. ASSUME NEW p \in Pullers, PullNoMemory(p) \/ PushRejected(p)
        PROVE  UNCHANGED <<reqid, cst, answers>>
    BY <2>3 DEF PullNoMemory, PushRejected, clientVars
  <2>4. ASSUME (\E j \in Job : DropJob(j)) \/ (\E x \in Conns : Break(x)) \/ Shutdown
        PROVE  UNCHANGED <<reqid, cst, answers>>
    BY <2>4 DEF DropJob, Break, Shutdown, clientVars
  <2> QED BY <1>1, <2>1, <2>2, <2>3, <2>4 DEF Environment
<1>2. ASSUME NEW w \in Workers, Worker(w) PROVE UNCHANGED <<reqid, cst, answers>>
  BY <1>2 DEF Worker, TakeRequest, TakePuller, ForwardClosed, ForwardStart, Publish,
     SendDone, SendBody, WorkerExit, clientVars
<1>3. ASSUME NEW p \in Pullers, Pull(p) \/ Handler(p)
      PROVE  Service!Next \/ UNCHANGED <<reqid, cst, answers>>
  <2>1. CASE Pull(p)
    BY <2>1 DEF Pull, clientVars
  <2>2. CASE ForwardDone(p) \/ PushFind(p) \/ PushUnknown(p)
             \/ PushInternalBody(p) \/ PushClosed(p) \/ PushClientGone(p)
    BY <2>2 DEF ForwardDone, PushFind, PushUnknown, PushInternalBody, PushClosed,
       PushClientGone, clientVars
  <2>3. CASE PushInternal(p)
    BY <2>3, AnswerStep DEF PushInternal
  <2>4. ASSUME NEW body \in BOOLEAN, PushAnswer(p, body) PROVE Service!Next
    BY <2>4, AnswerStep DEF PushAnswer, Answered
  <2>5. CASE PushForwardDone(p)
    BY <2>5, CompleteStep
  <2> QED BY <1>3, <2>1, <2>2, <2>3, <2>4, <2>5 DEF Handler
<1>4. ASSUME NEW j \in Job, PushJob(j) PROVE UNCHANGED <<reqid, cst, answers>>
  BY <1>4 DEF PushJob, Push, clientVars
<1>5. ASSUME NEW x \in Conns, Closer(x) PROVE UNCHANGED <<reqid, cst, answers>>
  BY <1>5 DEF Closer, HandleClose, Requeue, clientVars
<1>6. CASE UNCHANGED vars
  BY <1>6 DEF vars, clientVars
<1> QED BY <1>1, <1>2, <1>3, <1>4, <1>5, <1>6 DEF Next

\* The proxy keeps its promise to its clients: an answer goes to the request it
\* was fetched for, while its client waits for it, once; the client's next
\* request is taken only when the body of the answer is out.
THEOREM Implements == Spec => ServiceSpec
<1>1. Init => Service!Init
  BY ServiceInit
<1>2. IInv /\ [Next]_vars => [Service!Next]_Service!vars
  BY ServiceStep DEF Service!vars
<1> QED BY <1>1, <1>2, Invariance, PTL DEF Spec, ServiceSpec, Service!Spec

-----------------------------------------------------------------------------
\* No request is lost.  Each step keeps the requests it does not finish.

\* A request is tracked if one of the five predicates puts it somewhere.
LEMMA TrackedWhere ==
  ASSUME NEW r \in Req
  PROVE  /\ Tracked(r) <=> \/ InNew(r) \/ InOut(r)
                           \/ \E w \in Workers : ByWorker(w, r)
                           \/ \E q \in Pullers : ByPush(q, r)
                           \/ \E x \in Conns : ByClose(x, r)
         /\ Tracked(r)' <=> \/ InNew(r)' \/ InOut(r)'
                            \/ \E w \in Workers : ByWorker(w, r)'
                            \/ \E q \in Pullers : ByPush(q, r)'
                            \/ \E x \in Conns : ByClose(x, r)'
BY DEF Tracked, Places

\* It is enough to follow a request from the place it is in.
LEMMA StaysTracked ==
  ASSUME NEW r \in Req, Tracked(r),
         InNew(r) => Tracked(r)', InOut(r) => Tracked(r)',
         \A w \in Workers : ByWorker(w, r) => Tracked(r)',
         \A q \in Pullers : ByPush(q, r) => Tracked(r)',
         \A x \in Conns : ByClose(x, r) => Tracked(r)'
  PROVE  Tracked(r)'
BY TrackedWhere

\* djb_proxy_add() tracks the new request and keeps the others.
LEMMA RequestTracks ==
  ASSUME IInv, NEW c \in Requesters, NEW body \in BOOLEAN, Request(c, body),
         NEW r \in Req, Tracked(r) \/ r = <<c, reqid'[c]>>
  PROVE  Tracked(r)'
<1>1. /\ proxyNew \in Seq(Req) /\ <<c, reqid[c] + 1>> \in Req
      /\ reqid'[c] = reqid[c] + 1
  BY BoundAssumption DEF IInv, TypeOK, TypeQueues, TypeClients, Request, Req
<1> PICK m \in Req : m = <<c, reqid[c] + 1>>
  BY <1>1
<1>2. proxyNew' = Append(proxyNew, m)
  BY DEF Request
<1>3. ToSet(proxyNew)' = ToSet(proxyNew) \cup {m}
  <2>1. ToSet(Append(proxyNew, m)) = ToSet(proxyNew) \cup {m}
    BY <1>1, AppendSet
  <2>2. ToSet(proxyNew)' = ToSet(proxyNew')
    BY DEF ToSet
  <2> QED BY <1>2, <2>1, <2>2
<1>4. UNCHANGED <<proxyOut, wpc, wpr, moved, pst, ppr>>
  BY DEF Request, workerVars, connVars, pluginVars
<1>5. CASE r = m
  BY <1>3, <1>5, TrackedWhere DEF InNew
<1>6. CASE Tracked(r)
  BY <1>3, <1>4, <1>6, TrackedWhere DEF InNew, InOut, ByWorker, ByPush, ByClose
<1> QED BY <1>1, <1>5, <1>6

\* A worker moves a request to lst_proxy_out or, in a build without fassert(),
\* drops it when its puller has gone.
LEMMA WorkerTracks ==
  ASSUME IInv, NEW w \in Workers, Worker(w), running,
         NEW r \in Req, Tracked(r)
  PROVE  Tracked(r)' \/ (~Fassert /\ GonePuller(w, r))
<1>0. /\ proxyNew \in Seq(Req) /\ proxyOut \in Seq(Req)
      /\ wpc \in [Workers -> {"new", "pull", "check", "publish", "send", "exit"}]
      /\ wpr \in [Workers -> Req \cup {None}]
  BY DEF IInv, TypeOK, TypeQueues, TypeWorkers
<1>1. CASE TakeRequest(w)
  <2>1. UNCHANGED <<proxyOut, moved, pst, ppr>> /\ wpc[w] = "new"
    BY <1>1 DEF TakeRequest, connVars, pluginVars
  <2>2. wpc'[w] = "pull" /\ wpr'[w] = Head(proxyNew)
    BY <1>0, <1>1 DEF TakeRequest
  <2>3. \A v \in Workers \ {w} : wpc'[v] = wpc[v] /\ wpr'[v] = wpr[v]
    BY <1>0, <1>1 DEF TakeRequest
  <2>4. ToSet(proxyNew) = ToSet(proxyNew)' \cup {Head(proxyNew)}
    BY <1>0, <1>1, TailSet DEF TakeRequest
  <2>5. InNew(r) => InNew(r)' \/ ByWorker(w, r)'
    BY <2>2, <2>4 DEF InNew, ByWorker
  <2> QED BY <2>1, <2>3, <2>5, TrackedWhere DEF InOut, ByWorker, ByPush, ByClose
<1>2. CASE TakePuller(w) \/ ForwardStart(w)
  <2>1. UNCHANGED <<proxyNew, proxyOut, wpr, moved, pst, ppr>>
    BY <1>2 DEF TakePuller, ForwardStart, queueVars, connVars, pluginVars
  <2>2. wpc[w] \in {"pull", "check"} /\ wpc'[w] \in {"check", "publish"}
    BY <1>0, <1>2 DEF TakePuller, ForwardStart
  <2>3. \A v \in Workers \ {w} : wpc'[v] = wpc[v]
    BY <1>0, <1>2 DEF TakePuller, ForwardStart
  <2> QED BY <2>1, <2>2, <2>3, TrackedWhere DEF InNew, InOut, ByWorker, ByPush, ByClose
<1>3. CASE ForwardClosed(w)
  <2>1. UNCHANGED <<proxyNew, proxyOut, moved>> /\ wpc[w] = "check" /\ conn[war[w]] # "open"
    BY <1>3 DEF ForwardClosed, queueVars, connVars
  <2>2. CASE Fassert
    <3>1. UNCHANGED <<wpc, wpr, pst, ppr>>
      BY <1>3, <2>2 DEF ForwardClosed, workerVars, pluginVars
    <3> QED BY <2>1, <3>1, TrackedWhere DEF InNew, InOut, ByWorker, ByPush, ByClose
  <2>3. CASE ~Fassert /\ wpr[w] # r
    <3>1. \A v \in Workers \ {w} : wpc'[v] = wpc[v] /\ wpr'[v] = wpr[v]
      BY <1>0, <1>3, <2>3 DEF ForwardClosed, WorkerDone
    <3>2. ASSUME NEW q \in Pullers, ByPush(q, r) PROVE ByPush(q, r)'
      <4>1. pst[war[w]] = "parked" /\ war[w] \in Pullers
        BY <2>1 DEF IInv, TypeOK, TypeWorkers, PullerInv, PullerServedOnce
      <4>2. q # war[w]
        BY <4>1, <3>2 DEF ByPush
      <4> QED BY <1>3, <2>3, <3>2, <4>2
              DEF ForwardClosed, PullerDone, ByPush, IInv, TypeOK, TypePlugin
    <3> QED BY <2>1, <2>3, <3>1, <3>2, TrackedWhere DEF InNew, InOut, ByWorker, ByClose
  <2>4. CASE ~Fassert /\ wpr[w] = r
    BY <2>1, <2>4 DEF GonePuller
  <2> QED BY <2>2, <2>3, <2>4
<1>4. CASE Publish(w)
  <2>1. UNCHANGED <<proxyNew, wpr, moved, pst, ppr>>
    BY <1>4 DEF Publish, connVars, pluginVars
  <2>2. wpr[w] \in Req
    BY <1>4, <1>0 DEF Publish, IInv, TypeOK, TypeWorkers
  <2>3. ToSet(proxyOut)' = ToSet(proxyOut) \cup {wpr[w]}
    BY <1>0, <1>4, <2>2, AppendSet DEF Publish
  <2>4. \A v \in Workers \ {w} : wpc'[v] = wpc[v]
    BY <1>0, <1>4 DEF Publish
  <2>5. ByWorker(w, r) => InOut(r)'
    BY <2>3 DEF ByWorker, InOut
  <2> QED BY <2>1, <2>3, <2>4, <2>5, TrackedWhere DEF InNew, InOut, ByWorker, ByPush, ByClose
<1>5. CASE SendDone(w) \/ SendBody(w)
  <2>1. UNCHANGED <<proxyNew, proxyOut, moved>> /\ wpc[w] = "send"
    BY <1>5 DEF SendDone, SendBody, queueVars, connVars
  <2>2. \A v \in Workers \ {w} : wpc'[v] = wpc[v] /\ wpr'[v] = wpr[v]
    BY <1>0, <1>5 DEF SendDone, SendBody, WorkerDone, workerVars
  <2>3. ASSUME NEW q \in Pullers, ByPush(q, r) PROVE ByPush(q, r)'
    <3>1. pst[war[w]] = "parked" /\ war[w] \in Pullers
      BY <2>1 DEF IInv, TypeOK, TypeWorkers, PullerInv, PullerServedOnce
    <3>2. q # war[w]
      BY <3>1, <2>3 DEF ByPush
    <3> QED BY <1>5, <2>3, <3>2
            DEF SendDone, SendBody, PullerDone, ByPush, IInv, TypeOK, TypePlugin
  <2> QED BY <2>1, <2>2, <2>3, TrackedWhere DEF InNew, InOut, ByWorker, ByClose
<1>6. CASE WorkerExit(w)
  BY <1>6 DEF WorkerExit
<1> QED BY <1>1, <1>2, <1>3, <1>4, <1>5, <1>6 DEF Worker

\* A plugin connection that does not hold the request may change its state.
LEMMA OtherPusher ==
  ASSUME NEW q \in Pullers, NEW r \in Req, Tracked(r), ~ByPush(q, r),
         UNCHANGED <<proxyNew, proxyOut, wpc, wpr, moved>>,
         \A p \in Pullers \ {q} : pst'[p] = pst[p] /\ ppr'[p] = ppr[p]
  PROVE  Tracked(r)'
BY TrackedWhere DEF InNew, InOut, ByWorker, ByPush, ByClose

\* The plugin connections that hold no request.
LEMMA PluginTracks ==
  ASSUME IInv, NEW q \in Pullers, NEW r \in Req, Tracked(r),
         \/ Pull(q) \/ PullNoMemory(q) \/ PushRejected(q) \/ PushUnknown(q)
         \/ PushClosed(q) \/ ForwardDone(q) \/ PushForwardDone(q)
         \/ \E j \in Job : Push(q, j)
  PROVE  Tracked(r)'
<1>1. ~ByPush(q, r)
  BY DEF Pull, PullNoMemory, PushRejected, PushUnknown, PushCalled, PushClosed, ForwardDone,
     PushForwardDone, Push,
     ByPush, IInv, TypeOK, TypePlugin
<1>2. UNCHANGED <<proxyNew, proxyOut, wpc, wpr, moved>>
  BY DEF Pull, PullNoMemory, PushRejected, PushUnknown, PushCalled, PushClosed, ForwardDone,
     PushForwardDone, Push,
     queueVars, workerVars, connVars
<1>3. \A p \in Pullers \ {q} : pst'[p] = pst[p] /\ ppr'[p] = ppr[p]
  BY DEF Pull, PullNoMemory, PushRejected, PushUnknown, PushCalled, PushClosed, ForwardDone,
     PushForwardDone, Push,
     PullerDone, pluginVars, IInv, TypeOK, TypePlugin
<1> QED BY <1>1, <1>2, <1>3, OtherPusher

\* djb_push() takes a request from lst_proxy_out, or puts it back.
LEMMA PushTracks ==
  ASSUME IInv, NEW q \in Pullers, NEW r \in Req, Tracked(r),
         PushFind(q) \/ PushInternalBody(q)
  PROVE  Tracked(r)'
<1>0. /\ proxyOut \in Seq(Req) /\ IsInjective(proxyOut)
      /\ pst \in [Pullers -> {"idle", "parked", "fwdbody", "push", "found",
                              "push2", "found2", "fwdpush"}]
      /\ ppr \in [Pullers -> Req \cup {None}]
  BY DEF IInv, TypeOK, TypeQueues, TypePlugin, SinglePlace
<1>1. UNCHANGED <<proxyNew, wpc, wpr, moved>>
  BY DEF PushFind, PushInternalBody, workerVars, connVars
<1>2. \A p \in Pullers \ {q} : pst'[p] = pst[p] /\ ppr'[p] = ppr[p]
  BY <1>0 DEF PushFind, PushInternalBody
<1>3. CASE PushFind(q)
  <2>1. PICK i \in DOMAIN proxyOut : ppr' = [ppr EXCEPT ![q] = proxyOut[i]]
                                     /\ proxyOut' = Unlink(proxyOut, i)
    BY <1>3 DEF PushFind
  <2>2. ToSet(proxyOut)' = ToSet(proxyOut) \ {proxyOut[i]}
    BY <1>0, <2>1, UnlinkSet
  <2>3. pst[q] \notin {"found", "found2"} /\ pst'[q] \in {"found", "found2"}
        /\ ppr'[q] = proxyOut[i]
    BY <1>0, <1>3, <2>1 DEF PushFind, PushCalled
  <2>4. InOut(r) => InOut(r)' \/ ByPush(q, r)'
    BY <2>2, <2>3 DEF InOut, ByPush
  <2> QED BY <1>1, <1>2, <2>3, <2>4, TrackedWhere DEF InNew, ByWorker, ByPush, ByClose
<1>4. CASE PushInternalBody(q)
  <2>1. ppr[q] \in Req
    BY <1>4 DEF PushInternalBody, IInv, TypeOK, TypePlugin
  <2>2. ToSet(proxyOut)' = ToSet(proxyOut) \cup {ppr[q]}
    BY <1>0, <1>4, <2>1, AppendSet DEF PushInternalBody
  <2>3. (InOut(r) => InOut(r)') /\ (ByPush(q, r) => InOut(r)')
    BY <2>2 DEF InOut, ByPush
  <2> QED BY <1>1, <1>2, <2>3, TrackedWhere DEF InNew, ByWorker, ByPush, ByClose
<1> QED BY <1>3, <1>4

\* A push is done with the request it has found only if that request is answered
\* or its client has gone.
LEMMA PushEndTracks ==
  ASSUME IInv, NEW q \in Pullers, NEW r \in Req, Tracked(r),
         cst'[r[1]] = "waiting", Reachable(r[1]),
         \/ PushInternal(q) \/ PushClientGone(q)
         \/ \E body \in BOOLEAN : PushAnswer(q, body)
  PROVE  Tracked(r)'
<1>1. /\ pst[q] \in {"found", "found2"} /\ ppr[q] \in Req
      /\ cst \in [Requesters -> {"idle", "waiting", "forward"}]
  BY DEF PushInternal, PushClientGone, PushAnswer, IInv, TypeOK, TypePlugin, TypeClients
<1>2. ppr[q][1] \in Requesters
  BY <1>1, ReqFacts
<1>3. ~ByPush(q, r)
  <2>1. CASE PushInternal(q) \/ \E body \in BOOLEAN : PushAnswer(q, body)
    <3>1. cst'[ppr[q][1]] # "waiting"
      BY <2>1, <1>1, <1>2 DEF PushInternal, PushAnswer, Answered
    <3> QED BY <3>1 DEF ByPush
  <2>2. CASE PushClientGone(q)
    BY <2>2 DEF PushClientGone, Reachable, ByPush
  <2> QED BY <2>1, <2>2
<1>4. UNCHANGED <<proxyNew, proxyOut, wpc, wpr, moved>>
  BY DEF PushInternal, PushClientGone, PushAnswer, queueVars, workerVars, connVars
<1>5. \A p \in Pullers \ {q} : pst'[p] = pst[p] /\ ppr'[p] = ppr[p]
  BY DEF PushInternal, PushClientGone, PushAnswer, PullerDone, IInv, TypeOK, TypePlugin
<1> QED BY <1>3, <1>4, <1>5, OtherPusher

\* djb_close() moves a request from lst_proxy_out to lst_proxy_new.
LEMMA CloserTracks ==
  ASSUME IInv, NEW x \in Conns, Closer(x), NEW r \in Req, Tracked(r)
  PROVE  Tracked(r)'
<1>0. /\ proxyNew \in Seq(Req) /\ proxyOut \in Seq(Req) /\ IsInjective(proxyOut)
      /\ conn \in [Conns -> {"open", "broken", "closed"}]
      /\ moved \in [Conns -> Req \cup {None}]
      /\ moved[x] # None => conn[x] = "closed"
  BY DEF IInv, TypeOK, TypeQueues, TypeConns, SinglePlace
<1>1. UNCHANGED <<wpc, wpr, pst, ppr>>
  BY DEF Closer, HandleClose, Requeue, workerVars, pluginVars
<1>2. CASE HandleClose(x)
  <2>1. UNCHANGED proxyNew /\ ~ByClose(x, r)
    BY <1>0, <1>2, ReqFacts DEF HandleClose, ByClose
  <2>2. CASE UNCHANGED <<moved, proxyOut>>
    BY <1>1, <2>1, <2>2, TrackedWhere DEF InNew, InOut, ByWorker, ByPush, ByClose
  <2>3. ASSUME NEW i \in DOMAIN proxyOut, moved' = [moved EXCEPT ![x] = proxyOut[i]],
               proxyOut' = Unlink(proxyOut, i)
        PROVE  Tracked(r)'
    <3>1. ToSet(proxyOut)' = ToSet(proxyOut) \ {proxyOut[i]}
      BY <1>0, <2>3, UnlinkSet
    <3>2. moved'[x] = proxyOut[i] /\ \A y \in Conns \ {x} : moved'[y] = moved[y]
      BY <1>0, <2>3
    <3>3. InOut(r) => InOut(r)' \/ ByClose(x, r)'
      BY <3>1, <3>2 DEF InOut, ByClose
    <3> QED BY <1>1, <2>1, <3>2, <3>3, TrackedWhere DEF InNew, ByWorker, ByPush, ByClose
  <2> QED BY <1>2, <2>2, <2>3 DEF HandleClose
<1>3. CASE Requeue(x)
  <2>1. UNCHANGED proxyOut /\ moved[x] \in Req
    BY <1>0, <1>3 DEF Requeue
  <2>2. ToSet(proxyNew)' = ToSet(proxyNew) \cup {moved[x]}
    BY <1>0, <1>3, <2>1, AppendSet DEF Requeue
  <2>3. \A y \in Conns \ {x} : moved'[y] = moved[y]
    BY <1>0, <1>3 DEF Requeue
  <2>4. ByClose(x, r) => InNew(r)'
    BY <2>2 DEF ByClose, InNew
  <2> QED BY <1>1, <2>1, <2>2, <2>3, <2>4, TrackedWhere
          DEF InNew, InOut, ByWorker, ByPush, ByClose
<1> QED BY <1>2, <1>3 DEF Closer

\* A requester that waits and can be reached has just sent its request, or it
\* waited for the same one before the step, and could be reached.
LEMMA WaitedBefore ==
  ASSUME IInv, [Next]_vars, NEW c \in Requesters,
         cst'[c] = "waiting", Reachable(c)', running'
  PROVE  /\ Reachable(c) /\ running
         /\ \/ cst[c] = "waiting" /\ reqid'[c] = reqid[c]
            \/ \E body \in BOOLEAN : Request(c, body)
<1>0. /\ conn \in [Conns -> {"open", "broken", "closed"}]
      /\ reqid \in [Requesters -> 0 .. MaxReq]
      /\ cst \in [Requesters -> {"idle", "waiting", "forward"}]
      /\ c \in Clients => c \in Conns
  BY DEF IInv, TypeOK, TypeConns, TypeClients, Conns
<1>1. CASE Environment
  <2>1. ASSUME NEW d \in Requesters, NEW body \in BOOLEAN, Request(d, body)
        PROVE  /\ Reachable(c) /\ UNCHANGED running
               /\ d # c => cst[c] = "waiting" /\ reqid'[c] = reqid[c]
    <3>1. UNCHANGED <<conn, running>>
      BY <2>1 DEF Request, connVars, ctlVars
    <3>2. d # c => cst'[c] = cst[c] /\ reqid'[c] = reqid[c]
      BY <1>0, <2>1 DEF Request
    <3> QED BY <3>1, <3>2 DEF Reachable
  <2>2. ASSUME NEW d \in Requesters, RequestNoMemory(d)
        PROVE  /\ Reachable(c) /\ UNCHANGED <<cst, running>>
               /\ d # c /\ reqid'[c] = reqid[c]
    BY <1>0, <2>2 DEF RequestNoMemory, ErrorSent, Reachable, ctlVars
  <2>3. ASSUME NEW p \in Pullers, PullNoMemory(p) \/ PushRejected(p)
        PROVE  Reachable(c) /\ UNCHANGED <<cst, reqid, running>>
    BY <1>0, <2>3 DEF PullNoMemory, PushRejected, ErrorSent, Reachable, clientVars, ctlVars
  <2>4. ASSUME NEW x \in Conns, Break(x)
        PROVE  Reachable(c) /\ UNCHANGED <<cst, reqid, running>>
    BY <1>0, <2>4 DEF Break, Reachable, clientVars, ctlVars
  <2>5. ASSUME (\E j \in Job : DropJob(j)) \/ Shutdown
        PROVE  Reachable(c) /\ UNCHANGED <<cst, reqid>> /\ running
    BY <2>5 DEF DropJob, Shutdown, Reachable, connVars, clientVars, ctlVars
  <2>6. CASE \E d \in Requesters : \E body \in BOOLEAN : Request(d, body)
    BY <2>6, <2>1
  <2>7. CASE \E d \in Requesters : RequestNoMemory(d)
    BY <2>7, <2>2
  <2>8. CASE \/ \E p \in Pullers : PullNoMemory(p) \/ PushRejected(p)
             \/ \E x \in Conns : Break(x)
             \/ \E j \in Job : DropJob(j)
             \/ Shutdown
    <3>1. Reachable(c) /\ UNCHANGED <<cst, reqid>> /\ running
      BY <2>8, <2>3, <2>4, <2>5
    <3> QED BY <3>1
  <2> QED BY <1>1, <2>6, <2>7, <2>8 DEF Environment
<1>2. ASSUME NEW w \in Workers, Worker(w)
      PROVE  UNCHANGED <<conn, cst, reqid, running>>
  BY <1>2 DEF Worker, TakeRequest, TakePuller, ForwardClosed, ForwardStart, Publish,
     SendDone, SendBody, WorkerExit, connVars, clientVars, ctlVars
<1>3. ASSUME NEW p \in Pullers, Pull(p) \/ Handler(p)
      PROVE  /\ Reachable(c) /\ UNCHANGED <<reqid, running>>
             /\ cst[c] = "waiting"
  <2>1. CASE Pull(p) \/ ForwardDone(p) \/ PushFind(p) \/ PushInternalBody(p)
             \/ PushClosed(p) \/ PushClientGone(p)
    BY <2>1 DEF Pull, ForwardDone, PushFind, PushInternalBody, PushClosed, PushClientGone,
       Reachable, connVars, clientVars, ctlVars
  <2>2. CASE PushUnknown(p)
    BY <1>0, <2>2 DEF PushUnknown, ErrorSent, Reachable, clientVars, ctlVars
  <2>3. CASE PushInternal(p) \/ PushForwardDone(p) \/ \E body \in BOOLEAN : PushAnswer(p, body)
    <3>1. UNCHANGED <<conn, reqid, running>>
      BY <2>3 DEF PushInternal, PushForwardDone, PushAnswer, connVars, ctlVars
    <3>2. ASSUME NEW d, NEW b \in {"idle", "forward"}, cst' = [cst EXCEPT ![d] = b]
          PROVE  cst[c] = "waiting"
      BY <1>0, <3>2
    <3> QED BY <2>3, <3>1, <3>2
            DEF PushInternal, PushForwardDone, PushAnswer, Answered, Reachable
  <2> QED BY <1>3, <2>1, <2>2, <2>3 DEF Handler
<1>4. ASSUME NEW j \in Job, PushJob(j) PROVE UNCHANGED <<conn, cst, reqid, running>>
  BY <1>4 DEF PushJob, Push, connVars, clientVars, ctlVars
<1>5. ASSUME NEW x \in Conns, Closer(x)
      PROVE  Reachable(c) /\ UNCHANGED <<cst, reqid, running>>
  BY <1>0, <1>5 DEF Closer, HandleClose, Requeue, Reachable, clientVars, ctlVars
<1>6. CASE UNCHANGED vars
  BY <1>6 DEF vars, connVars, clientVars, ctlVars, Reachable
<1> QED BY <1>1, <1>2, <1>3, <1>4, <1>5, <1>6 DEF Next, Reachable

\* A requester that waits has sent a request.
WaitingNumbered == \A c \in Requesters : cst[c] = "waiting" => reqid[c] # 0

\* hcl->reqid counts from 1.
LEMMA NumberedStep ==
  ASSUME IInv, WaitingNumbered, [Next]_vars
  PROVE  WaitingNumbered'
<1> SUFFICES ASSUME NEW c \in Requesters, cst'[c] = "waiting" PROVE reqid'[c] # 0
  BY DEF WaitingNumbered
<1>0. /\ reqid \in [Requesters -> 0 .. MaxReq]
      /\ cst \in [Requesters -> {"idle", "waiting", "forward"}]
  BY DEF IInv, TypeOK, TypeClients
<1>1. CASE [Service!Next]_<<reqid, cst, answers>>
  <2>1. ASSUME NEW d \in Requesters, Service!Accept(d) \/ Service!Refuse(d)
        PROVE  reqid'[c] # 0
    BY <1>0, <2>1, BoundAssumption DEF Service!Accept, Service!Refuse, WaitingNumbered
  <2>2. ASSUME NEW d \in Requesters, Service!Answer(d) \/ Service!Complete(d)
        PROVE  reqid'[c] # 0
    BY <1>0, <2>2 DEF Service!Answer, Service!Complete, WaitingNumbered
  <2> QED BY <1>1, <2>1, <2>2 DEF Service!Next, WaitingNumbered
<1> QED BY <1>1, ServiceStep

\* Every step keeps the requests that still wait, but for the one of a worker whose
\* puller has gone.
LEMMA ForgetStep ==
  ASSUME IInv, WaitingNumbered, [Next]_vars,
         NEW c \in Requesters, Forgotten(c)', ~Forgotten(c)
  PROVE  ~Fassert /\ \E w \in Workers : GonePuller(w, <<c, reqid[c]>>)
<1>1. cst'[c] = "waiting" /\ Reachable(c)' /\ running' /\ ~Tracked(<<c, reqid[c]>>)'
  BY DEF Forgotten
<1>2. <<c, reqid'[c]>> \in Req
  <2>1. WaitingNumbered' /\ IInv'
    BY NumberedStep, NextInv
  <2>2. reqid'[c] # 0 /\ reqid' \in [Requesters -> 0 .. MaxReq]
    BY <1>1, <2>1 DEF WaitingNumbered, IInv, TypeOK, TypeClients
  <2> QED BY <2>2, BoundAssumption DEF Req
<1> PICK r \in Req : r = <<c, reqid'[c]>>
  BY <1>2
<1>3. ~Tracked(r)'
  BY <1>1
<1>4. ASSUME NEW d \in Requesters, NEW body \in BOOLEAN, Request(d, body),
             Tracked(r) \/ c = d
      PROVE  FALSE
  BY <1>3, <1>4, RequestTracks
<1>5. Reachable(c) /\ running /\ cst[c] = "waiting" /\ reqid'[c] = reqid[c]
  BY <1>1, <1>4, WaitedBefore
<1>6. Tracked(r) /\ r[1] = c
  BY <1>5 DEF Forgotten
<1>7. CASE Environment
  <2>1. ASSUME NEW p \in Pullers, PullNoMemory(p) \/ PushRejected(p) PROVE FALSE
    BY <1>3, <1>6, <2>1, PluginTracks
  <2>2. ASSUME \/ \E d \in Requesters : RequestNoMemory(d)
               \/ \E x \in Conns : Break(x)
               \/ \E j \in Job : DropJob(j)
               \/ Shutdown
        PROVE  UNCHANGED <<proxyNew, proxyOut, wpc, wpr, moved, pst, ppr>>
    BY <2>2 DEF RequestNoMemory, Break, DropJob, Shutdown,
       queueVars, workerVars, connVars, pluginVars
  <2>3. ASSUME UNCHANGED <<proxyNew, proxyOut, wpc, wpr, moved, pst, ppr>>
        PROVE  FALSE
    BY <1>3, <1>6, <2>3, TrackedWhere DEF InNew, InOut, ByWorker, ByPush, ByClose
  <2> QED BY <1>4, <1>6, <1>7, <2>1, <2>2, <2>3 DEF Environment
<1>8. ASSUME NEW w \in Workers, Worker(w) PROVE ~Fassert /\ GonePuller(w, r)
  BY <1>3, <1>5, <1>6, <1>8, WorkerTracks
<1>9. ASSUME NEW p \in Pullers, Pull(p) \/ Handler(p) PROVE FALSE
  BY <1>1, <1>3, <1>5, <1>6, <1>9, PluginTracks, PushTracks, PushEndTracks DEF Handler
<1>10. ASSUME NEW j \in Job, PushJob(j) PROVE FALSE
  BY <1>3, <1>6, <1>10, PluginTracks DEF PushJob
<1>11. ASSUME NEW x \in Conns, Closer(x) PROVE FALSE
  BY <1>3, <1>6, <1>11, CloserTracks
<1>12. CASE UNCHANGED vars
  BY <1>3, <1>6, <1>12, TrackedWhere DEF vars, queueVars, workerVars, connVars, pluginVars,
     InNew, InOut, ByWorker, ByPush, ByClose
<1> QED BY <1>5, <1>7, <1>8, <1>9, <1>10, <1>11, <1>12 DEF Next

LEMMA Numbered == Spec => []WaitingNumbered
<1>1. Init => WaitingNumbered
  BY DEF Init, WaitingNumbered
<1>2. IInv /\ WaitingNumbered /\ [Next]_vars => WaitingNumbered'
  BY NumberedStep
<1> QED BY <1>1, <1>2, Invariance, PTL DEF Spec

\* In any build, djb forgets a request whose client it can still reach only by the
\* return of djb_handle_forward() for a puller that has gone, and only without
\* fassert(): no push, close, error or shutdown drops one, in whatever order.
THEOREM LostOnlyWithPuller == Spec => OnlyGonePullerLoses
<1> DEFINE Keeps == \A c \in Requesters : Forgotten(c)' /\ ~Forgotten(c) =>
                      ~Fassert /\ \E w \in Workers : GonePuller(w, <<c, reqid[c]>>)
<1>1. IInv /\ WaitingNumbered /\ [Next]_vars => [Keeps]_vars
  BY ForgetStep
<1>2. Spec => [][Keeps]_vars
  BY <1>1, Invariance, Numbered, PTL DEF Spec
<1> QED BY <1>2 DEF OnlyGonePullerLoses

\* In the build with fassert(), djb never forgets a request whose client it can
\* still reach: it is on a list or in the hands of a worker, a push or a close.
THEOREM NothingLost == ASSUME Fassert PROVE Spec => []NoRequestLost
<1>1. Init => NoRequestLost
  BY DEF Init, NoRequestLost, Forgotten
<1>2. IInv /\ WaitingNumbered /\ NoRequestLost /\ [Next]_vars => NoRequestLost'
  BY ForgetStep DEF NoRequestLost
<1> QED BY <1>1, <1>2, Invariance, Numbered, PTL DEF Spec
=============================================================================
