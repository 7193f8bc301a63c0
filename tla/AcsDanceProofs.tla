--------------------------- MODULE AcsDanceProofs ---------------------------
(***************************************************************************)
(* Proofs about AcsDance, for every set of pages, threads and NETs and     *)
(* whatever a NET lacks.                                                   *)
(*                                                                         *)
(* The argument: the dance is in one place, a thread or the proxy          *)
(* (OneDance), and l_dancing is set while it is; so only the dancer can    *)
(* store bridges or report "done", no NET can be set meanwhile, and a      *)
(* thread that has "done" reported is about to sit down (DoneSits).  What  *)
(* the dance asks of a NET on its way was there when it passed (Walked),   *)
(* so what is queued as "done" could be danced to the end (Told).          *)
(***************************************************************************)
EXTENDS AcsDance, SequenceTheorems, TLAPS

\* What is danced is a NET (acs_progress() tests l_net before it starts).
HasNet == Dancers # {} => net # None

\* Nobody dances with the status "done", but the thread that reported it.
DoneSits == status = "done" => \A d \in Dancers : d \in Threads /\ pc[d] = "sit"

\* A dancer that may report "done" has stored the bridges of its NET.
Stored == \A t \in Threads : pc[t] \in {"complete", "done"} => bridges = net

\* The inductive invariant.
DanceInv == OneDance /\ NobodyLeftDancing /\ HasNet
DoneInv == DoneSits /\ Stored /\ DoneHasBridges
IInv == TypeOK /\ DanceInv /\ DoneInv

-----------------------------------------------------------------------------
\* Types

\* acs_status() keeps the status, the messages and the Budget well typed.
LEMMA PostType ==
  ASSUME TypeOK, NEW st \in Statuses, Post(st)
  PROVE  /\ status' \in {st, "error"} /\ status' \in Statuses
         /\ messages' \in Seq(Message) /\ left' \in 0 .. Budget
<1>1. <<st, net>> \in Message /\ messages \in Seq(Message)
  BY DEF TypeOK, Message
<1>2. Append(messages, <<st, net>>) \in Seq(Message)
  BY <1>1
<1>3. CASE Spend /\ status' = "error" /\ UNCHANGED messages
  <2>1. left' \in 0 .. Budget
    BY <1>3, BudgetAssumption DEF Spend, TypeOK
  <2> QED BY <1>1, <1>3, <2>1 DEF Statuses
<1>4. CASE /\ status' = st /\ UNCHANGED left
           /\ messages' = Append(messages, <<st, net>>)
  BY <1>2, <1>4 DEF TypeOK
<1> QED BY <1>3, <1>4 DEF Post

\* A thread goes on to a place.
LEMMA GotoType ==
  ASSUME TypeOK, NEW t \in Threads, NEW at \in Steps \cup Rests, Goto(t, at)
  PROVE  pc' \in [Threads -> Steps \cup Rests]
BY DEF TypeOK, Goto

\* A report keeps all types.
LEMMA ReportType ==
  ASSUME TypeOK, NEW t \in Threads, NEW at \in Steps \cup Rests, NEW st \in Statuses,
         Report(t, st, at)
  PROVE  TypeOK'
<1>1. Post(st) /\ Goto(t, at) /\ UNCHANGED <<danceVars, got, ctlVars>>
  BY DEF Report
<1> QED BY <1>1, PostType, GotoType DEF TypeOK, danceVars, ctlVars, Message

-----------------------------------------------------------------------------
\* Who dances

\* A dancing thread is a member of Dancers, and so is a request in the proxy.
LEMMA DancerFacts ==
  ASSUME TypeOK
  PROVE  /\ \A t \in Threads : t \in Dancers <=> pc[t] \in Steps
         /\ \A k \in Kinds : k \in Dancers <=> out[k] > 0
         /\ \A d \in Dancers : d \in Threads \/ d \in Kinds
         /\ \A d \in Threads : d \notin Kinds
BY ThreadsAssumption DEF Dancers

\* While a thread dances, it is the only dancer and nothing is in the proxy.
LEMMA OnlyDancer ==
  ASSUME TypeOK, OneDance, NEW t \in Threads, pc[t] \in Steps
  PROVE  /\ Dancers = {t} /\ dancing
         /\ \A k \in Kinds : out[k] = 0
         /\ \A u \in Threads \ {t} : pc[u] \notin Steps
<1>1. Dancers = {t} /\ dancing
  BY DancerFacts DEF OneDance
<1>2. \A k \in Kinds : out[k] \in 0 .. 1 /\ ~(out[k] > 0)
  BY <1>1, DancerFacts DEF TypeOK
<1> QED BY <1>1, <1>2, DancerFacts

\* The same for a request in the proxy.
LEMMA OnlyOut ==
  ASSUME TypeOK, OneDance, NEW k \in Kinds, out[k] > 0
  PROVE  /\ Dancers = {k} /\ dancing /\ out[k] = 1
         /\ \A m \in Kinds \ {k} : out[m] = 0
         /\ \A u \in Threads : pc[u] \notin Steps
<1>1. Dancers = {k} /\ dancing
  BY DancerFacts DEF OneDance
<1>2. \A m \in Kinds \ {k} : out[m] \in 0 .. 1 /\ ~(out[m] > 0)
  BY <1>1, DancerFacts DEF TypeOK
<1> QED BY <1>1, <1>2, DancerFacts DEF TypeOK

\* When nobody dances, no thread stands at a step of the dance.
LEMMA NoDancer ==
  ASSUME TypeOK, OneDance, ~dancing
  PROVE  /\ Dancers = {}
         /\ \A k \in Kinds : out[k] = 0
         /\ \A u \in Threads : pc[u] \notin Steps
<1>1. Dancers = {}
  BY DEF OneDance
<1>2. \A k \in Kinds : out[k] \in 0 .. 1 /\ ~(out[k] > 0)
  BY <1>1, DancerFacts DEF TypeOK
<1> QED BY <1>1, <1>2, DancerFacts

\* How a thread's move changes who dances.
LEMMA Moved ==
  ASSUME TypeOK, NEW t \in Threads, NEW at, Goto(t, at)
  PROVE  /\ pc'[t] = at /\ \A u \in Threads \ {t} : pc'[u] = pc[u]
         /\ out' = out /\ at \in Steps => Dancers' = Dancers \cup {t}
         /\ out' = out /\ at \notin Steps => Dancers' = Dancers \ {t}
<1>1. pc'[t] = at /\ \A u \in Threads \ {t} : pc'[u] = pc[u]
  BY DEF Goto, TypeOK
<1> QED BY <1>1, ThreadsAssumption DEF Dancers

-----------------------------------------------------------------------------
\* The kinds of steps

\* A thread goes on, within the dance or outside of it.
LEMMA GoesOn ==
  ASSUME IInv, NEW t \in Threads, NEW at, Goto(t, at),
         UNCHANGED <<out, dancing, net, bridges, running>>,
         pc[t] \in Steps <=> at \in Steps,
         at \in {"complete", "done"} => bridges = net,
         \/ status' # "done"
         \/ status' = status /\ pc[t] # "sit"
         \/ pc[t] = "done" /\ at = "sit"
  PROVE  DanceInv' /\ DoneInv'
<1>0. TypeOK /\ OneDance
  BY DEF IInv, DanceInv
<1>1. Dancers' = Dancers /\ pc'[t] = at /\ \A u \in Threads \ {t} : pc'[u] = pc[u]
  BY <1>0, Moved, DancerFacts
<1>2. DanceInv'
  BY <1>1 DEF IInv, DanceInv, OneDance, NobodyLeftDancing, HasNet
<1>3. Stored'
  BY <1>1 DEF IInv, DoneInv, Stored
<1>4. DoneSits' /\ DoneHasBridges'
  <2>1. CASE status' # "done"
    BY <2>1 DEF DoneSits, DoneHasBridges
  <2>2. CASE status' = status /\ pc[t] # "sit"
    BY <1>1, <2>2 DEF IInv, DoneInv, DoneSits, DoneHasBridges
  <2>3. CASE pc[t] = "done" /\ at = "sit"
    <3>1. pc[t] \in Steps
      BY <2>3 DEF Steps
    <3>2. Dancers = {t} /\ bridges = net /\ net # None
      BY <1>0, <2>3, <3>1, OnlyDancer DEF IInv, DanceInv, DoneInv, Stored, HasNet
    <3> QED BY <1>1, <2>3, <3>2 DEF DoneSits, DoneHasBridges
  <2> QED BY <2>1, <2>2, <2>3
<1> QED BY <1>2, <1>3, <1>4 DEF DoneInv

\* acs_status(): a thread reports and goes on.
LEMMA ReportStep ==
  ASSUME IInv, NEW t \in Threads, NEW at \in Steps \cup Rests, NEW st \in Statuses,
         Report(t, st, at),
         pc[t] \in Steps <=> at \in Steps,
         at \in {"complete", "done"} => bridges = net,
         st = "done" => pc[t] = "done" /\ at = "sit"
  PROVE  IInv'
<1>1. TypeOK'
  BY ReportType DEF IInv
<1>2. status' \in {st, "error"}
  BY PostType DEF IInv, Report
<1>3. Goto(t, at) /\ UNCHANGED <<out, dancing, net, bridges, running>>
  BY DEF Report, danceVars, ctlVars
<1>4. status' # "done" \/ (pc[t] = "done" /\ at = "sit")
  BY <1>2
<1>5. DanceInv' /\ DoneInv'
  BY <1>3, <1>4, GoesOn
<1> QED BY <1>1, <1>5 DEF IInv

\* The last thread of a dance leaves it: it has sat down, or djb stops.
LEMMA Leaves ==
  ASSUME IInv, NEW t \in Threads, NEW at, Goto(t, at),
         UNCHANGED <<out, net, bridges>>,
         pc[t] \in Steps, at \notin Steps,
         ~dancing' \/ ~running',
         status' = status \/ status' # "done"
  PROVE  DanceInv' /\ DoneInv'
<1>0. TypeOK /\ OneDance
  BY DEF IInv, DanceInv
<1>1. pc'[t] = at /\ \A u \in Threads \ {t} : pc'[u] = pc[u]
  BY <1>0, Moved
<1>2. Dancers' = {}
  BY <1>0, Moved, OnlyDancer
<1>3. DanceInv'
  BY <1>2 DEF DanceInv, OneDance, NobodyLeftDancing, HasNet
<1>4. Stored'
  BY <1>1 DEF IInv, DoneInv, Stored, Steps
<1>5. DoneSits' /\ DoneHasBridges'
  BY <1>2 DEF IInv, DoneInv, DoneSits, DoneHasBridges
<1> QED BY <1>3, <1>4, <1>5 DEF DoneInv

\* A dancing thread leaves the dance to a request it injects in the proxy.
LEMMA HandsOver ==
  ASSUME IInv, NEW t \in Threads, NEW at \in Rests, NEW k \in Kinds, Goto(t, at),
         out' = [out EXCEPT ![k] = @ + 1],
         UNCHANGED <<status, dancing, net, bridges, running>>,
         pc[t] \in Steps, pc[t] # "sit"
  PROVE  DanceInv' /\ DoneInv' /\ out' \in [Kinds -> 0 .. 1]
<1>0. TypeOK /\ OneDance
  BY DEF IInv, DanceInv
<1>1. pc'[t] = at /\ \A u \in Threads \ {t} : pc'[u] = pc[u]
  BY <1>0, Moved
<1>2. /\ Dancers = {t} /\ dancing
      /\ \A m \in Kinds : out[m] = 0
      /\ \A u \in Threads \ {t} : pc[u] \notin Steps
  BY <1>0, OnlyDancer
<1>3. out' \in [Kinds -> 0 .. 1] /\ out'[k] = 1 /\ \A m \in Kinds \ {k} : out'[m] = 0
  BY <1>0, <1>2 DEF TypeOK
<1>4. at \notin Steps
  BY DEF Steps, Rests
<1>5. Dancers' = {k}
  BY <1>1, <1>2, <1>3, <1>4 DEF Dancers
<1>6. DanceInv'
  BY <1>2, <1>5 DEF IInv, DanceInv, OneDance, NobodyLeftDancing, HasNet
<1>7. status # "done"
  BY <1>2 DEF IInv, DoneInv, DoneSits
<1>8. Stored'
  BY <1>1, <1>4 DEF IInv, DoneInv, Stored, Steps
<1> QED BY <1>3, <1>6, <1>7, <1>8 DEF DoneInv, DoneSits, DoneHasBridges

\* A thread takes the dance over from the request whose answer it has.
LEMMA TakesOver ==
  ASSUME IInv, NEW t \in Threads, NEW at \in Steps, NEW k \in Kinds, Goto(t, at),
         out[k] > 0, out' = [out EXCEPT ![k] = @ - 1],
         UNCHANGED <<status, dancing, net, bridges, running>>,
         at \notin {"complete", "done"}
  PROVE  DanceInv' /\ DoneInv' /\ out' \in [Kinds -> 0 .. 1]
<1>0. TypeOK /\ OneDance
  BY DEF IInv, DanceInv
<1>1. pc'[t] = at /\ \A u \in Threads \ {t} : pc'[u] = pc[u]
  BY <1>0, Moved
<1>2. /\ Dancers = {k} /\ dancing /\ out[k] = 1
      /\ \A m \in Kinds \ {k} : out[m] = 0
      /\ \A u \in Threads : pc[u] \notin Steps
  BY <1>0, OnlyOut
<1>3. out' \in [Kinds -> 0 .. 1] /\ \A m \in Kinds : out'[m] = 0
  BY <1>0, <1>2 DEF TypeOK
<1>5. Dancers' = {t}
  BY <1>1, <1>2, <1>3 DEF Dancers
<1>6. DanceInv'
  BY <1>2, <1>5 DEF IInv, DanceInv, OneDance, NobodyLeftDancing, HasNet
<1>7. status # "done"
  BY <1>0, <1>2, DancerFacts DEF IInv, DoneInv, DoneSits
<1>8. Stored'
  BY <1>1 DEF IInv, DoneInv, Stored
<1> QED BY <1>3, <1>6, <1>7, <1>8 DEF DoneInv, DoneSits, DoneHasBridges

\* A NET is set, or taken away, when there is no dance.
LEMMA NetChanges ==
  ASSUME IInv, NEW t \in Threads, NEW at \in Rests, Goto(t, at),
         ~dancing, UNCHANGED <<out, dancing>>, status' # "done"
  PROVE  DanceInv' /\ DoneInv'
<1>0. TypeOK /\ OneDance
  BY DEF IInv, DanceInv
<1>1. pc'[t] = at /\ \A u \in Threads \ {t} : pc'[u] = pc[u]
  BY <1>0, Moved
<1>2. Dancers = {} /\ \A u \in Threads : pc[u] \notin Steps
  BY <1>0, NoDancer
<1>3. at \notin Steps
  BY DEF Steps, Rests
<1>4. Dancers' = {}
  BY <1>0, <1>2, <1>3, Moved
<1>5. DanceInv'
  BY <1>4 DEF DanceInv, OneDance, NobodyLeftDancing, HasNet
<1>6. Stored'
  BY <1>1, <1>2, <1>3 DEF Stored, Steps
<1> QED BY <1>5, <1>6 DEF DoneInv, DoneSits, DoneHasBridges

-----------------------------------------------------------------------------
\* One lemma for the steps of each kind of thread

\* The places used below, as members of Steps and Rests.
LEMMA PlaceFacts ==
  /\ Kinds \subseteq Steps
  /\ \A at \in Rests : at \notin Steps
  /\ \A t : Finished(t) \in Rests /\ Accepted(t) \in Rests
  /\ \A k : Answered(k) \in Steps \ {"complete", "done"}
BY DEF Kinds, Steps, Rests, Finished, Accepted, Answered

\* acs_setup() and acs_set_net(), by a page or the rendezvous.
LEMMA SetNetStep ==
  ASSUME IInv, NEW t \in Threads, NEW n \in Nets, SetNet(t, n) \/ SetNetRejected(t, n)
  PROVE  IInv'
<1>1. TypeOK
  BY DEF IInv
<1>2. \E at \in Rests : Goto(t, at)
  BY PlaceFacts DEF SetNet, SetNetRejected, Rests
<1>4. /\ ~dancing /\ UNCHANGED <<out, stranded, dancing, bridges, got, running, crashed>>
      /\ net' \in Nets \cup {None} /\ dances' = 0
      /\ status' \in {"ok", "error"}
      /\ (left > 0 /\ left' = left - 1) \/ (left > 1 /\ left' = left - 2)
      /\ messages' \in {messages, Append(messages, <<status', n>>)}
  BY DEF SetNet, SetNetRejected, MayReplace, Spend, ctlVars
<1>5. messages' \in Seq(Message)
  <2>1. <<status', n>> \in Message /\ messages \in Seq(Message)
    BY <1>1, <1>4 DEF TypeOK, Message, Statuses
  <2>2. Append(messages, <<status', n>>) \in Seq(Message)
    BY <2>1
  <2> QED BY <1>4, <2>1, <2>2
<1>6. left' \in 0 .. Budget
  BY <1>1, <1>4, BudgetAssumption DEF TypeOK
<1>7. pc' \in [Threads -> Steps \cup Rests]
  BY <1>1, <1>2, GotoType
<1>8. dances' \in 0 .. MaxDances
  BY <1>4, BudgetAssumption
<1>9. TypeOK'
  BY <1>1, <1>4, <1>5, <1>6, <1>7, <1>8 DEF TypeOK, Statuses, Message
<1>10. DanceInv' /\ DoneInv'
  BY <1>2, <1>4, NetChanges
<1> QED BY <1>9, <1>10 DEF IInv

\* A step that only takes a thread elsewhere.
LEMMA QuietStep ==
  ASSUME IInv, NEW t \in Threads, NEW at \in Steps \cup Rests, Goto(t, at),
         UNCHANGED <<status, messages, dancing, net, dances, out, bridges, got, ctlVars>>,
         stranded' \in BOOLEAN, left' \in 0 .. Budget,
         pc[t] \in Steps <=> at \in Steps,
         pc[t] # "sit", at \notin {"complete", "done"}
  PROVE  IInv'
<1>1. DanceInv' /\ DoneInv'
  BY GoesOn DEF ctlVars
<1>2. TypeOK'
  BY GotoType DEF IInv, TypeOK, ctlVars, Message
<1> QED BY <1>1, <1>2 DEF IInv

\* A unit of the Budget is used up.
LEMMA SpendType ==
  ASSUME TypeOK, Spend \/ UNCHANGED left
  PROVE  left' \in 0 .. Budget
BY BudgetAssumption DEF TypeOK, Spend

\* The other steps of a user, and /shutdown/.
LEMMA UsersStep ==
  ASSUME IInv, Users
  PROVE  IInv'
<1>0. TypeOK
  BY DEF IInv
<1>1. ASSUME NEW t \in Threads, NEW n \in Nets, SetNet(t, n) \/ SetNetRejected(t, n)
      PROVE  IInv'
  BY <1>1, SetNetStep
<1>2. ASSUME NEW t \in Threads, SetNetBusy(t)
      PROVE  IInv'
  <2>1. Goto(t, "busy") /\ UNCHANGED <<status, messages, danceVars, got, ctlVars>>
        /\ pc[t] = "idle" /\ Spend
    BY <1>2 DEF SetNetBusy
  <2> QED BY <1>0, <2>1, QuietStep, SpendType DEF Steps, Rests, danceVars, TypeOK
<1>3. ASSUME NEW p \in Pages, SetupUnparsable(p) \/ ClickProgress(p)
      PROVE  IInv'
  <2>1. p \in Threads
    BY DEF Threads
  <2>2. \E at \in {"hung", "ask"} :
          Goto(p, at) /\ UNCHANGED <<status, messages, danceVars, got, ctlVars>>
          /\ pc[p] = "idle" /\ Spend
    BY <1>3 DEF SetupUnparsable, ClickProgress
  <2> QED BY <1>0, <2>1, <2>2, QuietStep, SpendType DEF Steps, Rests, danceVars, TypeOK
<1>4. CASE Shutdown
  <2>1. /\ UNCHANGED <<status, messages, danceVars, pc, got, crashed>>
        /\ running' = FALSE /\ left' \in 0 .. Budget
    BY <1>0, <1>4, SpendType DEF Shutdown
  <2>2. TypeOK'
    BY <1>0, <2>1 DEF TypeOK, danceVars, Message
  <2>3. Dancers' = Dancers
    BY <2>1 DEF Dancers, danceVars
  <2>4. DanceInv' /\ DoneInv'
    BY <2>1, <2>3 DEF IInv, DanceInv, DoneInv, OneDance, NobodyLeftDancing, HasNet,
                      DoneSits, Stored, DoneHasBridges, danceVars
  <2> QED BY <2>2, <2>4 DEF IInv
<1>5. Pages \cup {Rdv} \subseteq Threads
  BY DEF Threads
<1> QED BY <1>1, <1>2, <1>3, <1>4, <1>5 DEF Users

\* acs_progress(), in the thread that serves a poll.
LEMMA PollStep ==
  ASSUME IInv, NEW p \in Pages, Poll(p)
  PROVE  IInv'
<1>0. TypeOK /\ OneDance /\ p \in Threads
  BY DEF IInv, DanceInv, Threads
<1>1. CASE Progress(p)
  <2>1. CASE ~dancing /\ net # None /\ Goto(p, "when") /\ dancing' = TRUE
             /\ status = "ok" /\ dances' = dances + 1 /\ dances < MaxDances
    <3>1. UNCHANGED <<status, messages, net, out, stranded, bridges, got, left, ctlVars>>
      BY <1>1 DEF Progress
    <3>2. TypeOK'
      <4>1. dances' \in 0 .. MaxDances
        BY <1>0, <2>1, BudgetAssumption DEF TypeOK
      <4>2. pc' \in [Threads -> Steps \cup Rests]
        BY <1>0, <2>1, GotoType DEF Steps
      <4> QED BY <1>0, <2>1, <3>1, <4>1, <4>2 DEF TypeOK, ctlVars, Message
    <3>3. Dancers' = {p}
      BY <1>0, <2>1, <3>1, NoDancer, Moved DEF Steps
    <3>4. DanceInv'
      BY <2>1, <3>1, <3>3 DEF DanceInv, OneDance, NobodyLeftDancing, HasNet
    <3>5. Stored'
      BY <1>0, <2>1, <3>1, Moved DEF IInv, DoneInv, Stored
    <3>6. status' = "ok"
      BY <2>1, <3>1
    <3> QED BY <3>2, <3>4, <3>5, <3>6 DEF IInv, DoneInv, DoneSits, DoneHasBridges
  <2>2. CASE UNCHANGED <<dancing, dances>> /\ (Goto(p, "reply") \/ Goto(p, "nonet"))
    <3>1. /\ UNCHANGED <<status, messages, danceVars, got, ctlVars>>
          /\ left' = left /\ pc[p] = "ask"
      BY <1>1, <2>2 DEF Progress, danceVars
    <3>2. left' \in 0 .. Budget
      BY <1>0, <3>1, SpendType
    <3>3. stranded' = stranded /\ out' = out /\ stranded' \in BOOLEAN
      BY <1>0, <3>1 DEF danceVars, TypeOK
    <3> QED BY <1>0, <2>2, <3>1, <3>2, <3>3, QuietStep DEF Steps, Rests, danceVars
  <2> QED BY <1>1, <2>1, <2>2 DEF Progress, MayStart
<1>2. CASE NoNet(p)
  BY <1>0, <1>2, ReportStep DEF NoNet, Steps, Rests, Statuses
<1>3. CASE When(p)
  BY <1>0, <1>3, ReportStep DEF When, Steps, Rests, Statuses
<1>4. CASE Start(p)
  BY <1>0, <1>4, ReportStep DEF Start, Steps, Rests, Statuses
<1>5. CASE Reply(p)
  <2> DEFINE m == IF messages # <<>> THEN Head(messages) ELSE <<status, net>>
  <2>1. /\ pc[p] = "reply" /\ UNCHANGED <<status, danceVars, ctlVars>>
        /\ Goto(p, "ask") \/ Goto(p, "idle")
        /\ got' = [got EXCEPT ![p] = m] \/ got' = got
        /\ Spend \/ UNCHANGED left
        /\ messages' = IF messages # <<>> THEN Tail(messages) ELSE messages
    BY <1>5 DEF Reply
  <2>2. m \in Message /\ messages' \in Seq(Message)
    <3>1. messages \in Seq(Message) /\ <<status, net>> \in Message
      BY <1>0 DEF TypeOK, Message
    <3> QED BY <2>1, <3>1
  <2>3. got' \in [Pages -> Message \cup {None}]
    BY <1>0, <2>1, <2>2 DEF TypeOK
  <2>4. pc' \in [Threads -> Steps \cup Rests]
    BY <1>0, <2>1, GotoType DEF Rests
  <2>5. TypeOK'
    BY <1>0, <2>1, <2>2, <2>3, <2>4, SpendType DEF TypeOK, danceVars, ctlVars, Message
  <2>6. DanceInv' /\ DoneInv'
    BY <1>0, <2>1, GoesOn DEF Steps, danceVars, ctlVars
  <2> QED BY <2>5, <2>6 DEF IInv
<1> QED BY <1>1, <1>2, <1>3, <1>4, <1>5 DEF Poll

\* The thread of a push of an internal answer.
LEMMA PushStep ==
  ASSUME IInv, NEW h \in Pushers, Push(h)
  PROVE  IInv'
<1>0. TypeOK /\ OneDance /\ h \in Threads
  BY DEF IInv, DanceInv, Threads
<1>1. CASE AnswerFailed(h) \/ InitialAnswer(h) \/ Wait(h) \/ RedirectAnswer(h)
  BY <1>0, <1>1, ReportStep
     DEF AnswerFailed, InitialAnswer, Wait, RedirectAnswer, Steps, Rests, Statuses
<1>2. CASE Complete(h)
  <2>1. bridges = net
    BY <1>0, <1>2 DEF Complete, IInv, DoneInv, Stored
  <2> QED BY <1>0, <1>2, <2>1, ReportStep DEF Complete, Steps, Rests, Statuses
<1>3. CASE Done(h)
  BY <1>0, <1>3, ReportStep DEF Done, Steps, Rests, Statuses
<1>4. CASE WaitDivides(h)
  <2>1. /\ UNCHANGED <<status, messages, danceVars, pc, got, left, running>>
        /\ crashed' = TRUE
    BY <1>4 DEF WaitDivides
  <2>2. TypeOK'
    BY <1>0, <2>1 DEF TypeOK, danceVars, Message
  <2>3. Dancers' = Dancers
    BY <2>1 DEF Dancers, danceVars
  <2>4. DanceInv' /\ DoneInv'
    BY <2>1, <2>3 DEF IInv, DanceInv, DoneInv, OneDance, NobodyLeftDancing, HasNet,
                      DoneSits, Stored, DoneHasBridges, danceVars
  <2> QED BY <2>2, <2>4 DEF IInv
<1>5. CASE Wake(h)
  <2>1. CASE Report(h, "ok", "redirect")
    BY <1>0, <1>5, <2>1, ReportStep DEF Wake, Steps, Rests, Statuses
  <2>2. CASE ~running /\ Report(h, "error", "idle")
    <3>1. TypeOK'
      BY <1>0, <2>2, ReportType DEF Rests, Statuses
    <3>2. status' # "done"
      BY <1>0, <2>2, PostType DEF Report, Statuses
    <3>3. DanceInv' /\ DoneInv'
      BY <1>5, <1>0, <2>2, <3>2, Leaves DEF Wake, Report, Steps, danceVars, ctlVars
    <3> QED BY <3>1, <3>3 DEF IInv
  <2> QED BY <1>5, <2>1, <2>2 DEF Wake
<1>6. CASE RedirectBody(h)
  <2>0. /\ pc[h] = "redirectAnswer" /\ pc[h] \in Steps
        /\ UNCHANGED <<status, messages, dancing, net, dances, stranded, bridges, got, left, ctlVars>>
    BY <1>6 DEF RedirectBody, Steps
  <2>1. CASE out' = [out EXCEPT !["redirect"] = @ + 1] /\ Goto(h, "body")
    <3>1. DanceInv' /\ DoneInv' /\ out' \in [Kinds -> 0 .. 1]
      BY <1>0, <2>0, <2>1, HandsOver DEF Rests, Kinds, ctlVars
    <3>2. TypeOK'
      BY <1>0, <2>0, <2>1, <3>1, GotoType DEF TypeOK, ctlVars, Rests, Message
    <3> QED BY <3>1, <3>2 DEF IInv
  <2>2. CASE Goto(h, "failed") /\ UNCHANGED out
    <3>1. left' \in 0 .. Budget
      BY <1>0, <2>0, SpendType
    <3> QED BY <1>0, <2>0, <2>2, <3>1, QuietStep DEF Steps, TypeOK
  <2> QED BY <1>6, <2>1, <2>2 DEF RedirectBody
<1>7. CASE RedirectFound(h)
  <2>1. PICK at \in {"decoded", "failed"} : Goto(h, at)
    BY <1>7 DEF RedirectFound
  <2>2. /\ pc[h] = "body" /\ out["redirect"] > 0 /\ stranded' = FALSE
        /\ out' = [out EXCEPT !["redirect"] = @ - 1]
        /\ UNCHANGED <<status, messages, dancing, net, dances, bridges, got, left, ctlVars>>
    BY <1>7 DEF RedirectFound
  <2>3. DanceInv' /\ DoneInv' /\ out' \in [Kinds -> 0 .. 1]
    BY <1>0, <2>1, <2>2, TakesOver DEF Steps, Kinds, ctlVars
  <2>4. TypeOK'
    BY <1>0, <2>1, <2>2, <2>3, GotoType DEF TypeOK, ctlVars, Steps, Message
  <2> QED BY <2>3, <2>4 DEF IInv
<1>9. CASE RedirectGone(h) \/ RedirectClosed(h)
  <2>1. /\ pc[h] = "body" /\ Goto(h, "idle")
        /\ Spend \/ UNCHANGED left
        /\ stranded' \in {stranded, out["redirect"] > 0}
        /\ UNCHANGED <<status, messages, dancing, net, dances, out, bridges, got, ctlVars>>
    BY <1>9 DEF RedirectGone, RedirectClosed, danceVars
  <2>2. left' \in 0 .. Budget
    BY <1>0, <2>1, SpendType DEF TypeOK
  <2>3. stranded' \in BOOLEAN
    <3> DEFINE waits == out["redirect"] > 0
    <3>1. waits \in BOOLEAN
      BY DEF waits
    <3> HIDE DEF waits
    <3>2. stranded' = stranded \/ stranded' = waits
      BY <2>1 DEF waits
    <3> QED BY <1>0, <3>1, <3>2 DEF TypeOK
  <2> QED BY <1>0, <2>1, <2>2, <2>3, QuietStep DEF Steps, Rests
<1>8. CASE Store(h)
  <2>1. PICK ok \in BOOLEAN : bridges' = (IF ok THEN net ELSE None) /\ Goto(h, Verdict(ok))
    BY <1>8 DEF Store
  <2>2. /\ pc[h] = "store" /\ pc[h] \in Steps
        /\ UNCHANGED <<status, messages, dancing, net, dances, out, stranded, got, left, ctlVars>>
    BY <1>8 DEF Store, Steps
  <2>3. Verdict(ok) \in Steps
    BY DEF Verdict, Steps
  <2>4. /\ pc'[h] = Verdict(ok) /\ \A u \in Threads \ {h} : pc'[u] = pc[u]
        /\ Dancers' = Dancers /\ Dancers = {h}
        /\ \A u \in Threads \ {h} : pc[u] \notin Steps
    BY <1>0, <2>1, <2>2, <2>3, Moved, OnlyDancer
  <2>5. TypeOK'
    BY <1>0, <2>1, <2>2, <2>3, GotoType DEF TypeOK, ctlVars, Message
  <2>6. DanceInv'
    BY <2>2, <2>4 DEF IInv, DanceInv, OneDance, NobodyLeftDancing, HasNet, ctlVars
  <2>7. status # "done"
    BY <2>2, <2>4 DEF IInv, DoneInv, DoneSits
  <2>8. Stored'
    BY <2>1, <2>2, <2>4 DEF Stored, Verdict, Steps
  <2> QED BY <2>2, <2>5, <2>6, <2>7, <2>8 DEF IInv, DoneInv, DoneSits, DoneHasBridges
<1> QED BY <1>1, <1>2, <1>3, <1>4, <1>5, <1>6, <1>7, <1>8, <1>9 DEF Push

\* acs_request(), by a poll for the Initial request, by a push for the Redirect.
LEMMA RequestStep ==
  ASSUME IInv, NEW t \in Threads, NEW k \in Kinds,
         \/ RequestUnnamed(t, k) \/ RequestFailed(t, k) \/ RequestStopped(t, k)
         \/ RequestNoMemory(t, k) \/ Request(t, k)
  PROVE  IInv'
<1>0. TypeOK /\ OneDance
  BY DEF IInv, DanceInv
<1>1. pc[t] = k /\ pc[t] \in Steps /\ pc[t] # "sit"
  BY PlaceFacts
     DEF RequestUnnamed, RequestFailed, RequestStopped, RequestNoMemory, Request, Kinds
<1>2. CASE RequestUnnamed(t, k) \/ RequestStopped(t, k)
  BY <1>1, <1>2, ReportStep DEF RequestUnnamed, RequestStopped, Steps, Statuses
<1>3. CASE RequestFailed(t, k)
  <2>1. /\ status' = "error" /\ messages' = Append(messages, <<"error", net>>)
        /\ Goto(t, "sit") /\ Spend /\ UNCHANGED <<danceVars, got, ctlVars>>
    BY <1>3 DEF RequestFailed
  <2>2. messages' \in Seq(Message)
    <3>1. messages \in Seq(Message) /\ <<"error", net>> \in Message
      BY <1>0 DEF TypeOK, Message, Statuses
    <3> QED BY <2>1, <3>1
  <2>3. TypeOK'
    BY <1>0, <2>1, <2>2, SpendType, GotoType
       DEF TypeOK, danceVars, ctlVars, Statuses, Steps, Message
  <2>4. DanceInv' /\ DoneInv'
    BY <1>1, <2>1, GoesOn DEF Steps, danceVars, ctlVars
  <2> QED BY <2>3, <2>4 DEF IInv
<1>4. CASE RequestNoMemory(t, k)
  BY <1>0, <1>1, <1>4, QuietStep, SpendType DEF RequestNoMemory, Steps, danceVars, TypeOK
<1>5. CASE Request(t, k)
  <2>1. /\ out' = [out EXCEPT ![k] = @ + 1] /\ Goto(t, "sent")
        /\ UNCHANGED <<status, messages, dancing, net, dances, stranded, bridges, got, left, ctlVars>>
    BY <1>5 DEF Request
  <2>2. DanceInv' /\ DoneInv' /\ out' \in [Kinds -> 0 .. 1]
    BY <1>1, <2>1, HandsOver DEF Rests, ctlVars
  <2>3. TypeOK'
    BY <1>0, <2>1, <2>2, GotoType DEF TypeOK, ctlVars, Rests, Message
  <2> QED BY <2>2, <2>3 DEF IInv
<1> QED BY <1>2, <1>3, <1>4, <1>5

\* A step of any thread.
LEMMA ThreadStep ==
  ASSUME IInv, NEW t \in Threads, Step(t)
  PROVE  IInv'
<1>0. TypeOK /\ OneDance
  BY DEF IInv, DanceInv
<1>1. CASE NetReady(t) \/ NetBusyReport(t) \/ Sent(t)
  <2>1. \E at \in Rests, st \in {"ok", "error"} : Report(t, st, at) /\ pc[t] \in Rests
    BY <1>1, PlaceFacts DEF NetReady, NetBusyReport, Sent, Rests
  <2>2. \A at \in Rests : at \notin Steps /\ at \notin {"complete", "done"}
    BY DEF Rests, Steps
  <2> QED BY <2>1, <2>2, ReportStep DEF Statuses
<1>2. CASE SitDown(t)
  <2>1. /\ pc[t] \in Steps /\ ~dancing' /\ \E at \in Rests : Goto(t, at)
        /\ UNCHANGED <<status, messages, net, dances, out, stranded, bridges, got, left, ctlVars>>
    BY <1>2, PlaceFacts DEF SitDown, SatDown, Steps, Rests
  <2>2. DanceInv' /\ DoneInv'
    BY <2>1, Leaves, PlaceFacts
  <2>3. dancing' = FALSE
    BY <1>2 DEF SitDown, SatDown
  <2>4. TypeOK'
    BY <1>0, <2>1, <2>3, GotoType DEF TypeOK, ctlVars, Message
  <2> QED BY <2>2, <2>4 DEF IInv
<1>3. CASE \E k \in Kinds : \/ RequestUnnamed(t, k) \/ RequestFailed(t, k)
                            \/ RequestStopped(t, k) \/ RequestNoMemory(t, k)
                            \/ Request(t, k)
  BY <1>3, RequestStep
<1>4. CASE t \in Pages /\ Poll(t)
  BY <1>4, PollStep
<1>5. CASE t \in Pushers /\ Push(t)
  BY <1>5, PushStep
<1> QED BY <1>1, <1>2, <1>3, <1>4, <1>5 DEF Step

\* The plugin pushes the answer of an internal request.
LEMMA AnswerStep ==
  ASSUME IInv, NEW h \in Pushers, NEW k \in Kinds, Answer(h, k)
  PROVE  IInv'
<1>0. TypeOK /\ OneDance /\ h \in Threads
  BY DEF IInv, DanceInv, Threads
<1>1. /\ out[k] > 0 /\ out' = [out EXCEPT ![k] = @ - 1]
      /\ Spend \/ UNCHANGED left
      /\ stranded' = FALSE
      /\ UNCHANGED <<status, messages, dancing, net, dances, bridges, got, ctlVars>>
  BY DEF Answer
<1>2. PICK at \in Steps \ {"complete", "done"} : Goto(h, at)
  BY PlaceFacts DEF Answer, Steps
<1>3. DanceInv' /\ DoneInv' /\ out' \in [Kinds -> 0 .. 1]
  BY <1>0, <1>1, <1>2, TakesOver DEF ctlVars
<1>4. TypeOK'
  BY <1>0, <1>1, <1>2, <1>3, GotoType, SpendType DEF TypeOK, ctlVars, Message
<1> QED BY <1>3, <1>4 DEF IInv

-----------------------------------------------------------------------------
\* The theorems

\* acs_init() establishes the invariant.
LEMMA InitInv == Init => IInv
<1> SUFFICES ASSUME Init PROVE IInv
  OBVIOUS
<1>1. Dancers = {} /\ dancing = FALSE /\ status = "ok"
      /\ \A t \in Threads : pc[t] = "idle"
  BY DEF Init, Dancers, Steps
<1>2. DanceInv /\ DoneInv
  BY <1>1 DEF DanceInv, DoneInv, OneDance, NobodyLeftDancing, HasNet, DoneSits, Stored,
              DoneHasBridges
<1>3. messages \in Seq(Message)
  <2>1. <<"ok", None>> \in Message
    BY DEF Message, Statuses
  <2> QED BY <2>1 DEF Init
<1>4. TypeOK
  <2>1. dances \in 0 .. MaxDances /\ left \in 0 .. Budget
    BY BudgetAssumption DEF Init
  <2>2. out \in [Kinds -> 0 .. 1]
    BY DEF Init
  <2>3. pc \in [Threads -> Steps \cup Rests] /\ got \in [Pages -> Message \cup {None}]
    BY DEF Init, Rests
  <2> QED BY <1>3, <2>1, <2>2, <2>3 DEF Init, TypeOK, Statuses
<1> QED BY <1>2, <1>4 DEF IInv

\* Every step preserves it.
LEMMA NextInv == IInv /\ [Next]_vars => IInv'
<1> SUFFICES ASSUME IInv, [Next]_vars PROVE IInv'
  OBVIOUS
<1>1. CASE Users
  BY <1>1, UsersStep
<1>2. ASSUME NEW t \in Threads, Step(t) PROVE IInv'
  BY <1>2, ThreadStep
<1>3. ASSUME NEW h \in Pushers, NEW k \in Kinds, Answer(h, k) PROVE IInv'
  BY <1>3, AnswerStep
<1>4. CASE UNCHANGED vars
  BY <1>4 DEF vars, danceVars, ctlVars, IInv, TypeOK, DanceInv, DoneInv, OneDance,
              NobodyLeftDancing, HasNet, DoneSits, Stored, DoneHasBridges, Dancers, Message
<1> QED BY <1>1, <1>2, <1>3, <1>4 DEF Next

\* The invariant holds in every reachable state.
THEOREM Invariance == Spec => []IInv
<1>1. Init => IInv
  BY InitInv
<1>2. IInv /\ [Next]_vars => IInv'
  BY NextInv
<1> QED BY <1>1, <1>2, PTL DEF Spec

\* Every variable of acs.c keeps its type.
THEOREM TypeCorrect == Spec => []TypeOK
<1>1. IInv => TypeOK
  BY DEF IInv
<1> QED BY <1>1, Invariance, PTL

\* l_dancing and l_status keep two dances from going on at once.
THEOREM OneDanceAtATime == Spec => []OneDance
<1>1. IInv => OneDance
  BY DEF IInv, DanceInv
<1> QED BY <1>1, Invariance, PTL

\* Every path out of the dance calls acs_sitdown(), until djb is shut down.
THEOREM DanceNotLeft == Spec => []NobodyLeftDancing
<1>1. IInv => NobodyLeftDancing
  BY DEF IInv, DanceInv
<1> QED BY <1>1, Invariance, PTL

\* "done" is reported for bridges of the current NET only.
THEOREM DoneMeansBridges == Spec => []DoneHasBridges
<1>1. IInv => DoneHasBridges
  BY DEF IInv, DoneInv
<1> QED BY <1>1, Invariance, PTL

\* acs_set_net() never replaces the NET of a dance that goes on.
THEOREM NetKept == Spec => NetStable
<1>1. IInv /\ [Next]_vars => (Dancers # {} => net' = net)
  <2> SUFFICES ASSUME IInv, [Next]_vars, Dancers # {} PROVE net' = net
    OBVIOUS
  <2>1. dancing
    BY DEF IInv, DanceInv, OneDance
  <2>2. CASE Users
    BY <2>1, <2>2 DEF Users, SetNet, SetNetRejected, SetNetBusy, SetupUnparsable,
                      ClickProgress, Shutdown, MayReplace, danceVars
  <2>3. ASSUME NEW t \in Threads, Step(t) PROVE net' = net
    <3>1. CASE t \in Pages /\ Poll(t)
      BY <3>1 DEF Poll, Progress, NoNet, When, Start, Reply, Report, danceVars
    <3>2. CASE t \in Pushers /\ Push(t)
      BY <3>2 DEF Push, AnswerFailed, InitialAnswer, Wait, WaitDivides, Wake, RedirectBody,
                  RedirectFound, RedirectGone, RedirectClosed, RedirectAnswer, Store, Complete,
                  Done, Report, danceVars
    <3> QED BY <2>3, <3>1, <3>2
            DEF Step, NetReady, NetBusyReport, Sent, SitDown, RequestUnnamed, RequestFailed,
                RequestStopped, RequestNoMemory, Request, Report, danceVars
  <2>4. ASSUME NEW h \in Pushers, NEW k \in Kinds, Answer(h, k) PROVE net' = net
    BY <2>4 DEF Answer
  <2> QED BY <2>2, <2>3, <2>4 DEF Next, vars, danceVars
<1> QED BY <1>1, Invariance, PTL DEF Spec, NetStable
-----------------------------------------------------------------------------
(***************************************************************************)
(* What "done" says of a NET.  Each place of the dance is only reached     *)
(* with a NET that has what the steps before it asked for, and acs.c asks  *)
(* for all of it before the "done" (Walked); a message, once queued, is    *)
(* about the NET of its own dance, whatever is set later (Told).           *)
(***************************************************************************)

\* The good parts a NET was found to have on the way to a place.
Passed(at) ==
  IF at = "when" THEN {"object"}
  ELSE IF at \in {"start", "initial"} THEN {"object", "when"}
  ELSE IF at \in {"initialAnswer", "wait"} THEN {"object", "when", "initial"}
  ELSE IF at \in {"sleep", "redirect"} THEN Parts \ {"short", "redirect"}
  ELSE IF at \in {"redirectAnswer", "decoded", "store", "complete", "done"} THEN Parts \ {"short"}
  ELSE {}

\* The same for a request in the proxy: what its answer starts with.
Carried(k) == Passed(Answered(k))

Walked == /\ net # None => "object" \in Has[net]
          /\ \A t \in Threads : Passed(pc[t]) \subseteq Has[net]
          /\ \A k \in Kinds : out[k] > 0 => Carried(k) \subseteq Has[net]

Told == DoneWasDanced /\ (status = "done" => Danceable(net))

WInv == IInv /\ Walked /\ Told

\* Nothing is asked of a NET outside of the dance.
LEMMA RestsAsk ==
  /\ \A at \in Rests : Passed(at) = {}
  /\ \A at \in {"failed", "sit", "slip"} : Passed(at) = {}
BY DEF Passed, Rests

\* A message is queued that may be told.
LEMMA QueueTold ==
  ASSUME TypeOK, DoneWasDanced, NEW m, messages' = Append(messages, m), got' = got,
         m[1] = "done" => Danceable(m[2])
  PROVE  DoneWasDanced'
<1>1. messages \in Seq(Message)
  BY DEF TypeOK
<1>2. ASSUME NEW i \in DOMAIN messages'
      PROVE  messages'[i] = m \/ (i \in DOMAIN messages /\ messages'[i] = messages[i])
  BY <1>1
<1> QED BY <1>2 DEF DoneWasDanced, Danceable

\* acs_status() queues "done" for the NET that was danced, or not at all.
LEMMA PostTold ==
  ASSUME TypeOK, Told, NEW st \in Statuses, Post(st), net' = net, got' = got,
         st = "done" => Danceable(net)
  PROVE  Told'
<1>1. CASE status' = "error" /\ UNCHANGED messages
  BY <1>1 DEF Told, DoneWasDanced, Danceable
<1>2. CASE status' = st /\ messages' = Append(messages, <<st, net>>)
  <2>1. DoneWasDanced'
    BY <1>2, QueueTold DEF Told
  <2> QED BY <1>2, <2>1 DEF Told, Danceable
<1> QED BY <1>1, <1>2 DEF Post

\* A thread goes where the NET has been found good enough for.
LEMMA WalksOn ==
  ASSUME TypeOK, Walked, NEW t \in Threads, NEW at, Goto(t, at), out' = out, net' = net,
         Passed(at) \subseteq Has[net]
  PROVE  Walked'
<1>1. pc'[t] = at /\ \A u \in Threads \ {t} : pc'[u] = pc[u]
  BY DEF Goto, TypeOK
<1>2. \A u \in Threads : Passed(pc'[u]) \subseteq Has[net]
  BY <1>1 DEF Walked
<1> QED BY <1>2 DEF Walked

\* A thread reports and goes on.
LEMMA ReportWalks ==
  ASSUME WInv, NEW t \in Threads, NEW at, NEW st \in Statuses, Report(t, st, at),
         Passed(at) \subseteq Has[net],
         st = "done" => pc[t] = "done"
  PROVE  Walked' /\ Told'
<1>0. TypeOK /\ OneDance /\ HasNet /\ Walked /\ Told
  BY DEF WInv, IInv, DanceInv
<1>1. Goto(t, at) /\ Post(st) /\ UNCHANGED <<out, net, got>>
  BY DEF Report, danceVars
<1>2. st = "done" => Danceable(net)
  <2>1. pc[t] = "done" => net # None
    BY <1>0, OnlyDancer DEF HasNet, Steps
  <2> QED BY <1>0, <2>1 DEF Walked, Passed, Danceable
<1> QED BY <1>0, <1>1, <1>2, WalksOn, PostTold

\* A step that posts nothing tells nothing new.
LEMMA QuietTold ==
  ASSUME Told, UNCHANGED <<status, messages, net, got>>
  PROVE  Told'
BY DEF Told, DoneWasDanced, Danceable

\* A thread gives the dance to a request in the proxy, or takes it over.
LEMMA HandsOverWalks ==
  ASSUME TypeOK, Walked, NEW t \in Threads, NEW at, Goto(t, at), net' = net, NEW k \in Kinds,
         Passed(at) \subseteq Has[net],
         \/ out' = [out EXCEPT ![k] = @ - 1]
         \/ out' = [out EXCEPT ![k] = @ + 1] /\ Carried(k) \subseteq Has[net]
  PROVE  Walked'
<1>1. pc'[t] = at /\ \A u \in Threads \ {t} : pc'[u] = pc[u]
  BY DEF Goto, TypeOK
<1>2. \A u \in Threads : Passed(pc'[u]) \subseteq Has[net]
  BY <1>1 DEF Walked
<1>3. ASSUME NEW m \in Kinds, out'[m] > 0 PROVE Carried(m) \subseteq Has[net]
  <2>1. out \in [Kinds -> 0 .. 1]
    BY DEF TypeOK
  <2>2. CASE out[m] > 0
    BY <2>2 DEF Walked
  <2>3. CASE m = k /\ Carried(k) \subseteq Has[net]
    BY <2>3
  <2> QED BY <1>3, <2>1, <2>2, <2>3
<1> QED BY <1>2, <1>3 DEF Walked, Carried

-----------------------------------------------------------------------------
\* Setting a NET asks for an object; it does not touch what was told before.
LEMMA SetNetWalks ==
  ASSUME WInv, NEW t \in Threads, NEW n \in Nets, SetNet(t, n) \/ SetNetRejected(t, n)
  PROVE  Walked' /\ Told'
<1>0. TypeOK /\ OneDance /\ Told
  BY DEF WInv, IInv, DanceInv
<1>1. /\ ~dancing /\ out' = out /\ got' = got /\ \E at \in Rests : Goto(t, at)
      /\ net' = None \/ (net' = n /\ "object" \in Has[n])
      /\ status' \in {"ok", "error"}
      /\ messages' \in {messages, Append(messages, <<status', n>>)}
  BY PlaceFacts DEF SetNet, SetNetRejected, MayReplace, Rests
<1>2. (\A u \in Threads : pc[u] \notin Steps) /\ \A k \in Kinds : out[k] = 0
  BY <1>0, <1>1, NoDancer
<1>3. \A u \in Threads : Passed(pc'[u]) = {}
  <2>1. \A u \in Threads : pc[u] \in Rests /\ pc'[u] \in Rests
    BY <1>0, <1>1, <1>2 DEF TypeOK, Goto
  <2> QED BY <2>1, RestsAsk
<1>4. Walked'
  <2>1. net' # None => "object" \in Has[net']
    BY <1>1
  <2>2. \A u \in Threads : Passed(pc'[u]) \subseteq Has[net']
    BY <1>3
  <2>3. \A k \in Kinds : ~(out'[k] > 0)
    BY <1>1, <1>2
  <2> QED BY <2>1, <2>2, <2>3 DEF Walked
<1>5. Told'
  <2>1. CASE messages' = messages
    BY <1>0, <1>1, <2>1 DEF Told, DoneWasDanced, Danceable
  <2>2. CASE messages' = Append(messages, <<status', n>>)
    BY <1>0, <1>1, <2>2, QueueTold DEF Told
  <2> QED BY <1>1, <2>1, <2>2
<1> QED BY <1>4, <1>5

LEMMA UsersWalk ==
  ASSUME WInv, Users
  PROVE  Walked' /\ Told'
<1>0. TypeOK /\ Walked /\ Told
  BY DEF WInv, IInv
<1>1. Pages \cup {Rdv} \subseteq Threads
  BY DEF Threads
<1>2. ASSUME NEW t \in Threads, NEW n \in Nets, SetNet(t, n) \/ SetNetRejected(t, n)
      PROVE  Walked' /\ Told'
  BY <1>2, SetNetWalks
<1>3. ASSUME NEW t \in Threads, SetNetBusy(t) \/ SetupUnparsable(t) \/ ClickProgress(t)
      PROVE  Walked' /\ Told'
  <2>1. /\ \E at \in Rests : Goto(t, at)
        /\ UNCHANGED <<status, messages, net, got, out>>
    BY <1>3 DEF SetNetBusy, SetupUnparsable, ClickProgress, danceVars, Rests
  <2> QED BY <1>0, <2>1, RestsAsk, WalksOn, QuietTold
<1>4. CASE Shutdown
  <2>1. UNCHANGED <<status, messages, net, got, out, pc>>
    BY <1>4 DEF Shutdown, danceVars
  <2> QED BY <1>0, <2>1, QuietTold DEF Walked
<1> QED BY <1>1, <1>2, <1>3, <1>4 DEF Users

\* acs_progress()
LEMMA PollWalks ==
  ASSUME WInv, NEW p \in Pages, Poll(p)
  PROVE  Walked' /\ Told'
<1>0. TypeOK /\ OneDance /\ Walked /\ Told /\ p \in Threads
  BY DEF WInv, IInv, DanceInv, Threads
<1>1. CASE Progress(p)
  <2>1. UNCHANGED <<status, messages, net, got, out>>
    BY <1>1 DEF Progress
  <2>2. CASE Goto(p, "reply") \/ Goto(p, "nonet")
    BY <1>0, <2>1, <2>2, RestsAsk, WalksOn, QuietTold DEF Rests
  <2>3. CASE Goto(p, "when") /\ net # None
    <3>1. Passed("when") \subseteq Has[net]
      BY <1>0, <2>3 DEF Walked, Passed
    <3> QED BY <1>0, <2>1, <2>3, <3>1, WalksOn, QuietTold
  <2> QED BY <1>1, <2>2, <2>3 DEF Progress
<1>2. CASE NoNet(p)
  BY <1>0, <1>2, RestsAsk, ReportWalks DEF NoNet, Rests, Statuses
<1>3. CASE When(p)
  <2>1. CASE Report(p, "error", "sit")
    BY <1>0, <2>1, RestsAsk, ReportWalks DEF Statuses
  <2>2. CASE ~Lacks("when") /\ Report(p, "ok", "start")
    <3>1. Passed("start") \subseteq Has[net]
      BY <1>0, <1>3, <2>2 DEF When, Walked, Passed, Lacks
    <3> QED BY <1>0, <2>2, <3>1, ReportWalks DEF Statuses
  <2> QED BY <1>3, <2>1, <2>2 DEF When
<1>4. CASE Start(p)
  <2>1. Passed("initial") \subseteq Has[net] /\ Report(p, "ok", "initial")
    BY <1>0, <1>4 DEF Start, Walked, Passed
  <2> QED BY <1>0, <2>1, ReportWalks DEF Statuses
<1>5. CASE Reply(p)
  <2> DEFINE m == IF messages # <<>> THEN Head(messages) ELSE <<status, net>>
  <2>1. /\ \E at \in Rests : Goto(p, at)
        /\ UNCHANGED <<status, net, out>>
        /\ got' = [got EXCEPT ![p] = m] \/ got' = got
        /\ messages' = IF messages # <<>> THEN Tail(messages) ELSE messages
    BY <1>5 DEF Reply, danceVars, Rests
  <2>2. Walked'
    BY <1>0, <2>1, RestsAsk, WalksOn
  <2>3. messages \in Seq(Message) /\ got \in [Pages -> Message \cup {None}]
    BY <1>0 DEF TypeOK
  <2>4. m[1] = "done" => Danceable(m[2])
    <3>1. CASE messages # <<>>
      <4>1. m = messages[1] /\ 1 \in DOMAIN messages
        BY <2>3, <3>1
      <4> QED BY <1>0, <4>1 DEF Told, DoneWasDanced
    <3>2. CASE messages = <<>>
      BY <1>0, <3>2 DEF Told
    <3> QED BY <3>1, <3>2
  <2>5. ASSUME NEW i \in DOMAIN messages'
        PROVE  \E j \in DOMAIN messages : messages'[i] = messages[j]
    <3>1. CASE messages # <<>>
      <4>1. messages' = Tail(messages)
        BY <2>1, <3>1
      <4>2. i + 1 \in DOMAIN messages /\ messages'[i] = messages[i + 1]
        BY <2>3, <2>5, <3>1, <4>1
      <4> QED BY <4>2
    <3> QED BY <2>1, <3>1
  <2>6. ASSUME NEW q \in Pages PROVE got'[q] = m \/ got'[q] = got[q]
    BY <2>1, <2>3
  <2>7. DoneWasDanced'
    <3>1. \A i \in DOMAIN messages' : messages'[i][1] = "done" => Danceable(messages'[i][2])
      BY <1>0, <2>5 DEF Told, DoneWasDanced
    <3>2. \A q \in Pages : got'[q] # None /\ got'[q][1] = "done" => Danceable(got'[q][2])
      <4> SUFFICES ASSUME NEW q \in Pages, got'[q] # None, got'[q][1] = "done"
                   PROVE  Danceable(got'[q][2])
        OBVIOUS
      <4>1. CASE got'[q] = m
        BY <2>4, <4>1
      <4>2. CASE got'[q] = got[q]
        BY <1>0, <4>2 DEF Told, DoneWasDanced
      <4> QED BY <2>6, <4>1, <4>2
    <3> QED BY <3>1, <3>2 DEF DoneWasDanced, Danceable
  <2> QED BY <1>0, <2>1, <2>2, <2>7 DEF Told, Danceable
<1> QED BY <1>1, <1>2, <1>3, <1>4, <1>5 DEF Poll

\* The thread of a push of an internal answer.
LEMMA PushWalks ==
  ASSUME WInv, NEW h \in Pushers, Push(h)
  PROVE  Walked' /\ Told'
<1>0. TypeOK /\ Walked /\ Told /\ h \in Threads
  BY DEF WInv, IInv, Threads
<1>1. CASE AnswerFailed(h)
  BY <1>0, <1>1, RestsAsk, ReportWalks DEF AnswerFailed, Statuses
<1>2. CASE InitialAnswer(h) \/ RedirectAnswer(h) \/ Complete(h) \/ Done(h)
  <2>1. PICK at \in Steps, st \in Statuses :
               /\ Report(h, st, at) /\ Passed(at) \subseteq Passed(pc[h])
               /\ st = "done" => pc[h] = "done"
    BY <1>2 DEF InitialAnswer, RedirectAnswer, Complete, Done, Passed, Statuses, Steps
  <2>2. Passed(at) \subseteq Has[net]
    BY <1>0, <2>1 DEF Walked
  <2> QED BY <1>0, <2>1, <2>2, ReportWalks
<1>3. CASE Wait(h)
  <2>1. CASE Report(h, "error", "sit")
    BY <1>0, <2>1, RestsAsk, ReportWalks DEF Statuses
  <2>2. CASE ~Lacks("delay") /\ ~Lacks("window") /\ Report(h, "ok", "sleep")
    <3>1. Passed("wait") \subseteq Has[net]
      BY <1>0, <1>3 DEF Wait, Walked
    <3>2. Passed("sleep") \subseteq Has[net]
      BY <2>2, <3>1 DEF Passed, Parts, Lacks
    <3> QED BY <1>0, <2>2, <3>2, ReportWalks DEF Statuses
  <2> QED BY <1>3, <2>1, <2>2 DEF Wait
<1>4. CASE WaitDivides(h)
  <2>1. UNCHANGED <<status, messages, net, got, out, pc>>
    BY <1>4 DEF WaitDivides, danceVars
  <2> QED BY <1>0, <2>1, QuietTold DEF Walked
<1>5. CASE Wake(h)
  <2>1. CASE Report(h, "error", "idle")
    BY <1>0, <2>1, RestsAsk, ReportWalks DEF Statuses, Rests
  <2>2. CASE Report(h, "ok", "redirect")
    <3>1. Passed("redirect") \subseteq Has[net]
      BY <1>0, <1>5 DEF Wake, Walked, Passed
    <3> QED BY <1>0, <2>2, <3>1, ReportWalks DEF Statuses
  <2> QED BY <1>5, <2>1, <2>2 DEF Wake
<1>6. CASE RedirectBody(h)
  <2>1. pc[h] = "redirectAnswer" /\ UNCHANGED <<status, messages, net, got>>
    BY <1>6 DEF RedirectBody
  <2>2. Told'
    BY <1>0, <2>1, QuietTold
  <2>3. Carried("redirect") \subseteq Has[net]
    BY <1>0, <2>1 DEF Walked, Carried, Answered
  <2>4. CASE Goto(h, "body") /\ out' = [out EXCEPT !["redirect"] = @ + 1]
    <3>1. Passed("body") \subseteq Has[net]
      BY RestsAsk DEF Rests
    <3> QED BY <1>0, <2>1, <2>2, <2>3, <2>4, <3>1, HandsOverWalks DEF Kinds
  <2>5. CASE Goto(h, "failed") /\ out' = out
    BY <1>0, <2>1, <2>2, <2>5, RestsAsk, WalksOn
  <2> QED BY <1>6, <2>4, <2>5 DEF RedirectBody
<1>7. CASE RedirectFound(h)
  <2>1. /\ UNCHANGED <<status, messages, net, got>>
        /\ out["redirect"] > 0 /\ out' = [out EXCEPT !["redirect"] = @ - 1]
        /\ Goto(h, "decoded") \/ Goto(h, "failed")
    BY <1>7 DEF RedirectFound
  <2>2. Carried("redirect") \subseteq Has[net]
    BY <1>0, <2>1 DEF Walked, Kinds
  <2>3. Passed("decoded") \subseteq Has[net] /\ Passed("failed") \subseteq Has[net]
    BY <2>2 DEF Carried, Answered, Passed
  <2> QED BY <1>0, <2>1, <2>3, QuietTold, HandsOverWalks DEF Kinds
<1>9. CASE RedirectGone(h) \/ RedirectClosed(h)
  <2>1. UNCHANGED <<status, messages, net, got, out>> /\ Goto(h, "idle")
    BY <1>9 DEF RedirectGone, RedirectClosed, danceVars
  <2> QED BY <1>0, <2>1, QuietTold, RestsAsk, WalksOn DEF Rests
<1>8. CASE Store(h)
  <2>1. /\ UNCHANGED <<status, messages, net, got, out>> /\ pc[h] = "store"
        /\ Goto(h, "complete") \/ Goto(h, "failed")
    BY <1>8 DEF Store, Verdict
  <2>2. Passed("complete") \subseteq Has[net] /\ Passed("failed") \subseteq Has[net]
    BY <1>0, <2>1 DEF Walked, Passed
  <2> QED BY <1>0, <2>1, <2>2, WalksOn, QuietTold
<1> QED BY <1>1, <1>2, <1>3, <1>4, <1>5, <1>6, <1>7, <1>8, <1>9 DEF Push

\* acs_request() looks for the gateway it asks.
LEMMA RequestWalks ==
  ASSUME WInv, NEW t \in Threads, NEW k \in Kinds,
         \/ RequestUnnamed(t, k) \/ RequestFailed(t, k) \/ RequestStopped(t, k)
         \/ RequestNoMemory(t, k) \/ Request(t, k)
  PROVE  Walked' /\ Told'
<1>0. TypeOK /\ Walked /\ Told
  BY DEF WInv, IInv
<1>1. pc[t] = k
  BY DEF RequestUnnamed, RequestFailed, RequestStopped, RequestNoMemory, Request
<1>2. CASE RequestUnnamed(t, k) \/ RequestStopped(t, k)
  <2>1. \E at \in {"sit", "slip"} : Report(t, "error", at)
    BY <1>2 DEF RequestUnnamed, RequestStopped
  <2> QED BY <1>0, <2>1, RestsAsk, ReportWalks DEF Statuses
<1>3. CASE RequestFailed(t, k)
  <2>1. /\ status' = "error" /\ messages' = Append(messages, <<"error", net>>)
        /\ Goto(t, "sit") /\ UNCHANGED <<net, out, got>>
    BY <1>3 DEF RequestFailed, danceVars
  <2>2. Told'
    BY <1>0, <2>1, QueueTold DEF Told
  <2> QED BY <1>0, <2>1, <2>2, RestsAsk, WalksOn
<1>4. CASE RequestNoMemory(t, k)
  <2>1. Goto(t, "sit") /\ UNCHANGED <<status, messages, net, got, out>>
    BY <1>4 DEF RequestNoMemory, danceVars
  <2> QED BY <1>0, <2>1, RestsAsk, WalksOn, QuietTold
<1>5. CASE Request(t, k)
  <2>1. /\ out' = [out EXCEPT ![k] = @ + 1] /\ Goto(t, "sent") /\ ~Lacks(k)
        /\ UNCHANGED <<status, messages, net, got>>
    BY <1>5 DEF Request
  <2>2. Passed(k) \subseteq Has[net] /\ k \in Has[net]
    BY <1>0, <1>1, <2>1 DEF Walked, Lacks
  <2>3. Carried(k) \subseteq Has[net]
    BY <2>2 DEF Carried, Answered, Passed, Kinds, Parts
  <2>4. Passed("sent") \subseteq Has[net]
    BY RestsAsk DEF Rests
  <2> QED BY <1>0, <2>1, <2>3, <2>4, HandsOverWalks, QuietTold
<1> QED BY <1>2, <1>3, <1>4, <1>5

LEMMA ThreadWalks ==
  ASSUME WInv, NEW t \in Threads, Step(t)
  PROVE  Walked' /\ Told'
<1>0. TypeOK /\ Walked /\ Told
  BY DEF WInv, IInv
<1>1. CASE NetReady(t) \/ NetBusyReport(t) \/ Sent(t)
  <2>1. \E at \in Rests, st \in {"ok", "error"} : Report(t, st, at)
    BY <1>1, PlaceFacts DEF NetReady, NetBusyReport, Sent, Rests
  <2> QED BY <2>1, RestsAsk, ReportWalks DEF Statuses
<1>2. CASE SitDown(t)
  <2>1. /\ UNCHANGED <<status, messages, net, got, out>>
        /\ \E at \in Rests : Goto(t, at)
    BY <1>2, PlaceFacts DEF SitDown, Rests
  <2> QED BY <1>0, <2>1, RestsAsk, WalksOn, QuietTold
<1>3. ASSUME NEW k \in Kinds, \/ RequestUnnamed(t, k) \/ RequestFailed(t, k)
                              \/ RequestStopped(t, k) \/ RequestNoMemory(t, k)
                              \/ Request(t, k)
      PROVE  Walked' /\ Told'
  BY <1>3, RequestWalks
<1>4. CASE t \in Pages /\ Poll(t)
  BY <1>4, PollWalks
<1>5. CASE t \in Pushers /\ Push(t)
  BY <1>5, PushWalks
<1> QED BY <1>1, <1>2, <1>3, <1>4, <1>5 DEF Step

\* The answer of an internal request goes to the step that follows it.
LEMMA AnswerWalks ==
  ASSUME WInv, NEW h \in Pushers, NEW k \in Kinds, Answer(h, k)
  PROVE  Walked' /\ Told'
<1>0. TypeOK /\ Walked /\ Told /\ h \in Threads
  BY DEF WInv, IInv, Threads
<1>1. /\ out[k] > 0 /\ out' = [out EXCEPT ![k] = @ - 1]
      /\ UNCHANGED <<status, messages, net, got>>
  BY DEF Answer
<1>2. PICK at \in {Answered(k), "failed"} : Goto(h, at)
  BY DEF Answer
<1>3. Passed(at) \subseteq Has[net]
  BY <1>0, <1>1, <1>2, RestsAsk DEF Walked, Carried
<1> QED BY <1>0, <1>1, <1>2, <1>3, HandsOverWalks, QuietTold

LEMMA NextWalks == WInv /\ [Next]_vars => WInv'
<1> SUFFICES ASSUME WInv, [Next]_vars PROVE Walked' /\ Told'
  BY NextInv DEF WInv
<1>1. CASE Users
  BY <1>1, UsersWalk
<1>2. ASSUME NEW t \in Threads, Step(t) PROVE Walked' /\ Told'
  BY <1>2, ThreadWalks
<1>3. ASSUME NEW h \in Pushers, NEW k \in Kinds, Answer(h, k) PROVE Walked' /\ Told'
  BY <1>3, AnswerWalks
<1>4. CASE UNCHANGED vars
  BY <1>4, QuietTold DEF vars, danceVars, WInv, Walked
<1> QED BY <1>1, <1>2, <1>3, <1>4 DEF Next

\* A page is told "done" of NETs only that could be danced to the end, however
\* many messages, dances and NETs there are between the dance and the poll.
THEOREM DoneMeansDanced == Spec => []DoneWasDanced
<1>1. Init => WInv
  <2> SUFFICES ASSUME Init PROVE Walked /\ Told
    BY InitInv DEF WInv
  <2>1. /\ net = None /\ status = "ok" /\ \A k \in Kinds : out[k] = 0
        /\ \A t \in Threads : pc[t] = "idle"
        /\ messages = << <<"ok", None>> >> /\ \A p \in Pages : got[p] = None
    BY DEF Init
  <2>2. Walked
    BY <2>1, RestsAsk DEF Walked, Rests
  <2>3. Told
    BY <2>1 DEF Told, DoneWasDanced
  <2> QED BY <2>2, <2>3
<1>2. WInv /\ [Next]_vars => WInv'
  BY NextWalks
<1>3. WInv => DoneWasDanced
  BY DEF WInv, Told
<1> QED BY <1>1, <1>2, <1>3, PTL DEF Spec
=============================================================================
