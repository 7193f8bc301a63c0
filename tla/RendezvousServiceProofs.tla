----------------------- MODULE RendezvousServiceProofs -----------------------
(***************************************************************************)
(* Rendezvous implements RendezvousService, for every user.                *)
(*                                                                         *)
(* The initial states map to initial states, and under the invariant of    *)
(* RendezvousProofs every step maps to a step of the service or to none:   *)
(* requests, answers and most of what the page does are not seen there.    *)
(* Unfetched and NotYet give the order in which onions come, Searched the  *)
(* proof of work that is only taken off once it is solved, and Fitting     *)
(* what a thread can bring when djb was disturbed.                         *)
(***************************************************************************)
EXTENDS RendezvousProofs

\* A step of the service, or none that it can see.
Step == Service!Next \/ UNCHANGED Service!vars

-----------------------------------------------------------------------------
\* What the service sees

\* It sees the outermost layer of the onion.
LEMMA LayerIs ==
  ASSUME IInv, onion # None
  PROVE  /\ onion \in Onion /\ Fits(onion) /\ onion[1] \in Loads /\ onion[2] \in Nat
         /\ Place(onion) = <<onion[1], onion[2]>> /\ Place(onion) # None
         /\ Service!Layer = Type(onion)
<1>1. onion \in Onion /\ Fits(onion) BY DEF IInv, TypeOK, TypeDjb, DjbInv, Fitting
<1>2. onion[1] \in Loads /\ onion[2] \in Nat BY <1>1 DEF Onion
<1>3. Place(onion) = <<onion[1], onion[2]>> BY DEF Place
<1>4. Place(onion) \in Places BY <1>2, <1>3 DEF Places
<1>5. Place(onion) # None BY <1>4, NoneAssumption
<1>6. Service!Layer = Type(onion) BY <1>3 DEF Service!Layer, Type
<1> QED BY <1>1, <1>2, <1>3, <1>5, <1>6

\* It sees no requests, answers, files and threads.
LEMMA NotSeen ==
  ASSUME UNCHANGED <<onion, started, finished, inner, layers, net, cut>>
  PROVE  Step
<1>1. Place(onion)' = Place(onion) /\ Place(net)' = Place(net) BY DEF Place
<1>2. Pow' = Pow BY DEF Pow, Type
<1>3. UNCHANGED Service!vars BY <1>1, <1>2 DEF Service!vars
<1> QED BY <1>3 DEF Step

\* A step of the search for the outermost layer, or of one that does not matter.
LEMMA SearchStep ==
  ASSUME IInv, UNCHANGED <<onion, layers, net, cut>>,
         cut = {} => <<Pow, Pow'>> \in Service!Attempts \/ Pow' = Pow
  PROVE  Step
<1>1. Place(onion)' = Place(onion) /\ Place(net)' = Place(net) /\ (cut # {})' = (cut # {})
  BY DEF Place
<1>2. CASE Pow' = Pow
  <2>1. UNCHANGED Service!vars BY <1>1, <1>2 DEF Service!vars
  <2> QED BY <2>1 DEF Step
<1>3. CASE Pow' # Pow
  <2>1. onion # None /\ Type(onion) = "pow" BY <1>3 DEF Pow, Type
  <2>2. Place(onion) # None /\ Service!Layer = "pow" BY <2>1, LayerIs
  <2>3. <<Pow, Pow'>> \in Service!Attempts \/ cut # {} BY <1>3
  <2>4. Service!Search BY <1>1, <2>2, <2>3 DEF Service!Search
  <2> QED BY <2>4 DEF Step, Service!Next
<1> QED BY <1>2, <1>3

\* An undisturbed djb does nothing about another layer than a proof of work.
LEMMA Idle == ASSUME IInv, cut = {}, onion = None \/ Type(onion) # "pow" PROVE ~started
BY DEF IInv, DjbInv, Searched

\* The layer inside takes the place of the onion.
LEMMA PeelStep ==
  ASSUME IInv, onion # None, onion' # None,
         Type(onion) \in {"signed", "captcha"} \/ (Type(onion) = "pow" /\ Pow = "solved"),
         \/ Place(onion') = <<onion[1], onion[2] + 1>>
         \/ cut # {} /\ Type(onion) = "pow" /\ Place(onion') \in Service!InsidePow,
         ~started' \/ cut # {}, UNCHANGED <<layers, net, cut>>
  PROVE  Step
<1>1. /\ Place(onion) = <<onion[1], onion[2]>> /\ Place(onion) # None
      /\ Service!Layer = Type(onion)
  BY LayerIs
<1>2. Place(onion)' = Place(onion') /\ Place(net)' = Place(net) BY DEF Place
<1>3. ~started' => Pow' = "none" BY DEF Pow
<1>4. Place(onion)[1] = onion[1] /\ Place(onion)[2] = onion[2] BY <1>1
<1>5. Service!Layer \in {"signed", "captcha"} \/ (Service!Layer = "pow" /\ Pow = "solved")
  BY <1>1
<1>6. \/ Place(onion)' = <<Place(onion)[1], Place(onion)[2] + 1>>
      \/ cut # {} /\ Service!Layer = "pow" /\ Place(onion)' \in Service!InsidePow
  BY <1>1, <1>2, <1>4
<1>7. Pow' = "none" \/ cut # {} BY <1>3
<1>8. (cut # {})' = (cut # {}) OBVIOUS
<1>9. Service!Peel BY <1>1, <1>2, <1>5, <1>6, <1>7, <1>8 DEF Service!Peel
<1> QED BY <1>9 DEF Step, Service!Next

-----------------------------------------------------------------------------
\* Every step

LEMMA UserStep == ASSUME IInv, User \/ Poll PROVE Step
<1>1. CASE Load \/ ClickGo \/ ClickPeel \/ ClickCaptcha \/ Poll
  BY <1>1, NotSeen DEF Load, ClickGo, ClickPeel, ClickCaptcha, Poll, Send, onionVars, powVars,
                       envVars
<1>2. CASE FetchImage
  <2>1. PICK o \in Onions : layers' = [layers EXCEPT ![load] = o] BY <1>2 DEF FetchImage
  <2>2. /\ stage = "fetch" /\ load \in Loads
        /\ UNCHANGED <<onion, started, finished, inner, net, cut>>
    BY <1>2 DEF FetchImage, onionVars, powVars, IInv, TypeOK, TypePage
  <2>3. Fresh(load) BY <2>2 DEF Fresh, Unseen
  <2>4. \A m \in Loads : m >= load => layers[m] = <<>>
    <3> SUFFICES ASSUME NEW m \in Loads, m >= load PROVE Unseen(m)
      BY DEF IInv, PageInv, Unfetched
    <3>1. m = load \/ m > load BY <2>2, Numbers
    <3> QED BY <2>2, <3>1 DEF Unseen
  <2>5. onion # None => onion[1] # load
    BY <2>2, <2>3 DEF IInv, PageInv, NotYet, Present, OfLoad
  <2>6. onion # None => Type(onion)' = Type(onion)
    <3>1. onion # None => layers'[onion[1]] = layers[onion[1]]
      <4>1. layers \in [Loads -> Onions \cup {<<>>}] BY DEF IInv, TypeOK, TypeDjb
      <4>2. onion # None => onion[1] \in Loads BY LayerIs
      <4> QED BY <2>1, <2>5, <4>1, <4>2
    <3> QED BY <2>2, <3>1 DEF Type
  <2>7. Pow' = Pow BY <2>2, <2>6 DEF Pow
  <2>8. Place(onion)' = Place(onion) /\ Place(net)' = Place(net) BY <2>2 DEF Place
  <2>9. Service!Loads = Loads /\ (cut # {})' = (cut # {})
    BY <2>2 DEF Service!Loads, Loads
  <2>10. \E x \in Onions : layers' = [layers EXCEPT ![load] = x] BY <2>1
  <2>11. Service!Fetch(load) BY <2>4, <2>7, <2>8, <2>9, <2>10 DEF Service!Fetch
  <2> QED BY <2>2, <2>9, <2>11 DEF Step, Service!Next
<1> QED BY <1>1, <1>2 DEF User

LEMMA ResetStep == ASSUME IInv, NEW r, Reset(r) PROVE Step
<1>1. /\ onion' = None /\ UNCHANGED <<layers, net>>
      /\ cut' = cut \cup {c \in {"search"} : \E s \in Searches : Searching(s)}
  BY DEF Reset
<1>2. Place(onion)' = None /\ Pow' = "none" /\ Place(net)' = Place(net)
  BY <1>1 DEF Place, Pow
<1>3. CASE onion # None
  <2>1. (cut # {})' \in {cut # {}, TRUE} BY <1>1
  <2>2. Service!Drop BY <1>1, <1>2, <1>3, <2>1, LayerIs DEF Service!Drop
  <2> QED BY <2>2 DEF Step, Service!Next
<1>4. CASE onion = None
  <2>1. Place(onion) = None /\ Pow = "none" BY <1>4 DEF Place, Pow
  <2>2. cut = {} => cut' = {} BY <1>1, <1>4 DEF IInv, DjbInv, Searched
  <2>3. (cut # {})' = (cut # {}) BY <1>1, <2>2
  <2>4. UNCHANGED Service!vars BY <1>1, <1>2, <2>1, <2>3 DEF Service!vars
  <2> QED BY <2>4 DEF Step
<1> QED BY <1>3, <1>4

LEMMA ImageStep == ASSUME IInv, NEW r, Image(r) PROVE Step
<1>1. /\ r \in wire /\ r.kind = "image" /\ onion' = <<r.load, 0, None>>
      /\ cut' = cut \cup {c \in {"image"} : onion # None}
      /\ UNCHANGED <<started, finished, inner, layers, net>>
  BY DEF Image, Serve, powVars
<1>2. r.load \in Loads /\ layers[r.load] # <<>>
  BY <1>1, OnionsAssumption DEF IInv, PageInv, Asked, TypeOK, TypePage, Requests
<1>3. onion' # None
  <2>1. <<r.load, 0, None>> \in Onion BY <1>2 DEF Onion
  <2> QED BY <1>1, <2>1, NoneAssumption
<1>4. Place(onion)' = <<r.load, 0>> /\ Place(net)' = Place(net) BY <1>1, <1>3 DEF Place
<1>5. (cut # {})' <=> (cut # {} \/ Place(onion) # None)
  <2>1. onion # None <=> Place(onion) # None BY LayerIs DEF Place
  <2> QED BY <1>1, <2>1
<1>6. Pow' = "none" \/ (cut # {})'
  <2>1. cut' = {} => cut = {} /\ onion = None BY <1>1
  <2>2. cut' = {} => ~started' BY <1>1, <2>1, Idle
  <2> QED BY <2>2 DEF Pow
<1>7. (cut # {})' = (cut # {} \/ Place(onion) # None) BY <1>5, Zenon
<1>8. Service!Extract(r.load) BY <1>1, <1>2, <1>4, <1>6, <1>7 DEF Service!Extract
<1> QED BY <1>2, <1>8 DEF Step, Service!Next, Service!Loads, Loads

LEMMA PeelBaseStep == ASSUME IInv, NEW r, PeelBase(r) PROVE Step
<1>1. /\ Peel(r, "base") /\ net' \in {net, onion}
      /\ UNCHANGED <<onion, started, finished, inner, layers, cut>>
  BY DEF PeelBase, onionVars, powVars
<1>2. onion # None /\ Type(onion) = "base" BY <1>1, Peeled
<1>3. CASE net' = net BY <1>1, <1>3, NotSeen
<1>4. CASE net' = onion
  <2>1. Place(onion)' = Place(onion) /\ Place(net)' = Place(onion) BY <1>1, <1>4 DEF Place
  <2>2. Pow' = Pow BY <1>1 DEF Pow, Type
  <2>3. Place(onion) # None /\ Service!Layer = "base" BY <1>2, LayerIs
  <2>4. Service!HandOver BY <1>1, <2>1, <2>2, <2>3 DEF Service!HandOver
  <2> QED BY <2>4 DEF Step, Service!Next
<1> QED BY <1>1, <1>3, <1>4

\* A signature that was verified, a captcha that was solved.
LEMMA InwardsStep ==
  ASSUME IInv, onion # None, Type(onion) \in {"signed", "captcha"},
         Switch(Inside(onion, None)), UNCHANGED <<started, layers, net, cut>>
  PROVE  Step
<1>1. onion' = Inside(onion, None) BY DEF Switch
<1>2. onion \in Onion BY LayerIs
<1>3. onion' # None /\ onion'[1] = onion[1] /\ onion'[2] = onion[2] + 1
  BY <1>1, <1>2, InsideIs
<1>4. Place(onion') = <<onion[1], onion[2] + 1>> BY <1>3 DEF Place
<1>5. ~started' \/ cut # {} BY Idle
<1> QED BY <1>3, <1>4, <1>5, PeelStep

LEMMA PeelSignedStep == ASSUME IInv, NEW r, PeelSigned(r) PROVE Step
<1>1. /\ Peel(r, "signed") /\ UNCHANGED <<started, finished, inner, layers, net, cut>>
      /\ Switch(Inside(onion, None)) \/ UNCHANGED <<onion, freed>>
  BY DEF PeelSigned, powVars, envVars
<1> QED BY <1>1, Peeled, InwardsStep, NotSeen

LEMMA PeelCaptchaAnswerStep == ASSUME IInv, NEW r, PeelCaptchaAnswer(r) PROVE Step
<1>1. /\ Peel(r, "captcha") /\ UNCHANGED <<started, finished, inner, layers, net, cut>>
      /\ Switch(Inside(onion, None)) \/ UNCHANGED <<onion, freed>>
  BY DEF PeelCaptchaAnswer, powVars, envVars
<1> QED BY <1>1, Peeled, InwardsStep, NotSeen

LEMMA PeelPowStartStep == ASSUME IInv, NEW r, PeelPowStart(r) PROVE Step
<1>1. /\ Peel(r, "pow") /\ ~started /\ started' \in {started, TRUE}
      /\ UNCHANGED <<onion, finished, inner, layers, net, cut>>
  BY DEF PeelPowStart, MustStart, onionVars, envVars
<1>2. onion # None /\ Type(onion) = "pow" BY <1>1, Peeled
<1>3. CASE started' = started BY <1>1, <1>3, NotSeen
<1>4. CASE started' = TRUE
  <2>1. Pow = "none" BY <1>1 DEF Pow
  <2>2. cut = {} => ~finished BY <1>1 DEF IInv, DjbInv, Searched
  <2>3. cut = {} => Pow' = "on" BY <1>1, <1>2, <1>4, <2>2 DEF Pow, Type
  <2> QED BY <1>1, <2>1, <2>3, SearchStep DEF Service!Attempts
<1> QED BY <1>1, <1>3, <1>4

LEMMA PeelPowDoneStep == ASSUME IInv, NEW r, PeelPowDone(r) PROVE Step
<1>1. /\ Peel(r, "pow") /\ started /\ finished /\ inner # None
      /\ onion' = inner /\ started' = FALSE /\ UNCHANGED <<layers, net, cut>>
  BY DEF PeelPowDone, MustStart, PowOver, Switch, envVars
<1>2. onion # None /\ onion \in Onion /\ Type(onion) = "pow" BY <1>1, Peeled
<1>3. Pow = "solved" BY <1>1, <1>2 DEF Pow
<1>4. inner \in Onion /\ Fits(inner) /\ inner[2] > 0 /\ layers[inner[1]][inner[2]] = "pow"
  BY <1>1 DEF IInv, TypeOK, TypeDjb, DjbInv, Fitting
<1>5. Place(onion') = <<inner[1], inner[2]>> BY <1>1 DEF Place
<1>6. CASE cut = {}
  <2>1. PICK s \in Searches : inner = Inside(onion, s) BY <1>1, <1>6, Found
  <2>2. Place(onion') = <<onion[1], onion[2] + 1>> BY <1>2, <1>5, <2>1, InsideIs
  <2> QED BY <1>1, <1>2, <1>3, <2>2, PeelStep
<1>7. CASE cut # {}
  <2>1. /\ inner[1] \in Loads /\ inner[2] \in Nat
        /\ layers[inner[1]] \in Seq(Types) /\ inner[2] + 1 \in 1 .. Len(layers[inner[1]])
    BY <1>4, HasLayer DEF IInv
  <2>2. inner[2] \in 1 .. Len(layers[inner[1]]) BY <1>4, <2>1
  <2>3. <<inner[1], inner[2]>> \in Service!InsidePow
    BY <1>4, <2>1, <2>2 DEF Service!InsidePow, Service!Loads, Loads
  <2>4. Place(onion') \in Service!InsidePow BY <1>5, <2>3
  <2> QED BY <1>1, <1>2, <1>3, <1>7, <2>4, PeelStep
<1> QED BY <1>6, <1>7

LEMMA HandleStep == ASSUME IInv, NEW r, Handle(r) PROVE Step
<1>1. CASE GenRequest(r) \/ GenRequestFailed(r) \/ ImageFailed(r) \/ PeelNothing(r)
  BY <1>1, NotSeen DEF GenRequest, GenRequestFailed, ImageFailed, PeelNothing, onionVars,
                       powVars, envVars
<1>2. CASE PeelCaptchaShow(r) BY <1>2, NotSeen DEF PeelCaptchaShow, powVars, envVars
<1>3. CASE PeelPowBusy(r) BY <1>3, NotSeen DEF PeelPowBusy, onionVars, powVars, envVars
<1>4. CASE PeelPowFailed(r) BY <1>4, NotSeen DEF PeelPowFailed, onionVars, powVars, envVars
<1> QED BY <1>1, <1>2, <1>3, <1>4, ResetStep, ImageStep, PeelBaseStep, PeelSignedStep,
           PeelCaptchaAnswerStep, PeelPowStartStep, PeelPowDoneStep DEF Handle

LEMMA WorkerStep == ASSUME IInv, NEW s \in Searches, PowWorker(s) PROVE Step
<1>1. UNCHANGED <<onion, started, layers, net, cut>>
  BY DEF PowWorker, SearchBegin, SearchFound, SearchFinish, onionVars
<1>2. cut = {} /\ Searching(s) => /\ started /\ onion # None /\ Type(onion) = "pow"
                                  /\ ~finished
  <2> SUFFICES ASSUME cut = {}, Searching(s)
               PROVE  started /\ onion # None /\ Type(onion) = "pow" /\ ~finished
    OBVIOUS
  <2>1. started /\ onion # None /\ Type(onion) = "pow" /\ AtWork(s)
    BY DEF IInv, DjbInv, Searched, AtWork
  <2> QED BY <2>1 DEF AtWork, Searching
<1>3. CASE SearchBegin(s) BY <1>1, <1>3, NotSeen DEF SearchBegin
<1>4. CASE SearchFound(s)
  <2>1. Searching(s) /\ finished' = finished BY <1>4 DEF SearchFound, Searching
  <2>2. cut = {} => Pow' = Pow BY <1>1, <1>2, <2>1 DEF Pow, Type
  <2> QED BY <1>1, <2>2, SearchStep
<1>5. CASE SearchFinish(s)
  <2>1. Searching(s) /\ inner' = inner /\ finished' \in {finished, TRUE}
    BY <1>5 DEF SearchFinish, Searching, Finished
  <2>2. cut = {} => Pow = "on" BY <1>2, <2>1 DEF Pow
  <2>3. finished' = TRUE /\ cut = {} => Pow' \in {"solved", "failed"}
    BY <1>1, <1>2, <2>1 DEF Pow, Type
  <2>4. finished' = finished => Pow' = Pow BY <1>1, <2>1 DEF Pow, Type
  <2> QED BY <1>1, <2>1, <2>2, <2>3, <2>4, SearchStep DEF Service!Attempts
<1> QED BY <1>3, <1>4, <1>5 DEF PowWorker

-----------------------------------------------------------------------------
LEMMA InitService == Init => Service!Init
BY DEF Init, Service!Init, Service!Loads, Loads, Place, Pow

LEMMA NextService == IInv /\ [Next]_vars => Step
<1> SUFFICES ASSUME IInv, [Next]_vars PROVE Step OBVIOUS
<1>1. CASE User \/ Poll BY <1>1, UserStep
<1>2. ASSUME NEW r \in wire, Handle(r) PROVE Step BY <1>2, HandleStep
<1>3. ASSUME NEW s \in Searches, PowWorker(s) PROVE Step BY <1>3, WorkerStep
<1>4. CASE UNCHANGED vars BY <1>4, NotSeen DEF vars, onionVars, powVars, envVars
<1> QED BY <1>1, <1>2, <1>3, <1>4 DEF Next

\* The rendezvous implements its service, with every number of loads, threads and requests
\* on their way, and whatever the user does: layers come off one by one, a proof of work
\* once solved, and only the innermost layer hands over a NET; after a search was cut off,
\* or an image came without a reset, what a proof of work gives way to was at least inside
\* some proof of work.
THEOREM Implementation == Spec => ServiceSpec
<1>1. IInv /\ [Next]_vars => [Service!Next]_(Service!vars) BY NextService DEF Step
<1> QED BY <1>1, InitService, InvariantHolds, PTL DEF Spec, ServiceSpec, Service!Spec
=============================================================================
