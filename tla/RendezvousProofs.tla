-------------------------- MODULE RendezvousProofs --------------------------
(***************************************************************************)
(* Proofs about Rendezvous, for every user: one who reloads the page while *)
(* requests are on their way and a search is on, and clicks twice.         *)
(*                                                                         *)
(* What holds of every user: an image is fetched and posted once in a load *)
(* (Asked, Unfetched), what djb has comes from images that were posted     *)
(* (NotYet), and each onion has an outermost layer, the result of a search *)
(* one outside (Fitting).  As long as no search was cut off and no image   *)
(* came without a reset: one thread searches at most, it searches the      *)
(* onion, which is a proof of work (Searched), and the onion is further    *)
(* inside than what was freed of its image (FreedBefore).                  *)
(***************************************************************************)
EXTENDS Rendezvous, TLAPS

Stages == {"reset", "enter", "gen", "fetch", "image", "onion"}

\* The image of a load is still to be fetched, or to be taken by djb.
Unseen(l) == l > load \/ (l = load /\ stage \in {"reset", "enter", "gen", "fetch"})
Fresh(l)  == Unseen(l) \/ \E r \in wire : r.kind = "image" /\ r.load = l

OfLoad(o, l) == o # None /\ o[1] = l
Present(l) == \/ OfLoad(onion, l) \/ OfLoad(inner, l)
              \/ \E s \in Searches : OfLoad(search[s].of, l)
              \/ \E f \in freed : f[1] = l

NotYet    == \A l \in Loads : Fresh(l) => ~Present(l)
Unfetched == \A l \in Loads : Unseen(l) => layers[l] = <<>>

Once == {"gen", "image"}
Asked == \A r \in wire :
  /\ r.load <= load
  /\ r.kind \in Once => r = [kind |-> r.kind, load |-> r.load, answer |-> None, n |-> 1]
  /\ r.kind \in Once /\ r.load = load => stage = r.kind
  /\ r.kind = "image" => layers[r.load] \in Onions

Fits(o) == o # None => layers[o[1]] \in Onions /\ o[2] < Len(layers[o[1]])

Fitting ==
  /\ Fits(onion) /\ Fits(inner) /\ \A s \in Searches : Fits(search[s].of)
  /\ inner # None => inner[2] > 0 /\ layers[inner[1]][inner[2]] = "pow"
  /\ \A s \in Searches : search[s].at = "search" /\ ~crashed => search[s].of # None

\* The only thread that is at work, or has been, for the proof of work.
AtWork(s) ==
  /\ \A u \in Searches \ {s} : ~Searching(u)
  /\ IF search[s].at = "new" THEN ~finished /\ inner = None
     ELSE /\ search[s].of = onion /\ (finished <=> search[s].at = "end")
          /\ inner # None => search[s].at # "search" /\ inner = Inside(onion, s)

Searched == cut = {} =>
  IF started THEN onion # None /\ Type(onion) = "pow" /\ \E s \in Searches : AtWork(s)
             ELSE ~finished /\ inner = None /\ \A s \in Searches : ~Searching(s)

FreedBefore == cut = {} /\ onion # None =>
                 \A f \in freed : f[1] = onion[1] => f[2] < onion[2]

Stored == FilesKnown /\ ("image" \notin cut /\ captcha # None => onion # None)

PageInv == NotYet /\ Unfetched /\ Asked
DjbInv  == Fitting /\ Searched /\ FreedBefore /\ Stored
IInv    == TypeOK /\ PageInv /\ DjbInv

-----------------------------------------------------------------------------
\* Onions and their layers

\* An onion that fits has an outermost layer; if that is not the innermost one,
\* there is one inside.
LEMMA HasLayer ==
  ASSUME TypeOK, NEW o \in Onion, Fits(o)
  PROVE  /\ o # None /\ o[1] \in Loads /\ o[2] \in Nat
         /\ layers[o[1]] \in Onions /\ layers[o[1]] \in Seq(Types)
         /\ o[2] + 1 \in 1 .. Len(layers[o[1]])
         /\ Type(o) \in Types
         /\ Type(o) \notin {"base", "collection"} => o[2] + 1 < Len(layers[o[1]])
<1> DEFINE l == layers[o[1]]
<1>1. o # None /\ o[1] \in Loads /\ o[2] \in Nat BY NoneAssumption DEF Onion
<1>2. l \in Onions /\ o[2] < Len(l) BY <1>1 DEF Fits
<1>3. l \in Seq(Types) /\ \A i \in 1 .. Len(l) : l[i] \in {"base", "collection"} <=> i = Len(l)
  BY <1>2, OnionsAssumption
<1> HIDE DEF l
<1>4. o[2] + 1 \in 1 .. Len(l) BY <1>1, <1>2, <1>3
<1>5. l[o[2] + 1] \in Types BY <1>3, <1>4
<1>6. l[o[2] + 1] \notin {"base", "collection"} => o[2] + 1 < Len(l) BY <1>1, <1>3, <1>4
<1>7. Type(o) = l[o[2] + 1] BY DEF Type, l
<1> QED BY <1>1, <1>2, <1>3, <1>4, <1>5, <1>6, <1>7 DEF l

LEMMA InsideIs ==
  ASSUME NEW o \in Onion, NEW by \in Searches \cup {None}
  PROVE  /\ Inside(o, by) \in Onion /\ Inside(o, by) # None
         /\ Inside(o, by)[1] = o[1] /\ Inside(o, by)[2] = o[2] + 1
BY NoneAssumption DEF Inside, Onion

LEMMA PlaceIs == ASSUME NEW o \in Onion \cup {None} PROVE Place(o) \in Places \cup {None}
BY DEF Place, Onion, Places

-----------------------------------------------------------------------------
\* Requests and answers

\* When djb takes a request, the page goes on at most to where that leads.
LEMMA Served ==
  ASSUME IInv, NEW r, NEW kind, Serve(r, kind), load' = load, layers' = layers,
         \/ stage' = stage
         \/ kind = "reset" /\ stage = "reset" /\ stage' = "enter"
         \/ kind = "gen" /\ r.load = load /\ stage' = "fetch"
         \/ kind = "image" /\ r.load = load /\ stage' = "onion"
  PROVE  /\ Asked' /\ Unfetched' /\ wire' \subseteq Requests
         /\ stage' \in Stages
         /\ \A l \in Loads : Fresh(l)' => Fresh(l)
<1>1. /\ wire' = wire \ {r} /\ r \in wire /\ r.kind = kind
      /\ wire \subseteq Requests /\ load \in Loads /\ stage \in Stages
  BY DEF Serve, IInv, TypeOK, TypePage, Stages
<1>2. \A q \in wire : /\ q.kind \in Once /\ q.load = load => stage = q.kind
                      /\ q.kind \in Once => q = [kind |-> q.kind, load |-> q.load,
                                                 answer |-> None, n |-> 1]
  BY DEF IInv, PageInv, Asked
<1>3. ASSUME stage' # stage PROVE \A q \in wire' : ~(q.kind \in Once /\ q.load = load)
  <2> SUFFICES ASSUME NEW q \in wire', q.kind \in Once, q.load = load PROVE FALSE OBVIOUS
  <2>1. q \in wire /\ q # r /\ stage = q.kind BY <1>1, <1>2
  <2>2. CASE kind = "reset" BY <1>3, <2>1, <2>2 DEF Once
  <2>3. CASE kind \in Once /\ r.load = load
    <3>1. stage = r.kind /\ r = [kind |-> r.kind, load |-> r.load, answer |-> None, n |-> 1]
      BY <1>1, <1>2, <2>3
    <3>2. q = [kind |-> q.kind, load |-> q.load, answer |-> None, n |-> 1] BY <1>2, <2>1
    <3> QED BY <2>1, <2>3, <3>1, <3>2
  <2> QED BY <1>3, <2>2, <2>3 DEF Once
<1>4. stage' \in Stages BY <1>1 DEF Stages
<1>5. Asked' BY <1>1, <1>3 DEF IInv, PageInv, Asked
<1>6. ASSUME NEW l \in Loads PROVE Unseen(l)' => Unseen(l)
  <2>1. kind = "gen" /\ r.load = load => stage = "gen" BY <1>1, <1>2 DEF Once
  <2> QED BY <2>1 DEF Unseen
<1>7. Unfetched' BY <1>6 DEF IInv, PageInv, Unfetched
<1>8. \A l \in Loads : Fresh(l)' => Fresh(l) BY <1>1, <1>6 DEF Fresh
<1> QED BY <1>1, <1>4, <1>5, <1>7, <1>8

\* What the page shows after an answer.
LEMMA ShowFacts ==
  ASSUME TypeOK, NEW r, NEW type \in Types,
         NEW kind \in {"text", "number", "full", "picture", "failed"},
         Show(r, type, kind), captcha' \in Places \cup {None}
  PROVE  /\ shown' \in Types \cup {""} /\ listeners' \subseteq {"peel", "answer"}
         /\ disabled' \in BOOLEAN /\ due' \in BOOLEAN
         /\ status' \in {"", "text", "number", "full", "picture", "failed"}
         /\ picture' \in Places \cup {None}
         /\ status' = "failed" => status = "failed" \/ kind = "failed"
<1>1. CASE r.load # load BY <1>1 DEF TypeOK, TypePage, Show, viewVars
<1>2. CASE r.load = load
  <2>1. /\ shown' = type /\ status' = kind /\ due' = (due \/ kind \in {"number", "full"})
        /\ disabled' = (kind = "number" \/ (disabled /\ kind # "full"))
        /\ picture' = IF kind = "picture" THEN captcha' ELSE picture
    BY <1>2 DEF Show
  <2>2. listeners' \subseteq {"peel", "answer"} BY <1>2 DEF Show, TypeOK, TypePage
  <2>3. disabled' \in BOOLEAN /\ due' \in BOOLEAN BY <2>1, Zenon
  <2>4. picture' \in Places \cup {None} BY <2>1 DEF TypeOK, TypePage
  <2> QED BY <2>1, <2>2, <2>3, <2>4
<1> QED BY <1>1, <1>2

\* A step of djb that leaves what it has, or has onions of the same loads only.
LEMMA NotYetKept ==
  ASSUME NotYet, \A l \in Loads : Fresh(l)' => Fresh(l), \A l \in Loads : Present(l)' => Present(l)
  PROVE  NotYet'
BY DEF NotYet

Daemon == <<onion, image, captcha, files, freed, started, finished, inner, search, crashed, cut>>

\* What djb has stays as it is, and so do the layers of what is there.
LEMMA StillDjb ==
  ASSUME IInv, UNCHANGED Daemon, \A l \in Loads : Present(l) => layers'[l] = layers[l]
  PROVE  DjbInv' /\ \A l \in Loads : Present(l)' <=> Present(l)
<1> USE DEF Daemon
<1>1. \A o \in {onion, inner} \cup {search[s].of : s \in Searches} :
        o # None => o \in Onion /\ o[1] \in Loads /\ layers'[o[1]] = layers[o[1]]
  <2> SUFFICES ASSUME NEW o \in {onion, inner} \cup {search[s].of : s \in Searches}, o # None
               PROVE  o \in Onion /\ o[1] \in Loads /\ layers'[o[1]] = layers[o[1]]
    OBVIOUS
  <2>1. o \in Onion BY DEF IInv, TypeOK, TypeDjb
  <2>2. o[1] \in Loads BY <2>1 DEF Onion
  <2>3. Present(o[1]) BY DEF Present, OfLoad
  <2> QED BY <2>1, <2>2, <2>3
<1>2. Fitting'
  <2>1. \A o \in {onion, inner} \cup {search[s].of : s \in Searches} : Fits(o) => Fits(o)'
    BY <1>1 DEF Fits
  <2>2. /\ Fits(onion) /\ Fits(inner) /\ \A s \in Searches : Fits(search[s].of)
        /\ inner # None => inner[2] > 0 /\ layers[inner[1]][inner[2]] = "pow"
        /\ \A s \in Searches : search[s].at = "search" /\ ~crashed => search[s].of # None
    BY DEF IInv, DjbInv, Fitting
  <2>3. Fits(onion)' /\ Fits(inner)' /\ \A s \in Searches : Fits(search[s].of)'
    <3>1. Fits(onion)' /\ Fits(inner)' BY <2>1, <2>2 DEF Fits
    <3>2. ASSUME NEW s \in Searches PROVE Fits(search[s].of)'
      BY <2>1, <2>2 DEF Fits
    <3> QED BY <3>1, <3>2
  <2>4. inner # None => layers'[inner[1]] = layers[inner[1]] BY <1>1
  <2> QED BY <2>2, <2>3, <2>4 DEF Fitting
<1>3. Searched'
  <2>1. onion # None => Type(onion)' = Type(onion) BY <1>1 DEF Type
  <2> QED BY <2>1 DEF IInv, DjbInv, Searched, AtWork, Searching, Inside
<1>4. FreedBefore' /\ Stored' BY DEF IInv, DjbInv, FreedBefore, Stored, FilesKnown
<1>5. \A l \in Loads : Present(l)' <=> Present(l) BY DEF Present, OfLoad
<1> QED BY <1>2, <1>3, <1>4, <1>5 DEF DjbInv

-----------------------------------------------------------------------------
\* The beginning, and the page with its user

LEMMA RequestIs ==
  ASSUME load \in Loads, NEW kind \in {"reset", "gen", "image", "peel"},
         NEW answer \in Places \cup {None}, NEW n \in Copies
  PROVE  /\ Request(kind, answer, n) \in Requests
         /\ Request(kind, answer, n) = [kind |-> kind, load |-> load, answer |-> answer, n |-> n]
         /\ Request(kind, answer, n).kind = kind /\ Request(kind, answer, n).load = load
BY DEF Request, Requests

LEMMA OneCopy == 1 \in Copies
BY InFlightAssumption DEF Copies

LEMMA Numbers == Loads \subseteq Nat
BY LoadsAssumption DEF Loads

LEMMA InitInv == Init => IInv
<1> SUFFICES ASSUME Init PROVE IInv OBVIOUS
<1>1. /\ password = None /\ onion = None /\ image = None /\ captcha = None
      /\ files = {} /\ freed = {} /\ started = FALSE /\ finished = FALSE /\ inner = None
      /\ search = [s \in Searches |-> [at |-> "end", of |-> None]]
      /\ net = None /\ layers = [l \in Loads |-> <<>>] /\ crashed = FALSE /\ cut = {}
  BY DEF Init
<1>2. /\ load = 1 /\ stage = "reset" /\ wire = {Request("reset", None, 1)}
      /\ shown = "" /\ listeners = {} /\ disabled = FALSE /\ due = FALSE
      /\ status = "" /\ picture = None
  BY DEF Init
<1>3. 1 \in Loads BY LoadsAssumption DEF Loads
<1>4. TypeOK
  <2>1. TypeDjb BY <1>1 DEF TypeDjb
  <2>2. wire \subseteq Requests
    <3>1. load \in Loads BY <1>2, <1>3
    <3>2. Request("reset", None, 1) \in Requests BY <3>1, OneCopy, RequestIs
    <3> QED BY <1>2, <3>2
  <2>3. TypePage BY <1>2, <1>3, <2>2 DEF TypePage
  <2> QED BY <1>1, <2>1, <2>3 DEF TypeOK
<1>5. NotYet BY <1>1 DEF NotYet, Present, OfLoad
<1>6. Unfetched BY <1>1 DEF Unfetched
<1>7. Asked
  <2>1. load \in Loads /\ load \in Nat BY <1>2, <1>3
  <2>2. Request("reset", None, 1).kind = "reset" /\ Request("reset", None, 1).load = load
    BY <2>1, OneCopy, RequestIs
  <2>3. \A r \in wire : r.kind = "reset" /\ r.load = load BY <1>2, <2>2
  <2> QED BY <2>1, <2>3 DEF Asked, Once
<1>8. Fitting BY <1>1 DEF Fitting, Fits
<1>9. Searched BY <1>1 DEF Searched, Searching
<1>10. FreedBefore /\ Stored BY <1>1 DEF FreedBefore, Stored, FilesKnown
<1> QED BY <1>4, <1>5, <1>6, <1>7, <1>8, <1>9, <1>10 DEF IInv, PageInv, DjbInv

LEMMA LoadInv == ASSUME IInv, Load PROVE IInv'
<1> DEFINE q == [kind |-> "reset", load |-> load', answer |-> None, n |-> 1]
<1>0. load < MaxLoads /\ load' = load + 1 BY DEF Load
<1>1. /\ stage' = "reset" /\ wire' = wire \cup {q}
      /\ shown' = "" /\ listeners' = {} /\ disabled' = FALSE /\ due' = FALSE
      /\ status' = "" /\ picture' = None
      /\ UNCHANGED <<onionVars, powVars, envVars>>
  BY DEF Load
<1>2. load \in Nat /\ load' \in Loads /\ load' \in Nat
  <2>1. load \in Loads BY DEF IInv, TypeOK, TypePage
  <2> QED BY <1>0, <2>1, LoadsAssumption DEF Loads
<1> HIDE DEF q
<1>3. UNCHANGED Daemon /\ UNCHANGED <<password, net, layers>>
  BY <1>1 DEF Daemon, onionVars, powVars, envVars
<1>4. q \in Requests /\ q.kind = "reset" /\ q.load = load'
  BY <1>2, OneCopy DEF Requests, q
<1>5. TypeOK'
  <2>1. TypePage' BY <1>1, <1>2, <1>4 DEF IInv, TypeOK, TypePage
  <2>2. TypeDjb' BY <1>3 DEF IInv, TypeOK, TypeDjb, Daemon
  <2> QED BY <1>3, <2>1, <2>2 DEF IInv, TypeOK, Daemon
<1>6. DjbInv' /\ \A l \in Loads : Present(l)' <=> Present(l) BY <1>3, StillDjb
<1>7. \A l \in Loads : (Unseen(l)' => Unseen(l)) /\ (Fresh(l)' => Fresh(l))
  <2>1. \A l \in Loads : Unseen(l)' => Unseen(l) 
    <3> SUFFICES ASSUME NEW l \in Loads, Unseen(l)' PROVE l > load BY DEF Unseen
    <3>1. l \in Nat /\ (l > load' \/ l = load') BY Numbers DEF Unseen
    <3> QED BY <1>0, <1>2, <3>1
  <2> SUFFICES ASSUME NEW l \in Loads, NEW r \in wire', r.kind = "image", r.load = l
               PROVE  Fresh(l)
    BY <2>1 DEF Fresh
  <2>2. r \in wire BY <1>1, <1>4
  <2> QED BY <2>2 DEF Fresh
<1>8. NotYet' BY <1>6, <1>7, NotYetKept DEF IInv, PageInv
<1>9. Unfetched' BY <1>3, <1>7 DEF IInv, PageInv, Unfetched
<1>10. Asked'
  <2> SUFFICES ASSUME NEW r \in wire'
      PROVE /\ r.load <= load'
            /\ r.kind \in Once => r = [kind |-> r.kind, load |-> r.load, answer |-> None, n |-> 1]
            /\ r.kind \in Once /\ r.load = load' => stage' = r.kind
            /\ r.kind = "image" => layers[r.load] \in Onions
    BY <1>3 DEF Asked
  <2>1. CASE r = q BY <1>2, <1>4, <2>1 DEF Once
  <2>2. CASE r \in wire
    <3>1. /\ r.load <= load
          /\ r.kind \in Once => r = [kind |-> r.kind, load |-> r.load, answer |-> None, n |-> 1]
          /\ r.kind = "image" => layers[r.load] \in Onions
      BY <2>2 DEF IInv, PageInv, Asked
    <3>2. r.load \in Nat BY <2>2, Numbers DEF IInv, TypeOK, TypePage, Requests
    <3>3. r.load <= load BY <3>1
    <3>4. r.load <= load' /\ r.load # load' BY <1>0, <1>2, <3>2, <3>3
    <3> QED BY <3>1, <3>4
  <2> QED BY <1>1, <2>1, <2>2
<1> QED BY <1>5, <1>6, <1>8, <1>9, <1>10 DEF IInv, PageInv

LEMMA NotLess == \A m \in Nat : m <= m
OBVIOUS

\* Its other steps: the page sends requests.
LEMMA Sends ==
  ASSUME IInv, UNCHANGED Daemon, UNCHANGED <<password, net, layers, load>>,
         NEW sent, wire' = wire \cup sent, sent \subseteq Requests,
         \A r \in sent : r.load = load /\ r.kind # "image",
         \/ stage' = stage /\ \A r \in sent : r.kind \notin Once
         \/ stage \in {"reset", "enter"} /\ stage' = "gen" /\ sent = {Request("gen", None, 1)},
         shown' \in Types \cup {""}, listeners' \subseteq {"peel", "answer"},
         disabled' \in BOOLEAN, due' \in BOOLEAN, picture' \in Places \cup {None},
         status' \in {"", "text", "number", "full", "picture", "failed"}
  PROVE  IInv'
<1>1. TypeOK'
  <2>1. TypePage' BY DEF IInv, TypeOK, TypePage
  <2>2. TypeDjb' BY DEF IInv, TypeOK, TypeDjb, Daemon
  <2> QED BY <2>1, <2>2 DEF IInv, TypeOK, Daemon
<1>2. DjbInv' /\ \A l \in Loads : Present(l)' <=> Present(l) BY StillDjb
<1>3. \A l \in Loads : (Unseen(l)' => Unseen(l)) /\ (Fresh(l)' => Fresh(l))
  <2>1. \A l \in Loads : Unseen(l)' => Unseen(l) BY DEF Unseen
  <2> QED BY <2>1 DEF Fresh
<1>4. NotYet' BY <1>2, <1>3, NotYetKept DEF IInv, PageInv
<1>5. Unfetched' BY <1>3 DEF IInv, PageInv, Unfetched
<1>6. load \in Loads /\ load \in Nat BY Numbers DEF IInv, TypeOK, TypePage
<1>7. Asked'
  <2> SUFFICES ASSUME NEW r \in wire'
      PROVE /\ r.load <= load
            /\ r.kind \in Once => r = [kind |-> r.kind, load |-> r.load, answer |-> None, n |-> 1]
            /\ r.kind \in Once /\ r.load = load => stage' = r.kind
            /\ r.kind = "image" => layers[r.load] \in Onions
    BY DEF Asked
  <2>1. CASE r \in sent
    <3>0. r.load = load /\ r.load <= load /\ r.kind # "image"
      <4>1. r.load = load /\ r.kind # "image" BY <2>1
      <4>2. load <= load BY <1>6, NotLess, Zenon
      <4> QED BY <4>1, <4>2, Zenon
    <3>1. CASE r = Request("gen", None, 1) /\ stage' = "gen"
      <4>1. r = [kind |-> "gen", load |-> load, answer |-> None, n |-> 1]
        BY <1>6, <3>1, OneCopy, RequestIs
      <4>2. r.kind = "gen" BY <4>1
      <4> QED BY <3>0, <3>1, <4>1, <4>2, Zenon
    <3>2. CASE r.kind \notin Once BY <3>0, <3>2 DEF Once
    <3> QED BY <2>1, <3>1, <3>2
  <2>2. CASE r \in wire
    <3>1. /\ r.load <= load
          /\ r.kind \in Once => r = [kind |-> r.kind, load |-> r.load, answer |-> None, n |-> 1]
          /\ r.kind \in Once /\ r.load = load => stage = r.kind
          /\ r.kind = "image" => layers[r.load] \in Onions
      BY <2>2 DEF IInv, PageInv, Asked
    <3> QED BY <3>1 DEF Once
  <2> QED BY <2>1, <2>2
<1> QED BY <1>1, <1>2, <1>4, <1>5, <1>7 DEF IInv, PageInv

LEMMA ClickGoInv == ASSUME IInv, ClickGo PROVE IInv'
<1>1. /\ wire' = wire \cup {Request("gen", None, 1)} /\ stage' = "gen"
      /\ stage \in {"reset", "enter"}
      /\ UNCHANGED Daemon /\ UNCHANGED <<password, net, layers, load>>
      /\ UNCHANGED viewVars
  BY DEF ClickGo, Daemon, onionVars, powVars, envVars
<1>2. Request("gen", None, 1) \in Requests /\ Request("gen", None, 1).load = load
      /\ Request("gen", None, 1).kind = "gen"
  BY OneCopy, RequestIs DEF IInv, TypeOK, TypePage
<1>3. /\ shown' \in Types \cup {""} /\ listeners' \subseteq {"peel", "answer"}
      /\ disabled' \in BOOLEAN /\ due' \in BOOLEAN /\ picture' \in Places \cup {None}
      /\ status' \in {"", "text", "number", "full", "picture", "failed"}
  BY <1>1 DEF IInv, TypeOK, TypePage, viewVars
<1> DEFINE sent == {Request("gen", None, 1)}
<1>4. sent \subseteq Requests /\ \A r \in sent : r.load = load /\ r.kind # "image"
  BY <1>2
<1> HIDE DEF sent
<1>5. wire' = wire \cup sent /\ sent = {Request("gen", None, 1)} BY <1>1 DEF sent
<1> QED BY <1>1, <1>3, <1>4, <1>5, Sends

LEMMA SendInv ==
  ASSUME IInv, NEW answers, answers \subseteq Places \cup {None}, Send(answers), due' \in BOOLEAN
  PROVE  IInv'
<1>1. PICK n \in Copies : wire' = wire \cup {Request("peel", a, n) : a \in answers}
  BY DEF Send
<1>2. /\ UNCHANGED Daemon /\ UNCHANGED <<password, net, layers, load, stage>>
      /\ UNCHANGED <<shown, listeners, disabled, status, picture>>
  BY DEF Send, Daemon, onionVars, powVars, envVars
<1> DEFINE sent == {Request("peel", a, n) : a \in answers}
<1>3. \A r \in sent : r \in Requests /\ r.load = load /\ r.kind = "peel"
  <2> SUFFICES ASSUME NEW r \in sent PROVE r \in Requests /\ r.load = load /\ r.kind = "peel"
    OBVIOUS
  <2>1. PICK a \in answers : r = Request("peel", a, n) OBVIOUS
  <2>2. a \in Places \cup {None} /\ load \in Loads BY DEF IInv, TypeOK, TypePage
  <2> QED BY <2>1, <2>2, RequestIs
<1>4. /\ shown' \in Types \cup {""} /\ listeners' \subseteq {"peel", "answer"}
      /\ disabled' \in BOOLEAN /\ picture' \in Places \cup {None}
      /\ status' \in {"", "text", "number", "full", "picture", "failed"}
  BY <1>2 DEF IInv, TypeOK, TypePage
<1>5. wire' = wire \cup sent BY <1>1
<1> HIDE DEF sent
<1>6. sent \subseteq Requests /\ \A r \in sent : r.kind \notin Once BY <1>3 DEF Once
<1> QED BY <1>2, <1>3, <1>4, <1>5, <1>6, Sends

LEMMA UserInv == ASSUME IInv, ClickPeel \/ ClickCaptcha \/ Poll PROVE IInv'
<1>1. CASE ClickPeel BY <1>1, SendInv DEF ClickPeel, IInv, TypeOK, TypePage
<1>2. CASE ClickCaptcha
  <2>1. PICK answer \in {picture, None} :
          Send({IF l = "answer" THEN answer ELSE None : l \in listeners})
    BY <1>2 DEF ClickCaptcha
  <2>2. due' \in BOOLEAN /\ answer \in Places \cup {None}
    BY <1>2 DEF ClickCaptcha, IInv, TypeOK, TypePage
  <2> DEFINE answers == {IF l = "answer" THEN answer ELSE None : l \in listeners}
  <2>3. answers \subseteq Places \cup {None} BY <2>2
  <2> QED BY <2>1, <2>2, <2>3, SendInv
<1>3. CASE Poll BY <1>3, SendInv DEF Poll
<1> QED BY <1>1, <1>2, <1>3

LEMMA FetchImageInv == ASSUME IInv, FetchImage PROVE IInv'
<1> DEFINE q == Request("image", None, 1)
<1>1. PICK o \in Onions : layers' = [layers EXCEPT ![load] = o] BY DEF FetchImage
<1>2. /\ stage = "fetch" /\ stage' = "image" /\ wire' = wire \cup {q}
      /\ UNCHANGED Daemon /\ UNCHANGED <<password, net, load, viewVars>>
  BY DEF FetchImage, Daemon, onionVars, powVars
<1>3. /\ load \in Loads /\ load \in Nat
      /\ q = [kind |-> "image", load |-> load, answer |-> None, n |-> 1] /\ q \in Requests
  BY OneCopy, RequestIs, Numbers DEF IInv, TypeOK, TypePage
<1>4. Unseen(load) /\ ~Present(load)
  <2>1. Unseen(load) BY <1>2 DEF Unseen
  <2> QED BY <1>3, <2>1 DEF Fresh, IInv, PageInv, NotYet
<1>5. /\ layers' \in [Loads -> Onions \cup {<<>>}] /\ layers'[load] = o
      /\ \A l \in Loads : l # load => layers'[l] = layers[l]
  BY <1>1, <1>3 DEF IInv, TypeOK, TypeDjb
<1>6. DjbInv' /\ \A l \in Loads : Present(l)' <=> Present(l) BY <1>2, <1>4, <1>5, StillDjb
<1>7. TypeOK'
  <2>1. TypePage' BY <1>2, <1>3 DEF IInv, TypeOK, TypePage, viewVars
  <2>2. TypeDjb' BY <1>2, <1>5 DEF IInv, TypeOK, TypeDjb, Daemon
  <2> QED BY <1>2, <2>1, <2>2 DEF IInv, TypeOK, Daemon
<1>8. \A l \in Loads : (Unseen(l)' => Unseen(l) /\ l # load) /\ (Fresh(l)' => Fresh(l))
  <2>1. \A l \in Loads : Unseen(l)' => Unseen(l) /\ l # load BY <1>2, <1>3, Numbers DEF Unseen
  <2> QED BY <1>2, <1>3, <1>4, <2>1 DEF Fresh
<1>9. NotYet' BY <1>6, <1>8, NotYetKept DEF IInv, PageInv
<1>10. Unfetched' BY <1>5, <1>8 DEF IInv, PageInv, Unfetched
<1>11. Asked'
  <2> SUFFICES ASSUME NEW r \in wire'
      PROVE /\ r.load <= load
            /\ r.kind \in Once => r = [kind |-> r.kind, load |-> r.load, answer |-> None, n |-> 1]
            /\ r.kind \in Once /\ r.load = load => stage' = r.kind
            /\ r.kind = "image" => layers'[r.load] \in Onions
    BY <1>2 DEF Asked
  <2>1. CASE r = q BY <1>2, <1>3, <1>5, <2>1 DEF Once
  <2>2. CASE r \in wire
    <3>1. /\ r.load <= load /\ r.load \in Loads
          /\ r.kind \in Once => r = [kind |-> r.kind, load |-> r.load, answer |-> None, n |-> 1]
          /\ r.kind \in Once /\ r.load = load => stage = r.kind
          /\ r.kind = "image" => layers[r.load] \in Onions
      BY <2>2 DEF IInv, PageInv, Asked, TypeOK, TypePage, Requests
    <3> QED BY <1>2, <1>5, <3>1 DEF Once
  <2> QED BY <1>2, <2>1, <2>2
<1> QED BY <1>6, <1>7, <1>9, <1>10, <1>11 DEF IInv, PageInv

-----------------------------------------------------------------------------
\* rdv_reset(), rdv_gen_request(), rdv_image()

\* What all the handlers leave alone, and what their requests do to the page.
LEMMA HandlerInv ==
  ASSUME IInv, NEW r, NEW kind, Serve(r, kind), UNCHANGED <<load, layers>>,
         \/ stage' = stage
         \/ kind = "reset" /\ stage = "reset" /\ stage' = "enter"
         \/ kind = "gen" /\ r.load = load /\ stage' = "fetch"
         \/ kind = "image" /\ r.load = load /\ stage' = "onion",
         \A l \in Loads : Fresh(l)' /\ Present(l)' => Present(l),
         DjbInv', TypeDjb', (onion = None <=> image = None)',
         shown' \in Types \cup {""}, listeners' \subseteq {"peel", "answer"},
         disabled' \in BOOLEAN, due' \in BOOLEAN, picture' \in Places \cup {None},
         status' \in {"", "text", "number", "full", "picture", "failed"}
  PROVE  IInv'
<1>1. /\ Asked' /\ Unfetched' /\ wire' \subseteq Requests /\ stage' \in Stages
      /\ \A l \in Loads : Fresh(l)' => Fresh(l)
  BY Served
<1>2. NotYet' BY <1>1 DEF NotYet, IInv, PageInv
<1>3. TypePage' BY <1>1 DEF IInv, TypeOK, TypePage, Stages
<1> QED BY <1>1, <1>2, <1>3 DEF IInv, PageInv, TypeOK

\* The display, when no answer reaches the page.
LEMMA SameView ==
  ASSUME IInv, UNCHANGED viewVars
  PROVE  /\ shown' \in Types \cup {""} /\ listeners' \subseteq {"peel", "answer"}
         /\ disabled' \in BOOLEAN /\ due' \in BOOLEAN /\ picture' \in Places \cup {None}
         /\ status' \in {"", "text", "number", "full", "picture", "failed"}
BY DEF IInv, TypeOK, TypePage, viewVars

\* The requests that change nothing djb has.
LEMMA QuietInv ==
  ASSUME IInv, NEW r, GenRequest(r) \/ GenRequestFailed(r) \/ PeelNothing(r)
  PROVE  IInv'
<1>1. PICK kind : /\ Serve(r, kind)
                  /\ \/ stage' = stage
                     \/ kind = "gen" /\ r.load = load /\ stage' = "fetch"
  BY DEF GenRequest, GenRequestFailed, PeelNothing, Advance, pageVars
<1>2. UNCHANGED Daemon /\ UNCHANGED <<load, layers, net, viewVars>>
  BY DEF GenRequest, GenRequestFailed, PeelNothing, Daemon, onionVars, powVars, envVars, pageVars
<1>3. password' \in Loads \cup {None}
  <2>1. r \in Requests BY <1>1 DEF Serve, IInv, TypeOK, TypePage
  <2> QED BY <2>1 DEF GenRequest, GenRequestFailed, PeelNothing, onionVars, IInv, TypeOK,
                      TypeDjb, Requests
<1>4. TypeDjb' /\ (onion = None <=> image = None)'
  BY <1>2, <1>3 DEF IInv, TypeOK, TypeDjb, Daemon
<1>5. DjbInv' /\ \A l \in Loads : Present(l)' <=> Present(l) BY <1>2, StillDjb
<1>6. UNCHANGED viewVars BY <1>2
<1> QED BY <1>1, <1>2, <1>4, <1>5, <1>6, SameView, HandlerInv

LEMMA ResetInv == ASSUME IInv, NEW r, Reset(r) PROVE IInv'
<1>1. /\ Serve(r, "reset")
      /\ password' = None /\ onion' = None /\ captcha' = None /\ image' = None
      /\ freed' = freed \cup (({onion} \cup IF started THEN {inner} ELSE {}) \ {None})
      /\ cut' = cut \cup {c \in {"search"} : \E s \in Searches : Searching(s)}
      /\ UNCHANGED <<search, net, layers, crashed, load, viewVars>>
      /\ stage' = stage \/ (stage = "reset" /\ stage' = "enter")
  BY DEF Reset, ImageForgotten
<1>2. files' = WithoutImage BY DEF Reset
<1>3. IF started THEN started' = FALSE /\ finished' = FALSE /\ inner' = None
                 ELSE UNCHANGED <<started, finished, inner>>
  BY DEF Reset, PowReset
<1>4. files' \subseteq files BY <1>2 DEF WithoutImage, WithoutCaptcha
<1>5. TypeDjb'
  <2>1. freed' \subseteq Onion BY <1>1 DEF IInv, TypeOK, TypeDjb
  <2>2. cut' \subseteq {"search", "image"} BY <1>1 DEF IInv, TypeOK, TypeDjb
  <2>3. started' \in BOOLEAN /\ finished' \in BOOLEAN /\ inner' \in Onion \cup {None}
    BY <1>3 DEF IInv, TypeOK, TypeDjb
  <2> QED BY <1>1, <1>4, <2>1, <2>2, <2>3 DEF IInv, TypeOK, TypeDjb
<1>6. \A l \in Loads : Present(l)' => Present(l)
  <2> SUFFICES ASSUME NEW l \in Loads, Present(l)' PROVE Present(l) OBVIOUS
  <2>1. OfLoad(inner, l)' => OfLoad(inner, l) BY <1>3 DEF OfLoad
  <2>2. ASSUME NEW f \in freed', f[1] = l PROVE Present(l)
    BY <1>1, <2>2 DEF Present, OfLoad
  <2> QED BY <1>1, <2>1, <2>2 DEF Present, OfLoad
<1>7. Fitting'
  <2>1. \/ inner' = None \/ inner' = inner BY <1>3
  <2> QED BY <1>1, <2>1 DEF IInv, DjbInv, Fitting, Fits
<1>8. Searched'
  <2> SUFFICES ASSUME cut' = {}
               PROVE  ~started' /\ ~finished' /\ inner' = None /\ \A s \in Searches : ~Searching(s)'
    BY DEF Searched
  <2>1. cut = {} /\ \A s \in Searches : ~Searching(s) BY <1>1
  <2>2. ~started => ~finished /\ inner = None BY <2>1 DEF IInv, DjbInv, Searched
  <2> QED BY <1>1, <1>3, <2>1, <2>2 DEF Searching
<1>9. FreedBefore' BY <1>1 DEF FreedBefore
<1>10. Stored'
  <2> SUFFICES ASSUME "image" \notin cut', NEW f \in files'
               PROVE  \/ f[1] \in {"left", "stray"}
                      \/ f[1] = "dir" /\ <<"stray", f[2]>> \in files'
    BY <1>1 DEF Stored, FilesKnown
  <2>1. "image" \notin cut /\ f \in files BY <1>1, <1>4
  <2>2. f \in {"dir", "image", "captcha", "left", "stray"} \X Loads
    BY <2>1 DEF IInv, TypeOK, TypeDjb
  <2>3. CASE f[1] \in {"left", "stray"} BY <2>3
  <2>4. CASE f[1] = "dir" /\ <<"stray", f[2]>> \in files
    BY <1>2, <2>4 DEF WithoutImage, WithoutCaptcha
  <2>5. CASE f[2] = image /\ (f[1] = "captcha" => captcha # None) /\ f[1] \notin {"left", "stray"}
    <3>1. f = <<f[1], image>> /\ f[1] \in {"dir", "image", "captcha"} BY <2>2, <2>5
    <3>2. f # <<"image", image>> BY <1>2 DEF WithoutImage
    <3>3. captcha # None => <<"captcha", image>> \notin files' BY <1>2 DEF WithoutImage, WithoutCaptcha
    <3>4. f = <<"dir", image>> BY <2>5, <3>1, <3>2, <3>3
    <3>5. \/ <<"stray", image>> \in files' \/ <<"captcha", image>> \in files'
      BY <1>2, <3>4 DEF WithoutImage
    <3>6. <<"captcha", image>> \in files' => captcha # None
      <4>1. <<"captcha", image>> \in files' => <<"captcha", image>> \in files BY <1>4
      <4> QED BY <2>1, <4>1 DEF IInv, DjbInv, Stored, FilesKnown
    <3> QED BY <2>5, <3>3, <3>4, <3>5, <3>6
  <2> QED BY <2>1, <2>3, <2>4, <2>5 DEF IInv, DjbInv, Stored, FilesKnown
<1>11. DjbInv' BY <1>7, <1>8, <1>9, <1>10 DEF DjbInv
<1>12. UNCHANGED viewVars /\ UNCHANGED <<load, layers>> BY <1>1
<1>13. (onion = None <=> image = None)' BY <1>1
<1> QED BY <1>1, <1>5, <1>6, <1>11, <1>12, <1>13, SameView, HandlerInv

LEMMA ImageFailedInv == ASSUME IInv, NEW r, ImageFailed(r) PROVE IInv'
<1>1. /\ Serve(r, "image") /\ files' \in {files, files \cup {<<"left", r.load>>}}
      /\ UNCHANGED <<password, onion, image, captcha, freed, powVars, envVars, pageVars>>
  BY DEF ImageFailed
<1>2. /\ UNCHANGED <<password, onion, image, captcha, freed, started, finished, inner, search>>
      /\ UNCHANGED <<net, layers, crashed, cut, load, stage, viewVars>>
  BY <1>1 DEF powVars, envVars, pageVars
<1>3. r.load \in Loads BY <1>1 DEF Serve, IInv, TypeOK, TypePage, Requests
<1>4. TypeDjb' /\ (onion = None <=> image = None)'
  BY <1>1, <1>2, <1>3 DEF IInv, TypeOK, TypeDjb
<1>5. Stored' BY <1>1, <1>2 DEF IInv, DjbInv, Stored, FilesKnown
<1>6. Fitting' BY <1>2 DEF IInv, DjbInv, Fitting, Fits
<1>7. Searched' BY <1>2 DEF IInv, DjbInv, Searched, AtWork, Searching, Type, Inside
<1>8. FreedBefore' BY <1>2 DEF IInv, DjbInv, FreedBefore
<1>9. DjbInv' BY <1>5, <1>6, <1>7, <1>8 DEF DjbInv
<1>10. \A l \in Loads : Present(l)' => Present(l) BY <1>2 DEF Present, OfLoad
<1>11. UNCHANGED viewVars /\ UNCHANGED <<load, layers>> /\ stage' = stage BY <1>2
<1> QED BY <1>1, <1>4, <1>9, <1>10, <1>11, SameView, HandlerInv

LEMMA ImageInv == ASSUME IInv, NEW r, Image(r) PROVE IInv'
<1> DEFINE new == <<r.load, 0, None>>
<1>1. /\ Serve(r, "image") /\ onion' = new /\ image' = r.load
      /\ files' = files \cup {<<"image", r.load>>, <<"dir", r.load>>}
      /\ cut' = cut \cup {c \in {"image"} : onion # None}
      /\ UNCHANGED <<password, captcha, freed, started, finished, inner, search>>
      /\ UNCHANGED <<net, layers, crashed, load>>
      /\ stage' = stage \/ (r.load = load /\ stage' = "onion")
      /\ Show(r, layers[r.load][1], "text")
  BY DEF Image, powVars, Advance
<1>2. /\ r \in wire /\ r.kind = "image" /\ r.load \in Loads /\ layers[r.load] \in Onions
      /\ r.load <= load
      /\ r = [kind |-> "image", load |-> r.load, answer |-> None, n |-> 1]
      /\ r.load = load => stage = "image"
  <2>1. r \in wire /\ r.kind = "image" BY <1>1 DEF Serve
  <2> QED BY <2>1 DEF IInv, PageInv, Asked, TypeOK, TypePage, Requests, Once
<1>3. new \in Onion /\ new[1] = r.load /\ new[2] = 0 /\ new # None
  BY <1>2, NoneAssumption DEF Onion
<1>4. Fits(new) /\ Type(new) \in Types /\ layers[r.load][1] = Type(new)
  <2>1. layers[r.load] \in Seq(Types) /\ layers[r.load] # <<>> BY <1>2, OnionsAssumption
  <2>2. Len(layers[r.load]) > 0 BY <2>1
  <2>3. Fits(new) BY <1>2, <1>3, <2>2 DEF Fits
  <2>4. Type(new) \in Types BY <1>3, <2>3, HasLayer DEF IInv
  <2> QED BY <1>3, <2>3, <2>4 DEF Type
<1> HIDE DEF new
<1>5. Fresh(r.load) /\ ~Present(r.load)
  <2>1. Fresh(r.load) BY <1>2 DEF Fresh
  <2> QED BY <1>2, <2>1 DEF IInv, PageInv, NotYet
<1>6. ~(Fresh(r.load)')
  <2>1. \A q \in wire' : ~(q.kind = "image" /\ q.load = r.load)
    <3> SUFFICES ASSUME NEW q \in wire', q.kind = "image", q.load = r.load PROVE FALSE OBVIOUS
    <3>1. q \in wire /\ q # r BY <1>1 DEF Serve
    <3>2. q = [kind |-> q.kind, load |-> q.load, answer |-> None, n |-> 1]
      BY <3>1 DEF IInv, PageInv, Asked, Once
    <3> QED BY <1>2, <3>1, <3>2
  <2>2. ~(Unseen(r.load)')
    <3>1. load \in Nat /\ r.load \in Nat BY <1>2, Numbers DEF IInv, TypeOK, TypePage
    <3>2. ~(r.load > load) BY <1>2, <3>1
    <3>3. r.load = load => stage' \in {"image", "onion"} BY <1>1, <1>2
    <3> QED BY <1>1, <3>2, <3>3 DEF Unseen
  <2> QED BY <2>1, <2>2 DEF Fresh
<1>7. \A l \in Loads : Fresh(l)' /\ Present(l)' => Present(l)
  BY <1>1, <1>3, <1>6 DEF Present, OfLoad
<1>8. TypeDjb'
  <2>1. cut' \subseteq {"search", "image"} BY <1>1 DEF IInv, TypeOK, TypeDjb
  <2>2. files' \subseteq {"dir", "image", "captcha", "left", "stray"} \X Loads
    BY <1>1, <1>2 DEF IInv, TypeOK, TypeDjb
  <2> QED BY <1>1, <1>2, <1>3, <2>1, <2>2 DEF IInv, TypeOK, TypeDjb
<1>9. (onion = None <=> image = None)' BY <1>1, <1>2, <1>3, NoneAssumption
<1>10. Fitting' BY <1>1, <1>4 DEF IInv, DjbInv, Fitting, Fits
<1>11. Searched'
  <2> SUFFICES ASSUME cut' = {}
               PROVE  ~started' /\ ~finished' /\ inner' = None /\ \A s \in Searches : ~Searching(s)'
    BY DEF Searched
  <2>1. cut = {} /\ onion = None BY <1>1
  <2> QED BY <1>1, <2>1 DEF IInv, DjbInv, Searched, Searching
<1>12. FreedBefore'
  <2>1. \A f \in freed : f[1] # r.load BY <1>5 DEF Present
  <2> QED BY <1>1, <1>3, <2>1 DEF FreedBefore
<1>13. Stored'
  <2> SUFFICES ASSUME "image" \notin cut', NEW f \in files'
               PROVE  \/ f[1] \in {"left", "stray"}
                      \/ f[1] = "dir" /\ <<"stray", f[2]>> \in files'
                      \/ f[2] = r.load /\ f[1] # "captcha"
    BY <1>1, <1>3 DEF Stored, FilesKnown
  <2>1. "image" \notin cut /\ onion = None /\ image = None BY <1>1 DEF IInv, TypeOK
  <2>2. CASE f \in files
    <3>1. f[2] # image BY <2>1, <2>2, NoneAssumption DEF IInv, TypeOK, TypeDjb
    <3> QED BY <1>1, <2>1, <2>2, <3>1 DEF IInv, DjbInv, Stored, FilesKnown
  <2>3. CASE f \in {<<"image", r.load>>, <<"dir", r.load>>} BY <2>3
  <2> QED BY <1>1, <2>2, <2>3
<1>14. DjbInv' BY <1>10, <1>11, <1>12, <1>13 DEF DjbInv
<1>15. captcha' \in Places \cup {None} /\ layers[r.load][1] \in Types
  BY <1>1, <1>4 DEF IInv, TypeOK, TypeDjb
<1>16. /\ shown' \in Types \cup {""} /\ listeners' \subseteq {"peel", "answer"}
       /\ disabled' \in BOOLEAN /\ due' \in BOOLEAN /\ picture' \in Places \cup {None}
       /\ status' \in {"", "text", "number", "full", "picture", "failed"}
  BY <1>1, <1>15, ShowFacts DEF IInv
<1> QED BY <1>1, <1>7, <1>8, <1>9, <1>14, <1>16, HandlerInv

-----------------------------------------------------------------------------
\* The peelers

\* A peel that is answered, whatever the peeler did to the onion.
LEMMA PeelerInv ==
  ASSUME IInv, NEW r, Serve(r, "peel"), UNCHANGED <<load, layers, stage>>,
         NEW type \in Types, NEW kind \in {"text", "number", "full", "picture", "failed"},
         Show(r, type, kind),
         \A l \in Loads : Present(l)' => Present(l),
         DjbInv', TypeDjb', (onion = None <=> image = None)'
  PROVE  IInv'
<1>1. captcha' \in Places \cup {None} BY DEF TypeDjb
<1>2. /\ shown' \in Types \cup {""} /\ listeners' \subseteq {"peel", "answer"}
      /\ disabled' \in BOOLEAN /\ due' \in BOOLEAN /\ picture' \in Places \cup {None}
      /\ status' \in {"", "text", "number", "full", "picture", "failed"}
  BY <1>1, ShowFacts DEF IInv
<1> QED BY <1>2, HandlerInv

\* The outermost layer has a type.
LEMMA Peeled ==
  ASSUME IInv, NEW r, NEW type, Peel(r, type)
  PROVE  /\ Serve(r, "peel") /\ onion # None /\ onion \in Onion /\ Fits(onion)
         /\ Type(onion) = type /\ type \in Types
<1>1. Serve(r, "peel") /\ onion # None /\ Type(onion) = type BY DEF Peel, Peelable
<1>2. onion \in Onion /\ Fits(onion) BY <1>1 DEF IInv, TypeOK, TypeDjb, DjbInv, Fitting
<1> QED BY <1>1, <1>2, HasLayer DEF IInv

\* The steps of a peel that leave the onion and its search as they are.
LEMMA SameInv ==
  ASSUME IInv, NEW r, NEW type \in Types, NEW kind \in {"text", "number", "full", "failed"},
         Serve(r, "peel"), Show(r, type, kind), net' \in Onion \cup {None},
         UNCHANGED <<onionVars, powVars, layers, crashed, cut, load, stage>>
  PROVE  IInv'
<1>1. UNCHANGED Daemon /\ UNCHANGED <<password, layers, load, stage>>
  BY DEF Daemon, onionVars, powVars
<1>2. DjbInv' /\ \A l \in Loads : Present(l)' <=> Present(l) BY <1>1, StillDjb
<1>3. TypeDjb' /\ (onion = None <=> image = None)'
  BY <1>1 DEF IInv, TypeOK, TypeDjb, Daemon
<1> QED BY <1>1, <1>2, <1>3, PeelerInv

LEMMA PeelBaseInv == ASSUME IInv, NEW r, PeelBase(r) PROVE IInv'
<1>1. Peel(r, "base") /\ net' \in {net, onion} /\ Show(r, "base", "text")
      /\ UNCHANGED <<onionVars, powVars, layers, crashed, cut, load, stage>>
  BY DEF PeelBase
<1>2. net' \in Onion \cup {None} BY <1>1 DEF IInv, TypeOK, TypeDjb
<1> QED BY <1>1, <1>2, Peeled, SameInv

\* What is inside a signature or a captcha takes the place of the onion.
LEMMA InwardsInv ==
  ASSUME IInv, onion # None, Type(onion) \in {"signed", "captcha"},
         Switch(Inside(onion, None)),
         UNCHANGED <<password, image, captcha, files, powVars, envVars>>
  PROVE  /\ DjbInv' /\ TypeDjb' /\ (onion = None <=> image = None)'
         /\ Type(onion)' \in Types
         /\ \A l \in Loads : Present(l)' => Present(l)
<1> DEFINE new == Inside(onion, None)
<1>1. onion \in Onion /\ Fits(onion) BY DEF IInv, TypeOK, TypeDjb, DjbInv, Fitting
<1>2. new \in Onion /\ new # None /\ new[1] = onion[1] /\ new[2] = onion[2] + 1
  BY <1>1, InsideIs
<1>3. /\ onion[1] \in Loads /\ onion[2] \in Nat /\ onion[2] + 1 < Len(layers[onion[1]])
      /\ layers[onion[1]] \in Onions
  BY <1>1, HasLayer DEF IInv
<1>4. Fits(new) BY <1>2, <1>3 DEF Fits
<1> HIDE DEF new
<1>5. /\ onion' = new /\ freed' = freed \cup {onion}
      /\ UNCHANGED <<password, image, captcha, files, started, finished, inner, search>>
      /\ UNCHANGED <<net, layers, crashed, cut>>
  BY DEF Switch, powVars, envVars, new
<1>6. TypeDjb' /\ (onion = None <=> image = None)'
  <2>1. freed' \subseteq Onion BY <1>1, <1>5 DEF IInv, TypeOK, TypeDjb
  <2> QED BY <1>2, <1>5, <2>1 DEF IInv, TypeOK, TypeDjb
<1>7. Type(onion)' \in Types
  <2>1. Type(new) \in Types BY <1>2, <1>4, HasLayer DEF IInv
  <2> QED BY <1>5, <2>1 DEF Type
<1>8. \A l \in Loads : Present(l)' => Present(l)
  BY <1>2, <1>5 DEF Present, OfLoad
<1>9. Fitting' BY <1>4, <1>5 DEF IInv, DjbInv, Fitting, Fits
<1>10. Searched' BY <1>5 DEF IInv, DjbInv, Searched, Searching
<1>11. FreedBefore'
  <2> SUFFICES ASSUME cut = {}, NEW f \in freed', f[1] = onion[1] PROVE f[2] < onion[2] + 1
    BY <1>2, <1>5 DEF FreedBefore
  <2>1. f \in Onion BY <1>1, <1>5 DEF IInv, TypeOK, TypeDjb
  <2>2. f[2] \in Nat BY <2>1 DEF Onion
  <2>3. CASE f \in freed
    <3>1. f[2] < onion[2] BY <2>3 DEF IInv, DjbInv, FreedBefore
    <3> QED BY <1>3, <2>2, <3>1
  <2>4. CASE f = onion BY <1>3, <2>4
  <2> QED BY <1>5, <2>3, <2>4
<1>12. Stored' BY <1>2, <1>5 DEF IInv, DjbInv, Stored, FilesKnown
<1> QED BY <1>6, <1>7, <1>8, <1>9, <1>10, <1>11, <1>12 DEF DjbInv

LEMMA PeelSignedInv == ASSUME IInv, NEW r, PeelSigned(r) PROVE IInv'
<1>1. /\ Peel(r, "signed")
      /\ UNCHANGED <<password, image, captcha, files, powVars, envVars, load, stage>>
  BY DEF PeelSigned
<1>2. /\ Serve(r, "peel") /\ onion # None /\ Type(onion) = "signed" BY <1>1, Peeled
<1>3. UNCHANGED <<load, layers, stage>> BY <1>1 DEF envVars
<1>4. CASE Switch(Inside(onion, None)) /\ Show(r, Type(onion'), "text")
  <2>1. /\ DjbInv' /\ TypeDjb' /\ (onion = None <=> image = None)' /\ Type(onion)' \in Types
        /\ \A l \in Loads : Present(l)' => Present(l)
    BY <1>1, <1>2, <1>4, InwardsInv
  <2>2. Type(onion)' = Type(onion') BY <1>3 DEF Type
  <2> QED BY <1>2, <1>3, <1>4, <2>1, <2>2, PeelerInv
<1>5. CASE UNCHANGED <<onion, freed>> /\ Show(r, "signed", "text")
  <2>1. UNCHANGED <<onionVars, powVars, layers, crashed, cut, load, stage>>
        /\ net' \in Onion \cup {None}
    BY <1>1, <1>5 DEF onionVars, envVars, IInv, TypeOK, TypeDjb
  <2> QED BY <1>2, <1>5, <2>1, SameInv DEF Types
<1> QED BY <1>4, <1>5 DEF PeelSigned

LEMMA PeelCaptchaAnswerInv == ASSUME IInv, NEW r, PeelCaptchaAnswer(r) PROVE IInv'
<1>1. /\ Peel(r, "captcha")
      /\ UNCHANGED <<password, image, captcha, files, powVars, envVars, load, stage>>
      /\ \/ Switch(Inside(onion, None)) \/ UNCHANGED <<onion, freed>>
      /\ Show(r, Type(onion'), "text")
  BY DEF PeelCaptchaAnswer
<1>2. /\ Serve(r, "peel") /\ onion # None /\ Type(onion) = "captcha" BY <1>1, Peeled
<1>3. UNCHANGED <<load, layers, stage>> BY <1>1 DEF envVars
<1>4. CASE Switch(Inside(onion, None))
  <2>1. /\ DjbInv' /\ TypeDjb' /\ (onion = None <=> image = None)' /\ Type(onion)' \in Types
        /\ \A l \in Loads : Present(l)' => Present(l)
    BY <1>1, <1>2, <1>4, InwardsInv
  <2>2. Type(onion)' = Type(onion') BY <1>3 DEF Type
  <2> QED BY <1>1, <1>2, <1>3, <2>1, <2>2, PeelerInv
<1>5. CASE UNCHANGED <<onion, freed>>
  <2>1. UNCHANGED <<onionVars, powVars, layers, crashed, cut, load, stage>>
        /\ net' \in Onion \cup {None}
    BY <1>1, <1>5 DEF onionVars, envVars, IInv, TypeOK, TypeDjb
  <2>2. Type(onion') = Type(onion) BY <1>5
  <2> QED BY <1>1, <1>2, <2>1, <2>2, SameInv DEF Types
<1> QED BY <1>1, <1>4, <1>5

LEMMA PeelCaptchaShowInv == ASSUME IInv, NEW r, PeelCaptchaShow(r) PROVE IInv'
<1> DEFINE others == files \ {<<"stray", image>>}
<1>1. /\ Peel(r, "captcha") /\ captcha = None
      /\ UNCHANGED <<password, onion, image, freed, started, finished, inner, search>>
      /\ UNCHANGED <<net, layers, crashed, cut, load, stage>>
      /\ \/ /\ captcha' = Place(onion) /\ files' = others \cup {<<"captcha", image>>}
            /\ Show(r, "captcha", "picture")
         \/ /\ files' \in {files, others \cup {<<"stray", image>>}}
            /\ UNCHANGED <<captcha, viewVars>>
  BY DEF PeelCaptchaShow, powVars, envVars
<1>2. /\ Serve(r, "peel") /\ onion # None /\ onion \in Onion BY <1>1, Peeled
<1>3. image \in Loads /\ image # None BY <1>2 DEF IInv, TypeOK, TypeDjb
<1>4. captcha' \in Places \cup {None} BY <1>1, <1>2, PlaceIs DEF IInv, TypeOK, TypeDjb
<1>5. files' \subseteq {"dir", "image", "captcha", "left", "stray"} \X Loads
  BY <1>1, <1>3 DEF IInv, TypeOK, TypeDjb
<1>6. TypeDjb' /\ (onion = None <=> image = None)'
  BY <1>1, <1>4, <1>5 DEF IInv, TypeOK, TypeDjb
<1>7. Fitting' BY <1>1 DEF IInv, DjbInv, Fitting, Fits
<1>8. Searched' BY <1>1 DEF IInv, DjbInv, Searched, AtWork, Searching, Type, Inside
<1>9. FreedBefore' BY <1>1 DEF IInv, DjbInv, FreedBefore
<1>10. Stored'
  <2> SUFFICES ASSUME "image" \notin cut, NEW f \in files'
               PROVE  \/ f[1] \in {"left", "stray"}
                      \/ f[1] = "dir" /\ <<"stray", f[2]>> \in files'
                      \/ f[2] = image /\ (f[1] = "captcha" => captcha' # None)
    BY <1>1, <1>2 DEF Stored, FilesKnown
  <2>1. f \in files \/ f \in {<<"captcha", image>>, <<"stray", image>>} BY <1>1
  <2>2. CASE f \in {<<"captcha", image>>, <<"stray", image>>} /\ f \notin files
    <3>1. f = <<"captcha", image>> => captcha' = Place(onion) BY <1>1, <2>2
    <3>2. Place(onion) # None BY <1>2, NoneAssumption DEF Place, Onion, Places
    <3> QED BY <2>2, <3>1, <3>2
  <2>3. CASE f \in files
    <3>1. \/ f[1] \in {"left", "stray"}
          \/ f[1] = "dir" /\ <<"stray", f[2]>> \in files
          \/ f[2] = image /\ f[1] # "captcha"
      BY <1>1, <2>3 DEF IInv, DjbInv, Stored, FilesKnown
    <3>2. f[1] = "dir" /\ <<"stray", f[2]>> \in files =>
             f[2] = image \/ <<"stray", f[2]>> \in files'
      BY <1>1
    <3>3. f[2] = image /\ f[1] = "dir" => f[1] # "captcha" OBVIOUS
    <3> QED BY <3>1, <3>2, <3>3
  <2> QED BY <2>1, <2>2, <2>3
<1>11. DjbInv' BY <1>7, <1>8, <1>9, <1>10 DEF DjbInv
<1>12. \A l \in Loads : Present(l)' => Present(l) BY <1>1 DEF Present, OfLoad
<1>13. CASE Show(r, "captcha", "picture")
  BY <1>1, <1>2, <1>6, <1>11, <1>12, <1>13, PeelerInv DEF Types
<1>14. CASE UNCHANGED viewVars
  BY <1>1, <1>2, <1>6, <1>11, <1>12, <1>14, SameView, HandlerInv
<1> QED BY <1>1, <1>13, <1>14

-----------------------------------------------------------------------------
\* The proof of work

LEMMA PeelPowStartInv == ASSUME IInv, NEW r, PeelPowStart(r) PROVE IInv'
<1>1. /\ Peel(r, "pow") /\ ~started
      /\ UNCHANGED <<onionVars, finished, inner, envVars, load, stage>>
  BY DEF PeelPowStart, MustStart
<1>2. /\ Serve(r, "peel") /\ onion # None /\ Type(onion) = "pow" BY <1>1, Peeled
<1>3. UNCHANGED <<password, onion, image, captcha, files, freed>>
      /\ UNCHANGED <<net, layers, crashed, cut>>
  BY <1>1 DEF onionVars, envVars
<1>4. CASE UNCHANGED <<started, search>> /\ Show(r, "pow", "text")
  <2>1. UNCHANGED <<onionVars, powVars, layers, crashed, cut, load, stage>>
        /\ net' \in Onion \cup {None}
    BY <1>1, <1>3, <1>4 DEF powVars, IInv, TypeOK, TypeDjb
  <2> QED BY <1>2, <1>4, <2>1, SameInv DEF Types
<1>5. ASSUME NEW s \in Searches, ~Searching(s),
             search' = [search EXCEPT ![s] = [at |-> "new", of |-> None]], started' = TRUE,
             NEW percent \in Percent, Show(r, "pow", percent)
      PROVE  IInv'
  <2>1. search \in [Searches -> [at : {"new", "search", "found", "end"}, of : Onion \cup {None}]]
    BY DEF IInv, TypeOK, TypeDjb
  <2>2. /\ search'[s] = [at |-> "new", of |-> None]
        /\ \A u \in Searches \ {s} : search'[u] = search[u]
    BY <1>5, <2>1
  <2>3. TypeDjb' /\ (onion = None <=> image = None)'
    <3>1. search' \in [Searches -> [at : {"new", "search", "found", "end"}, of : Onion \cup {None}]]
      BY <1>5, <2>1
    <3> QED BY <1>1, <1>3, <1>5, <3>1 DEF IInv, TypeOK, TypeDjb
  <2>4. \A l \in Loads : Present(l)' => Present(l)
    BY <1>1, <1>3, <2>2 DEF Present, OfLoad
  <2>5. Fitting'
    <3>1. \A u \in Searches : search'[u] = search[u] \/ search'[u] = [at |-> "new", of |-> None]
      BY <2>2
    <3> QED BY <1>1, <1>3, <3>1 DEF IInv, DjbInv, Fitting, Fits
  <2>6. Searched'
    <3> SUFFICES ASSUME cut = {} PROVE Type(onion)' = "pow" /\ AtWork(s)'
      BY <1>2, <1>3, <1>5 DEF Searched
    <3>1. ~finished /\ inner = None /\ \A u \in Searches : ~Searching(u)
      BY <1>1 DEF IInv, DjbInv, Searched
    <3>2. Type(onion)' = "pow" BY <1>2, <1>3 DEF Type
    <3> QED BY <1>1, <2>2, <3>1, <3>2 DEF AtWork, Searching
  <2>7. FreedBefore' /\ Stored' BY <1>3 DEF IInv, DjbInv, FreedBefore, Stored, FilesKnown
  <2>8. percent \in {"number", "full"} BY DEF Percent
  <2>9. DjbInv' BY <2>5, <2>6, <2>7 DEF DjbInv
  <2>10. UNCHANGED <<load, layers, stage>> BY <1>1, <1>3
  <2> QED BY <1>2, <1>5, <2>3, <2>4, <2>8, <2>9, <2>10, PeelerInv DEF Types
<1> QED BY <1>4, <1>5 DEF PeelPowStart

LEMMA PeelPowWaitInv ==
  ASSUME IInv, NEW r, PeelPowBusy(r) \/ PeelPowFailed(r)
  PROVE  IInv'
<1>1. PICK kind \in {"number", "full", "failed"} :
        /\ Peel(r, "pow") /\ Show(r, "pow", kind)
        /\ UNCHANGED <<onionVars, powVars, envVars, load, stage>>
  BY DEF PeelPowBusy, PeelPowFailed, Percent
<1>2. UNCHANGED <<onionVars, powVars, layers, crashed, cut, load, stage>>
      /\ net' \in Onion \cup {None}
  BY <1>1 DEF envVars, IInv, TypeOK, TypeDjb
<1> QED BY <1>1, <1>2, Peeled, SameInv

\* An undisturbed search that is over: what it found is inside the onion.
LEMMA Found ==
  ASSUME IInv, cut = {}, started, finished
  PROVE  /\ \A u \in Searches : ~Searching(u)
         /\ \E s \in Searches : /\ search[s] = [at |-> "end", of |-> onion]
                                /\ inner # None => inner = Inside(onion, s)
<1>1. PICK s \in Searches : AtWork(s) BY DEF IInv, DjbInv, Searched
<1>2. search[s] \in [at : {"new", "search", "found", "end"}, of : Onion \cup {None}]
  BY DEF IInv, TypeOK, TypeDjb
<1>3. search[s].at = "end" /\ search[s].of = onion BY <1>1 DEF AtWork
<1>4. search[s] = [at |-> "end", of |-> onion] BY <1>2, <1>3
<1>5. ~Searching(s) BY <1>3 DEF Searching
<1> QED BY <1>1, <1>3, <1>4, <1>5 DEF AtWork

LEMMA PeelPowDoneInv == ASSUME IInv, NEW r, PeelPowDone(r) PROVE IInv'
<1>1. /\ Peel(r, "pow") /\ started /\ finished /\ inner # None
      /\ Show(r, "pow", "full") /\ onion' = inner /\ freed' = freed \cup {onion}
      /\ started' = FALSE /\ finished' = FALSE /\ inner' = None
      /\ UNCHANGED <<password, image, captcha, files, search, load, stage>>
      /\ UNCHANGED <<net, layers, crashed, cut>>
  BY DEF PeelPowDone, MustStart, PowOver, Switch, envVars
<1>2. /\ Serve(r, "peel") /\ onion # None /\ onion \in Onion BY <1>1, Peeled
<1>3. inner \in Onion BY <1>1 DEF IInv, TypeOK, TypeDjb
<1>4. TypeDjb' /\ (onion = None <=> image = None)'
  <2>1. freed' \subseteq Onion BY <1>1, <1>2 DEF IInv, TypeOK, TypeDjb
  <2> QED BY <1>1, <1>2, <1>3, <2>1 DEF IInv, TypeOK, TypeDjb
<1>5. \A l \in Loads : Present(l)' => Present(l) BY <1>1, <1>2 DEF Present, OfLoad
<1>6. Fitting' BY <1>1 DEF IInv, DjbInv, Fitting, Fits
<1>7. Searched' BY <1>1, Found DEF Searched, Searching
<1>8. FreedBefore'
  <2> SUFFICES ASSUME cut = {}, NEW f \in freed', f[1] = inner[1] PROVE f[2] < inner[2]
    BY <1>1 DEF FreedBefore
  <2>1. PICK s \in Searches : inner = Inside(onion, s) BY <1>1, Found
  <2>2. inner[1] = onion[1] /\ inner[2] = onion[2] + 1 BY <1>2, <2>1, InsideIs
  <2>3. f[2] \in Nat /\ onion[2] \in Nat BY <1>1, <1>2 DEF IInv, TypeOK, TypeDjb, Onion
  <2>4. f = onion \/ f[2] < onion[2] BY <1>1, <1>2, <2>2 DEF IInv, DjbInv, FreedBefore
  <2>5. f[2] <= onion[2] BY <2>3, <2>4
  <2> QED BY <2>2, <2>3, <2>5
<1>9. Stored' BY <1>1, <1>2 DEF IInv, DjbInv, Stored, FilesKnown
<1>10. DjbInv' BY <1>6, <1>7, <1>8, <1>9 DEF DjbInv
<1> QED BY <1>1, <1>2, <1>4, <1>5, <1>10, PeelerInv DEF Types

\* The steps of the threads leave the page and its requests alone.
LEMMA WorkerInv ==
  ASSUME IInv, UNCHANGED <<layers, wire, pageVars>>,
         \A l \in Loads : Present(l)' => Present(l),
         DjbInv', TypeDjb', (onion = None <=> image = None)'
  PROVE  IInv'
<1>1. UNCHANGED <<wire, load, stage>> BY DEF pageVars
<1>2. NotYet' BY <1>1, NotYetKept DEF IInv, PageInv, Fresh, Unseen
<1>3. Unfetched' /\ Asked' BY <1>1 DEF IInv, PageInv, Unfetched, Unseen, Asked
<1>4. TypePage' BY DEF IInv, TypeOK, TypePage, pageVars, viewVars
<1> QED BY <1>2, <1>3, <1>4 DEF IInv, PageInv, TypeOK

LEMMA SearchBeginInv == ASSUME IInv, NEW s \in Searches, SearchBegin(s) PROVE IInv'
<1>1. /\ search[s].at = "new" /\ ~crashed
      /\ search' = [search EXCEPT ![s] = [at |-> "search", of |-> onion]]
      /\ crashed' = (onion = None)
      /\ UNCHANGED <<password, onion, image, captcha, files, freed, started, finished, inner>>
      /\ UNCHANGED <<net, layers, cut, wire, pageVars>>
  BY DEF SearchBegin, onionVars
<1>2. search \in [Searches -> [at : {"new", "search", "found", "end"}, of : Onion \cup {None}]]
  BY DEF IInv, TypeOK, TypeDjb
<1>3. /\ search'[s] = [at |-> "search", of |-> onion]
      /\ \A u \in Searches \ {s} : search'[u] = search[u]
  BY <1>1, <1>2
<1>4. TypeDjb' /\ (onion = None <=> image = None)'
  <2>1. search' \in [Searches -> [at : {"new", "search", "found", "end"}, of : Onion \cup {None}]]
    <3>1. onion \in Onion \cup {None} BY DEF IInv, TypeOK, TypeDjb
    <3> QED BY <1>1, <1>2, <3>1
  <2>2. crashed' \in BOOLEAN BY <1>1
  <2> QED BY <1>1, <2>1, <2>2 DEF IInv, TypeOK, TypeDjb
<1>5. \A l \in Loads : Present(l)' => Present(l) BY <1>1, <1>3 DEF Present, OfLoad
<1>6. Fitting'
  <2>1. \A u \in Searches : search'[u] = search[u] \/ search'[u] = [at |-> "search", of |-> onion]
    BY <1>3
  <2>2. \A u \in Searches : Fits(search[u].of)'
    <3>1. ASSUME NEW u \in Searches PROVE Fits(search'[u].of)
      BY <2>1 DEF IInv, DjbInv, Fitting
    <3> QED BY <1>1, <3>1 DEF Fits
  <2>3. \A u \in Searches : search'[u].at = "search" /\ ~crashed' => search'[u].of # None
    <3> SUFFICES ASSUME NEW u \in Searches, search'[u].at = "search", ~crashed'
                 PROVE  search'[u].of # None
      OBVIOUS
    <3>1. onion # None BY <1>1
    <3>2. search[u].at = "search" => search[u].of # None BY <1>1 DEF IInv, DjbInv, Fitting
    <3> QED BY <2>1, <3>1, <3>2
  <2> QED BY <1>1, <2>2, <2>3 DEF IInv, DjbInv, Fitting, Fits
<1>7. Searched'
  <2> SUFFICES ASSUME cut = {} PROVE started /\ onion # None /\ Type(onion)' = "pow" /\ AtWork(s)'
    BY <1>1 DEF Searched
  <2>1. Searching(s) BY <1>1 DEF Searching
  <2>2. started /\ onion # None /\ Type(onion) = "pow" /\ AtWork(s)
    BY <2>1 DEF IInv, DjbInv, Searched, AtWork
  <2>3. ~finished /\ inner = None /\ \A u \in Searches \ {s} : ~Searching(u)
    BY <1>1, <2>2 DEF AtWork
  <2>4. AtWork(s)' BY <1>1, <1>3, <2>3 DEF AtWork, Searching
  <2> QED BY <1>1, <2>2, <2>4 DEF Type
<1>8. FreedBefore' /\ Stored' BY <1>1 DEF IInv, DjbInv, FreedBefore, Stored, FilesKnown
<1>9. DjbInv' BY <1>6, <1>7, <1>8 DEF DjbInv
<1> QED BY <1>1, <1>4, <1>5, <1>9, WorkerInv

LEMMA SearchFoundInv == ASSUME IInv, NEW s \in Searches, SearchFound(s) PROVE IInv'
<1>1. /\ search[s].at = "search" /\ ~crashed /\ crashed' \in BOOLEAN
      /\ IF crashed' THEN UNCHANGED <<inner, search>>
         ELSE inner' \in Results(s) /\ search' = [search EXCEPT ![s].at = "found"]
      /\ UNCHANGED <<password, onion, image, captcha, files, freed, started, finished>>
      /\ UNCHANGED <<net, layers, cut, wire, pageVars>>
  BY DEF SearchFound, onionVars, At
<1> DEFINE o == search[s].of
<1>2. search \in [Searches -> [at : {"new", "search", "found", "end"}, of : Onion \cup {None}]]
  BY DEF IInv, TypeOK, TypeDjb
<1>3. o \in Onion /\ Fits(o) BY <1>1, <1>2 DEF IInv, DjbInv, Fitting
<1>4. /\ o[1] \in Loads /\ o[2] \in Nat /\ layers[o[1]] \in Onions
      /\ Type(o) = "pow" => o[2] + 1 < Len(layers[o[1]])
  BY <1>3, HasLayer DEF IInv
<1>5. /\ search' \in [Searches -> [at : {"new", "search", "found", "end"}, of : Onion \cup {None}]]
      /\ \A u \in Searches : search'[u].of = search[u].of
      /\ \A u \in Searches \ {s} : search'[u] = search[u]
      /\ ~crashed' => search'[s].at = "found"
  BY <1>1, <1>2
<1>6. inner' # inner => inner' = None \/ (Type(o) = "pow" /\ inner' = Inside(o, s))
  BY <1>1 DEF Results
<1>7. inner' = Inside(o, s) => /\ inner' \in Onion /\ inner' # None
                               /\ inner'[1] = o[1] /\ inner'[2] = o[2] + 1
  BY <1>3, InsideIs
<1> HIDE DEF o
<1>8. TypeDjb' /\ (onion = None <=> image = None)'
  <2>1. inner' \in Onion \cup {None} BY <1>6, <1>7 DEF IInv, TypeOK, TypeDjb
  <2> QED BY <1>1, <1>5, <2>1 DEF IInv, TypeOK, TypeDjb
<1>9. \A l \in Loads : Present(l)' => Present(l)
  <2> SUFFICES ASSUME NEW l \in Loads, OfLoad(inner, l)' PROVE OfLoad(inner, l) \/ OfLoad(o, l)
    BY <1>1, <1>5 DEF Present, OfLoad, o
  <2>1. CASE inner' = inner BY <2>1 DEF OfLoad
  <2>2. CASE inner' # inner
    <3>1. inner' = Inside(o, s) /\ inner'[1] = o[1] BY <1>6, <1>7, <2>2 DEF OfLoad
    <3>2. o # None BY <1>3, NoneAssumption
    <3> QED BY <3>1, <3>2 DEF OfLoad
  <2> QED BY <2>1, <2>2
<1>10. Fitting'
  <2>1. Fits(inner)' /\ (inner' # None => inner'[2] > 0 /\ layers[inner'[1]][inner'[2]] = "pow")
    <3>1. CASE inner' = inner BY <1>1, <3>1 DEF IInv, DjbInv, Fitting, Fits
    <3>2. CASE inner' = None BY <3>2 DEF Fits
    <3>3. CASE Type(o) = "pow" /\ inner' = Inside(o, s)
      BY <1>1, <1>4, <1>7, <3>3 DEF Fits, Type
    <3> QED BY <1>6, <3>1, <3>2, <3>3
  <2>2. \A u \in Searches : search'[u].at = "search" => search[u].at = "search"
    BY <1>1, <1>5
  <2>3. Fits(onion)' /\ \A u \in Searches : Fits(search[u].of)'
    <3>1. ASSUME NEW u \in Searches PROVE Fits(search[u].of)'
      BY <1>1, <1>5 DEF IInv, DjbInv, Fitting, Fits
    <3> QED BY <1>1, <3>1 DEF IInv, DjbInv, Fitting, Fits
  <2> QED BY <1>1, <1>5, <2>1, <2>2, <2>3 DEF IInv, DjbInv, Fitting
<1>11. Searched'
  <2> SUFFICES ASSUME cut = {} PROVE started /\ onion # None /\ Type(onion)' = "pow" /\ AtWork(s)'
    BY <1>1 DEF Searched
  <2>1. Searching(s) BY <1>1 DEF Searching
  <2>2. started /\ onion # None /\ Type(onion) = "pow" /\ AtWork(s)
    BY <2>1 DEF IInv, DjbInv, Searched, AtWork
  <2>3. /\ ~finished /\ inner = None /\ o = onion
        /\ \A u \in Searches \ {s} : ~Searching(u)
    BY <1>1, <2>2 DEF AtWork, o
  <2>4. search'[s].of = onion BY <1>5, <2>3 DEF o
  <2>5. inner' # None => search'[s].at = "found" /\ inner' = Inside(onion, s)
    BY <1>1, <1>5, <1>6, <2>3
  <2>6. search'[s].at \in {"search", "found"} BY <1>1, <1>5
  <2>7. AtWork(s)' BY <1>1, <1>5, <2>3, <2>4, <2>5, <2>6 DEF AtWork, Searching, Inside
  <2> QED BY <1>1, <2>2, <2>7 DEF Type
<1>12. FreedBefore' /\ Stored' BY <1>1 DEF IInv, DjbInv, FreedBefore, Stored, FilesKnown
<1>13. DjbInv' BY <1>10, <1>11, <1>12 DEF DjbInv
<1> QED BY <1>1, <1>8, <1>9, <1>13, WorkerInv

LEMMA SearchFinishInv == ASSUME IInv, NEW s \in Searches, SearchFinish(s) PROVE IInv'
<1>1. /\ search[s].at = "found" /\ ~crashed /\ crashed' \in BOOLEAN
      /\ IF crashed' THEN UNCHANGED <<finished, search>>
         ELSE finished' = TRUE /\ search' = [search EXCEPT ![s].at = "end"]
      /\ UNCHANGED <<password, onion, image, captcha, files, freed, started, inner>>
      /\ UNCHANGED <<net, layers, cut, wire, pageVars>>
  BY DEF SearchFinish, onionVars, At, Finished
<1>2. search \in [Searches -> [at : {"new", "search", "found", "end"}, of : Onion \cup {None}]]
  BY DEF IInv, TypeOK, TypeDjb
<1>3. /\ search' \in [Searches -> [at : {"new", "search", "found", "end"}, of : Onion \cup {None}]]
      /\ \A u \in Searches : search'[u].of = search[u].of
      /\ \A u \in Searches \ {s} : search'[u] = search[u]
      /\ IF crashed' THEN search'[s].at = "found" /\ finished' = finished
                     ELSE search'[s].at = "end" /\ finished' = TRUE
  BY <1>1, <1>2
<1>4. TypeDjb' /\ (onion = None <=> image = None)'
  <2>1. finished' \in BOOLEAN BY <1>1 DEF IInv, TypeOK, TypeDjb
  <2> QED BY <1>1, <1>3, <2>1 DEF IInv, TypeOK, TypeDjb
<1>5. \A l \in Loads : Present(l)' => Present(l) BY <1>1, <1>3 DEF Present, OfLoad
<1>6. Fitting'
  <2>1. \A u \in Searches : search'[u].at = "search" => search[u].at = "search" BY <1>1, <1>3
  <2> QED BY <1>1, <1>3, <2>1 DEF IInv, DjbInv, Fitting, Fits
<1>7. Searched'
  <2> SUFFICES ASSUME cut = {} PROVE started /\ onion # None /\ Type(onion)' = "pow" /\ AtWork(s)'
    BY <1>1 DEF Searched
  <2>1. Searching(s) BY <1>1 DEF Searching
  <2>2. started /\ onion # None /\ Type(onion) = "pow" /\ AtWork(s)
    BY <2>1 DEF IInv, DjbInv, Searched, AtWork
  <2>3. /\ ~finished /\ search[s].of = onion /\ (inner # None => inner = Inside(onion, s))
        /\ \A u \in Searches \ {s} : ~Searching(u)
    BY <1>1, <2>2 DEF AtWork
  <2>4. AtWork(s)' BY <1>1, <1>3, <2>3 DEF AtWork, Searching, Inside
  <2> QED BY <1>1, <2>2, <2>4 DEF Type
<1>8. FreedBefore' /\ Stored' BY <1>1 DEF IInv, DjbInv, FreedBefore, Stored, FilesKnown
<1>9. DjbInv' BY <1>6, <1>7, <1>8 DEF DjbInv
<1> QED BY <1>1, <1>4, <1>5, <1>9, WorkerInv

-----------------------------------------------------------------------------
\* Every step

LEMMA StutterInv == ASSUME IInv, UNCHANGED vars PROVE IInv'
<1>1. UNCHANGED <<password, onion, image, captcha, files, freed, started, finished, inner,
                  search, net, layers, crashed, cut, wire, load, stage, shown, listeners,
                  disabled, due, status, picture>>
  BY DEF vars, onionVars, powVars, envVars, pageVars, viewVars
<1>2. UNCHANGED Daemon /\ UNCHANGED <<layers, wire, pageVars>>
  BY <1>1 DEF Daemon, pageVars, viewVars
<1>3. DjbInv' /\ \A l \in Loads : Present(l)' <=> Present(l) BY <1>1, <1>2, StillDjb
<1>4. TypeDjb' /\ (onion = None <=> image = None)' BY <1>1 DEF IInv, TypeOK, TypeDjb
<1> QED BY <1>2, <1>3, <1>4, WorkerInv

LEMMA NextInv == ASSUME IInv, [Next]_vars PROVE IInv'
<1>1. CASE Load BY <1>1, LoadInv
<1>2. CASE ClickGo BY <1>2, ClickGoInv
<1>3. CASE FetchImage BY <1>3, FetchImageInv
<1>4. CASE ClickPeel \/ ClickCaptcha \/ Poll BY <1>4, UserInv
<1>5. ASSUME NEW r \in wire, Handle(r) PROVE IInv'
  <2>1. CASE Reset(r) BY <2>1, ResetInv
  <2>2. CASE GenRequest(r) \/ GenRequestFailed(r) \/ PeelNothing(r) BY <2>2, QuietInv
  <2>3. CASE Image(r) BY <2>3, ImageInv
  <2>4. CASE ImageFailed(r) BY <2>4, ImageFailedInv
  <2>5. CASE PeelBase(r) BY <2>5, PeelBaseInv
  <2>6. CASE PeelSigned(r) BY <2>6, PeelSignedInv
  <2>7. CASE PeelCaptchaShow(r) BY <2>7, PeelCaptchaShowInv
  <2>8. CASE PeelCaptchaAnswer(r) BY <2>8, PeelCaptchaAnswerInv
  <2>9. CASE PeelPowStart(r) BY <2>9, PeelPowStartInv
  <2>10. CASE PeelPowBusy(r) \/ PeelPowFailed(r) BY <2>10, PeelPowWaitInv
  <2>11. CASE PeelPowDone(r) BY <2>11, PeelPowDoneInv
  <2> QED BY <1>5, <2>1, <2>2, <2>3, <2>4, <2>5, <2>6, <2>7, <2>8, <2>9, <2>10, <2>11
          DEF Handle
<1>6. ASSUME NEW s \in Searches, PowWorker(s) PROVE IInv'
  BY <1>6, SearchBeginInv, SearchFoundInv, SearchFinishInv DEF PowWorker
<1>7. CASE UNCHANGED vars BY <1>7, StutterInv
<1> QED BY <1>1, <1>2, <1>3, <1>4, <1>5, <1>6, <1>7 DEF Next, User

THEOREM InvariantHolds == Spec => []IInv
BY InitInv, NextInv, PTL DEF Spec

\* Every variable of djb and the page has its type, and an onion has its image on
\* disk, so that the assertion at rendezvous.c:545 holds: for every user.
THEOREM TypeCorrect == Spec => []TypeOK
<1>1. IInv => TypeOK BY DEF IInv
<1> QED BY <1>1, InvariantHolds, PTL

\* Of all that happens, only a reset during a search, or an image without a reset, can
\* leave a thread with an onion that was freed (rendezvous.c:443-450).
THEOREM SearchIsLive == Spec => []SearchReadsLive
<1>1. IInv => SearchReadsLive
  <2> SUFFICES ASSUME IInv, cut = {}, NEW s \in Searches, search[s].at = "search",
                      search[s].of \in freed
               PROVE  FALSE
    BY DEF SearchReadsLive
  <2>1. started /\ onion # None /\ \E u \in Searches : AtWork(u)
    BY DEF IInv, DjbInv, Searched, Searching
  <2>2. AtWork(s) BY <2>1 DEF AtWork, Searching
  <2>3. search[s].of = onion BY <2>2 DEF AtWork
  <2>4. onion \in Onion BY <2>1 DEF IInv, TypeOK, TypeDjb
  <2>5. onion[2] < onion[2] /\ onion[2] \in Nat
    BY <2>1, <2>3, <2>4 DEF IInv, DjbInv, FreedBefore, Onion
  <2> QED BY <2>5
<1> QED BY <1>1, InvariantHolds, PTL

\* djb loses track only of the files and directories FilesKnown names
\* (rendezvous.c:113-120, 573-590).
THEOREM FilesAreKnown == Spec => []FilesKnown
<1>1. IInv => FilesKnown BY DEF IInv, DjbInv, Stored
<1> QED BY <1>1, InvariantHolds, PTL

-----------------------------------------------------------------------------
\* The page is told that the search failed

\* An answer of another kind does not say so.
LEMMA ToldOther ==
  ASSUME NEW r, NEW type, NEW kind \in {"text", "number", "full", "picture"},
         Show(r, type, kind)
  PROVE  status' = "failed" => status = "failed"
BY DEF Show, viewVars

LEMMA OnlyPeelPowFailed ==
  ASSUME [Next]_vars, status # "failed", status' = "failed"
  PROVE  \E r \in wire : PeelPowFailed(r)
<1>1. CASE User \/ Poll
  BY <1>1 DEF User, Load, ClickGo, FetchImage, ClickPeel, ClickCaptcha, Poll, Send, viewVars
<1>2. ASSUME NEW s \in Searches, PowWorker(s) PROVE FALSE
  BY <1>2 DEF PowWorker, SearchBegin, SearchFound, SearchFinish, pageVars, viewVars
<1>3. ASSUME NEW r \in wire, Handle(r), ~PeelPowFailed(r) PROVE FALSE
  <2>1. \/ UNCHANGED viewVars
        \/ \E type, kind : /\ kind \in {"text", "number", "full", "picture"}
                           /\ Show(r, type, kind)
    <3>1. CASE \/ Reset(r) \/ GenRequest(r) \/ GenRequestFailed(r) \/ ImageFailed(r)
               \/ PeelNothing(r)
      BY <3>1 DEF Reset, GenRequest, GenRequestFailed, ImageFailed, PeelNothing, pageVars
    <3>2. CASE Image(r) BY <3>2 DEF Image
    <3>3. CASE PeelBase(r) BY <3>3 DEF PeelBase
    <3>4. CASE PeelSigned(r) BY <3>4 DEF PeelSigned
    <3>5. CASE PeelCaptchaShow(r) BY <3>5 DEF PeelCaptchaShow
    <3>6. CASE PeelCaptchaAnswer(r) BY <3>6 DEF PeelCaptchaAnswer
    <3>7. CASE PeelPowStart(r) BY <3>7 DEF PeelPowStart, Percent
    <3>8. CASE PeelPowBusy(r) BY <3>8 DEF PeelPowBusy, Percent
    <3>9. CASE PeelPowDone(r) BY <3>9 DEF PeelPowDone
    <3> QED BY <1>3, <3>1, <3>2, <3>3, <3>4, <3>5, <3>6, <3>7, <3>8, <3>9 DEF Handle
  <2>2. ~UNCHANGED viewVars BY DEF viewVars
  <2> QED BY <2>1, <2>2, ToldOther
<1>4. CASE UNCHANGED vars BY <1>4 DEF vars, pageVars, viewVars
<1> QED BY <1>1, <1>2, <1>3, <1>4 DEF Next

\* Unless djb was disturbed, "Puzzle attempt failed." is said (rendezvous.c:471-486)
\* only of a search of the current onion that ended without a result.
THEOREM FailureIsTold == Spec => FailureIsReal
<1>1. ASSUME IInv, [Next]_vars
      PROVE  [cut = {} /\ status # "failed" /\ status' = "failed" =>
                inner = None /\ \E s \in Searches : search[s] = [at |-> "end", of |-> onion]]_vars
  <2> SUFFICES ASSUME cut = {}, status # "failed", status' = "failed"
               PROVE  inner = None /\ \E s \in Searches : search[s] = [at |-> "end", of |-> onion]
    OBVIOUS
  <2>1. PICK r \in wire : PeelPowFailed(r) BY <1>1, OnlyPeelPowFailed
  <2>2. started /\ finished /\ inner = None BY <2>1 DEF PeelPowFailed, MustStart, PowOver
  <2> QED BY <1>1, <2>2, Found
<1> QED BY <1>1, InvariantHolds, PTL DEF Spec, FailureIsReal

=============================================================================
