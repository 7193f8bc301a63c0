---------------------------- MODULE LaunchProofs ----------------------------
(***************************************************************************)
(* Proofs about Launch, for any number of threads of the HTTP server, any  *)
(* preferences and any number of requests.                                 *)
(*                                                                         *)
(* The argument: whoever reads or changes preferences has l_mutex, so the  *)
(* vector stays as long as the preferences say, up to the wrap of its      *)
(* unsigned length, and nothing it points to is freed meanwhile (Framed).  *)
(* Nothing guards the process numbers; but a launch that overlapped no     *)
(* other has stopped the process there was before it starts one (Alone).   *)
(***************************************************************************)
EXTENDS Launch, TLAPS

\* The preferences left to set are those of a body that was parsed.
Parsed == \A t \in Threads : at[t] = "values" => /\ body[t] \in Bodies
                                                 /\ todo[t] \subseteq DOMAIN body[t]

\* The vector, from its calloc() to the unlock.
Framed ==
  \A t \in Threads :
    /\ at[t] \in {"fill", "filled"} =>
         /\ copy[t] \in Nat \X {0, 1}
         /\ argc[t] = Allotted(copy[t][1], copy[t][2], value["secret"])
         /\ pointer[t] = [k \in Pointers |-> version[k]]
    /\ at[t] \notin {"fill", "filled"} => pointer[t] = None
    /\ at[t] = "filled" =>
         IF slots[t] < Word THEN slots[t] = argc[t] ELSE slots[t] > argc[t]

\* What a thread launches.
Chosen ==
  \A t \in Threads :
    /\ at[t] \in {"argv", "fill", "filled"} => kind[t] = "stegotorus"
    /\ at[t] \in {"stop", "forget", "spawn"} => kind[t] \in Kinds

\* Without an overlap, one thread launches, and when it has stopped the old
\* process there is none.
Alone ==
  \A k \in Kinds : ~overlap[k] =>
    /\ children[k] \subseteq {num[k]}
    /\ \A t, u \in Threads : Launching(t, k) /\ Launching(u, k) => t = u
    /\ \A t \in Threads : Launching(t, k) /\ at[t] # "stop" => children[k] = {}

\* The inductive invariant.
IInv == /\ TypeOK /\ Parsed /\ Framed /\ Chosen
        /\ Alone /\ \A k \in Kinds : 0 \notin children[k]

-----------------------------------------------------------------------------
\* Where a thread is when it has l_mutex.
Locked == {"values", "unlock", "fill", "filled"}

\* The launches see nothing of a step of a thread that is not launching.
LEMMA NotLaunching ==
  ASSUME IInv, NEW t \in Threads, NEW to, Go(t, to), UNCHANGED <<kind, childVars>>,
         at[t] \notin {"stop", "forget", "spawn"}, to \notin {"stop", "forget", "spawn"}
  PROVE  Alone' /\ (\A k \in Kinds : 0 \notin children[k])'
<1>1. /\ at'[t] = to /\ \A u \in Threads \ {t} : at'[u] = at[u]
      /\ at' \in [Threads -> {at[u] : u \in Threads} \cup {to}]
  BY DEF IInv, TypeOK, Go
<1>2. \A u \in Threads, k \in Kinds : Launching(u, k)' <=> Launching(u, k)
  BY <1>1 DEF Launching
<1>3. \A u \in Threads, k \in Kinds : Launching(u, k) => at'[u] = at[u]
  BY <1>1 DEF Launching
<1> QED BY <1>2, <1>3 DEF IInv, Alone, childVars

\* A thread begins to launch: if another one does, that is an overlap.
LEMMA Enters ==
  ASSUME IInv, NEW t \in Threads, NEW k \in Kinds, Go(t, "stop"),
         at[t] \notin {"stop", "forget", "spawn"},
         kind' = [kind EXCEPT ![t] = k] \/ (kind' = kind /\ kind[t] = k),
         ~overlap'[k] => ~overlap[k] /\ ~Overlaps(t, k),
         \A m \in Kinds \ {k} : overlap'[m] = overlap[m],
         UNCHANGED <<num, children>>
  PROVE  Alone' /\ (\A m \in Kinds : 0 \notin children[m])'
<1>1. /\ at'[t] = "stop" /\ kind'[t] = k
      /\ \A u \in Threads \ {t} : at'[u] = at[u] /\ kind'[u] = kind[u]
  BY DEF IInv, TypeOK, Go
<1>2. \A u \in Threads, m \in Kinds :
        Launching(u, m)' <=> (u = t /\ m = k) \/ (u # t /\ Launching(u, m))
  BY <1>1 DEF Launching
<1>3. ~Launching(t, k)
  BY DEF Launching
<1>4. \A m \in Kinds : ~overlap'[m] => ~overlap[m]
  OBVIOUS
<1>5. \A m \in Kinds : ~overlap'[m] =>
        \A u, v \in Threads : Launching(u, m)' /\ Launching(v, m)' => u = v
  BY <1>2, <1>4 DEF IInv, Alone, Overlaps
<1>6. \A m \in Kinds : ~overlap'[m] =>
        /\ children[m] \subseteq {num[m]}
        /\ \A u \in Threads : Launching(u, m)' /\ at'[u] # "stop" => children[m] = {}
  BY <1>1, <1>2, <1>4 DEF IInv, Alone
<1> QED BY <1>5, <1>6 DEF IInv, Alone

\* A thread goes on launching, and there is no process of the kind any more.
LEMMA GoesOn ==
  ASSUME IInv, NEW t \in Threads, at[t] \in {"stop", "forget"}, kind[t] \in Kinds,
         NEW to \in {"forget", "spawn"}, Go(t, to), UNCHANGED <<kind, overlap>>,
         \A k \in Kinds \ {kind[t]} : num'[k] = num[k] /\ children'[k] = children[k],
         ~overlap[kind[t]] => children'[kind[t]] = {}
  PROVE  Alone'
<1>1. at'[t] = to /\ \A u \in Threads \ {t} : at'[u] = at[u]
  BY DEF IInv, TypeOK, Go
<1>2. \A u \in Threads, k \in Kinds : Launching(u, k)' <=> Launching(u, k)
  BY <1>1 DEF Launching
<1>3. ASSUME NEW k \in Kinds, ~overlap[k]
      PROVE  /\ children'[k] \subseteq {num'[k]}
             /\ \A u \in Threads : Launching(u, k)' /\ at'[u] # "stop" => children'[k] = {}
  <2>1. CASE k = kind[t]
    BY <1>3, <2>1
  <2>2. CASE k # kind[t]
    BY <1>1, <1>2, <1>3, <2>2 DEF IInv, Alone, Launching
  <2> QED BY <2>1, <2>2
<1> QED BY <1>2, <1>3 DEF IInv, Alone

\* A crash changes nothing else.
LEMMA Crashes ==
  ASSUME IInv, crashed' = TRUE,
         UNCHANGED <<prefVars, mutex, at, kind, body, frameVars, todo, childVars, left>>
  PROVE  IInv'
<1>1. TypeOK'
  BY DEF IInv, TypeOK, prefVars, frameVars, childVars
<1>2. Parsed' /\ Framed' /\ Chosen'
  BY DEF IInv, Parsed, Framed, Chosen, prefVars, frameVars
<1>3. Alone' /\ (\A k \in Kinds : 0 \notin children[k])'
  BY DEF IInv, Alone, Launching, childVars
<1> QED BY <1>1, <1>2, <1>3 DEF IInv

\* Setting preferences.
LEMMA SetStep ==
  ASSUME IInv, ~crashed, NEW t \in Threads, Set(t) \/ SetRequest(t)
  PROVE  IInv'
<1>0. TypeOK /\ Parsed /\ Framed /\ Chosen
  BY DEF IInv
<1> DEFINE Frame == UNCHANGED <<kind, frameVars, childVars, crashed>>
<1>1. CASE SetRequest(t) \/ SetClosed(t) \/ \E b \in Bodies \cup {None} : SetBody(t, b)
  <2>1. /\ Frame /\ UNCHANGED <<prefVars, mutex, todo>>
        /\ at[t] \in {"idle", "reading", "unread"}
        /\ \E to \in {"idle", "reading", "unread", "set"} : Go(t, to)
        /\ left' \in 0 .. Budget /\ body' \in [Threads -> Bodies \cup {None}]
        /\ \A u \in Threads \ {t} : body'[u] = body[u]
    BY <1>0, <1>1, BudgetAssumption DEF SetRequest, SetClosed, SetBody, TypeOK
  <2>2. Alone' /\ (\A k \in Kinds : 0 \notin children[k])'
    BY <2>1, NotLaunching
  <2>3. TypeOK'
    BY <1>0, <2>1 DEF TypeOK, Go, prefVars, frameVars, childVars
  <2>4. Parsed' /\ Framed' /\ Chosen'
    BY <1>0, <2>1 DEF TypeOK, Parsed, Framed, Chosen, Go, prefVars, frameVars
  <2> QED BY <2>2, <2>3, <2>4 DEF IInv
<1>2. CASE SetLock(t)
  <2>1. /\ Frame /\ UNCHANGED <<prefVars, body, left>>
        /\ at[t] = "set" /\ mutex = None /\ mutex' = t
        /\ Go(t, IF body[t] # None THEN "values" ELSE "unlock")
        /\ todo' = [todo EXCEPT ![t] = IF body[t] = None THEN {} ELSE DOMAIN body[t]]
    BY <1>2 DEF SetLock, Free, AfterParse
  <2>2. Alone' /\ (\A k \in Kinds : 0 \notin children[k])'
    BY <2>1, NotLaunching
  <2>3. TypeOK'
    <3>1. todo' \in [Threads -> SUBSET Keys]
      BY <1>0, <2>1, BodiesAssumption DEF TypeOK
    <3> QED BY <1>0, <2>1, <3>1, NoneAssumption DEF TypeOK, Go, prefVars, frameVars, childVars
  <2>4. Parsed' /\ Framed' /\ Chosen'
    BY <1>0, <2>1 DEF TypeOK, Parsed, Framed, Chosen, Go, prefVars, frameVars
  <2> QED BY <2>2, <2>3, <2>4 DEF IInv
<1>3. ASSUME NEW k \in Keys, SetValue(t, k)
      PROVE  IInv'
  <2>1. /\ Frame /\ UNCHANGED <<mutex, at, body, left>>
        /\ at[t] = "values" /\ k \in todo[t]
        /\ todo' = [todo EXCEPT ![t] = @ \ {k}]
        /\ version' = [version EXCEPT ![k] = @ + 1]
    BY <1>3 DEF SetValue
  <2>2. value' \in [Keys -> Int] /\ \A m \in Keys \ {"circuits"} : value'[m] \in {0, 1}
    <3>1. /\ body[t][k] \in IF k = "circuits" THEN Int ELSE {0, 1}
          /\ Defaults[k] \in IF k = "circuits" THEN Int ELSE {0, 1}
      BY <1>0, <2>1, BodiesAssumption DEF Parsed, Defaults, Keys
    <3>2. PICK v \in {body[t][k], Defaults[k]} : value' = [value EXCEPT ![k] = v]
      BY <1>3 DEF SetValue
    <3>3. v \in Int /\ (k # "circuits" => v \in {0, 1})
      BY <3>1
    <3> QED BY <1>0, <3>2, <3>3 DEF TypeOK
  <2>3. TypeOK'
    <3>1. version' \in [Keys -> Nat] /\ todo' \in [Threads -> SUBSET Keys]
      BY <1>0, <2>1 DEF TypeOK
    <3> QED BY <1>0, <2>1, <2>2, <3>1 DEF TypeOK, frameVars, childVars
  <2>4. \A u \in Threads : at[u] \notin {"fill", "filled"}
    BY <1>0, <2>1 DEF TypeOK
  <2>5. Parsed' /\ Framed' /\ Chosen'
    BY <1>0, <2>1, <2>4 DEF TypeOK, Parsed, Framed, Chosen, frameVars
  <2>6. Alone' /\ (\A m \in Kinds : 0 \notin children[m])'
    BY <2>1 DEF IInv, Alone, Launching, childVars
  <2> QED BY <2>3, <2>5, <2>6 DEF IInv
<1>4. CASE ValuesSet(t)
  <2>1. /\ Frame /\ UNCHANGED <<prefVars, mutex, body, todo, left>>
        /\ at[t] = "values" /\ Go(t, "unlock")
    BY <1>4 DEF ValuesSet
  <2>2. Alone' /\ (\A k \in Kinds : 0 \notin children[k])'
    BY <2>1, NotLaunching
  <2>3. TypeOK'
    BY <1>0, <2>1 DEF TypeOK, Go, prefVars, frameVars, childVars
  <2>4. Parsed' /\ Framed' /\ Chosen'
    BY <1>0, <2>1 DEF TypeOK, Parsed, Framed, Chosen, Go, prefVars, frameVars
  <2> QED BY <2>2, <2>3, <2>4 DEF IInv
<1>5. CASE SetUnlock(t)
  <2>1. /\ Frame /\ UNCHANGED <<prefVars, todo, left>>
        /\ at[t] = "unlock" /\ Go(t, "idle") /\ mutex' = None
        /\ body' = [body EXCEPT ![t] = None]
    BY <1>5 DEF SetUnlock
  <2>2. Alone' /\ (\A k \in Kinds : 0 \notin children[k])'
    BY <2>1, NotLaunching
  <2>3. TypeOK'
    BY <1>0, <2>1, NoneAssumption DEF TypeOK, Go, prefVars, frameVars, childVars
  <2>4. Parsed' /\ Framed' /\ Chosen'
    BY <1>0, <2>1 DEF TypeOK, Parsed, Framed, Chosen, Go, prefVars, frameVars
  <2> QED BY <2>2, <2>3, <2>4 DEF IInv
<1> QED BY <1>1, <1>2, <1>3, <1>4, <1>5 DEF Set

-----------------------------------------------------------------------------
\* prf_get_argv()

\* What an unsigned int makes of a number.
LEMMA UnsignedFacts ==
  \A n \in Int : /\ Unsigned(n) \in Nat /\ Unsigned(n) < Word
                 /\ n \in 0 .. (Word - 1) => Unsigned(n) = n
<1> SUFFICES ASSUME NEW n \in Int
             PROVE  /\ n % Word \in Nat /\ n % Word < Word
                    /\ n \in 0 .. (Word - 1) => n % Word = n
  BY DEF Unsigned
<1> QED BY WordAssumption

\* It fills what it allotted, when that can be counted.
LEMMA FillsAllotted ==
  \A circuits \in Nat, trace, secret \in {0, 1} :
    /\ Filled(circuits, trace, secret) \in Nat
    /\ Allotted(circuits, trace, secret) \in Nat
    /\ Allotted(circuits, trace, secret) < Word
    /\ Filled(circuits, trace, secret) < Word =>
         Filled(circuits, trace, secret) = Allotted(circuits, trace, secret)
<1> TAKE circuits \in Nat, trace, secret \in {0, 1}
<1>1. /\ Filled(circuits, trace, secret) \in Nat
      /\ Allotted(circuits, trace, secret) = Unsigned(Filled(circuits, trace, secret))
  <2>1. 5 + trace + secret + 1 + 2 * circuits + 1 = 7 + 2 * circuits + secret + trace
    OBVIOUS
  <2>2. 7 + 2 * circuits + secret + trace \in Nat
    OBVIOUS
  <2> QED BY <2>1, <2>2 DEF Filled, Allotted
<1> HIDE DEF Filled, Allotted
<1> QED BY <1>1, UnsignedFacts, WordAssumption

LEMMA ArgvStep ==
  ASSUME IInv, ~crashed, NEW t \in Threads, Argv(t) \/ LaunchSt(t)
  PROVE  IInv'
<1>0. TypeOK /\ Parsed /\ Framed /\ Chosen
  BY DEF IInv
<1> DEFINE Frame == UNCHANGED <<prefVars, body, todo>>
<1>1. CASE LaunchSt(t)
  <2>1. /\ Frame /\ UNCHANGED <<mutex, frameVars, childVars, crashed>>
        /\ at[t] = "idle" /\ Go(t, "argv") /\ left' \in 0 .. Budget
        /\ kind' = [kind EXCEPT ![t] = "stegotorus"]
    BY <1>0, <1>1, BudgetAssumption DEF LaunchSt, TypeOK
  <2>2. TypeOK'
    BY <1>0, <2>1 DEF TypeOK, Go, Kinds, prefVars, frameVars, childVars
  <2>3. Parsed' /\ Framed' /\ Chosen'
    BY <1>0, <2>1 DEF TypeOK, Parsed, Framed, Chosen, Go, prefVars, frameVars
  <2>4. /\ \A u \in Threads, k \in Kinds : Launching(u, k)' <=> Launching(u, k)
        /\ \A u \in Threads, k \in Kinds : Launching(u, k) => at'[u] = at[u]
    BY <1>0, <2>1 DEF TypeOK, Launching, Go
  <2>5. Alone' /\ (\A k \in Kinds : 0 \notin children[k])'
    BY <2>1, <2>4 DEF IInv, Alone, childVars
  <2> QED BY <2>2, <2>3, <2>5 DEF IInv
<1>2. CASE ArgvLock(t)
  <2>1. /\ Frame /\ UNCHANGED <<kind, slots, childVars, crashed, left>>
        /\ at[t] = "argv" /\ mutex = None /\ mutex' = t /\ Go(t, "fill")
        /\ copy' = [copy EXCEPT ![t] = <<Unsigned(value["circuits"]), value["trace"]>>]
        /\ argc' = [argc EXCEPT ![t] = Allotted(copy'[t][1], copy'[t][2], value["secret"])]
        /\ pointer' = [pointer EXCEPT ![t] = [k \in Pointers |-> version[k]]]
    BY <1>2 DEF ArgvLock, Free
  <2>2. Alone' /\ (\A k \in Kinds : 0 \notin children[k])'
    BY <2>1, NotLaunching
  <2>3. TypeOK'
    <3>1. /\ copy'[t] = <<Unsigned(value["circuits"]), value["trace"]>>
          /\ Unsigned(value["circuits"]) \in Nat
          /\ value["trace"] \in {0, 1} /\ value["secret"] \in {0, 1}
      BY <1>0, <2>1, UnsignedFacts DEF TypeOK, Keys
    <3>2. Allotted(copy'[t][1], copy'[t][2], value["secret"]) \in Int
      <4>1. copy'[t][1] \in Nat /\ copy'[t][2] \in {0, 1}
        BY <3>1
      <4>2. Allotted(copy'[t][1], copy'[t][2], value["secret"]) \in Nat
        BY <3>1, <4>1, FillsAllotted, Zenon
      <4> QED BY <4>2
    <3>3. [k \in Pointers |-> version[k]] \in [Pointers -> Nat]
      BY <1>0 DEF TypeOK, Pointers, Keys
    <3>4. /\ argc' \in [Threads -> Int] /\ copy' \in [Threads -> (Nat \X Nat) \cup {None}]
          /\ pointer' \in [Threads -> [Pointers -> Nat] \cup {None}]
      BY <1>0, <2>1, <3>1, <3>2, <3>3 DEF TypeOK
    <3> QED BY <1>0, <2>1, <3>4, NoneAssumption DEF TypeOK, Go, prefVars, childVars
  <2>4. Framed'
    <3>1. \A u \in Threads \ {t} : at[u] \notin {"fill", "filled"}
      BY <1>0, <2>1, NoneAssumption DEF TypeOK
    <3>2. <<Unsigned(value["circuits"]), value["trace"]>> \in Nat \X {0, 1}
      BY <1>0, UnsignedFacts DEF TypeOK, Keys
    <3>3. ASSUME NEW u \in Threads \ {t}
          PROVE  /\ at'[u] = at[u] /\ pointer'[u] = pointer[u] /\ slots'[u] = slots[u]
                 /\ argc'[u] = argc[u]
      BY <1>0, <2>1 DEF TypeOK, Go
    <3>4. /\ at'[t] = "fill" /\ copy'[t] = <<Unsigned(value["circuits"]), value["trace"]>>
          /\ argc'[t] = Allotted(copy'[t][1], copy'[t][2], value["secret"])
          /\ pointer'[t] = [k \in Pointers |-> version[k]]
      BY <1>0, <2>1 DEF TypeOK, Go
    <3> QED BY <1>0, <2>1, <3>1, <3>2, <3>3, <3>4 DEF Framed, prefVars
  <2>5. Parsed' /\ Chosen'
    BY <1>0, <2>1 DEF TypeOK, Parsed, Chosen, Go
  <2> QED BY <2>2, <2>3, <2>4, <2>5 DEF IInv
<1>3. CASE ArgvFill(t)
  <2>1. /\ Frame /\ UNCHANGED <<mutex, kind, argc, copy, pointer, childVars, crashed, left>>
        /\ at[t] = "fill" /\ Go(t, "filled")
        /\ slots' = [slots EXCEPT ![t] = Filled(copy[t][1], copy[t][2], value["secret"])]
    BY <1>3 DEF ArgvFill
  <2>2. Alone' /\ (\A k \in Kinds : 0 \notin children[k])'
    BY <2>1, NotLaunching
  <2>3. /\ Filled(copy[t][1], copy[t][2], value["secret"]) \in Nat
        /\ LET f == Filled(copy[t][1], copy[t][2], value["secret"]) IN
           IF f < Word THEN f = argc[t] ELSE f > argc[t]
    <3>1. copy[t][1] \in Nat /\ copy[t][2] \in {0, 1} /\ value["secret"] \in {0, 1}
      BY <1>0, <2>1 DEF TypeOK, Framed, Keys
    <3>2. argc[t] = Allotted(copy[t][1], copy[t][2], value["secret"])
      BY <1>0, <2>1 DEF Framed
    <3>3. /\ Filled(copy[t][1], copy[t][2], value["secret"]) \in Nat
          /\ argc[t] \in Nat /\ argc[t] < Word
          /\ Filled(copy[t][1], copy[t][2], value["secret"]) < Word =>
               Filled(copy[t][1], copy[t][2], value["secret"]) = argc[t]
      <4> DEFINE f == Filled(copy[t][1], copy[t][2], value["secret"])
                 a == Allotted(copy[t][1], copy[t][2], value["secret"])
      <4>1. f \in Nat /\ a \in Nat /\ a < Word /\ (f < Word => f = a)
        BY <3>1, FillsAllotted, Zenon
      <4> HIDE DEF f, a
      <4>2. f \in Nat /\ argc[t] \in Nat /\ argc[t] < Word /\ (f < Word => f = argc[t])
        BY <3>2, <4>1 DEF a
      <4> QED BY <4>2 DEF f
    <3> QED BY <3>3, WordAssumption
  <2>4. TypeOK'
    <3>1. slots' \in [Threads -> Nat]
      BY <1>0, <2>1, <2>3 DEF TypeOK
    <3> QED BY <1>0, <2>1, <3>1 DEF TypeOK, Go, prefVars, childVars
  <2>5. Framed'
    <3>1. /\ at'[t] = "filled"
          /\ IF slots'[t] < Word THEN slots'[t] = argc[t] ELSE slots'[t] > argc[t]
      BY <1>0, <2>1, <2>3 DEF TypeOK, Go
    <3>2. \A u \in Threads \ {t} : at'[u] = at[u] /\ slots'[u] = slots[u]
      BY <1>0, <2>1 DEF TypeOK, Go
    <3> QED BY <1>0, <2>1, <3>1, <3>2 DEF Framed, prefVars
  <2>6. Parsed' /\ Chosen'
    BY <1>0, <2>1 DEF TypeOK, Parsed, Chosen, Go
  <2> QED BY <2>2, <2>4, <2>5, <2>6 DEF IInv
<1>4. CASE ArgvUnlock(t)
  <2>1. /\ Frame /\ UNCHANGED <<kind, argc, slots, copy, num, children, crashed, left>>
        /\ at[t] = "filled" /\ Go(t, "stop") /\ mutex' = None
        /\ pointer' = [pointer EXCEPT ![t] = None]
        /\ overlap' = [overlap EXCEPT !["stegotorus"] = @ \/ Overlaps(t, "stegotorus")]
    BY <1>4 DEF ArgvUnlock
  <2>2. TypeOK'
    <3>1. overlap' \in [Kinds -> BOOLEAN]
      BY <1>0, <2>1 DEF TypeOK, Overlaps
    <3> QED BY <1>0, <2>1, <3>1, NoneAssumption DEF TypeOK, Go, prefVars
  <2>3. Parsed' /\ Framed' /\ Chosen'
    BY <1>0, <2>1 DEF TypeOK, Parsed, Framed, Chosen, Go, prefVars, Kinds
  <2>4. Alone' /\ (\A k \in Kinds : 0 \notin children[k])'
    <3>1. /\ ~overlap'["stegotorus"] => ~overlap["stegotorus"] /\ ~Overlaps(t, "stegotorus")
          /\ \A m \in Kinds \ {"stegotorus"} : overlap'[m] = overlap[m]
      BY <1>0, <2>1 DEF TypeOK, Kinds
    <3> QED BY <1>0, <2>1, <3>1, Enters DEF Kinds, Chosen
  <2> QED BY <2>2, <2>3, <2>4 DEF IInv
<1>5. CASE ArgvFailed(t)
  <2>1. /\ Frame /\ UNCHANGED <<kind, slots, copy, num, children, crashed, left>>
        /\ at[t] = "fill" /\ Go(t, "stop") /\ mutex' = None
        /\ argc' = [argc EXCEPT ![t] = -1]
        /\ pointer' = [pointer EXCEPT ![t] = None]
        /\ overlap' = [overlap EXCEPT !["stegotorus"] = @ \/ Overlaps(t, "stegotorus")]
    BY <1>5 DEF ArgvFailed, AfterFailure
  <2>2. TypeOK'
    <3>1. overlap' \in [Kinds -> BOOLEAN]
      BY <1>0, <2>1 DEF TypeOK, Overlaps
    <3>2. argc' \in [Threads -> Int]
      BY <1>0, <2>1 DEF TypeOK
    <3> QED BY <1>0, <2>1, <3>1, <3>2, NoneAssumption DEF TypeOK, Go, prefVars
  <2>3. Parsed' /\ Framed' /\ Chosen'
    BY <1>0, <2>1 DEF TypeOK, Parsed, Framed, Chosen, Go, prefVars, Kinds
  <2>4. Alone' /\ (\A k \in Kinds : 0 \notin children[k])'
    <3>1. /\ ~overlap'["stegotorus"] => ~overlap["stegotorus"] /\ ~Overlaps(t, "stegotorus")
          /\ \A m \in Kinds \ {"stegotorus"} : overlap'[m] = overlap[m]
      BY <1>0, <2>1 DEF TypeOK, Kinds
    <3> QED BY <1>0, <2>1, <3>1, Enters DEF Kinds, Chosen
  <2> QED BY <2>2, <2>3, <2>4 DEF IInv
<1>6. CASE ArgvOverrun(t)
  BY <1>0, <1>6, Crashes DEF ArgvOverrun
<1> QED BY <1>1, <1>2, <1>3, <1>4, <1>5, <1>6 DEF Argv

-----------------------------------------------------------------------------
\* djb_launch()

LEMMA StartStep ==
  ASSUME IInv, ~crashed, NEW t \in Threads, Start(t) \/ LaunchTor(t)
  PROVE  IInv'
<1>0. TypeOK /\ Parsed /\ Framed /\ Chosen
  BY DEF IInv
<1> DEFINE Frame == UNCHANGED <<prefVars, mutex, body, pointer, todo, crashed>>
<1>1. CASE LaunchTor(t)
  <2>1. /\ Frame /\ UNCHANGED <<argc, slots, copy, num, children>>
        /\ at[t] = "idle" /\ Go(t, "stop") /\ left' \in 0 .. Budget
        /\ kind' = [kind EXCEPT ![t] = "tor"]
        /\ overlap' = [overlap EXCEPT !["tor"] = @ \/ Overlaps(t, "tor")]
    BY <1>0, <1>1, BudgetAssumption DEF LaunchTor, TypeOK, frameVars
  <2>2. TypeOK'
    <3>1. overlap' \in [Kinds -> BOOLEAN]
      BY <1>0, <2>1 DEF TypeOK, Overlaps
    <3> QED BY <1>0, <2>1, <3>1 DEF TypeOK, Go, Kinds, prefVars
  <2>3. Parsed' /\ Framed' /\ Chosen'
    BY <1>0, <2>1 DEF TypeOK, Parsed, Framed, Chosen, Go, prefVars, Kinds
  <2>4. Alone' /\ (\A k \in Kinds : 0 \notin children[k])'
    <3>1. /\ ~overlap'["tor"] => ~overlap["tor"] /\ ~Overlaps(t, "tor")
          /\ \A m \in Kinds \ {"tor"} : overlap'[m] = overlap[m]
      BY <1>0, <2>1 DEF TypeOK, Kinds
    <3> QED BY <1>0, <2>1, <3>1, Enters DEF Kinds
  <2> QED BY <2>2, <2>3, <2>4 DEF IInv
<1>2. CASE Stop(t) \/ Forget(t)
  <2>1. /\ Frame /\ UNCHANGED <<kind, argc, slots, copy, overlap, left>>
        /\ at[t] \in {"stop", "forget"} /\ \E to \in {"forget", "spawn"} : Go(t, to)
        /\ num' \in [Kinds -> Nat] /\ children' \in [Kinds -> SUBSET Nat]
        /\ \A k \in Kinds : children'[k] \subseteq children[k]
        /\ \A k \in Kinds \ {kind[t]} : num'[k] = num[k] /\ children'[k] = children[k]
    <3> DEFINE k == kind[t]
    <3>1. /\ num \in [Kinds -> Nat] /\ children \in [Kinds -> SUBSET Nat]
          /\ at[t] \in {"stop", "forget"} /\ k \in Kinds
      BY <1>0, <1>2 DEF Stop, Forget, TypeOK, Chosen
    <3>2. /\ Frame /\ UNCHANGED <<kind, argc, slots, copy, overlap, left>>
          /\ \E to \in {"forget", "spawn"} : Go(t, to)
      BY <1>2 DEF Stop, Forget, frameVars
    <3>3. /\ num' = num \/ num' = [num EXCEPT ![k] = 0]
          /\ children' = children \/ children' = [children EXCEPT ![k] = children[k] \ {num[k]}]
      BY <1>2 DEF Stop, Forget, Others
    <3> HIDE DEF k
    <3>4. num' \in [Kinds -> Nat] /\ \A m \in Kinds \ {k} : num'[m] = num[m]
      BY <3>1, <3>3
    <3>5. /\ children' \in [Kinds -> SUBSET Nat]
          /\ \A m \in Kinds : children'[m] \subseteq children[m]
          /\ \A m \in Kinds \ {k} : children'[m] = children[m]
      BY <3>1, <3>3
    <3> QED BY <3>1, <3>2, <3>4, <3>5 DEF k
  <2>2. TypeOK'
    BY <1>0, <2>1 DEF TypeOK, Go, prefVars
  <2>3. Parsed' /\ Framed' /\ Chosen'
    BY <1>0, <2>1 DEF TypeOK, Parsed, Framed, Chosen, Go, prefVars
  <2>4. ~overlap[kind[t]] => children'[kind[t]] = {}
    BY <1>0, <1>2 DEF Stop, Forget, Others, TypeOK, Chosen, IInv, Alone, Launching
  <2>5. Alone'
    BY <1>0, <2>1, <2>4, GoesOn DEF Chosen
  <2>6. \A k \in Kinds : 0 \notin children'[k]
    BY <2>1 DEF IInv
  <2> QED BY <2>2, <2>3, <2>5, <2>6 DEF IInv
<1>3. ASSUME SpawnFailed(t) \/ \E n \in 1 .. Budget : Spawn(t, n)
      PROVE  IInv'
  <2> DEFINE k == kind[t]
  <2>1. k \in Kinds /\ at[t] = "spawn"
    BY <1>0, <1>3 DEF Chosen, Spawn, SpawnFailed
  <2>2. /\ Frame /\ UNCHANGED <<overlap, left>>
        /\ Go(t, "idle") /\ kind' = [kind EXCEPT ![t] = None]
        /\ argc' = [argc EXCEPT ![t] = 0] /\ slots' = [slots EXCEPT ![t] = 0]
        /\ copy' = [copy EXCEPT ![t] = None]
    BY <1>3 DEF Spawn, SpawnFailed
  <2>3. PICK n \in Nat :
          /\ num' = [num EXCEPT ![k] = n]
          /\ \/ n # 0 /\ children' = [children EXCEPT ![k] = @ \cup {n}]
             \/ n = 0 /\ children' = children
    BY <1>3, BudgetAssumption DEF Spawn, SpawnFailed
  <2>4. TypeOK'
    <3>1. num' \in [Kinds -> Nat] /\ children' \in [Kinds -> SUBSET Nat]
      BY <1>0, <2>1, <2>3 DEF TypeOK
    <3>2. /\ argc' \in [Threads -> Int] /\ slots' \in [Threads -> Nat]
          /\ copy' \in [Threads -> (Nat \X Nat) \cup {None}]
      BY <1>0, <2>2 DEF TypeOK
    <3> QED BY <1>0, <2>1, <2>2, <3>1, <3>2 DEF TypeOK, Go, prefVars
  <2>5. Parsed' /\ Framed' /\ Chosen'
    BY <1>0, <2>1, <2>2 DEF TypeOK, Parsed, Framed, Chosen, Go, prefVars
  <2>6. /\ \A u \in Threads, m \in Kinds :
             Launching(u, m)' <=> Launching(u, m) /\ u # t
        /\ \A u \in Threads \ {t} : at'[u] = at[u]
    BY <1>0, <2>1, <2>2 DEF TypeOK, Launching, Go
  <2>7. \A m \in Kinds : 0 \notin children'[m]
    BY <1>0, <2>1, <2>3 DEF IInv, TypeOK
  <2>8. ASSUME NEW m \in Kinds, ~overlap[m]
        PROVE  /\ children'[m] \subseteq {num'[m]}
               /\ \A u \in Threads : Launching(u, m)' /\ at'[u] # "stop" => children'[m] = {}
    <3>1. CASE m = k
      <4>1. children[k] = {} /\ \A u \in Threads : Launching(u, k) => u = t
        BY <2>1, <2>8, <3>1 DEF IInv, Alone, Launching
      <4>2. children'[k] \subseteq {num'[k]}
        BY <1>0, <2>1, <2>3, <4>1 DEF TypeOK
      <4> QED BY <2>6, <3>1, <4>1, <4>2
    <3>2. CASE m # k
      <4>1. num'[m] = num[m] /\ children'[m] = children[m]
        BY <1>0, <2>3, <3>2 DEF TypeOK
      <4> QED BY <2>6, <2>8, <4>1 DEF IInv, Alone
    <3> QED BY <3>1, <3>2
  <2>9. Alone'
    BY <2>2, <2>6, <2>8 DEF IInv, Alone
  <2> QED BY <2>4, <2>5, <2>7, <2>9 DEF IInv
<1>4. CASE Garbage(t)
  BY <1>0, <1>4, Crashes DEF Garbage
<1> QED BY <1>1, <1>2, <1>3, <1>4 DEF Start

-----------------------------------------------------------------------------
\* The theorems

\* prf_init(), and no process.
LEMMA InitInv == Init => IInv
<1> SUFFICES ASSUME Init PROVE IInv
  OBVIOUS
<1>1. \A t \in Threads : at[t] = "idle"
  BY DEF Init
<1>2. TypeOK
  <2>1. /\ value \in [Keys -> Int] /\ version \in [Keys -> Nat]
        /\ \A k \in Keys \ {"circuits"} : value[k] \in {0, 1}
    BY DEF Init, Defaults, Keys
  <2>2. left \in 0 .. Budget
    BY BudgetAssumption DEF Init
  <2>3. \A t \in Threads : mutex = t <=> at[t] \in {"values", "unlock", "fill", "filled"}
    BY <1>1, NoneAssumption DEF Init
  <2>4. argc \in [Threads -> Int] /\ slots \in [Threads -> Nat]
    BY DEF Init
  <2> QED BY <2>1, <2>2, <2>3, <2>4 DEF Init, TypeOK
<1>3. Parsed /\ Framed /\ Chosen
  BY <1>1 DEF Init, Parsed, Framed, Chosen
<1>4. Alone /\ \A k \in Kinds : 0 \notin children[k]
  BY <1>1 DEF Init, Alone, Launching
<1> QED BY <1>2, <1>3, <1>4 DEF IInv

\* Every step preserves the invariant.
LEMMA NextInv == IInv /\ [Next]_vars => IInv'
<1> SUFFICES ASSUME IInv, [Next]_vars PROVE IInv'
  OBVIOUS
<1>1. ASSUME ~crashed, NEW t \in Threads,
             SetRequest(t) \/ LaunchSt(t) \/ LaunchTor(t) \/ Handler(t)
      PROVE  IInv'
  BY <1>1, SetStep, ArgvStep, StartStep DEF Handler
<1>2. CASE UNCHANGED vars
  BY <1>2 DEF vars, prefVars, frameVars, childVars, IInv, TypeOK, Parsed, Framed, Chosen,
              Alone, Launching
<1> QED BY <1>1, <1>2 DEF Next

\* The invariant holds in every reachable state.
THEOREM Invariance == Spec => []IInv
<1> QED BY InitInv, NextInv, PTL DEF Spec

\* Types, and who has l_mutex, for any number of threads and requests.
THEOREM TypeCorrect == Spec => []TypeOK
<1>1. IInv => TypeOK
  BY DEF IInv
<1> QED BY <1>1, Invariance, PTL

\* For any number in the preferences, a negative one too, whoever sets others
\* meanwhile: prf_get_argv() fills its vector to the last slot and no further if
\* and only if an unsigned int can count the slots.
THEOREM VectorFits == Spec => []ArgvFits
<1>1. IInv => ArgvFits
  BY DEF IInv, Framed, ArgvFits
<1> QED BY <1>1, Invariance, PTL

\* No string prf_get_argv() points to is freed before it is done with it.
THEOREM NothingFreed == Spec => []PointersLive
<1>1. IInv => PointersLive
  BY DEF IInv, Framed, PointersLive
<1> QED BY <1>1, Invariance, PTL

\* Launches that do not overlap never leave a second process of a kind behind.
THEOREM AtMostOneChild == Spec => []OneChild
<1>1. IInv => OneChild
  BY DEF IInv, Alone, OneChild
<1> QED BY <1>1, Invariance, PTL
=============================================================================
