------------------------------- MODULE Launch -------------------------------
(***************************************************************************)
(* Preferences and launched processes (preferences.c, djb_launch*() of     *)
(* djb.c).                                                                 *)
(*                                                                         *)
(* Threads of the HTTP server set preferences, and launch StegoTorus with  *)
(* arguments made from them, or Tor with fixed ones.  The strings of the   *)
(* preferences are freed and replaced under l_mutex, and prf_get_argv()    *)
(* uses them under l_mutex.  The numbers of the processes, l_st_pnum and   *)
(* l_tor_pnum, have no lock.                                               *)
(***************************************************************************)
EXTENDS Integers, FiniteSets

CONSTANTS Threads,   \* threads of the HTTP server
          Bodies,    \* posted preferences: functions from some of the Keys
          Word,      \* the values of an unsigned int: 2^32 in the code
          Budget,    \* bound: requests
          None

\* The preferences the arguments depend on; "strings" is any of the others.  The
\* value is the number of arguments the string is good for, or what atoi() makes
\* of that of the circuits.
Keys == {"circuits", "trace", "secret", "strings"}
Defaults == [circuits |-> 1, trace |-> 0, secret |-> 0, strings |-> 1]

\* What prf_get_argv() keeps as a pointer, to use it again later.
Pointers == {"secret", "strings"}

\* prf_set() checks nothing: the circuits may be any number, a negative one too.
ASSUME BodiesAssumption ==
  \A b \in Bodies : /\ DOMAIN b \subseteq Keys
                    /\ \A k \in DOMAIN b : b[k] \in IF k = "circuits" THEN Int ELSE {0, 1}
ASSUME WordAssumption == Word \in Nat \ {0}
ASSUME BudgetAssumption == Budget \in Nat
ASSUME NoneAssumption == None \notin Threads \cup Bodies

Kinds == {"stegotorus", "tor"}

VARIABLES
  value,     \* l_values, with the defaults: key -> what it says
  version,   \* key -> how many strings it had
  mutex,     \* l_mutex: the thread that has it
  at,        \* thread -> where it is
  kind,      \* thread -> what it launches
  body,      \* thread -> the preferences it sets; None: not a JSON object
  argc,      \* thread -> slots of the argument vector; -1: it has none
  slots,     \* thread -> slots it wrote
  copy,      \* thread -> circuits and trace_packets: its local variables
  pointer,   \* thread -> versions of the strings it points to
  todo,      \* thread -> preferences left to set
  num,       \* l_st_pnum and l_tor_pnum
  children,  \* kind -> processes started and not told to end
  overlap,   \* kind -> have two launches overlapped? (history)
  crashed,
  left       \* what is left of the Budget

prefVars == <<value, version>>
frameVars == <<argc, slots, copy, pointer>>
childVars == <<num, children, overlap>>
vars == <<prefVars, mutex, at, kind, body, frameVars, todo, childVars, crashed, left>>

-----------------------------------------------------------------------------
\* Helpers

\* An int, or a sum, in an unsigned int.
Unsigned(n) == n % Word

\* The slots prf_get_argv() allots.
\* (Mutated form: none for the secret.)
Allotted_NoSecret(circuits, trace, secret) == Unsigned(7 + 2 * circuits + trace)
Allotted(circuits, trace, secret) == Unsigned(7 + 2 * circuits + secret + trace)

\* Those it fills: the program and its fixed options, the optional ones, the
\* proxy address, two for each circuit, and the NULL.  Nothing limits them.
Filled(circuits, trace, secret) == 5 + trace + secret + 1 + 2 * circuits + 1

\* May the mutex be taken?  (Mutated form: it is not tested.)
Free_Always == TRUE
Free == mutex = None

\* prf_set() after prf_parse_preferences() has looked at the JSON.
\* (Mutated form: an early return when it is broken.)
AfterParse_Returns(ok) == IF ok THEN "values" ELSE "idle"
AfterParse(ok) == IF ok THEN "values" ELSE "unlock"

\* l_mutex when prf_get_argv() fails.  (Mutated form: it is kept.)
AfterFailure_Locked(t) == t
AfterFailure(t) == None

\* process_terminate(*num).  (Mutated form: the number is forgotten only.)
Others_All(k) == children[k]
Others(k) == children[k] \ {num[k]}

Go(t, to) == at' = [at EXCEPT ![t] = to]

\* Where a thread is in djb_launch(), before the process is recorded.
Launching(t, k) == at[t] \in {"stop", "forget", "spawn"} /\ kind[t] = k
Overlaps(t, k) == \E u \in Threads \ {t} : Launching(u, k)

-----------------------------------------------------------------------------
\* Setting preferences

\* POST /preferences/set/: prf_set() lets httpsrv read the body.  Without a length
\* the answer is 400 at once.  When httpsrv_readbody_alloc() fails nobody
\* answers, and nothing reads the body.
SetRequest(t) ==
  /\ at[t] = "idle" /\ left > 0 /\ left' = left - 1
  /\ \E to \in {"reading", "idle", "unread"} : Go(t, to)
  /\ UNCHANGED <<prefVars, mutex, kind, body, frameVars, todo, childVars, crashed>>

\* The body is there, and prf_set() is called again.
SetBody(t, b) ==
  /\ at[t] = "reading"
  /\ Go(t, "set") /\ body' = [body EXCEPT ![t] = b]
  /\ UNCHANGED <<prefVars, mutex, kind, frameVars, todo, childVars, crashed, left>>

\* The connection closes before.
SetClosed(t) ==
  /\ at[t] \in {"reading", "unread"} /\ Go(t, "idle")
  /\ UNCHANGED <<prefVars, mutex, kind, body, frameVars, todo, childVars, crashed, left>>

\* prf_parse_preferences(): the keys that are given.
SetLock(t) ==
  /\ at[t] = "set" /\ Free
  /\ mutex' = t
  /\ Go(t, AfterParse(body[t] # None))
  /\ todo' = [todo EXCEPT ![t] = IF body[t] = None THEN {} ELSE DOMAIN body[t]]
  /\ UNCHANGED <<prefVars, kind, body, frameVars, childVars, crashed, left>>

\* prf_set_value(): the old string is freed; without memory for the new one
\* the default counts.  The order of the keys makes no difference.
SetValue(t, k) ==
  /\ at[t] = "values" /\ k \in todo[t]
  /\ \E v \in {body[t][k], Defaults[k]} : value' = [value EXCEPT ![k] = v]
  /\ version' = [version EXCEPT ![k] = @ + 1]
  /\ todo' = [todo EXCEPT ![t] = @ \ {k}]
  /\ UNCHANGED <<mutex, at, kind, body, frameVars, childVars, crashed, left>>

ValuesSet(t) ==
  /\ at[t] = "values" /\ todo[t] = {}
  /\ Go(t, "unlock")
  /\ UNCHANGED <<prefVars, mutex, kind, body, frameVars, todo, childVars, crashed, left>>

SetUnlock(t) ==
  /\ at[t] = "unlock"
  /\ mutex' = None
  /\ Go(t, "idle") /\ body' = [body EXCEPT ![t] = None]
  /\ UNCHANGED <<prefVars, kind, frameVars, todo, childVars, crashed, left>>

-----------------------------------------------------------------------------
\* Launching

\* GET /launch/stegotorus/: djb_launch_st() makes the arguments first.
LaunchSt(t) ==
  /\ at[t] = "idle" /\ left > 0 /\ left' = left - 1
  /\ Go(t, "argv") /\ kind' = [kind EXCEPT ![t] = "stegotorus"]
  /\ UNCHANGED <<prefVars, mutex, body, frameVars, todo, childVars, crashed>>

\* GET /launch/tor/: the arguments are fixed.
LaunchTor(t) ==
  /\ at[t] = "idle" /\ left > 0 /\ left' = left - 1
  /\ Go(t, "stop") /\ kind' = [kind EXCEPT ![t] = "tor"]
  /\ overlap' = [overlap EXCEPT !["tor"] = @ \/ Overlaps(t, "tor")]
  /\ UNCHANGED <<prefVars, mutex, body, frameVars, todo, num, children, crashed>>

\* prf_get_argv(), up to the calloc().
ArgvLock(t) ==
  /\ at[t] = "argv" /\ Free
  /\ mutex' = t
  /\ Go(t, "fill")
  /\ copy' = [copy EXCEPT ![t] = <<Unsigned(value["circuits"]), value["trace"]>>]
  /\ argc' = [argc EXCEPT ![t] = Allotted(copy'[t][1], copy'[t][2], value["secret"])]
  /\ pointer' = [pointer EXCEPT ![t] = [k \in Pointers |-> version[k]]]
  /\ UNCHANGED <<prefVars, kind, body, slots, todo, childVars, crashed, left>>

\* The slots are filled, as long as there are circuits; the secret is looked at
\* again.
ArgvFill(t) ==
  /\ at[t] = "fill"
  /\ Go(t, "filled")
  /\ slots' = [slots EXCEPT ![t] = Filled(copy[t][1], copy[t][2], value["secret"])]
  /\ UNCHANGED <<prefVars, mutex, kind, body, argc, copy, pointer, todo, childVars, crashed, left>>

\* It wrote past the vector: what is left of the process does not go on.
ArgvOverrun(t) ==
  /\ at[t] = "filled" /\ slots[t] > argc[t]
  /\ crashed' = TRUE
  /\ UNCHANGED <<prefVars, mutex, at, kind, body, frameVars, todo, childVars, left>>

ArgvUnlock(t) ==
  /\ at[t] = "filled" /\ slots[t] <= argc[t]
  /\ mutex' = None
  /\ Go(t, "stop")
  /\ pointer' = [pointer EXCEPT ![t] = None]
  /\ overlap' = [overlap EXCEPT !["stegotorus"] = @ \/ Overlaps(t, "stegotorus")]
  /\ UNCHANGED <<prefVars, kind, body, argc, slots, copy, todo, num, children, crashed, left>>

\* No memory, or too long a log level: prf_get_argv() unlocks and returns -1,
\* which djb_launch_st() does not look at.
ArgvFailed(t) ==
  /\ at[t] = "fill"
  /\ mutex' = AfterFailure(t)
  /\ Go(t, "stop") /\ argc' = [argc EXCEPT ![t] = -1]
  /\ pointer' = [pointer EXCEPT ![t] = None]
  /\ overlap' = [overlap EXCEPT !["stegotorus"] = @ \/ Overlaps(t, "stegotorus")]
  /\ UNCHANGED <<prefVars, kind, body, slots, copy, todo, num, children, crashed, left>>

\* djb_launch(): "Already had one running? stop it"
Stop(t) ==
  LET k == kind[t] IN
  /\ at[t] = "stop"
  /\ IF num[k] = 0 THEN Go(t, "spawn") /\ UNCHANGED children
     ELSE Go(t, "forget") /\ children' = [children EXCEPT ![k] = Others(k)]
  /\ UNCHANGED <<prefVars, mutex, kind, body, frameVars, todo, num, overlap, crashed, left>>

Forget(t) ==
  /\ at[t] = "forget"
  /\ Go(t, "spawn") /\ num' = [num EXCEPT ![kind[t]] = 0]
  /\ UNCHANGED <<prefVars, mutex, kind, body, frameVars, todo, children, overlap, crashed, left>>

\* The argv was never initialised: djb_launch() looks for a string in it, and
\* prf_free_argv() frees 2^32 - 1 of them.
Garbage(t) ==
  /\ at[t] = "spawn" /\ argc[t] = -1
  /\ crashed' = TRUE
  /\ UNCHANGED <<prefVars, mutex, at, kind, body, frameVars, todo, childVars, left>>

\* process_spawn() gives the new process a number that is not in use.
Spawn(t, n) ==
  LET k == kind[t] IN
  /\ at[t] = "spawn" /\ argc[t] # -1
  /\ n \notin children["stegotorus"] \cup children["tor"]
  /\ \A p \in 1..(n - 1) : p \in children["stegotorus"] \cup children["tor"]
  /\ Go(t, "idle") /\ kind' = [kind EXCEPT ![t] = None]
  /\ num' = [num EXCEPT ![k] = n]
  /\ children' = [children EXCEPT ![k] = @ \cup {n}]
  /\ argc' = [argc EXCEPT ![t] = 0] /\ slots' = [slots EXCEPT ![t] = 0]
  /\ copy' = [copy EXCEPT ![t] = None]
  /\ UNCHANGED <<prefVars, mutex, body, pointer, todo, overlap, crashed, left>>

\* It cannot be started, and djb_result() says so.
SpawnFailed(t) ==
  /\ at[t] = "spawn" /\ argc[t] # -1
  /\ Go(t, "idle") /\ kind' = [kind EXCEPT ![t] = None]
  /\ num' = [num EXCEPT ![kind[t]] = 0]
  /\ argc' = [argc EXCEPT ![t] = 0] /\ slots' = [slots EXCEPT ![t] = 0]
  /\ copy' = [copy EXCEPT ![t] = None]
  /\ UNCHANGED <<prefVars, mutex, body, pointer, todo, children, overlap, crashed, left>>

-----------------------------------------------------------------------------
Init ==
  /\ value = Defaults /\ version = [k \in Keys |-> 0]
  /\ mutex = None
  /\ at = [t \in Threads |-> "idle"] /\ kind = [t \in Threads |-> None]
  /\ body = [t \in Threads |-> None]
  /\ argc = [t \in Threads |-> 0] /\ slots = [t \in Threads |-> 0]
  /\ copy = [t \in Threads |-> None] /\ pointer = [t \in Threads |-> None]
  /\ todo = [t \in Threads |-> {}]
  /\ num = [k \in Kinds |-> 0] /\ children = [k \in Kinds |-> {}]
  /\ overlap = [k \in Kinds |-> FALSE]
  /\ crashed = FALSE /\ left = Budget

Set(t) == \/ SetClosed(t) \/ SetLock(t) \/ ValuesSet(t) \/ SetUnlock(t)
          \/ \E b \in Bodies \cup {None} : SetBody(t, b)
          \/ \E k \in Keys : SetValue(t, k)
Argv(t) == ArgvLock(t) \/ ArgvFill(t) \/ ArgvOverrun(t) \/ ArgvUnlock(t) \/ ArgvFailed(t)
Start(t) == \/ Stop(t) \/ Forget(t) \/ Garbage(t) \/ SpawnFailed(t)
            \/ \E n \in 1..Budget : Spawn(t, n)
Handler(t) == Set(t) \/ Argv(t) \/ Start(t)

Next == /\ ~crashed
        /\ \E t \in Threads : SetRequest(t) \/ LaunchSt(t) \/ LaunchTor(t) \/ Handler(t)

Spec == Init /\ [][Next]_vars

\* The threads run, and a body is read or its connection closes.
FairSpec == Spec /\ \A t \in Threads : WF_vars(~crashed /\ Handler(t))

-----------------------------------------------------------------------------
\* Properties

\* The types; and l_mutex is taken by the thread that is between a lock and the
\* unlock that belongs to it, on every way out of prf_set() and prf_get_argv().
TypeOK ==
  /\ value \in [Keys -> Int] /\ \A k \in Keys \ {"circuits"} : value[k] \in {0, 1}
  /\ version \in [Keys -> Nat]
  /\ mutex \in Threads \cup {None}
  /\ at \in [Threads -> {"idle", "reading", "unread", "set", "values", "unlock", "argv",
                         "fill", "filled", "stop", "forget", "spawn"}]
  /\ kind \in [Threads -> Kinds \cup {None}] /\ body \in [Threads -> Bodies \cup {None}]
  /\ argc \in [Threads -> Int] /\ slots \in [Threads -> Nat]
  /\ copy \in [Threads -> (Nat \X Nat) \cup {None}]
  /\ pointer \in [Threads -> [Pointers -> Nat] \cup {None}]
  /\ todo \in [Threads -> SUBSET Keys]
  /\ num \in [Kinds -> Nat] /\ children \in [Kinds -> SUBSET Nat]
  /\ overlap \in [Kinds -> BOOLEAN] /\ crashed \in BOOLEAN /\ left \in 0..Budget
  /\ \A t \in Threads : mutex = t <=> at[t] \in {"values", "unlock", "fill", "filled"}

\* prf_get_argv() fills the slots it allotted, no more and no fewer, whatever is
\* set at the time, for the circuits whose slots an unsigned int can count; for
\* the others, such as -3, it writes past the end.
ArgvFits ==
  \A t \in Threads : at[t] = "filled" =>
    IF slots[t] < Word THEN slots[t] = argc[t] ELSE slots[t] > argc[t]

\* The strings prf_get_argv() points to are those of the preferences until it
\* is done with them: "Lock up to avoid other threads from modifying the prefs"
\* (preferences.c).
PointersLive ==
  \A t \in Threads : pointer[t] # None => pointer[t] = [k \in Pointers |-> version[k]]

\* "Already had one running? stop it" (djb_launch()): the only process of a
\* kind is the one djb has the number of, unless two launches of it overlapped.
OneChild == \A k \in Kinds : ~overlap[k] => children[k] \subseteq {num[k]}

\* Every request comes to its end, unless the daemon crashes.
HandlersReturn == \A t \in Threads : at[t] # "idle" ~> (at[t] = "idle" \/ crashed)
=============================================================================
