----------------------------- MODULE Rendezvous -----------------------------
(***************************************************************************)
(* The rendezvous of the djb daemon (server/rendezvous.c) with the page    *)
(* that drives it (plugin rendezvous.js).                                  *)
(*                                                                         *)
(* The page resets djb, has it make a request with a fresh password,       *)
(* fetches an image with it and posts that image.  djb extracts an onion   *)
(* from the image, and the page has it peeled layer by layer: a signature  *)
(* is verified, a captcha is shown and answered, a proof of work is        *)
(* searched by a thread of its own while the page polls.  The innermost    *)
(* layer is the NET, which is handed to the ACS dance.                     *)
(*                                                                         *)
(* An onion is <<load, depth, by>>: it came with the image of that load of *)
(* the page, has lost depth layers, and was allocated by a handler (None)  *)
(* or by a thread of the proof of work.                                    *)
(***************************************************************************)
EXTENDS Naturals, Sequences, FiniteSets

CONSTANTS Onions,     \* the onions a server may hide: sequences of layers
          Searches,   \* proof-of-work threads
          MaxLoads,   \* bound: how often the page is loaded
          InFlight,   \* bound: the page's user waits while this many requests are
                      \* on their way (a browser has six connections to djb)
          None

Types == {"pow", "captcha", "signed", "collection", "base"}
Loads == 1 .. MaxLoads
Places == Loads \X Nat
Onion == Loads \X Nat \X (Searches \cup {None})

ASSUME OnionsAssumption == \A o \in Onions :
  /\ o \in Seq(Types) /\ o # <<>>
  /\ \A i \in 1 .. Len(o) : o[i] \in {"base", "collection"} <=> i = Len(o)
ASSUME LoadsAssumption == MaxLoads \in Nat \ {0}
ASSUME InFlightAssumption == InFlight \in Nat \ {0}
ASSUME NoneAssumption == None \notin Onion \cup Places \cup Loads \cup Searches

VARIABLES
  password,   \* l_password: the load it was made for, or None
  onion,      \* l_current_onion
  image,      \* l_current_image_path and _dir: the load they belong to
  captcha,    \* l_captcha_image_path: the place of the onion whose captcha it holds
  files,      \* what is in the temporary directories: <<kind, load>>
  freed,      \* onions released with free_onion()
  started, finished, inner,  \* l_pow_thread_started, _finished, l_pow_inner_onion
  search,     \* thread -> where it is, and the onion it works on
  net,        \* the onion whose NET was handed to acs_set_net()
  layers,     \* load -> the layers of the onion it fetched
  wire,       \* requests on their way to djb
  load,       \* how often the page was loaded
  stage,      \* the request it waits for, "enter" or "onion"
  shown,      \* Rendezvous.onion: the type on display
  listeners,  \* what the button of the captcha does
  disabled,   \* the button of the proof of work is
  due,        \* the next peel is on a timer, or made at once
  status,     \* kind of the last answer to a peel
  picture,    \* the place of the captcha on display
  crashed,    \* djb died
  cut         \* for the properties: what happened that djb is not made for

onionVars == <<password, onion, image, captcha, files, freed>>
powVars   == <<started, finished, inner, search>>
envVars   == <<net, layers, crashed, cut>>
viewVars  == <<shown, listeners, disabled, due, status, picture>>
pageVars  == <<load, stage, viewVars>>
vars == <<onionVars, powVars, envVars, wire, pageVars>>

\* The n-th of equal requests that are on their way at a time.
Copies == 1 .. InFlight + 2
Request(kind, answer, n) == [kind |-> kind, load |-> load, answer |-> answer, n |-> n]

Init ==
  /\ password = None /\ onion = None /\ image = None /\ captcha = None
  /\ files = {} /\ freed = {}
  /\ started = FALSE /\ finished = FALSE /\ inner = None
  /\ search = [s \in Searches |-> [at |-> "end", of |-> None]]
  /\ net = None /\ layers = [l \in Loads |-> <<>>] /\ crashed = FALSE /\ cut = {}
  /\ load = 1 /\ stage = "reset" /\ wire = {Request("reset", None, 1)}
  /\ shown = "" /\ listeners = {} /\ disabled = FALSE /\ due = FALSE
  /\ status = "" /\ picture = None

-----------------------------------------------------------------------------
\* Helpers

Type(o) == layers[o[1]][o[2] + 1]

Place(o) == IF o = None THEN None ELSE <<o[1], o[2]>>

Inside(o, by) == <<o[1], o[2] + 1, by>>

Searching(s) == search[s].at \in {"new", "search", "found"}

\* A peel is answered and the page updates its display, unless it was loaded
\* anew: UI.update_display() and its update_X_display().  A number below 100
\* (kind "number") has it peel after 50 ms, and 100 ("full") at once.
Show(r, type, kind) ==
  IF r.load # load
    THEN UNCHANGED viewVars
    ELSE /\ shown' = type /\ status' = kind
         /\ due' = (due \/ kind \in {"number", "full"})
         /\ disabled' = (kind = "number" \/ (disabled /\ kind # "full"))
         /\ picture' = IF kind = "picture" THEN captcha' ELSE picture
         /\ listeners' = CASE type # "captcha"  -> listeners
                           [] kind = "picture"  -> (listeners \ {"peel"}) \cup {"answer"}
                           [] OTHER             -> listeners \cup {"peel"}

\* The page goes to its next stage when its own request is answered.
Advance(r, to) == stage' = IF r.load = load THEN to ELSE stage

\* djb takes a request.
Serve(r, kind) == ~crashed /\ r \in wire /\ r.kind = kind /\ wire' = wire \ {r}

-----------------------------------------------------------------------------
\* The page and its user

MayAct == ~crashed /\ Cardinality(wire) < InFlight

\* The page is loaded (again), at any time: Rendezvous.init() sends a reset.
Load ==
  /\ MayAct /\ load < MaxLoads
  /\ load' = load + 1 /\ stage' = "reset"
  /\ wire' = wire \cup {[kind |-> "reset", load |-> load', answer |-> None, n |-> 1]}
  /\ shown' = "" /\ listeners' = {} /\ disabled' = FALSE /\ due' = FALSE
  /\ status' = "" /\ picture' = None
  /\ UNCHANGED <<onionVars, powVars, envVars>>

\* send_url(): "Go", once per load; it does not wait for the answer to the reset.
ClickGo ==
  /\ MayAct /\ stage \in {"reset", "enter"}
  /\ wire' = wire \cup {Request("gen", None, 1)} /\ stage' = "gen"
  /\ UNCHANGED <<onionVars, powVars, envVars, load, viewVars>>

\* The server answers with an image, and forward_image() posts it.
FetchImage ==
  /\ ~crashed /\ stage = "fetch"
  /\ \E o \in Onions : layers' = [layers EXCEPT ![load] = o]
  /\ wire' = wire \cup {Request("image", None, 1)} /\ stage' = "image"
  /\ UNCHANGED <<onionVars, powVars, net, crashed, cut, load, viewVars>>

\* Rendezvous.peel(), with each of these answers.
Send(answers) ==
  /\ \E n \in Copies : LET sent == {Request("peel", a, n) : a \in answers} IN
       sent \cap wire = {} /\ wire' = wire \cup sent
  /\ UNCHANGED <<onionVars, powVars, envVars, load, stage, shown, listeners, disabled,
                 status, picture>>

\* The user presses the button of the layer on display, once or several times.  (That
\* of a proof of work may have two listeners: the same as pressing it twice.)
ClickPeel ==
  /\ MayAct
  /\ shown = "signed" \/ (shown = "pow" /\ ~disabled)
  /\ Send({None}) /\ UNCHANGED due

\* The same for a captcha: all the listeners of the button are called, with the place
\* of the captcha that the user solved, or None.
ClickCaptcha ==
  /\ MayAct /\ shown = "captcha"
  /\ \E answer \in {picture, None} :
       Send({IF l = "answer" THEN answer ELSE None : l \in listeners})
  /\ UNCHANGED due

\* update_POW_display(): the page peels again, after 50 ms or at once.
Poll == ~crashed /\ due /\ due' = FALSE /\ Send({None})

-----------------------------------------------------------------------------
\* rdv_reset(), rdv_gen_request(), rdv_image()

\* rdv_captcha_reset().  (Mutated form: the file stays.)
WithoutCaptcha_Kept == files
WithoutCaptcha == IF captcha = None THEN files ELSE files \ {<<"captcha", image>>}

\* rdv_image_reset() after it: rmdir() fails as long as there is a file.
WithoutImage ==
  LET rest == WithoutCaptcha \ {<<"image", image>>} IN
  IF {<<"captcha", image>>, <<"stray", image>>} \cap rest # {}
    THEN rest ELSE rest \ {<<"dir", image>>}

\* rdv_pow_reset().  (Mutated form: it is not called.)
PowReset_Not == UNCHANGED <<started, finished, inner>>
PowReset == IF started THEN started' = FALSE /\ finished' = FALSE /\ inner' = None
                       ELSE UNCHANGED <<started, finished, inner>>

\* l_current_image_path is set to NULL.  (Mutated form: it is not.)
ImageForgotten_Not == UNCHANGED image
ImageForgotten == image' = None

Reset(r) ==
  /\ Serve(r, "reset")
  /\ password' = None /\ onion' = None /\ captcha' = None /\ ImageForgotten
  /\ files' = WithoutImage
  /\ freed' = freed \cup (({onion} \cup IF started THEN {inner} ELSE {}) \ {None})
  /\ PowReset
  /\ cut' = cut \cup {c \in {"search"} : \E s \in Searches : Searching(s)}
  /\ stage' = IF r.load = load /\ stage = "reset" THEN "enter" ELSE stage
  /\ UNCHANGED <<search, net, layers, crashed, load, viewVars>>

GenRequest(r) ==
  /\ Serve(r, "gen")
  /\ password' = r.load /\ Advance(r, "fetch")
  /\ UNCHANGED <<onion, image, captcha, files, freed, powVars, envVars, load, viewVars>>

\* bf_char64_to_params() or generate_defiant_request_url() fails.
GenRequestFailed(r) ==
  /\ Serve(r, "gen")
  /\ password' \in {password, r.load}
  /\ UNCHANGED <<onion, image, captcha, files, freed, powVars, envVars, pageVars>>

\* The onion is decrypted with the password its request was made with.  It takes the
\* place of the one there is, if the reset did not come first.
Image(r) ==
  /\ Serve(r, "image") /\ password = r.load
  /\ onion' = <<r.load, 0, None>> /\ image' = r.load
  /\ files' = files \cup {<<"image", r.load>>, <<"dir", r.load>>}
  /\ cut' = cut \cup {c \in {"image"} : onion # None}
  /\ Advance(r, "onion")
  /\ LET type == layers[r.load][1] IN Show(r, type, "text")
  /\ UNCHANGED <<password, captcha, freed, powVars, net, layers, crashed, load>>

\* extract_n_save() fails, or the onion cannot be decrypted.  In the latter
\* case unlink() is called for the directory, which stays.
ImageFailed(r) ==
  /\ Serve(r, "image")
  /\ files' \in {files, files \cup {<<"left", r.load>>}}
  /\ UNCHANGED <<password, onion, image, captcha, freed, powVars, envVars, pageVars>>

-----------------------------------------------------------------------------
\* rdv_peel() and the peeler of the outermost layer

\* A peel of an onion of this type.
Peelable == onion # None /\ Type(onion) # "collection"
Peel(r, type) == Serve(r, "peel") /\ Peelable /\ Type(onion) = type

\* The current onion is replaced by the one inside it.
Switch(to) == onion' = to /\ freed' = freed \cup {onion}

\* "Currently no onion", "not implemented yet": the page does not go on.
PeelNothing(r) ==
  /\ Serve(r, "peel") /\ ~Peelable
  /\ UNCHANGED <<onionVars, powVars, envVars, pageVars>>

\* rdv_peel_base(): acs_set_net(), if the NET can be parsed.
PeelBase(r) ==
  /\ Peel(r, "base")
  /\ net' \in {net, onion}
  /\ Show(r, "base", "text")
  /\ UNCHANGED <<onionVars, powVars, layers, crashed, cut, load, stage>>

\* rdv_peel_signed(): verified and peeled, or not.
PeelSigned(r) ==
  /\ Peel(r, "signed")
  /\ \/ /\ Switch(Inside(onion, None))
        /\ Show(r, Type(onion'), "text")
     \/ /\ UNCHANGED <<onion, freed>>
        /\ Show(r, "signed", "text")
  /\ UNCHANGED <<password, image, captcha, files, powVars, envVars, load, stage>>

\* rdv_peel_captcha_no_image_path(): the captcha is put next to the image, over one
\* that may be there.  It cannot be stored, or it is (as a "stray" file) and its
\* path or the answer finds no memory: the path is forgotten.
PeelCaptchaShow(r) ==
  /\ Peel(r, "captcha") /\ captcha = None
  /\ LET others == files \ {<<"stray", image>>} IN
     \/ /\ captcha' = Place(onion)
        /\ files' = others \cup {<<"captcha", image>>}
        /\ Show(r, "captcha", "picture")
     \/ /\ files' \in {files, others \cup {<<"stray", image>>}}
        /\ UNCHANGED <<captcha, viewVars>>
  /\ UNCHANGED <<password, onion, image, freed, powVars, envVars, load, stage>>

\* rdv_peel_captcha_with_image_path(): solved, wrong, or no answer given.
PeelCaptchaAnswer(r) ==
  /\ Peel(r, "captcha") /\ captcha # None
  /\ IF r.answer = Place(onion) THEN Switch(Inside(onion, None)) ELSE UNCHANGED <<onion, freed>>
  /\ Show(r, Type(onion'), "text")
  /\ UNCHANGED <<password, image, captcha, files, powVars, envVars, load, stage>>

\* The test of rdv_peel_pow().  (Mutated form: a peel starts a thread
\* until one has finished.)
MustStart_Again == ~finished
MustStart == ~started

\* rdv_attempts2percent(): 100 only when a thread is at work or was.
Percent == {"number"} \cup {p \in {"full"} : finished \/ \E s \in Searches : Searching(s)}

\* rdv_peel_pow(): the thread is created, or cannot be.
PeelPowStart(r) ==
  /\ Peel(r, "pow") /\ MustStart
  /\ \/ /\ \E s \in Searches : /\ ~Searching(s)
                               /\ search' = [search EXCEPT ![s] = [at |-> "new", of |-> None]]
        /\ started' = TRUE
        /\ \E percent \in Percent : Show(r, "pow", percent)
     \/ /\ UNCHANGED <<started, search>>
        /\ Show(r, "pow", "text")
  /\ UNCHANGED <<onionVars, finished, inner, envVars, load, stage>>

\* Is the search over?  (Mutated form: l_pow_thread_finished is not looked at.)
PowOver_Always == TRUE
PowOver == finished

PeelPowBusy(r) ==
  /\ Peel(r, "pow") /\ ~MustStart /\ ~PowOver
  /\ \E percent \in Percent : Show(r, "pow", percent)
  /\ UNCHANGED <<onionVars, powVars, envVars, load, stage>>

PeelPowFailed(r) ==
  /\ Peel(r, "pow") /\ ~MustStart /\ PowOver /\ inner = None
  /\ Show(r, "pow", "failed")
  /\ UNCHANGED <<onionVars, powVars, envVars, load, stage>>

\* The response still names the old onion: it is made before the switch.
PeelPowDone(r) ==
  /\ Peel(r, "pow") /\ ~MustStart /\ PowOver /\ inner # None
  /\ Show(r, "pow", "full")
  /\ Switch(inner)
  /\ started' = FALSE /\ finished' = FALSE /\ inner' = None
  /\ UNCHANGED <<password, image, captcha, files, search, envVars, load, stage>>

-----------------------------------------------------------------------------
\* rdv_pow_worker()

At(s, at) == search' = [search EXCEPT ![s].at = at]

\* It reads l_current_onion, which must be there.
SearchBegin(s) ==
  /\ ~crashed /\ search[s].at = "new"
  /\ search' = [search EXCEPT ![s] = [at |-> "search", of |-> onion]]
  /\ crashed' = (onion = None)
  /\ UNCHANGED <<onionVars, started, finished, inner, net, layers, cut, wire, pageVars>>

\* What is inside a proof of work, if it is found; nothing in any other layer.
Results(s) == {None} \cup (IF Type(search[s].of) = "pow" THEN {Inside(search[s].of, s)} ELSE {})

\* defiant_pow_aux() returns: l_pow_inner_onion is set.  It may have read an
\* onion that was freed, or one that holds no such puzzle.
SearchFound(s) ==
  /\ ~crashed /\ search[s].at = "search"
  /\ crashed' \in {FALSE, search[s].of \in freed \/ Type(search[s].of) # "pow"}
  /\ IF crashed' THEN UNCHANGED <<inner, search>>
                 ELSE inner' \in Results(s) /\ At(s, "found")
  /\ UNCHANGED <<onionVars, started, finished, net, layers, cut, wire, pageVars>>

\* l_pow_thread_finished = 1.  (Mutated form: it is not set.)
Finished_Not == finished
Finished == TRUE

\* The debug message before reads the inner onion, even if there is none.
SearchFinish(s) ==
  /\ ~crashed /\ search[s].at = "found"
  /\ crashed' \in {FALSE, inner = None}
  /\ IF crashed' THEN UNCHANGED <<finished, search>> ELSE finished' = Finished /\ At(s, "end")
  /\ UNCHANGED <<onionVars, started, inner, net, layers, cut, wire, pageVars>>

-----------------------------------------------------------------------------
Handle(r) == \/ Reset(r) \/ GenRequest(r) \/ GenRequestFailed(r) \/ Image(r) \/ ImageFailed(r)
             \/ PeelNothing(r) \/ PeelBase(r) \/ PeelSigned(r)
             \/ PeelCaptchaShow(r) \/ PeelCaptchaAnswer(r)
             \/ PeelPowStart(r) \/ PeelPowBusy(r) \/ PeelPowFailed(r) \/ PeelPowDone(r)

PowWorker(s) == SearchBegin(s) \/ SearchFound(s) \/ SearchFinish(s)

User == Load \/ ClickGo \/ FetchImage \/ ClickPeel \/ ClickCaptcha

Next == \/ User \/ Poll
        \/ \E r \in wire : Handle(r)
        \/ \E s \in Searches : PowWorker(s)

Spec == Init /\ [][Next]_vars

\* djb answers, its threads run, and the page's timers fire; the user may stop.
Fairness == /\ WF_vars(Poll)
            /\ WF_vars(\E r \in wire : Handle(r))
            /\ \A s \in Searches : WF_vars(PowWorker(s))

FairSpec == Spec /\ Fairness

-----------------------------------------------------------------------------
(***************************************************************************)
(* Properties                                                              *)
(***************************************************************************)

Requests == [kind : {"reset", "gen", "image", "peel"}, load : Loads,
             answer : Places \cup {None}, n : Copies]

TypeDjb ==
  /\ password \in Loads \cup {None} /\ image \in Loads \cup {None}
  /\ onion \in Onion \cup {None} /\ captcha \in Places \cup {None}
  /\ files \subseteq {"dir", "image", "captcha", "left", "stray"} \X Loads
  /\ freed \subseteq Onion
  /\ started \in BOOLEAN /\ finished \in BOOLEAN /\ inner \in Onion \cup {None}
  /\ search \in [Searches -> [at : {"new", "search", "found", "end"}, of : Onion \cup {None}]]
  /\ net \in Onion \cup {None} /\ crashed \in BOOLEAN /\ cut \subseteq {"search", "image"}
  /\ layers \in [Loads -> Onions \cup {<<>>}]

TypePage ==
  /\ wire \subseteq Requests /\ load \in Loads
  /\ stage \in {"reset", "enter", "gen", "fetch", "image", "onion"}
  /\ shown \in Types \cup {""} /\ listeners \subseteq {"peel", "answer"}
  /\ disabled \in BOOLEAN /\ due \in BOOLEAN
  /\ status \in {"", "text", "number", "full", "picture", "failed"}
  /\ picture \in Places \cup {None}

\* Every variable has its type; an onion has its image on disk, and so its captcha a
\* directory to go to (the assertion at rendezvous.c:545).
TypeOK == TypeDjb /\ TypePage /\ (onion = None <=> image = None)

\* A thread that searches reads an onion that was freed only if a reset, which
\* does not stop it, or an image without a reset came in between: no peel of djb's
\* own (rdv_peel_pow() frees the onion that was searched) does that.
SearchReadsLive == cut = {} => \A s \in Searches : search[s].at = "search" =>
                                 search[s].of \notin freed

\* What djb put in a temporary directory can still be found and removed, but for the
\* directory of an image that could not be decrypted, a captcha whose path was
\* forgotten, with its directory, and what an image without a reset replaced.
FilesKnown ==
  "image" \notin cut =>
    \A f \in files : \/ f[1] \in {"left", "stray"}
                     \/ f[1] = "dir" /\ <<"stray", f[2]>> \in files
                     \/ f[2] = image /\ (f[1] = "captcha" => captcha # None)

\* The page is only told that the search failed when a thread has searched this very
\* onion to the end, unless one of another onion was not stopped by a reset.
FailureIsReal ==
  [][cut = {} /\ status # "failed" /\ status' = "failed" =>
       inner = None /\ \E s \in Searches : search[s] = [at |-> "end", of |-> onion]]_vars

\* What was done about the proof of work that is the outermost layer.
Pow == IF onion = None THEN "none"
       ELSE IF Type(onion) # "pow" \/ ~started THEN "none"
       ELSE IF ~finished THEN "on"
       ELSE IF inner = None THEN "failed" ELSE "solved"

\* The rendezvous implements RendezvousService: the layers of an image come off one
\* by one, whatever the threads, timers, reloads and double clicks, but for a
\* proof of work after a search was cut off; only the innermost hands over a NET.
Service == INSTANCE RendezvousService WITH
             given <- layers, at <- Place(onion), pow <- Pow, net <- Place(net),
             disturbed <- (cut # {})
ServiceSpec == Service!Spec

\* The page does not poll forever: each search it started, or found at work when it
\* was loaded, is over some time and the page is told.
PollingEnds == <>[](~due \/ crashed)

\* What doc/DESIGN.txt says; the code does not provide it.

\* doc/DESIGN.txt:112: when the page offers the dance, because it has peeled the
\* onion down to the NET, that NET was handed to the ACS dance or not parsed.
DanceHasNet == [][shown' = "base" /\ shown # "base" =>
                    Peelable /\ Type(onion) = "base"]_vars
=============================================================================
