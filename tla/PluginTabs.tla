----------------------------- MODULE PluginTabs -----------------------------
(***************************************************************************)
(* The background page of the browser plugin (plugin background.js): it    *)
(* opens and closes the tabs of the circuits, and one tab for each of the  *)
(* plugin's pages.                                                         *)
(*                                                                         *)
(* chrome.tabs works in two steps: the tabs of the current window are      *)
(* listed at the call, and a callback closes those that were found, after  *)
(* the caller has gone on.  The browser takes calls in their order, so a   *)
(* list does not have the tabs created after it was asked for.             *)
(***************************************************************************)
EXTENDS PluginCircuits

CONSTANTS Windows,     \* windows of the browser
          Counts,      \* values of plugin_circuit_count
          MaxQueries   \* bound: lists of tabs that are not handled yet

ASSUME CountsAssumption == Counts \subseteq Nat /\ Counts # {}
ASSUME TabsAssumption == Tabs \subseteq Nat /\ IsFiniteSet(Tabs)
ASSUME QueriesAssumption == MaxQueries \in Nat
ASSUME WindowsAssumption == None \notin Windows

VARIABLES
  page,     \* tab of a page -> "loading" | "loaded"; or "closed"
  window,   \* tab -> the window it is in, None when it is closed
  current,  \* the current window
  queries,  \* calls of getAllInWindow(): <<kind of tab, tabs found>>
  count,    \* JumpBox.circuit_count
  running,  \* JumpBox.circuit_count_running
  latest,   \* window -> circuits of the last launch there that the user has
            \*   not closed; restored ones count (history)
  gone      \* since the last launch the user has closed a circuit (history)

tabVars == <<page, window>>
bkgVars == <<queries, count, running, latest, gone>>
vars == <<circuitVars, daemonVars, left, tabVars, current, bkgVars>>

-----------------------------------------------------------------------------
\* Helpers

Circuits == {t \in Tabs : leg[t] # "closed"}
Pages == {t \in Tabs : page[t] # "closed"}
Here(S) == {t \in S : window[t] = current}
Listed == UNION {queries[i][2] : i \in DOMAIN queries}

\* Tabs that no callback is about to close.
Lasting(S) == S \ Listed

\* Tab ids are not used again while anybody may name them; which of the others
\* new tabs get makes no difference.
Free == Tabs \ (Circuits \cup Pages \cup Listed \cup UNION {latest[w] : w \in Windows})
Fresh(S) == S \subseteq Free /\ \A t \in S, u \in Free \ S : t < u

\* close_all(), and circuits_shutdown() without the counter.
\* (Mutated form: the list is not asked for.)
Query_Not(kind, S) == UNCHANGED queries
Query(kind, S) == /\ Len(queries) < MaxQueries
                  /\ queries' = Append(queries, <<kind, Here(S)>>)

\* Circuits in the tabs S: their pages are loaded, and Circuit.init() asks.
Ask(S) == /\ leg' = [t \in Tabs |-> IF t \in S THEN "ask" ELSE leg[t]]
           /\ carry' = [t \in Tabs |-> IF t \in S THEN None ELSE carry[t]]

\* Tabs are closed; jobs in their hands are not heard of again.  (Mutated form:
\* the job stays in the hands of nobody.)
CloseTabs_KeepsJob(S) == /\ leg' = [t \in Tabs |-> IF t \in S THEN "closed" ELSE leg[t]]
                         /\ page' = [t \in Tabs |-> IF t \in S THEN "closed" ELSE page[t]]
                         /\ window' = [t \in Tabs |-> IF t \in S THEN None ELSE window[t]]
                         /\ UNCHANGED carry
CloseTabs(S) == /\ leg' = [t \in Tabs |-> IF t \in S THEN "closed" ELSE leg[t]]
                /\ carry' = [t \in Tabs |-> IF t \in S THEN None ELSE carry[t]]
                /\ page' = [t \in Tabs |-> IF t \in S THEN "closed" ELSE page[t]]
                /\ window' = [t \in Tabs |-> IF t \in S THEN None ELSE window[t]]

\* "Force it to zero".  (Mutated form: the callback is left to count them.)
Forced_Not == running
Forced == 0

-----------------------------------------------------------------------------
\* circuits_shutdown(), circuits_launch(), circuits_ensure()

Shutdown ==
  /\ Query("circuit", Circuits)
  /\ running' = Forced
  /\ latest' = [latest EXCEPT ![current] = {}]
  /\ gone' = gone

\* New tabs in the current window.
Create(S) == window' = [t \in Tabs |-> IF t \in S THEN current ELSE window[t]]

\* circuits_shutdown(), then a tab for each circuit.  (Mutated form: the tabs
\* are created first, and listed.)
Launch_CreatesFirst(S) ==
  /\ Fresh(S) /\ Cardinality(S) = count /\ Len(queries) < MaxQueries
  /\ Ask(S) /\ Create(S)
  /\ queries' = Append(queries, <<"circuit", Here(Circuits) \cup S>>)
  /\ running' = Forced + count
  /\ latest' = [latest EXCEPT ![current] = S] /\ gone' = FALSE
Launch(S) ==
  /\ Fresh(S) /\ Cardinality(S) = count
  /\ Query("circuit", Circuits)
  /\ Ask(S) /\ Create(S)
  /\ running' = Forced + count
  /\ latest' = [latest EXCEPT ![current] = S] /\ gone' = FALSE

\* The callback of getAllInWindow(): it also counts.
Callback ==
  /\ queries # <<>>
  /\ LET kind == Head(queries)[1]
         found == Head(queries)[2] IN
       /\ CloseTabs(found)
       /\ running' = IF kind = "circuit" THEN running - Cardinality(found) ELSE running
  /\ queries' = Tail(queries)
  /\ UNCHANGED <<daemonVars, left, current, count, latest, gone>>

-----------------------------------------------------------------------------
\* The user, and the pages

\* The "launcher" and "shutdowner" buttons of the popup.
ClickLaunch ==
  /\ Spend /\ \E S \in SUBSET Tabs : Launch(S)
  /\ UNCHANGED <<daemonVars, page, current, count>>

ClickShutdown ==
  /\ Spend /\ Shutdown
  /\ UNCHANGED <<circuitVars, daemonVars, tabVars, current, count>>

\* The popup opens a page (launch_just_one_tab()); here there is one page that
\* ensures circuits, as acs.html and launchtools.html do.
OpenPage ==
  /\ Spend /\ Query("page", Pages)
  /\ \E t \in Tabs : Fresh({t}) /\ page' = [page EXCEPT ![t] = "loading"]
                     /\ Create({t})
  /\ UNCHANGED <<circuitVars, daemonVars, current, count, running, latest, gone>>

\* A page is loaded: circuits_ensure().
MustLaunch == running <= 0
PageLoads(t) ==
  /\ page[t] = "loading"
  /\ page' = [page EXCEPT ![t] = "loaded"]
  /\ \/ MustLaunch /\ \E S \in SUBSET Tabs : Launch(S)
     \/ ~MustLaunch /\ UNCHANGED <<circuitVars, window, queries, running, latest, gone>>
  /\ UNCHANGED <<daemonVars, left, current, count>>

\* The preferences are saved: JumpBox.init() again.
SavePreferences(n) ==
  /\ Spend /\ Shutdown
  /\ count' = n
  /\ UNCHANGED <<circuitVars, daemonVars, tabVars, current>>

UserCloses(t) ==
  /\ t \in Circuits \cup Pages /\ Spend
  /\ CloseTabs({t})
  /\ latest' = [w \in Windows |-> latest[w] \ {t}]
  /\ gone' = (gone \/ t \in Circuits)
  /\ UNCHANGED <<daemonVars, current, queries, count, running>>

OtherWindow(w) ==
  /\ w # current /\ Spend
  /\ current' = w
  /\ UNCHANGED <<circuitVars, daemonVars, tabVars, bkgVars>>

\* The browser ends, whatever lists are not handled yet, and restores its tabs.
\* JumpBox.init() closes the circuits of the current window only.
BrowserRestart ==
  /\ Spend
  /\ queries' = << <<"circuit", Here(Circuits)>> >>
  /\ running' = 0
  /\ latest' = [w \in Windows |-> IF w = current THEN {}
                                 ELSE {t \in Circuits : window[t] = w}]
  /\ Ask(Circuits)
  /\ page' = [t \in Tabs |-> IF t \in Pages THEN "loading" ELSE "closed"]
  /\ UNCHANGED <<daemonVars, window, current, count, gone>>

-----------------------------------------------------------------------------
Init ==
  /\ CircuitsInit
  /\ leg = [t \in Tabs |-> "closed"] /\ page = [t \in Tabs |-> "closed"]
  /\ window = [t \in Tabs |-> None] /\ current \in Windows
  /\ queries = <<>>
  /\ count \in Counts /\ running = 0
  /\ latest = [w \in Windows |-> {}] /\ gone = FALSE

User == \/ ClickLaunch \/ ClickShutdown \/ OpenPage \/ BrowserRestart
        \/ \E n \in Counts : SavePreferences(n)
        \/ \E t \in Tabs : UserCloses(t)
        \/ \E w \in Windows : OtherWindow(w)

Next == \/ User \/ Callback
        \/ \E t \in Tabs : PageLoads(t)
        \/ (Daemon \/ \E t \in Tabs : Circuit(t)) /\ UNCHANGED <<tabVars, current, bkgVars>>

Spec == Init /\ [][Next]_vars

\* What nobody needs to do: the browser calls back, and a circuit goes on when it can: its
\* timers fire, its requests are answered or fail.  That the daemon reschedules a job
\* is not assumed (djb_close() may miss it).
Goes(t) == \/ TakeAnswer(t) \/ Refuse(t) \/ Restart(t) \/ Fetched(t) \/ FetchFailed(t)
           \/ \E j \in Jobs : Give(t, j)
Alone(A) == A /\ UNCHANGED <<tabVars, current, bkgVars>>

Fairness == WF_vars(Callback) /\ \A t \in Tabs : WF_vars(Alone(Goes(t)))

FairSpec == Spec /\ Fairness

-----------------------------------------------------------------------------
\* Properties

\* The types; what is in a tab is a circuit or a page, and nothing in no tab.
TypeOK ==
  /\ leg \in [Tabs -> {"closed", "ask", "fetch", "timer", "stopped"}]
  /\ carry \in [Tabs -> Jobs \cup {None}]
  /\ job \in [Jobs -> {"new", "queued", "out", "answered", "gone"}]
  /\ up \in BOOLEAN /\ left \in 0..Budget
  /\ page \in [Tabs -> {"closed", "loading", "loaded"}]
  /\ window \in [Tabs -> Windows \cup {None}] /\ current \in Windows
  /\ queries \in Seq({"circuit", "page"} \X SUBSET Tabs)
  /\ count \in Counts /\ running \in Int
  /\ latest \in [Windows -> SUBSET Tabs] /\ gone \in BOOLEAN
  /\ \A t \in Tabs : /\ leg[t] = "closed" => carry[t] = None
                     /\ window[t] = None <=> t \notin Circuits \cup Pages
                     /\ t \notin Circuits \cap Pages

\* Whatever launches and shutdowns overlap, the circuits left in a window are
\* those of the last launch there: "Shutdown existing circuits" (background.js)
\* misses none it could see.
OnlyLastLaunch ==
  \A w \in Windows : {t \in Lasting(Circuits) : window[t] = w} \subseteq latest[w]

\* The callback of an earlier shutdown, however late it runs, closes no tab of
\* the launch that followed it: a circuit that was launched last is open, and
\* no list that is still to be handled has it.
LaunchSurvives == \A w \in Windows : latest[w] \subseteq Lasting(Circuits)

\* circuits_ensure() launches nothing only where circuits of the last launch are left,
\* whatever callbacks still count; or the user has closed some, which is not counted.
EnsureKnows == ~MustLaunch /\ ~gone => \E w \in Windows : latest[w] # {}

\* A job that waits, or is in the hands of a circuit that goes on, is answered in the
\* end, unless the daemon dies, no circuit is left that goes on, or the job was handed
\* to one that is not (which djb notices when its connection closes, at best).
JobsAnswered ==
  \A j \in Jobs : job[j] \in {"queued", "out"} ~>
     \/ job[j] \in {"answered", "gone"} \/ Alive = {}
     \/ job[j] = "out" /\ ~Held(j)

\* "555 = Request not Made; used by the JumpBox plugin to report that a request
\* was not made by the browser" (DESIGN.txt): no circuit ends with a job in hand
\* that the daemon still waits for.
FailureReported ==
  \A t \in Tabs : leg[t] = "stopped" /\ carry[t] # None => job[carry[t]] # "out"
=============================================================================
