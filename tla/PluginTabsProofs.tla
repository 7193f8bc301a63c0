-------------------------- MODULE PluginTabsProofs --------------------------
(***************************************************************************)
(* Proofs about PluginTabs, for any number of tabs, windows, jobs and      *)
(* calls of getAllInWindow() that are not handled yet.                     *)
(*                                                                         *)
(* The argument: a launch and a list of tabs are one step, and the tabs of *)
(* a launch are fresh, so no list has them; a list has every circuit of    *)
(* its window, so those of an earlier launch are not lasting (Tracked).    *)
(* A launch counts its circuits on top of a count forced to 0, and what    *)
(* callbacks do is count down (EnsureKnows).                               *)
(***************************************************************************)
EXTENDS PluginTabs, FiniteSetTheorems, SequenceTheorems, TLAPS

\* The circuits of the last launch are open, in their window, and on no list;
\* other circuits of the window are on one.
Tracked == \A w \in Windows :
  /\ \A t \in latest[w] : leg[t] # "closed" /\ window[t] = w /\ t \notin Listed
  /\ \A t \in Tabs : leg[t] # "closed" /\ window[t] = w /\ t \notin Listed => t \in latest[w]

\* The inductive invariant.
IInv == TypeOK /\ Tracked /\ EnsureKnows

-----------------------------------------------------------------------------
\* Helpers

\* A launch counts its circuits.
LEMMA CountType ==
  ASSUME NEW S \in SUBSET Tabs
  PROVE  Cardinality(S) \in Nat
BY TabsAssumption, FS_Subset, FS_CardinalityType

\* What the lists have: one more, or one less.
LEMMA ListedAppend ==
  ASSUME NEW kind, NEW S, NEW Q, queries \in Seq(Q),
         queries' = Append(queries, <<kind, S>>)
  PROVE  Listed' = Listed \cup S
<1>1. /\ DOMAIN queries' = DOMAIN queries \cup {Len(queries) + 1}
      /\ queries'[Len(queries) + 1] = <<kind, S>>
      /\ \A i \in DOMAIN queries : queries'[i] = queries[i]
  OBVIOUS
<1> QED BY <1>1 DEF Listed

LEMMA ListedTail ==
  ASSUME NEW Q, queries \in Seq(Q), queries # <<>>, queries' = Tail(queries)
  PROVE  Listed \subseteq Listed' \cup Head(queries)[2] /\ Listed' \subseteq Listed
<1>1. /\ DOMAIN queries = 1 .. Len(queries) /\ Len(queries) \in Nat
      /\ DOMAIN queries' = 1 .. Len(queries) - 1
      /\ \A i \in 1 .. Len(queries) - 1 : queries'[i] = queries[i + 1]
  OBVIOUS
<1>2. \A i \in DOMAIN queries : i = 1 \/ i - 1 \in DOMAIN queries'
  BY <1>1
<1>3. \A i \in DOMAIN queries : i = 1 \/ queries'[i - 1] = queries[i]
  BY <1>1
<1>4. Head(queries) = queries[1]
  OBVIOUS
<1>5. \A i \in DOMAIN queries' : i + 1 \in DOMAIN queries /\ queries'[i] = queries[i + 1]
  BY <1>1
<1> QED BY <1>2, <1>3, <1>4, <1>5 DEF Listed

-----------------------------------------------------------------------------
\* The circuits and the daemon

Legs == {"closed", "ask", "fetch", "timer", "stopped"}
Places == {"new", "queued", "out", "answered", "gone"}

\* What a circuit does opens and closes no tab.
LEMMA CircuitStep ==
  ASSUME IInv, Alone(Daemon \/ \E t \in Tabs : Circuit(t))
  PROVE  IInv'
<1>0. TypeOK /\ UNCHANGED <<tabVars, current, bkgVars>>
  BY DEF IInv, Alone
<1> DEFINE Typed == /\ leg' \in [Tabs -> Legs] /\ carry' \in [Tabs -> Jobs \cup {None}]
                    /\ job' \in [Jobs -> Places] /\ up' \in BOOLEAN /\ left' \in 0 .. Budget
           Same == \A t \in Tabs : /\ leg'[t] = "closed" <=> leg[t] = "closed"
                                   /\ leg'[t] = "closed" => carry'[t] = None
<1>1. ASSUME Typed, Same PROVE IInv'
  <2>1. TypeOK'
    BY <1>0, <1>1 DEF TypeOK, Circuits, Pages, Legs, Places, tabVars, bkgVars
  <2>2. Listed' = Listed
    BY <1>0 DEF Listed, bkgVars
  <2>3. Tracked'
    BY <1>0, <1>1, <2>2 DEF IInv, TypeOK, Tracked, tabVars, bkgVars
  <2>4. EnsureKnows'
    BY <1>0 DEF IInv, EnsureKnows, MustLaunch, bkgVars
  <2> QED BY <2>1, <2>3, <2>4 DEF IInv
<1>2. Spend => left' \in 0 .. Budget
  BY <1>0, BudgetAssumption DEF TypeOK, Spend
<1>3. CASE Crash
  BY <1>0, <1>1, <1>2, <1>3 DEF Crash, TypeOK, AfterStatus, Legs, Places
<1>4. CASE Recover
  BY <1>0, <1>1, <1>4 DEF Recover, circuitVars, TypeOK, Legs, Places
<1>5. ASSUME NEW j \in Jobs, Enter(j) \/ Reschedule(j)
      PROVE  IInv'
  <2>1. /\ UNCHANGED <<circuitVars, up>> /\ left' \in 0 .. Budget
        /\ \E at \in {"queued"} : job' = [job EXCEPT ![j] = at]
    BY <1>0, <1>2, <1>5 DEF Enter, Reschedule, TypeOK
  <2>2. Typed /\ Same
    BY <1>0, <2>1 DEF circuitVars, TypeOK, Legs, Places
  <2> QED BY <1>1, <2>2
<1>6. ASSUME NEW t \in Tabs, Circuit(t)
      PROVE  IInv'
  <2>1. \E at \in Legs \ {"closed"}, j \in Jobs \cup {None} : Goto(t, at, j)
    BY <1>0, <1>6 DEF Circuit, TakeAnswer, Refuse, Error, Unreached, Restart, AfterTimer,
                      Fetched, FetchFailed, Give, AfterStatus, Legs, TypeOK
  <2>2. leg[t] # "closed"
    BY <1>6 DEF Circuit, TakeAnswer, Refuse, Error, Unreached, Restart, Fetched, FetchFailed,
                Give
  <2>3. job' \in [Jobs -> Places] /\ up' \in BOOLEAN /\ left' \in 0 .. Budget
    BY <1>0, <1>2, <1>6 DEF Circuit, TakeAnswer, Refuse, Error, Unreached, Restart, Fetched,
                            FetchFailed, Give, daemonVars, Places, TypeOK
  <2>4. Typed /\ Same
    BY <1>0, <2>1, <2>2, <2>3 DEF Goto, TypeOK, Legs
  <2> QED BY <1>1, <2>4
<1> QED BY <1>3, <1>4, <1>5, <1>6 DEF Alone, Daemon

-----------------------------------------------------------------------------
\* Launches and lists

\* A list is asked for.
LEMMA QueryType ==
  ASSUME TypeOK, NEW kind \in {"circuit", "page"}, NEW S \in SUBSET Tabs, Query(kind, S)
  PROVE  /\ queries' \in Seq({"circuit", "page"} \X SUBSET Tabs)
         /\ Listed' = Listed \cup Here(S)
<1>1. queries \in Seq({"circuit", "page"} \X SUBSET Tabs) /\ Here(S) \in SUBSET Tabs
  BY DEF TypeOK, Here
<1>2. queries' = Append(queries, <<kind, Here(S)>>)
  BY DEF Query
<1>3. queries' \in Seq({"circuit", "page"} \X SUBSET Tabs)
  BY <1>1, <1>2, AppendProperties
<1> QED BY <1>1, <1>2, <1>3, ListedAppend

\* circuits_launch(), from the popup or a page that loads: the pages may change
\* but no tab of a page opens or closes.
LEMMA LaunchStep ==
  ASSUME IInv, NEW S \in SUBSET Tabs, Launch(S), UNCHANGED <<daemonVars, current, count>>,
         page' \in [Tabs -> {"closed", "loading", "loaded"}],
         \A t \in Tabs : page'[t] = "closed" <=> page[t] = "closed",
         left' \in 0 .. Budget
  PROVE  IInv'
<1>0. TypeOK /\ Tracked /\ Circuits \in SUBSET Tabs
  BY DEF IInv, Circuits
<1>1. /\ S \subseteq Free
      /\ leg' = [t \in Tabs |-> IF t \in S THEN "ask" ELSE leg[t]]
      /\ carry' = [t \in Tabs |-> IF t \in S THEN None ELSE carry[t]]
      /\ window' = [t \in Tabs |-> IF t \in S THEN current ELSE window[t]]
      /\ running' = 0 + count /\ Cardinality(S) = count
      /\ latest' = [latest EXCEPT ![current] = S] /\ gone' = FALSE
  BY DEF Launch, Fresh, Ask, Create, Forced
<1>2. /\ queries' \in Seq({"circuit", "page"} \X SUBSET Tabs)
      /\ Listed' = Listed \cup Here(Circuits)
  BY <1>0, QueryType DEF Launch
<1>3. \A t \in S : /\ leg[t] = "closed" /\ page[t] = "closed" /\ t \notin Listed
                   /\ \A w \in Windows : t \notin latest[w]
  BY <1>1 DEF Free, Circuits, Pages
<1>4. TypeOK'
  <2>1. count \in Int /\ current \in Windows /\ current # None
    BY <1>0, CountsAssumption, WindowsAssumption DEF TypeOK
  <2>2. /\ leg' \in [Tabs -> Legs] /\ carry' \in [Tabs -> Jobs \cup {None}]
        /\ window' \in [Tabs -> Windows \cup {None}] /\ latest' \in [Windows -> SUBSET Tabs]
    BY <1>0, <1>1, <2>1 DEF TypeOK, Legs
  <2>3. \A t \in Tabs : /\ leg'[t] = "closed" => carry'[t] = None
                        /\ window'[t] = None <=> leg'[t] = "closed" /\ page'[t] = "closed"
                        /\ leg'[t] = "closed" \/ page'[t] = "closed"
    BY <1>0, <1>1, <1>3, <2>1 DEF TypeOK, Circuits, Pages
  <2>4. running' \in Int BY <1>1, <2>1
  <2> QED BY <1>0, <1>1, <1>2, <2>1, <2>2, <2>3, <2>4
          DEF TypeOK, Circuits, Pages, Legs, daemonVars
<1>5. Tracked'
  <2>1. \A t \in Tabs : t \in Here(Circuits) <=> leg[t] # "closed" /\ window[t] = current
    BY DEF Here, Circuits
  <2>2. ASSUME NEW w \in Windows, NEW t \in latest'[w]
        PROVE  leg'[t] # "closed" /\ window'[t] = w /\ t \notin Listed'
    BY <1>0, <1>1, <1>2, <1>3, <2>1, <2>2 DEF TypeOK, Tracked
  <2>3. ASSUME NEW w \in Windows, NEW t \in Tabs, leg'[t] # "closed", window'[t] = w,
               t \notin Listed'
        PROVE  t \in latest'[w]
    BY <1>0, <1>1, <1>2, <1>3, <2>1, <2>3 DEF TypeOK, Tracked
  <2> QED BY <2>2, <2>3 DEF Tracked
<1>6. EnsureKnows'
  <2>1. current \in Windows /\ latest'[current] = S BY <1>0, <1>1 DEF TypeOK
  <2>2. S = {} => running' = 0
    <3>1. S = {} => Cardinality(S) = 0 BY FS_EmptySet
    <3> QED BY <1>1, <3>1
  <2>3. ~MustLaunch' => S # {} BY <2>2 DEF MustLaunch
  <2> QED BY <2>1, <2>3 DEF EnsureKnows
<1> QED BY <1>4, <1>5, <1>6 DEF IInv

-----------------------------------------------------------------------------
\* Tabs that close

\* Tabs close, and are not in a launch any more, if they were; lists go with
\* them at the most.
LEMMA CloseStep ==
  ASSUME IInv, NEW S \in SUBSET Tabs, CloseTabs(S), UNCHANGED <<daemonVars, current, count>>,
         left' \in 0 .. Budget, running' \in Int,
         queries' \in Seq({"circuit", "page"} \X SUBSET Tabs),
         Listed \subseteq Listed' \cup S, Listed' \subseteq Listed,
         latest' \in [Windows -> SUBSET Tabs],
         \A w \in Windows : latest'[w] = latest[w] \ S,
         running' <= running, gone' \in BOOLEAN,
         \/ gone' = gone /\ \A w \in Windows : latest'[w] = latest[w]
         \/ gone' = TRUE
  PROVE  IInv'
<1>0. TypeOK /\ Tracked /\ EnsureKnows
  BY DEF IInv
<1>1. /\ leg' = [t \in Tabs |-> IF t \in S THEN "closed" ELSE leg[t]]
      /\ carry' = [t \in Tabs |-> IF t \in S THEN None ELSE carry[t]]
      /\ page' = [t \in Tabs |-> IF t \in S THEN "closed" ELSE page[t]]
      /\ window' = [t \in Tabs |-> IF t \in S THEN None ELSE window[t]]
  BY DEF CloseTabs
<1>2. TypeOK'
  BY <1>0, <1>1 DEF TypeOK, Circuits, Pages, daemonVars
<1>3. Tracked'
  BY <1>0, <1>1, WindowsAssumption DEF TypeOK, Tracked
<1>4. EnsureKnows'
  BY <1>0 DEF EnsureKnows, MustLaunch, TypeOK
<1> QED BY <1>2, <1>3, <1>4 DEF IInv

\* The callback of getAllInWindow().
LEMMA CallbackStep ==
  ASSUME IInv, Callback
  PROVE  IInv'
<1>0. TypeOK /\ Tracked
  BY DEF IInv
<1> DEFINE S == Head(queries)[2]
<1>1. /\ queries # <<>> /\ queries' = Tail(queries) /\ CloseTabs(S)
      /\ running' \in {running, running - Cardinality(S)}
      /\ UNCHANGED <<daemonVars, left, current, count, latest, gone>>
  BY DEF Callback
<1>2. queries \in Seq({"circuit", "page"} \X SUBSET Tabs)
  BY <1>0 DEF TypeOK
<1>3. S \in SUBSET Tabs /\ queries' \in Seq({"circuit", "page"} \X SUBSET Tabs)
  <2>1. Head(queries) \in {"circuit", "page"} \X SUBSET Tabs
    BY <1>1, <1>2
  <2> QED BY <1>1, <1>2, <2>1
<1>4. Listed \subseteq Listed' \cup S /\ Listed' \subseteq Listed
  BY <1>1, <1>2, ListedTail
<1>5. running' \in Int /\ running' <= running
  <2>1. Cardinality(S) \in Nat /\ running \in Int
    BY <1>0, <1>3, CountType DEF TypeOK
  <2> QED BY <1>1, <2>1
<1>6. \A w \in Windows : latest'[w] = latest[w] \ S
  <2>1. S \subseteq Listed
    <3>1. 1 \in DOMAIN queries /\ Head(queries) = queries[1]
      BY <1>1, <1>2
    <3> QED BY <3>1 DEF Listed
  <2> QED BY <1>0, <1>1, <2>1 DEF Tracked, TypeOK
<1> QED BY <1>0, <1>1, <1>3, <1>4, <1>5, <1>6, CloseStep DEF TypeOK

-----------------------------------------------------------------------------
\* The user

LEMMA SpendType ==
  ASSUME TypeOK, Spend
  PROVE  left' \in 0 .. Budget
BY BudgetAssumption DEF TypeOK, Spend

\* circuits_shutdown(), from the popup or as the preferences are saved.
LEMMA ShutdownStep ==
  ASSUME IInv, Shutdown, UNCHANGED <<circuitVars, daemonVars, tabVars, current>>,
         count' \in Counts, left' \in 0 .. Budget
  PROVE  IInv'
<1>0. TypeOK /\ Tracked /\ Circuits \in SUBSET Tabs
  BY DEF IInv, Circuits
<1>1. running' = 0 /\ latest' = [latest EXCEPT ![current] = {}] /\ gone' = gone
  BY DEF Shutdown, Forced
<1>2. /\ queries' \in Seq({"circuit", "page"} \X SUBSET Tabs)
      /\ Listed' = Listed \cup Here(Circuits)
  BY <1>0, QueryType DEF Shutdown
<1>3. TypeOK'
  BY <1>0, <1>1, <1>2 DEF TypeOK, Circuits, Pages, circuitVars, daemonVars, tabVars
<1>4. \A t \in Tabs : t \in Here(Circuits) <=> leg[t] # "closed" /\ window[t] = current
  BY DEF Here, Circuits
<1>5. Tracked'
  BY <1>0, <1>1, <1>2, <1>4 DEF TypeOK, Tracked, circuitVars, tabVars
<1>6. EnsureKnows'
  BY <1>1 DEF EnsureKnows, MustLaunch
<1> QED BY <1>3, <1>5, <1>6 DEF IInv

\* launch_just_one_tab()
LEMMA OpenPageStep ==
  ASSUME IInv, OpenPage
  PROVE  IInv'
<1>0. TypeOK /\ Tracked /\ Pages \in SUBSET Tabs
  BY DEF IInv, Pages
<1>1. PICK t \in Tabs : Fresh({t}) /\ page' = [page EXCEPT ![t] = "loading"] /\ Create({t})
  BY DEF OpenPage
<1>2. /\ t \in Free
      /\ UNCHANGED <<circuitVars, daemonVars, current, count, running, latest, gone>>
      /\ left' \in 0 .. Budget
      /\ window' = [u \in Tabs |-> IF u \in {t} THEN current ELSE window[u]]
  BY <1>0, <1>1, SpendType DEF OpenPage, Fresh, Create
<1>3. /\ queries' \in Seq({"circuit", "page"} \X SUBSET Tabs)
      /\ Listed' = Listed \cup Here(Pages)
  BY <1>0, QueryType DEF OpenPage
<1>4. leg[t] = "closed" /\ page[t] = "closed" /\ current \in Windows /\ current # None
  BY <1>0, <1>2, WindowsAssumption DEF TypeOK, Free, Circuits, Pages
<1>5. TypeOK'
  <2>1. /\ page' \in [Tabs -> {"closed", "loading", "loaded"}]
        /\ window' \in [Tabs -> Windows \cup {None}]
    BY <1>0, <1>1, <1>2, <1>4 DEF TypeOK
  <2>2. \A u \in Tabs : /\ leg[u] = "closed" => carry[u] = None
                        /\ window'[u] = None <=> leg[u] = "closed" /\ page'[u] = "closed"
                        /\ leg[u] = "closed" \/ page'[u] = "closed"
    BY <1>0, <1>1, <1>2, <1>4 DEF TypeOK, Circuits, Pages
  <2> QED BY <1>0, <1>2, <1>3, <2>1, <2>2
          DEF TypeOK, Circuits, Pages, circuitVars, daemonVars
<1>6. Tracked'
  <2>1. \A u \in Here(Pages) : leg[u] = "closed"
    BY <1>0 DEF TypeOK, Here, Circuits, Pages
  <2> QED BY <1>0, <1>2, <1>3, <1>4, <2>1 DEF TypeOK, Tracked, circuitVars
<1>7. EnsureKnows'
  BY <1>2 DEF IInv, EnsureKnows, MustLaunch
<1> QED BY <1>5, <1>6, <1>7 DEF IInv

\* The browser restarts.
LEMMA RestartStep ==
  ASSUME IInv, BrowserRestart
  PROVE  IInv'
<1>0. TypeOK /\ Tracked
  BY DEF IInv
<1>1. /\ queries' = << <<"circuit", Here(Circuits)>> >> /\ running' = 0
      /\ latest' = [w \in Windows |-> IF w = current THEN {}
                                      ELSE {t \in Circuits : window[t] = w}]
      /\ leg' = [t \in Tabs |-> IF t \in Circuits THEN "ask" ELSE leg[t]]
      /\ carry' = [t \in Tabs |-> IF t \in Circuits THEN None ELSE carry[t]]
      /\ page' = [t \in Tabs |-> IF t \in Pages THEN "loading" ELSE "closed"]
      /\ UNCHANGED <<daemonVars, window, current, count, gone>> /\ left' \in 0 .. Budget
  BY <1>0, SpendType DEF BrowserRestart, Ask
<1>2. Here(Circuits) \in SUBSET Tabs
  BY DEF Here, Circuits
<1>3. queries' \in Seq({"circuit", "page"} \X SUBSET Tabs) /\ Listed' = Here(Circuits)
  BY <1>1, <1>2 DEF Listed
<1>4. \A t \in Tabs : /\ leg'[t] = "closed" <=> leg[t] = "closed"
                      /\ page'[t] = "closed" <=> page[t] = "closed"
                      /\ t \in Circuits <=> leg[t] # "closed"
                      /\ leg'[t] = "closed" => carry'[t] = None
  BY <1>0, <1>1 DEF TypeOK, Circuits, Pages
<1>5. TypeOK'
  <2>1. /\ leg' \in [Tabs -> Legs] /\ carry' \in [Tabs -> Jobs \cup {None}]
        /\ page' \in [Tabs -> {"closed", "loading", "loaded"}]
        /\ latest' \in [Windows -> SUBSET Tabs]
    BY <1>0, <1>1 DEF TypeOK, Legs, Circuits
  <2>2. Circuits' = Circuits /\ Pages' = Pages
    BY <1>4 DEF Circuits, Pages
  <2> QED BY <1>0, <1>1, <1>3, <1>4, <2>1, <2>2 DEF TypeOK, Legs, daemonVars
<1>6. Tracked'
  <2>1. \A t \in Tabs : t \in Listed' <=> leg[t] # "closed" /\ window[t] = current
    BY <1>3, <1>4 DEF Here
  <2>2. ASSUME NEW w \in Windows
        PROVE  latest'[w] = IF w = current THEN {}
                            ELSE {t \in Tabs : leg[t] # "closed" /\ window[t] = w}
    BY <1>1 DEF Circuits
  <2> QED BY <1>1, <1>4, <2>1, <2>2 DEF Tracked
<1>7. EnsureKnows'
  BY <1>1 DEF EnsureKnows, MustLaunch
<1> QED BY <1>5, <1>6, <1>7 DEF IInv

LEMMA UserStep ==
  ASSUME IInv, User
  PROVE  IInv'
<1>0. TypeOK /\ Tracked
  BY DEF IInv
<1>1. CASE ClickLaunch
  BY <1>0, <1>1, SpendType, LaunchStep DEF ClickLaunch, TypeOK
<1>2. CASE ClickShutdown
  BY <1>0, <1>2, SpendType, ShutdownStep DEF ClickShutdown, TypeOK
<1>3. ASSUME NEW n \in Counts, SavePreferences(n) PROVE IInv'
  BY <1>0, <1>3, SpendType, ShutdownStep DEF SavePreferences
<1>4. ASSUME NEW t \in Tabs, UserCloses(t) PROVE IInv'
  <2>1. /\ CloseTabs({t}) /\ latest' = [w \in Windows |-> latest[w] \ {t}]
        /\ UNCHANGED <<daemonVars, current, queries, count, running>>
        /\ left' \in 0 .. Budget /\ gone' = (gone \/ t \in Circuits)
    BY <1>0, <1>4, SpendType DEF UserCloses
  <2>2. Listed' = Listed
    BY <2>1 DEF Listed
  <2>3. gone' \in BOOLEAN
    BY <2>1, Zenon
  <2>4. \/ gone' = gone /\ \A w \in Windows : latest'[w] = latest[w]
        \/ gone' = TRUE
    <3>1. CASE t \in Circuits BY <2>1, <3>1
    <3>2. CASE t \notin Circuits
      <4>1. \A w \in Windows : t \notin latest[w] BY <1>0, <3>2 DEF Tracked, Circuits
      <4>2. \A w \in Windows : latest'[w] = latest[w] BY <2>1, <4>1
      <4>3. gone' = gone BY <1>0, <2>1, <3>2 DEF TypeOK
      <4> QED BY <4>2, <4>3
    <3> QED BY <3>1, <3>2
  <2>5. running' <= running /\ running' \in Int
    BY <1>0, <2>1 DEF TypeOK
  <2> QED BY <1>0, <2>1, <2>2, <2>3, <2>4, <2>5, CloseStep DEF TypeOK
<1>5. ASSUME NEW w \in Windows, OtherWindow(w) PROVE IInv'
  <2>1. /\ current' = w /\ left' \in 0 .. Budget
        /\ UNCHANGED <<circuitVars, daemonVars, tabVars, bkgVars>>
    BY <1>0, <1>5, SpendType DEF OtherWindow
  <2>2. Listed' = Listed
    BY <2>1 DEF Listed, bkgVars
  <2> QED BY <1>0, <2>1, <2>2
          DEF IInv, TypeOK, Tracked, EnsureKnows, MustLaunch, Circuits, Pages, circuitVars,
              daemonVars, tabVars, bkgVars
<1> QED BY <1>1, <1>2, <1>3, <1>4, <1>5, OpenPageStep, RestartStep DEF User

\* circuits_ensure()
LEMMA PageLoadsStep ==
  ASSUME IInv, NEW t \in Tabs, PageLoads(t)
  PROVE  IInv'
<1>0. TypeOK /\ Tracked
  BY DEF IInv
<1>1. /\ page' = [page EXCEPT ![t] = "loaded"] /\ page[t] = "loading"
      /\ UNCHANGED <<daemonVars, left, current, count>>
  BY DEF PageLoads
<1>2. /\ page' \in [Tabs -> {"closed", "loading", "loaded"}]
      /\ \A u \in Tabs : page'[u] = "closed" <=> page[u] = "closed"
  BY <1>0, <1>1 DEF TypeOK
<1>3. ASSUME NEW S \in SUBSET Tabs, Launch(S) PROVE IInv'
  BY <1>0, <1>1, <1>2, <1>3, LaunchStep DEF TypeOK
<1>4. CASE UNCHANGED <<circuitVars, window, queries, running, latest, gone>>
  <2>1. Listed' = Listed /\ Circuits' = Circuits /\ Pages' = Pages
    BY <1>2, <1>4 DEF Listed, Circuits, Pages, circuitVars
  <2> QED BY <1>0, <1>1, <1>2, <1>4, <2>1
          DEF IInv, TypeOK, Tracked, EnsureKnows, MustLaunch, circuitVars, daemonVars
<1> QED BY <1>3, <1>4 DEF PageLoads

-----------------------------------------------------------------------------
\* The theorems

\* JumpBox is loaded, with no tab of its own open.
LEMMA InitInv == Init => IInv
<1> SUFFICES ASSUME Init PROVE IInv
  OBVIOUS
<1>1. Listed = {} /\ \A t \in Tabs : leg[t] = "closed" /\ page[t] = "closed"
  BY DEF Init, Listed
<1>2. TypeOK
  <2>1. /\ leg \in [Tabs -> Legs] /\ carry \in [Tabs -> Jobs \cup {None}]
        /\ job \in [Jobs -> Places] /\ up \in BOOLEAN /\ left \in 0 .. Budget
    BY BudgetAssumption DEF Init, CircuitsInit, Legs, Places
  <2>2. /\ page \in [Tabs -> {"closed", "loading", "loaded"}]
        /\ window \in [Tabs -> Windows \cup {None}] /\ current \in Windows
        /\ count \in Counts /\ running \in Int
    <3>1. page = [t \in Tabs |-> "closed"] /\ window = [t \in Tabs |-> None]
      BY DEF Init
    <3>2. current \in Windows /\ count \in Counts /\ running = 0
      BY DEF Init
    <3> QED BY <3>1, <3>2
  <2>5. latest \in [Windows -> SUBSET Tabs] /\ gone \in BOOLEAN
    <3>1. latest = [w \in Windows |-> {}] /\ gone = FALSE
      BY DEF Init
    <3> QED BY <3>1
  <2>3. queries \in Seq({"circuit", "page"} \X SUBSET Tabs)
    BY DEF Init
  <2>4. \A t \in Tabs : /\ t \notin Circuits /\ t \notin Pages
                        /\ window[t] = None /\ carry[t] = None
    BY <1>1 DEF Init, CircuitsInit, Circuits, Pages
  <2> QED BY <2>1, <2>2, <2>3, <2>4, <2>5 DEF TypeOK, Legs, Places
<1>3. Tracked /\ EnsureKnows
  BY <1>1 DEF Init, Tracked, EnsureKnows, MustLaunch
<1> QED BY <1>2, <1>3 DEF IInv

\* Every step preserves the invariant.
LEMMA NextInv == IInv /\ [Next]_vars => IInv'
<1> SUFFICES ASSUME IInv, [Next]_vars PROVE IInv'
  OBVIOUS
<1>1. CASE UNCHANGED vars
  <2>1. Listed' = Listed /\ Circuits' = Circuits /\ Pages' = Pages
    BY <1>1 DEF vars, bkgVars, circuitVars, tabVars, Listed, Circuits, Pages
  <2> QED BY <1>1, <2>1
          DEF vars, bkgVars, circuitVars, daemonVars, tabVars, IInv, TypeOK, Tracked,
              EnsureKnows, MustLaunch
<1>2. CASE (Daemon \/ \E t \in Tabs : Circuit(t)) /\ UNCHANGED <<tabVars, current, bkgVars>>
  BY <1>2, CircuitStep DEF Alone
<1> QED BY <1>1, <1>2, UserStep, CallbackStep, PageLoadsStep DEF Next

\* The invariant holds in every reachable state.
THEOREM Invariance == Spec => []IInv
<1> QED BY InitInv, NextInv, PTL DEF Spec

\* The types, whatever tabs are opened, closed and restored.
THEOREM TypeCorrect == Spec => []TypeOK
<1>1. IInv => TypeOK
  BY DEF IInv
<1> QED BY <1>1, Invariance, PTL

\* A launch leaves no circuit of an earlier one in its window, however many
\* lists of tabs are still to be handled.
THEOREM OldCircuitsEnd == Spec => []OnlyLastLaunch
<1>1. IInv => OnlyLastLaunch
  BY DEF IInv, Tracked, OnlyLastLaunch, Lasting, Circuits
<1> QED BY <1>1, Invariance, PTL

\* No callback, however late, closes a circuit of the last launch.
THEOREM NewCircuitsStay == Spec => []LaunchSurvives
<1>1. IInv => LaunchSurvives
  BY DEF IInv, TypeOK, Tracked, LaunchSurvives, Lasting, Circuits
<1> QED BY <1>1, Invariance, PTL

\* What circuits_ensure() goes by counts no circuit that a launch or a shutdown of
\* the plugin itself has closed.
THEOREM EnsureIsRight == Spec => []EnsureKnows
<1>1. IInv => EnsureKnows
  BY DEF IInv
<1> QED BY <1>1, Invariance, PTL
=============================================================================
