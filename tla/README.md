# JumpBox in TLA+

JumpBox lets StegoTorus speak HTTP through a real browser. A daemon, `djb`
(C, `src/server/`), acts as an HTTP proxy towards StegoTorus; a Chrome plugin
(`src/plugin/jumpbox_plugin_chrome/`) fetches the requests from it, makes them with
the browser, and hands the answers back. Before that, the daemon and the plugin
obtain bridges: the *rendezvous* peels a NET (network entry ticket) out of an onion
hidden in an image, and the *ACS dance* trades the NET for a list of bridges.

This directory holds TLA+ models of these parts, the TLC configurations that check
them, and machine-checked (TLAPS) proofs about all of them. `PROJECT.json` maps each
definition to the source lines it stands for, and lists runs, hazards, findings and
theorems.

## Inventory

| Part | State it keeps | Operations | Model |
|---|---|---|---|
| Proxy (`djb.c`) | `lst_proxy_new`, `lst_proxy_out`, `lst_api_pull`; per request `phcl_id`; per connection `id`, `reqid`, keep-handling flags | client request, `/pull/`, `/push/`, worker threads, body forwarding, close of a connection, shutdown | `DjbProxy`, `ProxyService` |
| ACS dance (`acs.c`, page `acs.js`) | `l_net`, `l_dancing`, `l_status`, `l_messages` | `/acs/setup/`, `/acs/progress/`, Initial, wait, Redirect | `AcsDance`, `DanceService` |
| Rendezvous (`rendezvous.c`, page `rendezvous.js`) | password, current onion, image and captcha paths, proof-of-work flags and result; on the page: layer shown, listeners, timer | `reset`, `gen_request`, `image`, `peel`, proof-of-work thread | `Rendezvous`, `RendezvousService` |
| Preferences (`preferences.c`) | `l_values`, `l_mutex`, bridge list | set, get, build argument vectors | `Launch`; storing the bridges is in `AcsDance`; listing them is not modelled |
| Launcher (`djb_launch*` in `djb.c`) | `l_st_pnum`, `l_tor_pnum` | launch StegoTorus or Tor, stop the one there was | `Launch` |
| Plugin circuits (`circuit.js`) | per circuit: the request it waits for, the job in hand | ask for a job, make it, bring the answer, restart, stop | `PluginCircuits` |
| Plugin background page (`background.js`) | tabs, `circuit_count`, `circuit_count_running`, pending callbacks | launch, shut down, ensure circuits; open a page once; saved preferences | `PluginTabs`; rewriting headers is not modelled |
| Plugin preferences, launch tools, popup, progress bar | form fields | drawing, posting | what they ask of the background page is in `PluginTabs`; the rest is user interface |
| `twistedServer/` | - | echo | not modelled: a stand-in for manual tests |
| Start-up, packaging | - | options, daemonizing | only the initial state |
| httpsrv, threads, lists (libfutil); onion and steganography libraries; `chrome.tabs` | - | - | external: modelled from how `src/` uses them |

How they interact. StegoTorus' requests and ACS' internal requests go to the same
proxy list. Workers pair them with parked pulls. The thread that serves a `/push/`
relays the answer, or, for an internal request, runs the next step of the dance in
place (`dh->push`). The rendezvous hands its NET to the dance through
`acs_set_net()`, the dance hands its bridges to the preferences through
`prf_set_bridge_access_list()`, and the launcher makes StegoTorus' arguments from the
preferences. The pages of the plugin ask the background page to ensure that circuits
run; circuits pull and push.

What is hard here, and what makes each part correct:

* *Proxy.* Several threads take a request or a puller off a list, use it unlocked,
  and put it on another list, while a connection may close at each step. A closed
  plugin connection makes djb reschedule a request whose first answer may still
  come. Correct means: a request is in one place at a time, gets at most one answer
  and that its own, is not lost, is not worked on by two live circuits, and is
  answered in the end.
* *Dance.* One flag and one status are set by four kinds of threads, the status also
  by threads that are not part of the dance; each error path must clear the flag.
  Correct means: one dance at a time with one NET, never left behind, "done" only
  with bridges, and each polling page told the end.
* *Rendezvous.* A thread searches in an onion that handlers replace and free. The
  page has a layer on display that must keep in step with the daemon's onion.
  Correct means: layers come off in order and only when that was earned, no peel frees
  what a search reads, polling ends, a failure told is one of this onion, files are
  removed, and the NET gets to the dance. A reset does not stop a search; how far the
  damage goes is part of the question.
* *Preferences and launcher.* The argument vector is sized by one formula and filled
  by another, in an unsigned int and from strings another thread may replace; numbers
  of processes are tested and set without a lock. Correct means: the vector fits, its
  strings live, `l_mutex` is released on each way out, and one process of a kind is left.
* *Plugin.* Tabs are listed at a call and closed in a callback after it, while the
  caller creates new ones, and counted at both places; a circuit restarts only after
  some failures, and may be closed with a job in hand. Correct means: the circuits left
  are those of the last launch, `circuits_ensure()` knows whether some are left, and a
  job is answered that waits, or is in the hands of a circuit that goes on.

The `hazards` of `PROJECT.json` list all of this at the line where it bites.

## Modules

### DjbProxy (core), ProxyService (abstract), DjbProxyProofs, ProxyWorkProofs

`DjbProxy` has one action per stretch of code between two points where another
thread can act. A `djb_req_t` is identified with the request it carries,
`<<client, reqid>>`; the lists are sequences of these.

* A client: `Request`, `RequestNoMemory`. The plugin: `Pull`, `Push`, `DropJob`,
  `PushRejected`. A connection: `Break` (the peer is gone), `HandleClose` and
  `Requeue` (the two halves of `djb_close()`).
* A worker (`djb_worker_thread`): `TakeRequest`, `TakePuller`, then
  `djb_handle_forward()` as `ForwardClosed` or `ForwardStart`, `Publish`, and
  `SendDone` or `SendBody`. `wpc` says where it stands; what it holds is in `wpr`
  and `war`.
* A push: `PushFind` or `PushUnknown`, then `PushClientGone`, `PushAnswer`,
  `PushInternalBody` or `PushInternal`, and `PushForwardDone`
  (`djb_bodyfwd_done()`). `djb_push()` is called a second time, with the body of an
  internal answer, if the connection is still open (`PushCalled`); else the push is over
  (`PushClosed`) and the request stays on `lst_proxy_out`.

`ProxyService` is what a client may rely on: accept, refuse, answer once with one's
own answer, complete. `DjbProxy` refines it with the identity mapping of `reqid`,
`cst` and `answers`.

Assumed of the external HTTP server: ids of connections are never used again; a
closed `hcl` stays readable while djb tracks a request of it; after the answer of
`djb_error()` it may keep the connection or give it up; `list_getnext()` returns NULL
to workers once threads are told to stop; `httpsrv_forward()` copies a whole body or
notices the close. `BusyMayBreak` lets a plugin connection break while djb is serving
it, not only while it is idle.

### AcsDance, DanceService (abstract), AcsDanceProofs, DanceServiceProofs

Threads are pages (one HTTP request each), pushers and the rendezvous thread; `pc`
is the place in the C code. What can be wrong with a NET is the set of good parts it
lacks. `Post` is `acs_status()`, which sets the status and queues a message, or runs
out of memory. The proxy is reduced to the internal requests it has (`out`); that it
answers them before a shutdown is what `DjbProxy!EveryRequestAnswered` says. The body of
the Redirect's answer arrives (`RedirectFound`), or finds its request taken or
rescheduled (`RedirectGone`, the 404), or its connection closes first
(`RedirectClosed`): then nobody pushes the answer any more, and the request is
`stranded`. Waiting times are "some time", and `acs_exit()` is left out. A step that
uses up a unit of `Budget` does not run out of memory as well. Messages carry the NET they
were posted about, which the code's do not; it is used by properties only.

`DanceService` is what the ACS promises: a dance visits Initial, then Redirect and
its body, in that order and with the NET it began with; it may end anywhere, has
bridges only after the second gateway, and "done" is told of a dance that has them.
`AcsDance` refines it: `stage` is mapped to `Stage`, the place of the only dancer
(a thread, or an internal request in the proxy), and `done` to the status.

### Rendezvous, RendezvousService (abstract), RendezvousProofs, RendezvousServiceProofs

An onion is `<<load, depth, by>>`: the image it came with, how many layers are off,
and who allocated it. The handlers are one step each: httpsrv has several threads and
`rendezvous.c` no lock, so this leaves out two handlers in the middle of each other. The
proof-of-work thread is three steps (`SearchBegin` reads the onion, `SearchFound` stores
the result, `SearchFinish` sets the flag). The variables are not volatile; the model
keeps program order.

The page is `Load`, `ClickGo`, `FetchImage`, `ClickPeel`, `ClickCaptcha`, `Poll`,
and `Show` for `UI.update_display()`: which layer is on display, which listeners the
captcha's button has (after a wrong answer it has two, and sends two requests, which djb
takes in either order), and whether a peel is on a timer. A reply reaches the page in the
step that makes it. The user loads the page again and clicks at any time, also while
requests are on their way (up to `InFlight` of them) and while a thread searches; equal
requests are told apart by a number (`Copies`). `rdv_reset()` stops no thread
(`l_pow_thread_quit` is never tested), and `rdv_image()` frees nothing. The history
variable `cut` names what djb is not made for and takes all the same: a reset while a
thread searches (`"search"`), an image when there is an onion (`"image"`, from a page
that was loaded again before its old requests were served). After that the thread may
read a freed onion, which may crash djb, or leave its result to the next onion; the model
has these steps, and each property says what is still true then.

Files: `"stray"` is a captcha.png whose path was forgotten when an allocation failed
after it was written (`rendezvous.c:573-590`), `"left"` the directory of an image that
could not be decrypted. Responses that find no memory elsewhere are left out.
`rendezvous.c` is built with `DJB_RENDEZVOUS` only.

`RendezvousService` is what peeling an onion means: each load's image gives an onion
(`given`), whose layers come off one at a time (`at`); a proof of work only when a search
for it is over and found something (`pow`, `Attempts`); and only the innermost layer hands
over a NET (`net`). Once `disturbed`, a proof of work may give way early, or to what is
inside another one (`InsidePow`); signatures, captchas and the NET still follow their
onion. `Rendezvous` refines it with `Place(onion)` (without who allocated it), `Pow` (read
off the flags of the search) and `cut # {}`.

### PluginCircuits, PluginTabs, PluginTabsProofs

`PluginCircuits` is `circuit.js`: a tab's `leg` is the request it waits for (`ask` the
daemon, `fetch` a job), the `timer` of its restart, or `stopped`; `carry` is the job
in hand. `Give`, `TakeAnswer`, `Refuse` and `Error` are the daemon's answers together
with what the handlers make of them (`Error` comes at any time, to a circuit that waits
for a job too: 404, 500, 408), `Unreached` and `FetchFailed` a request without an
answer, `Restart` the timer. `circuit.js` talks to a daemon with one path, `/next/`, which
takes an answer and gives a job; djb has `/pull/` and `/push/` instead (see below). The
module's daemon is that one, and keeps its jobs the way djb does: `queued`, `out`,
`answered`, and `Reschedule` for `djb_close()`. It may crash and be started again.

`PluginTabs` extends it with `background.js`. `chrome.tabs.getAllInWindow()` is two
steps: `Query` puts the tabs of the current window on a list, `Callback` closes them,
after the caller has gone on. `Launch` and `Shutdown` are `circuits_launch()` and
`circuits_shutdown()`, called by the popup (`ClickLaunch`, `ClickShutdown`), by a
page that is loaded (`PageLoads`, `circuits_ensure()`) and by saved preferences. A
user closes tabs and changes windows; the browser restarts and restores its tabs.
Two history variables: `latest` is what the last launch in a window created, `gone`
says that the user has closed a circuit since. `Forced` is the count that
`circuits_shutdown()` forces before its callback counts down.

### Launch, LaunchProofs

Threads of the HTTP server set preferences (`SetRequest`, `SetBody`, `SetLock`,
`SetValue` for each key, `ValuesSet`, `SetUnlock`) or launch (`LaunchSt`, `LaunchTor`;
`ArgvLock`, `ArgvFill` and `ArgvUnlock` for `prf_get_argv()`; `Stop`, `Forget` and
`Spawn` or `SpawnFailed` for `djb_launch()`). Of the preferences it keeps what the
argument vector depends on: how many slots each takes, and a version that counts how
often its string was freed. The number of circuits is any int, as `prf_set()` takes what
`atoi()` makes of any string; `Unsigned` puts it, and the sum of the slots, into an
unsigned int of `Word` values (2^32 in the code). When that wraps, the vector is too
short and `ArgvOverrun` writes past it. `ArgvFailed` is the path on which
`prf_get_argv()` unlocks and returns -1 and `djb_launch_st()` goes on with an `argv` it
never initialised: it stops the old process, and then djb crashes (`Garbage`). A post
without a length is answered with 400 at once; when `httpsrv_readbody_alloc()` fails
nobody answers, until the connection closes (`"unread"`). A number of a process that has
exited may be used again.

## Runs

| Run | Question | Result |
|---|---|---|
| `proxy_safety` | Is a request ever lost but with its puller, left without a circuit but by a lost answer, in two places, answered wrongly, or with two live circuits; a puller served twice; a freed request tracked; and does the proxy implement `ProxyService`? | holds |
| `proxy_live` | Is each request answered, and does a shutdown stop the workers? | holds |
| `proxy_puller_gone` | `PullerIsThere`: is the puller of a pair still connected? | violated |
| `proxy_restart` | `RestartOnClose`: is what a closed connection had always restarted? | violated |
| `acs_safety` | One dance, one NET, no dance left behind, "done" with bridges; does the dance implement `DanceService`? | holds |
| `acs_live` | Does each dance, and each page's polling, end, but for three named ways out; is a late "done" that of a NET that could be danced? | holds |
| `acs_restart` | `DancedOnce`: does one NET lead to one dance? | violated |
| `rdv_peel` | For any user: do layers come off in order, does a peel free what is searched, is a failure told that of this onion, does polling end, is each file found again; does the rendezvous implement `RendezvousService`? | holds |
| `rdv_net` | `DanceHasNet`: has the dance the NET when the page offers it? | violated |
| `plugin` | Are only the circuits of the last launch left, and all of them; does `circuits_ensure()` know when none are; are jobs answered? | holds |
| `plugin_failed` | `FailureReported`: is a request the browser could not make reported? | violated |
| `launch` | When does the argument vector fit, do its strings live, is one process left, is `l_mutex` released on each way out, does each request come to its end? | holds |

What the violations show (quotes and lines are under `findings`):

* `proxy_puller_gone`: nothing takes a parked puller off `lst_api_pull` when its
  connection closes. The next worker pops it and runs into `fassert(false)`; in a
  build without `fassert()` the request is dropped.
* `proxy_restart`: `djb_close()` looks once, and restarts one request. A request
  published after the look stays outstanding with a connection that is gone.
* `acs_restart`: "Request sent" is posted after the request is in the proxy; when
  that comes after "done", the status is "ok" again and the next poll dances again.
* `rdv_net`: the peelers answer with the type of the layer they uncovered. When that
  is the NET, the page offers the dance; only after a proof of work does it peel once
  more, which is what gives the NET to the ACS.
* `plugin_failed`: for a request without a response, `ss_response2request()` reads the
  size of null before it sends the 555; the circuit ends, and the daemon goes on
  waiting until the connection closes.

Bounds. `MaxReq` 2 requests per connection in `proxy_safety` (a kept-alive
connection's next request must be able to meet an answer to its last), two pullers
(one breaks while the other takes over), two workers (one to be overtaken), `Circuits`
2 jobs, one internal request, each made once as `acs.c` does: 890,000
states. It has `Fassert` FALSE, so that the return of `djb_handle_forward()` for a puller that has gone is taken;
the build with `fassert()` aborts there instead (`proxy_puller_gone`), and all theorems
but `NothingLost` cover both. `Budget` bounds the dance's clicks,
failures and lost replies together, `MaxDances` how often a NET is danced; two pages
that poll are the same as one to the dance, so one polls while the rendezvous sets
NETs. `rdv_peel`: `MaxLoads` 2 loads of the page (a second image after the first,
and a reload under a search), `InFlight` 2 requests when the user acts (so that a button
is pressed twice before the first answer), two search threads (the one a reset left
behind, and a new one), and two onions: a proof of work and a captcha around a NET, and a
signature around a collection, which nothing peels: 681,000 states. `plugin`: two windows, four tabs
(a launch of two over one of two), two jobs of which one is neither GET nor POST, three
clicks or failures, two lists that are not handled: 475,000 states. `launch`: three
threads and three requests (an old launch, a new one, and one that sets preferences),
three sets of preferences that change the number of arguments; with `Word` 32, -3
circuits give an argc of 1, as they do with 2^32: 110,000 states. `proxy_safety` and
`acs_safety` use symmetry; no property of theirs is a liveness property.
`CHECK_DEADLOCK FALSE` everywhere: clients, users and connections may stop for good.

Fairness is weak. In `DjbProxy`: each worker, each handler and each close in progress
goes on (threads are scheduled), a plugin with a free circuit pulls, and pushes each
job it has. Which of the waiting workers a condition variable wakes is left open: no
property depends on it. `proxy_live` has no breaking connections
and no lost jobs: djb has no timeouts, so a lost job stays lost. In `AcsDance`: threads
run, and the proxy answers as long as djb is not shut down and the request is not
stranded. `DanceEnds` and `PollEnds` name the ways out (`GivenUp`): the shutdown, after
which no worker answers anything, the crash by a window of zero, and the Redirect whose
answer was lost over its body. `PollEnds` also stops at the bound `MaxDances`. In
`Rendezvous`: djb answers, its threads run and the page's timer fires; the user may stop
at any time. `PollingEnds` names the crash as a way out. In `PluginTabs`: the browser
calls back, and circuits go on when they can. It is not assumed that a job is
rescheduled, that a daemon that died comes back, or that a page is loaded. So
`JobsAnswered` is about a job that waits, or is in the hands of a circuit that goes on; it
names the crash of the daemon, that no circuit is left that goes on (each may stop for
good, see below), and a job whose circuit has gone, which `djb_close()` may miss
(`proxy_restart`). In `Launch`: the threads run, and a body is read or its connection
closes, also when nobody reads it.

Each property has a mutant: a changed definition, named `<Definition>_<Change>` next
to the original, under which TLC finds the property violated.

## Proofs

Every theorem is about all values of the constants that satisfy the `ASSUME`s of its
module, and each follows from an inductive invariant `IInv`: `InitInv` and `NextInv`
show that it is one, with a lemma per action (or kind of action), and `Invariance`
that it always holds.

`DjbProxyProofs`, for all sets of clients, internal requests, pullers and workers,
every `MaxReq` and `Circuits`, and all environment switches:

| Theorem | Property |
|---|---|
| `TypeCorrect` | `TypeOK` |
| `OnePlace` | `SinglePlace` |
| `SeqNoCurrent` | `SeqNoIsCurrent` |
| `OnePuller` | `PullerServedOnce` |
| `AnswersCorrect` | `AnswersMatch` |
| `Implements` | `ServiceSpec` |
| `LostOnlyWithPuller` | `OnlyGonePullerLoses` |
| `NothingLost` | `NoRequestLost`, with `fassert()` compiled in; a theorem only |
| `WorkDoneOnce` (`ProxyWorkProofs`) | `NoDoubleWork` |
| `FreedIsGone` (`ProxyWorkProofs`) | `FreedUntracked` |
| `NeglectIsALostAnswer` (`ProxyWorkProofs`) | `OnlyLostAnswersNeglect` |

Assumed of the constants: client and plugin connections are different, internal
requests are no connections, `None` and `Err500` are no requests.
`AnswersMatch` is not inductive: a push that has found a request answers it later. What
makes the answer right is that the request a push has in hand is the one whose number
it carries (`FoundMatches`), and that a tracked request is the current one of its
client and unanswered (`SeqNoIsCurrent`); this in turn needs that it is in one place
(`SinglePlace`), or the second place would keep it after the first one answered it.
Taking a request off a list leaves one place only if the list has no duplicates, which
is part of `SinglePlace`. `FutureUnanswered` (a request that was not made yet has no
response) makes a new request an unanswered one, and `Forwarding` (a body is copied by
one push at a time, to a client that waits for it) makes the end of a body the abstract
`Complete`. A request is forgotten by one step only (`ForgetStep`): each step leaves the
current request of a client tracked, or answers it, or makes the client unreachable, or
is the return of `djb_handle_forward()` for a puller that has gone (`djb.c:1220`).
`LostOnlyWithPuller` says so for any build; with `fassert()` that return is not reached,
and `NothingLost` follows.
`NoDoubleWork` needs that `phcl_id` names the only circuit with a live connection that
has a request (`Owned`), and that a request waits to be handed out only once that
connection is gone (`Waiting`): the only way back to `lst_proxy_new` is a close.

`OnlyLostAnswersNeglect` is the safety half of `EveryRequestAnswered`: djb has no timeouts,
so an outstanding request is answered only if a circuit works on it, or if its connection
closes. A worker publishes a request for the puller it told the number, which is the one
the request is paired with (`PublishesPaired`, and `OutPaired` for what is on the list);
what djb is sending to a live connection becomes a job (`SentKept`), a job becomes a push
(`JobKept`), and a push finds its request, for the number it carries is that of a request
on the list (`PushKept`). A circuit that is gone leaves no request behind with an open
connection, as that connection was its own (`Owned`). What is left are the three ways to
lose an answer: the plugin loses the job, djb turns the answer down, or the connection
that brings the body of an internal answer closes before the body is there, while another
open one has taken the request.

`AcsDanceProofs` and `DanceServiceProofs`, for all sets of pages, pushing threads and
NETs, whatever each NET lacks, and every `Budget` and `MaxDances`:

| Theorem | Property |
|---|---|
| `TypeCorrect` | `TypeOK` |
| `OneDanceAtATime` | `OneDance` |
| `DanceNotLeft` | `NobodyLeftDancing` |
| `DoneMeansBridges` | `DoneHasBridges` |
| `NetKept` | `NetStable` |
| `DoneMeansDanced` | `DoneWasDanced` |
| `Implements` | `ServiceSpec` |

They assume that pages, pushing threads and the rendezvous are different threads (and
none is the name of a kind of request), and that `None` is no NET. `OneDance` is
inductive once a thread that dances is known to be typed; what makes `DoneHasBridges`
so is `Stored` (a dancer about to report "done" has stored the bridges of its NET),
`HasNet` (what is danced is a NET) and `DoneSits` (with the status "done" the only
dancer is the one about to sit down, so nobody replaces the bridges). `DoneWasDanced`
looks past the end of a dance, at messages that are fetched when another NET is set. It
needs that each place of the dance is reached only with a NET that has all that was
asked before (`Walked`), in a thread or in the answer to a request (`Carried`), and
`Told`, which carries this over to the status, the queue and what pages were given.
The steps fall
into six kinds, a lemma each: a thread goes on, reports, leaves the dance, hands it
to the proxy, takes it over from the proxy, or the NET changes. For the refinement,
`OneDance` makes `Stage` the place of one dancer: a step is either the dancer's, and
moves along `Order` or out of the dance, or leaves the stage alone.

`RendezvousProofs`, for all sets of onions whose only base or collection is innermost,
any number of search threads and of loads, every `InFlight`, and a user who may do
anything at any time:

| Theorem | Property |
|---|---|
| `TypeCorrect` | `TypeOK` |
| `SearchIsLive` | `SearchReadsLive` |
| `FilesAreKnown` | `FilesKnown` |
| `FailureIsTold` | `FailureIsReal` |

What holds of every user: a load of the page fetches one image and posts it once
(`Asked`, `Unfetched`), nothing in djb comes from an image that was not posted yet
(`NotYet`), each onion has an outermost layer, and the result of a search is what is
inside a proof of work (`Fitting`). What holds until something is `cut`: there is at most
one thread at work, it searches the current onion, and its result is what is inside
(`Searched`); and the current onion is further inside than all that was freed of its
image (`FreedBefore`), which makes it a live one. `FilesKnown` needs that a captcha's path
goes with an onion (`Stored`).

`RendezvousServiceProofs!Implementation`, under the same assumptions, is `ServiceSpec`.
Each action of `Rendezvous` is one of `RendezvousService`, or changes nothing it can
see. That images come in the order of the loads follows from `Unfetched` and `NotYet`;
before anything is cut, `Searched` makes the steps of a thread those of `Search`, and
what comes off a proof of work what is inside it; afterwards `Fitting` makes it what is
inside some proof of work.

`LaunchProofs`, for any number of threads, preferences and requests: `TypeCorrect`
(`TypeOK`), `VectorFits` (`ArgvFits`), `NothingFreed` (`PointersLive`), `AtMostOneChild`
(`OneChild`). Whoever reads or changes preferences has `l_mutex`, so vector and strings
stay as they were at the `calloc()` (`Framed`). Nothing guards the process numbers, but a
launch that overlapped no other has stopped the process there was before it starts one
(`Alone`). The number of circuits may be any int, and `Word` any number: `VectorFits`
says that the slots filled are those allotted if they can be counted in an unsigned int,
and more than those if not, since a remainder is less than what it is the remainder of
(`FillsAllotted`).

`PluginTabsProofs`, for any number of tabs, windows, jobs and lists of tabs:
`TypeCorrect` (`TypeOK`), `OldCircuitsEnd` (`OnlyLastLaunch`), `NewCircuitsStay`
(`LaunchSurvives`), `EnsureIsRight` (`EnsureKnows`). A launch lists the old tabs and
creates fresh ones in one call, so no list has the new ones, and some list has every
old one of the window (`Tracked`). A launch counts its circuits on top of a count forced
to 0, and callbacks only count down, so the count is positive only after a launch whose
circuits nobody but the user has closed.

Only model-checked: liveness (`EveryRequestAnswered`, `ShutdownStopsWorkers`,
`DanceEnds`, `PollEnds`, `PollingEnds`, `JobsAnswered`, `HandlersReturn`), which is out
of the prover's reach with fairness.

## Seen on the way

Met while modelling, and not findings of a run:

* Proxy. A worker reads the request it published (`djb.c:1295-1301`) when a push may
  have answered and freed it already; `FreedUntracked` says that nobody else can. A
  parked pull is never answered with the 408 of `doc/DESIGN.txt:192`. An answer with
  an empty reason phrase is turned down with 504 and lost. `got_hostname` is set before
  the host name it announces (`djb.c:1054`). `main()` calls `prf_init()` where it means
  `prf_exit()` (`djb.c:1441`).
* Dance. "Already dancing" sets the status of the dance that is going on to error.
  Messages of an earlier dance stay queued for the next NET; a "done" among them is that
  of a NET that could be danced (`DoneWasDanced`), but maybe not of the one that is
  set. A NET longer than a djb message is accepted, but announced as the error "Message
  too long" (`tooLong` in `MCAcsDance` is such a NET). A window of 0 divides by zero (`acs.c:482`) and ends djb.
  When the connection of the push closes before the body of the Redirect's answer is
  there, the request stays outstanding and the dance never ends, unless the connection
  that took the request closes as well.
* Rendezvous. `l_pow_thread_quit` is never tested: a search goes on after a reset, may
  read a freed onion, and leaves its result to the next onion (and `rdv_pow_reset()` does
  nothing before the next search is started), against "Resets all internal state to zero"
  (`doc/DESIGN.txt:67`). When a search finds nothing, a debug message of the thread reads
  the inner onion that is not there (`rendezvous.c:464`). A captcha inside a captcha is
  never shown, as the path of the first one stays set. When an allocation fails after
  captcha.png was written (573-590), the file and its directory stay. After a wrong answer
  the button sends two requests.
* Plugin. `circuit.js` uses `/next/` and `preferences.js` posts to `/preferences/`,
  for which djb answers 404; a 404, a 500 or a 408 stops a circuit for good
  (`circuit.js:152`). `circuit_count_running` is too low after a relaunch, whose callbacks
  count down the new circuits: then `circuits_ensure()` launches over running circuits. It
  is too high when the user has closed some, or some have stopped: then it launches
  nothing. `getAllInWindow(null)` sees the current window only, so circuits elsewhere stay.
  `Headers` compares a Host header with a URL, and its table of requests only grows.
* Launcher and preferences. Two launches that overlap leave a process that djb has no
  number of. `argv` is used uninitialised when `prf_get_argv()` fails. A negative or huge
  number of circuits, which `prf_set()` takes from anybody, wraps the size of the argument
  vector, and it is written past its end (`preferences.c:121-124`). `prf_br_list()`
  reads the bridges without the lock and passes the wrong type to `json_pack()`.

## Not modelled

Headers, cookies, host names and URLs (among them the paths of each side, above); sizes
of bodies and how much of a body a second circuit still finds; logging and the HTML of
status pages; memory leaks except files; two handlers of the rendezvous in the middle of
each other, and its responses that find no memory; `prf_br_list()`; the rewriting of
headers in the background page; forms and drawing; the stand-in daemon; daemonizing,
options and packaging. The composition of the plugin with `DjbProxy`: as written, the two do not
speak to each other (`/next/`), so each is checked beside the partner it was written
for, and `DjbProxy`'s plugin may do all that a plugin could.

## Plan

1. `DjbProxy`, `ProxyService`: runs and proofs - done, with `NoDoubleWork`,
   `FreedUntracked` and `OnlyLostAnswersNeglect` (`ProxyWorkProofs`).
2. `AcsDance`, `Rendezvous`: runs and proofs - done; the dance refines `DanceService`, the
   rendezvous `RendezvousService`.
3. `PluginCircuits` and `PluginTabs`: runs and proofs - done.
4. `Launch`: runs and proofs - done.
5. Worth doing next: the handlers of the rendezvous step by step, as httpsrv may run two
   at a time; and a proof that an argument vector is made from one whole posting of
   preferences, as a refinement of a service that sets them at once.
6. Left: the bytes of a forwarded body, once the HTTP server's buffer is part of the
   repository; and, once the plugin uses djb's paths, its composition with `DjbProxy`.
