------------------------------ MODULE WebPage ------------------------------
(***************************************************************************)
(* The page of the web dashboard, in one browser, and the server it polls. *)
(* The page runs on one event loop, so a handler is a step; but a poll     *)
(* lasts from its first request to its last response, a timer starts the   *)
(* next one meanwhile, and each request is answered by a thread of its     *)
(* own. Responses are rendered as they arrive, and nothing is aborted.     *)
(*                                                                         *)
(* What an endpoint answers is the version of what it is about. Responses  *)
(* of "metrics" also hold the temperatures, which the server keeps in a    *)
(* cache that workers refresh behind the requests.                         *)
(***************************************************************************)
EXTENDS Integers, FiniteSetsExt

CONSTANTS
    Endpoints,            \* "metrics", "rules", "docker" and "nodes"
    None,                 \* nothing, not yet
    Reading,              \* what a worker holds until it has read the sensors
    MaxPolls,             \* bound: polls in flight
    MaxWorkers,           \* bound: workers that read the sensors at a time
    MaxChanges            \* bound: changes on the server

ASSUME WebPageAssumption ==
    /\ "metrics" \in Endpoints /\ "overview" \notin Endpoints /\ None \notin Endpoints
    /\ MaxPolls \in Nat \ {0} /\ MaxWorkers \in Nat \ {0} /\ MaxChanges \in Nat
    /\ None \notin Nat /\ Reading \notin Nat /\ None # Reading

VARIABLES
    world,    \* world[e]: the version of what endpoint e tells of
    sensors,  \* the version of the temperatures
    cached,   \* _CACHED_TEMPS
    due,      \* _LAST_SENSOR_READ lies more than 15 seconds back
    worker,   \* worker[w]: what a _refresh_sensors_worker has read
    tab,      \* activeTab
    live,     \* pollIntervalMs > 0
    timers,   \* how many intervals are set in the browser
    mine,     \* pollTimer is one of them
    polls,    \* polls[k]: a fetchData in flight
    cards,    \* cards[e]: what overview cards and the counts on tabs show
    tables,   \* tables[e]: what the tab of e shows
    temps     \* the temperatures on the tab of "metrics"

served == <<world, sensors, cached, due, worker>>
control == <<tab, live, timers, mine>>
shown == <<cards, tables, temps>>
vars == <<world, sensors, cached, due, worker, tab, live, timers, mine, polls,
          cards, tables, temps>>

Tabs == {"overview"} \cup Endpoints
Versions == Nat
Shown == Versions \cup {None}

(* The requests of a poll.                                                 *)
Asked(t) == IF t = "overview" THEN Endpoints ELSE {t}

(* of: the tab that was active; got: the responses; temps: those of the    *)
(* metrics; overtaken: history, those of got that another poll's rendering *)
(* came before.                                                            *)
Polls == [of : Tabs, got : [Endpoints -> Shown], temps : Shown, overtaken : SUBSET Endpoints]

TypeOK ==
    /\ world \in [Endpoints -> Versions] /\ sensors \in Versions
    /\ cached \in Shown /\ due \in BOOLEAN
    /\ worker \in [1..MaxWorkers -> Shown \cup {Reading}]
    /\ tab \in Tabs /\ live \in BOOLEAN
    /\ timers \in Nat /\ mine \in BOOLEAN
    /\ polls \in [1..MaxPolls -> Polls \cup {None}]
    /\ cards \in [Endpoints -> Shown]
    /\ tables \in [Endpoints -> Shown]
    /\ temps \in Shown

Nothing == [e \in Endpoints |-> None]
NewPoll(t) == [of |-> t, got |-> Nothing, temps |-> None, overtaken |-> {}]

(* The page has just been loaded: initCharts, setupPolling, fetchData.     *)
Init ==
    /\ world = [e \in Endpoints |-> 0] /\ sensors = 0
    /\ cached = None /\ due = TRUE
    /\ worker = [w \in 1..MaxWorkers |-> None]
    /\ tab = "overview" /\ live = TRUE
    /\ timers = 1 /\ mine = TRUE
    /\ polls = [k \in 1..MaxPolls |-> IF k = 1 THEN NewPoll("overview") ELSE None]
    /\ cards = Nothing /\ tables = Nothing /\ temps = None

-----------------------------------------------------------------------------
(* The page.                                                               *)

Free == {k \in 1..MaxPolls : polls[k] = None}

(* fetchData, which reads the active tab before it waits for anything.     *)
FetchData(t) == Free # {} /\ polls' = [polls EXCEPT ![Min(Free)] = NewPoll(t)]

(* Mutant of SwitchTab: the tab is filled with what the overview has, so   *)
(* that it is not empty until the response comes.                          *)
SwitchTabFilled(t) ==
    /\ tab' = t
    /\ FetchData(t)
    /\ tables' = IF t \in Endpoints THEN [tables EXCEPT ![t] = cards[t]] ELSE tables
    /\ UNCHANGED <<served, live, timers, mine, cards, temps>>

SwitchTab(t) ==
    /\ tab' = t
    /\ FetchData(t)
    /\ UNCHANGED <<served, live, timers, mine, shown>>

(* Mutant of Cleared: the interval that is set is not cleared.             *)
NotCleared == timers

(* clearInterval of pollTimer, if that is still set.                       *)
Cleared == IF mine THEN timers - 1 ELSE timers

(* The choice of an interval, or of none ("Pause"): setupPolling.          *)
SetupPolling(on) ==
    /\ live' = on
    /\ mine' = on
    /\ timers' = IF on THEN Cleared + 1 ELSE Cleared
    /\ UNCHANGED <<served, tab, polls, shown>>

(* An interval that is set calls fetchData.                                *)
Fire ==
    /\ timers > 0
    /\ FetchData(tab)
    /\ UNCHANGED <<served, control, shown>>

Got(q) == {e \in Endpoints : q.got[e] # None}
Complete(q) == Asked(q.of) \subseteq Got(q)

(* What a poll brought is rendered: the tables and, on the overview, the   *)
(* cards. The charts go on with the reading of a poll that has one.        *)
Rendered(q, place) == [e \in Endpoints |-> IF e \in Asked(q.of) THEN q.got[e] ELSE place[e]]

Render(k) ==
    LET q == polls[k]
    IN /\ q # None /\ Complete(q)
       /\ tables' = Rendered(q, tables)
       /\ cards' = IF q.of = "overview" THEN Rendered(q, cards) ELSE cards
       /\ temps' = IF "metrics" \in Asked(q.of) THEN q.temps ELSE temps
       /\ polls' = [j \in 1..MaxPolls |->
                       IF j = k \/ polls[j] = None THEN None
                       ELSE [polls[j] EXCEPT !.overtaken = @ \cup (Asked(q.of) \cap Got(polls[j]))]]
       /\ UNCHANGED <<served, control>>

-----------------------------------------------------------------------------
(* The server.                                                             *)

Waits(k, e) == polls[k] # None /\ e \in Asked(polls[k].of) /\ polls[k].got[e] = None

(* Endpoints without a cache.                                              *)
Answer(k, e) ==
    /\ e # "metrics" /\ Waits(k, e)
    /\ polls' = [polls EXCEPT ![k].got[e] = world[e]]
    /\ UNCHANGED <<served, control, shown>>

(* Mutant of Old: what has been read is read no more.                      *)
OldAtFirst == due /\ cached = None

(* The temperatures in the cache are to be read again.                     *)
Old == due

(* _get_cached_temperatures: if they are, a worker is started. The stamp   *)
(* keeps later requests from starting one, but not a request under way,    *)
(* which may have looked before it.                                        *)
CheckSensors(k) ==
    \/ /\ Old
       /\ due' \in IF \E j \in 1..MaxPolls : j # k /\ Waits(j, "metrics")
                  THEN BOOLEAN ELSE {FALSE}
       /\ \E w \in 1..MaxWorkers :
             worker[w] = None /\ worker' = [worker EXCEPT ![w] = Reading]
    \/ ~Old /\ UNCHANGED <<due, worker>>

(* The response has the temperatures that are there, not those to come.    *)
AnswerMetrics(k) ==
    /\ Waits(k, "metrics")
    /\ polls' = [polls EXCEPT ![k].got["metrics"] = world["metrics"], ![k].temps = cached]
    /\ CheckSensors(k)
    /\ UNCHANGED <<world, sensors, cached, control, shown>>

(* A request fails, in the server or on the way back, or is answered with  *)
(* an error: Promise.all rejects, and nothing of the poll is rendered.     *)
Fail(k, e) ==
    /\ Waits(k, e)
    /\ polls' = [polls EXCEPT ![k] = None]
    /\ (e = "metrics" /\ CheckSensors(k)) \/ UNCHANGED <<due, worker>>
    /\ UNCHANGED <<world, sensors, cached, control, shown>>

(* A worker reads the sensors, which takes it a while ...                  *)
WorkerRead(w) ==
    /\ worker[w] = Reading
    /\ worker' = [worker EXCEPT ![w] = sensors]
    /\ UNCHANGED <<world, sensors, cached, due, control, polls, shown>>

(* ... and puts what it read into the cache, with a stamp of its own.      *)
WorkerPublish(w) ==
    /\ worker[w] \in Versions
    /\ cached' = worker[w] /\ due' = FALSE
    /\ worker' = [worker EXCEPT ![w] = None]
    /\ UNCHANGED <<world, sensors, control, polls, shown>>

(* A worker that cannot read them keeps the cache, and stamps as well.     *)
WorkerFail(w) ==
    /\ worker[w] = Reading
    /\ due' = FALSE
    /\ worker' = [worker EXCEPT ![w] = None]
    /\ UNCHANGED <<world, sensors, cached, control, polls, shown>>

(* 15 seconds pass since the stamp.                                        *)
Elapse ==
    /\ ~due /\ due' = TRUE
    /\ UNCHANGED <<world, sensors, cached, worker, control, polls, shown>>

(* What is monitored changes.                                              *)
Changes == sensors + FoldSet(LAMBDA e, n : n + world[e], 0, Endpoints)

Change ==
    /\ Changes < MaxChanges
    /\ \/ \E e \in Endpoints : world' = [world EXCEPT ![e] = @ + 1] /\ UNCHANGED sensors
       \/ sensors' = sensors + 1 /\ UNCHANGED world
    /\ UNCHANGED <<cached, due, worker, control, polls, shown>>

-----------------------------------------------------------------------------
Next ==
    \/ \E t \in Tabs : SwitchTab(t)
    \/ \E on \in BOOLEAN : SetupPolling(on)
    \/ Fire
    \/ \E k \in 1..MaxPolls : Render(k) \/ AnswerMetrics(k)
    \/ \E k \in 1..MaxPolls, e \in Endpoints : Answer(k, e) \/ Fail(k, e)
    \/ \E w \in 1..MaxWorkers : WorkerRead(w) \/ WorkerPublish(w) \/ WorkerFail(w)
    \/ Elapse
    \/ Change

Spec == Init /\ [][Next]_vars

(* The interval fires, requests are answered and rendered, workers end,    *)
(* and time passes.                                                        *)
FairSpec ==
    /\ Spec
    /\ WF_vars(Fire) /\ WF_vars(Elapse)
    /\ \A k \in 1..MaxPolls :
          /\ WF_vars(Render(k)) /\ WF_vars(AnswerMetrics(k))
          /\ \A e \in Endpoints : WF_vars(Answer(k, e))
    /\ \A w \in 1..MaxWorkers : WF_vars(WorkerRead(w)) /\ WF_vars(WorkerPublish(w))

-----------------------------------------------------------------------------
(* However often the interval is changed, paused and resumed, the page     *)
(* polls at one rate, and not at all while it says that it is paused.      *)
OneTimer == timers = IF live THEN 1 ELSE 0

StepsBack(e) ==
    tables[e] # None /\ (tables'[e] = None \/ tables'[e] < tables[e])

Overtaken(k, e) == polls[k] # None /\ polls'[k] = None /\ e \in polls[k].overtaken

(* A tab goes back to an older state of the server only when a poll is     *)
(* rendered after one that was begun or answered later: tab switches,      *)
(* pauses, failures and polls of other tabs never do that to it.           *)
BackOnlyIfOvertaken ==
    [][\A e \in Endpoints : StepsBack(e) => \E k \in 1..MaxPolls : Overtaken(k, e)]_vars

TabIsCurrent(e) == tables[e] = world[e] /\ (e = "metrics" => temps = sensors)
CardIsCurrent(e) == cards[e] = world[e]

Stays == <>[]live /\ <>[][UNCHANGED tab]_vars
Answered(E) == <>[][\A k \in 1..MaxPolls, e \in E : ~Fail(k, e)]_vars
SensorsRead == <>[][\A w \in 1..MaxWorkers : ~WorkerFail(w)]_vars

(* A page that stays on a tab, is not paused and whose requests no longer  *)
(* fail comes to show what the server has, overlapping polls, the cache of *)
(* temperatures and its workers notwithstanding.                           *)
PageCatchesUp ==
    Stays /\ Answered(Endpoints) /\ SensorsRead
        => <>[](\A e \in Asked(tab) :
                    TabIsCurrent(e) /\ (tab = "overview" => CardIsCurrent(e)))

(* "LIVE": a tab never goes back to an older state of the server.          *)
NeverBack == [][\A e \in Endpoints : ~StepsBack(e)]_vars

(* The count on a tab is that of the table under it.                       *)
CountsAgree ==
    /\ tab \in Endpoints /\ polls = [k \in 1..MaxPolls |-> None]
    /\ cards[tab] # None /\ tables[tab] # None
    => cards[tab] = tables[tab]

(* An overview card catches up if the requests it depends on do not fail.  *)
CardsCatchUp ==
    \A e \in Endpoints \ {"metrics"} :
        Stays /\ <>[](tab = "overview") /\ Answered({e}) => <>[]CardIsCurrent(e)
=============================================================================
