# Nano Cloud Plug in TLA+

A verification development for nano-dsl (`src/nano_logic`): a monitoring tool
whose dashboards, command lines, daemon, web server and receiver are separate
processes of one host that share a rules file, log files, a pid file and TCP
ports, and whose threads share lists and dictionaries without much locking.
What is modelled here is that sharing. Readings of `psutil`, texts and layout
are data, and appear as model values.

    tlc -config AlertTail.cfg AlertTail.tla       # model-check
    tlapm AlertTailProofs.tla                     # prove

`PROJECT.json` has, for each definition that models code, the lines it models.

## The system

| Component | Code | State | Operations |
| --- | --- | --- | --- |
| Rule store | `engine.py` 24-44, 247-282 | `ACTIVE_RULES`, one list per process; `rules.json` | `add_rule`, `remove_rule`, `save_rules`, `load_rules` |
| Daemon | `daemon.py`, `daemon_lock.py` | `last_mtime`; the flock and pid in `daemon.pid` | lock, reload on a newer mtime, evaluate, log, sleep |
| Alert engine | `engine.py` 149-240 | `_last_triggered_at` by rule id | `evaluate_active_rules`, `_dispatch_action` |
| Actions | `plugins/webhook_plugin.py`, `slack`, `discord` | none | post, with a timeout, within the tick |
| Dashboard | `dashboard.py` | its rules, `_alert_log_offsets` by rule id, typed commands | commands; every second, the tail of each rule's log |
| Command line | `cli.py` | its rules, its receiver | the same commands, one by one |
| DSL | `dsl.py` | none | parses a line; a query's text, a `Rule` or a `StopRule` |
| Receiver | `receiver.py` | `NodeStore` (last_seen and metrics of each node), `_ACTIVE_SERVER`, the port | POST of metrics, GET of all nodes, sync from another process's receiver |
| Agent | `agent.py` | its name; the loop of a remote node | take a name, push, wait for the answer, sleep |
| EC2 plugin | `plugins/ec2_plugin.py` | the receiver it starts | starts one on import, `ec2.server start`/`stop`, listings, metrics of the fleet |
| Plugin registry | `plugins/__init__.py`, `__init__.py` | handlers, probes, actions by name | discovery at import |
| Docker probe | `plugins/docker_probe.py` | none | SDK first, `docker` command otherwise |
| Web server | `web.py` | shares the lists of the process it runs in; a cache of temperatures | finds a port; a thread per request; rules, nodes, Docker, metrics |
| Web page | `ui/web/dashboard.js` | tab, interval, timer; what it last rendered | polls that overlap, tabs, pause and resume |

How they interact:

- A front end (dashboard or command line) changes its own list and saves it; the
  daemon follows the file's modification time and never talks to a front end.
- The daemon appends alerts to `logs/<rule>.log`; dashboards tail these files.
- A dashboard spawns a daemon as it starts; `daemon.pid` decides which one stays.
- Agents POST to whoever holds the receiver port; the other processes GET from it
  to fill node stores of their own.
- With `--web`, a front end serves requests on threads that use its lists.
- Importing the package discovers the plugins, and one of them starts a receiver.

What is hard about it: files read between the two steps of a write; timestamps
that do not tell two writes apart; ids that are given again while tables of
other processes still hold the old ones; a stat and a read that do not see the
same file; threads that use a list while another clears it; pushes given up and
repeated; copies of copies that outlive what they were copied from; ports that
change hands between a probe and its use; answers that overtake each other; clocks
that are set back; processes that die anywhere.
`PROJECT.json` lists these hazards at their lines.

## Modules

| Module | Models | Composed with |
| --- | --- | --- |
| `RuleBook` | abstract: one list of rules, and a watcher of the whole of it | |
| `RuleStore` | the rules in front ends, file and daemon | with one front end and no fault in a save, implements `RuleBook`; `MCRuleStore`, `RuleStoreProofs` |
| `WebRules` | the list of one process used by a front end and by web requests | `WebProofs` |
| `DaemonLock` | the lock and the pid file | `DaemonLockProofs` |
| `AlertEngine` | the daemon's loop over its rules | `AlertEngineProofs` |
| `AlertTail` | the dashboard's tail of the logs | `AlertTailProofs` |
| `Telemetry` | agents, node stores, syncs | `TelemetryProofs` |
| `Reports` | abstract: the last report of each name, and an alarm on a latest one | |
| `Fleet` | the names of agents, and what commands and rules make of a store | implements `Reports`; `MCFleet`, `PluginProofs` |
| `ReceiverPort` | who binds the ports of receivers and web servers, and what is told of it | `MCReceiverPort`, `ReceiverPortProofs` |
| `DockerProbe` | what commands, metric and page tell of Docker | `PluginProofs` |
| `WebPage` | the page of the web dashboard and the requests it polls with | `WebProofs` |

**RuleStore.** `mem[p]` is the list of front end `p`, `file` is `rules.json` with
its form and mtime, `watched`, `lastMtime` and `seen` are the daemon's. A save is
two actions, `SaveOpen` (truncates) and `SaveWrite`; `DaemonStat` and `DaemonLoad`
are the two halves of the daemon's reload. A file that does not parse leaves a list
alone (`Loaded`). `RuleBook` is what a user is to see of it all: its `book` is what
the file holds or, from `SaveOpen` to `SaveWrite`, is about to hold. Two saves that overlap may leave the tail of the longer one, and
the file is then garbage. Faults: `open` or `write` fails, a front end is killed
in a save, the daemon is killed. Lists are sets, since ids grow along a list.
Front ends without a web server are single-threaded, and commands there are
atomic but for their save.

**WebRules.** Where a front end also serves the web, each use of `ACTIVE_RULES` is
a step: `Parse`, `Clear`, `Extend`, `Scan` and `Respond` of a request, `AddAppend`,
`StopFind`, `StopPop`, `SaveCollect` of a command. Lists are sequences here. The file
has no timestamps, since requests do not look at them.

**DaemonLock.** One program counter per spawned process through
`acquire_daemon_lock`, with the pid file truncated and written in two steps.
The kernel releases the flock of a process that dies.

**AlertEngine.** One action per rule evaluated, in the order of the list, and per
alert logged. Times are ages, capped where they suppress nothing any more; `Delay`
lets metrics, actions and logs take time within a tick, and `SetBack` sets the
clock of the host back, within a tick or between ticks, so that ages shrink and
may be negative; `back` is by how much in all. `shown` is the time that has really
passed since a rule was dispatched, whichever daemon did it: `Restart` empties the
table of the cooldowns (`engine.py` 166) and leaves `shown` alone. A new daemon
may thus dispatch at once what the last one just did; `forgotten` has the ids this
can happen to, until it has. `Reload` chooses any list that the rule store may
leave, and `listed` is the last one, also across daemons, so that a rule that
stayed listed keeps its history.

**AlertTail.** Offsets count lines. `Stat` and `Read` are apart, and the daemon
may append in between. Commands run between ticks, for both run on the event
loop of the dashboard and a tick never awaits.

**Telemetry.** An entry of a node store is the age of its last_seen. A push is
stamped (`Stamp`) before it takes the lock (`Update`); a sync is begun, answered
and merged in three steps; any of them may be lost, and an agent may give up on a
push that its handler still holds. `Standalone` are the programs that listen
without an `_ACTIVE_SERVER`, and so sync with themselves.

**Fleet.** What Telemetry leaves out: an agent takes its name as it starts
(`Resolved`: the option, the instance-id if the metadata service answers, the host
name), and a push under that name replaces its entry and moves it to the front of
the store. The commands `ec2.list`, `ec2.metrics`, `ec2.info` and `ec2.server` read
the store twice, and pushes come in between: `Command` is the first read and `Reply`
the second, and `Target` and `Counts` are what would be shown at any moment
between. The code keeps a dictionary and sorts it when it is read; the model keeps
it sorted, and `Reports` is the dictionary again: `RefinesReports` says that a push
replaces one entry and touches no other, and that the first entry `get_metric`
finds is a latest one. `Judge` is the daemon's evaluation of a rule over a metric of the fleet,
which `get_metric` takes from one node. The process listens itself; what copies of
a store add is Telemetry's matter. Searching a name by a part of it is the
constant `PartOf`.

**ReceiverPort.** Programs import the package, which starts a receiver on the
default port if that is free, and then run their main. `nano_logic/__init__.py`
47-51 means to skip discovery for some programs by the name of the main module;
Python has not named it when it imports the package, so nothing is skipped.
Web servers are part of it, for their ports come from the same set: `FindPort`
binds and gives back (`_find_free_port`), `ServeWeb` binds again, later and in the
thread of a CLI or dashboard if one asked for it, and `url` is the port that the
user was given: the web server's main and the dashboard name the port they serve
(`web.py` 692, `dashboard.py` 228), the command line the one it was asked for. What
probes a port takes whoever answers its `/health` with 200 for a receiver
(`Credible`); so do web servers, and `Strangers` come in kinds that do and do not.
Receivers may be asked for any port, web ports among them.

**DockerProbe.** One question at a time (a `docker.*` command, an evaluation of the
metric, or a request of the page), in the calls it makes of Docker: `SdkAsk`,
`SdkMeasure` container by container, and `CliAsk` after any failure of the SDK
(`SdkFails`). Between them `Change` lets a container change or the daemon stop
answering, which stands for refusals and time-outs alike. With a daemon that answers,
too, a command may fail or print what is not understood (`CliFails`), with any of the
three reasons, since its text decides (`docker_probe.py` 27-34 and 380-389), and the
ping may (`PingFails`). `seen`, `wasDown` and `failed` keep what was so, and what
failed by itself, during the question. The SDK may be missing, unable to make a
client, or set up for an endpoint without a daemon, while the command line uses
a context of its own. Images, networks, volumes and the daemon's data have one
gatherer each, of the same form, and are rows that do not change.

**WebPage.** A poll (`fetchData`) is a record in flight: the tab it was begun on,
the responses it has and, as history, those of them that came before another poll
was rendered. `Answer` and `AnswerMetrics` are the threads of its requests; the
latter takes the temperatures from the cache and may start a worker that reads
them anew. `Render` is what `fetchData` does once all its responses are there,
and `Fail` what it does when one of them is an error: nothing. `timers` counts the
intervals that are set in the browser, and `mine` says whether `pollTimer` is one
of them. Data are versions, which is all that a rendering can be judged by. A poll
finds no place if `MaxPolls` are in flight, and is then not begun.

## Runs

| Run | Instance | Distinct states | What it shows |
| --- | --- | --- | --- |
| `RuleStoreTwo` | 2 front ends, 3 commands, 1 fault of any kind, 2 ids, a timestamp per write | 331,032 | `UniqueIds`: no list and no file holds two rules under one id. `DaemonFollowsFile`: the daemon comes to watch what the file holds |
| `RuleStoreOne` | 1 front end, 5 commands, the daemon may die | 26,168 | `RestartsKeepRules`, `NoDisarm`, `DaemonFollowsFrontEnd`: what the user confirmed is what restarts find and what the daemon watches. `RefinesBook`: truncated files and loads at any moment are one list that changes by one rule at a time, of which the daemon knows the whole |
| `WebRules` | 1 command, 1 save of another process, 2 requests | 507,250 | `ResponsesAreWhole`: a request nothing in the process overlaps answers with a whole list. `ListCatchesUp`: damage by overlaps does not last |
| `DaemonLock` | 3 processes, 2 ends | 1,302 | `OneDaemon`, `PidFileNamesDaemon`, `LockIsLive`, `SpawnBringsDaemon` |
| `AlertEngine` | 2 ids, 1 metric, 2 readings, cooldown 4, delays up to 1, the clock set back by 1, 1 fault | 208,398 | `RepeatsSpaced`: repeats are a cooldown apart less the delay of a tick, but for one early repeat of each rule after a daemon died. `BreachIsShown`: no breach is silenced by another rule or an old episode. `OneReadingPerTick`, `PersistentBreachIsLogged` |
| `AlertTail` | 2 rules that may share a log, 4 lines | 33,400 | `NoneOverlooked`, `NoReplay`, `AlertsSurfaced` |
| `Telemetry` | 1 node, a dashboard and a receiver program, 2 syncs each, 1 push given up | 498,640 | `OnlineIsEarned`, `ReadingsAdvance`; `ReadersCatchUp`: as long as another process listens and the pushes of a node, which go on, keep it within a threshold there, a dashboard that polls comes to see it within that threshold again and again |
| `Fleet` | an EC2 instance and a machine with the same host name | 528,768 | `OneEntryPerRun`: a metadata service that comes and goes does not split an agent. `AnswerIsAsked`, `StatusFits`: a command's two reads do not contradict each other. `FleetSettles`: exactly the agents that run come to be online. `AlarmComes`: what machines that are gone reported last keeps no rule from firing. `RefinesReports`: the store is one last report per name |
| `ReceiverPort` | a receiver program and 2 strangers, one of which answers `/health`, on 8081; another receiver program on the second of 2 web ports; a command line, a web server and a dashboard, all with `--web`, on the default port | 2,392,558 | `ServerListens`; `AlreadyIsTrue`: a receiver that is said to be active is another process on that port, and no one who does not answer `/health`. `StartedIsTrue`; `UrlIsTrue`: a web server or dashboard that names a port serves there |
| `ReceiverPortDefault` | a receiver program, a quiet command line, a web server and a dashboard on the default port, a command line on 8081 | | violated: `AlreadyIsTrue` |
| `DockerProbe` | 2 containers, every set-up of SDK and command line, 2 changes during a question | 2,475,536 | `RowsAreSnapshot`: a table or the metric is what there was at one moment of the call. `FailureIsTrue`: a failure is that of the daemon, or of a command line that is missing or failed at this listing, never of the SDK or a container alone. `PageIsTrue`, `LogsAreTrue`: the same of each section of the page and of logs |
| `WebPage` | 2 endpoints, 2 polls in flight, 1 worker, 1 change | 546,840 | `OneTimer`: however the interval is changed, one timer polls. `BackOnlyIfOvertaken`: a tab goes back to older data only with a poll that another one overtook. `PageCatchesUp`: it comes to show what is |

Type invariants are theorems (`TypeCorrect`, `RulesTypeCorrect`, `FleetTypeCorrect`)
and not checked again by the runs.

Why the bounds are enough. Every race modelled is between two actors over one
object: two savers and one reader of the file, a stat and an append, a push and a
copy, two requests, two processes that want one port; the instances have that
many actors and one or two objects, and let each actor act at least twice where a
repetition matters (an id that comes back needs an add, a stop and an add; a
stale copy needs two syncs). `AlertEngine` has a cooldown of four seconds, so that a
rule can be armed again, or miss a reading, and breach anew before it ends.
`DaemonLock` has three processes, so that one can be refused while another leaves.
`Fleet` has two machines whose names collide: the host name of both is a part of
the instance-id of one. Two polls of `WebPage` overlap, and with one change between
their requests they hold different data; "overview" asks both endpoints.
`ReceiverPort` has two web ports, of which a receiver may hold one, and three web
servers that want one.
Two changes during a question let a container and the daemon, or two containers,
change between two calls. Ages are capped one above the largest threshold
they are compared to, beyond which no guard tells them apart (in `AlertEngine` with
what delays and a clock set back may take off). The faults are
bounded by one, so that a liveness property is not excused by faults without
end. The theorems below hold without these bounds.

Symmetry is not used, since most sets are singletons or are ordered, and
`CHECK_DEADLOCK FALSE` is stated in each configuration but `DockerProbe` and `Fleet` because the
bounds on commands, faults and lines stop the model where the program goes on.

### Divergences

A disagreement of the code with what is written of it is a run (and a finding in
`PROJECT.json`): in `ReceiverPortDefault`, a receiver program asked for the default
port finds it taken by the plugin of its own process, says one is already active,
and exits. `receiver.py:385`, `README.md:351`.

Further configurations violate the properties they name (some name several, and
TLC stops at the first unless it is taken out); they document the limits of
the theorems and are not part of the regular runs:

| Configuration (module) | Property | What happens |
| --- | --- | --- |
| `RuleStoreCrash` (`MCRuleStore`) | `RulesSurvive` | a process that dies between truncating and writing takes all rules along |
| `RuleStoreCoarse` (`MCRuleStore`) | `DaemonFollowsFile` | two writes under one timestamp: the daemon keeps the older list |
| `RuleStoreIds` (`MCRuleStore`) | `IdsAgree` | two front ends give one id to two rules |
| `WebRulesTwice` (`WebRules`) | `NoRuleTwice` | two requests that overlap clear the list one after the other, then both extend it: every rule is listed and served twice until the next load (`web.py` 227); `docs/architecture-and-review.md:101` relies on a process being single-threaded |
| `WebRulesLost` (`WebRules`) | `RulesSurvive` | a request clears the list under a save, which writes what is left |
| `AlertEngineReuse` (`AlertEngine`) | `BreachIsShown` | a rule under a reused id is silenced by the cooldown of its predecessor |
| `AlertEngineSlow` (`AlertEngine`) | `RepeatsFullySpaced` | the cooldown counts from the start of a slow tick |
| `AlertEngineRestart` (`AlertEngine`) | `RepeatsFullySpaced` | a daemon dies, and the next one, whose table is empty, dispatches at once what the last one just did (`engine.py` 166) |
| `AlertEngineClock` (`AlertEngine`) | `SilentForCooldown` | the clock is set back, and a rule that stays breached is silent for as much longer (`engine.py` 200) |
| `AlertTailTwice` (`AlertTail`) | `SurfacedOnce` | what is appended between stat and read is shown twice |
| `AlertTailReuse` (`AlertTail`) | `NoReplay` | an id reused within a second inherits an offset |
| `TelemetrySelf` (`Telemetry`) | `ReadingsNeverRegress` | a receiver program syncs with itself and puts an old copy over a new push |
| `FleetLimits` (`MCFleet`) | `ListFits` | a node is heard between the two reads of `ec2.list`, which counts more nodes online than it lists (`ec2_plugin.py` 116) |
| `FleetLimits` (`MCFleet`) | `OneEntryPerMachine` | an agent that starts again while the metadata service fails has another name, and its machine is online twice (`agent.py` 77) |
| `FleetCleared` (`MCFleet`) | `ClearedIsTrue` | a rule on a metric of the fleet clears because another node, which is fine, was heard last (`receiver.py` 163) |
| `ReceiverPortOptions` (`MCReceiverPort`) | `StartedIsTrue` | a command line asked for another port names a port on which nobody listens |
| `ReceiverPortOptions` (`MCReceiverPort`) | `OptOutKept` | `--no-receiver` does not keep the plugin from starting one |
| `ReceiverPortOptions` (`MCReceiverPort`) | `WebComesUp` | `--with-receiver` ends the web server if a receiver runs elsewhere |
| `ReceiverPortClaims` (`MCReceiverPort`) | `AlreadyIsReceiver` | a web dashboard, or a stranger, answers `/health` with 200, and is reported as an active receiver (`receiver.py` 378-385, `cli.py` 96-98) |
| `ReceiverPortClaims` (`MCReceiverPort`) | `EveryUrlIsTrue` | a command line asked for `--web` names the port it asked for, not the free one its server took (`cli.py` 231) |
| `ReceiverPortClaims` (`MCReceiverPort`) | `PortStaysFree` | a port found free is taken by another process before the server binds it (`web.py` 614) |
| `DockerLogs` (`DockerProbe`) | `LogsAreTrue` | a container that writes "no such container" to its standard error is reported missing (`docker_probe.py` 282-284) |
| `DockerPage` (`DockerProbe`) | `ReachableIsListed` | the daemon stops answering after `is_daemon_reachable`: the page shows it reachable, without containers |
| `WebPageBack` (`WebPage`) | `NeverBack` | a poll that was overtaken renders its older data over newer (`dashboard.js` 160) |
| `WebPageCounts` (`WebPage`) | `CountsAgree` | the count on a tab is that of the last overview, the table under it newer (`dashboard.js` 227) |
| `WebPageFailing` (`WebPage`) | `CardsCatchUp` | while one of four endpoints fails, the cards of the other three stay as they were (`dashboard.js` 163) |

Met while reading, and too shallow to model: `get_docker_payload` counts as running
the rows that have a `state` of "running" or "Up" in their status (`web.py` 324),
and the rows of the SDK have neither, so that the page shows none running wherever
the SDK answers; the page looks for `ServerVersion` where the payload has
`server_version`; `README.md` 80 calls the Docker payload cached, which it is not.
A service that is stopped makes `service.status` say that the command failed, since
`systemctl` then exits with a status of its own. The ranking of processes by load
asks for each load a second time right after the first, over an interval of next
to nothing. An agent measures the uptime of its host once, as it starts. The sync
that `get_nodes_payload` would do is never asked for by a request. Machines with one
host name and no instance-id share an entry of the store, and push over each
other.

## Fairness

- `RuleStore`: weak fairness of the daemon's stat and load (its loop never ends and
  catches what is raised) and of a save once begun (straight-line code). Commands,
  spawns and faults are owed by nobody.
- `DaemonLock`: weak fairness of each process's next step. `Spawn`, `Stop` and `Die`
  have none.
- `AlertEngine`: weak fairness of the loop; probes and posts have timeouts.
- `AlertTail`: weak fairness of the tick, and strong fairness of the read of a log: a
  log that is readable again and again is read (the read may fail, and is then
  tried at the next tick).
- `Telemetry`: readers poll, an answered copy is merged, and a listener that is asked
  again and again answers (strong, for a single GET may fail). `ReadersCatchUp` states
  the rest of its premises itself: the reader lives, another process goes on
  listening (nothing makes one, `receiver.py` 341), that pushes get through to it, and that
  an answer is merged before a unit of age is over (requests time out within 1.5 s,
  a node is online for 30).
- `Fleet`: agents try to push in each interval, time passes, and the daemon judges.
  Its properties hold once pushes get through, which they assume themselves. It takes
  for granted that the interval of the agents is no longer than ONLINE_THRESHOLD
  (5 s by default, and 30 s): `--interval` may be any number (`agent.py` 235-239), and a node
  that pushes more seldom than every 30 s is offline in between.
- `WebPage`: an interval fires, requests are answered (the waits of `fetch` and of the
  probes end) and polls rendered, workers read and publish, time passes. Users owe
  nothing, and that requests and workers fail no more is a premise of the property.
- `WebRules`: weak fairness of each request thread; the page polls.

## Theorems

Each proof module EXTENDS its component's module and holds for every value of the
constants that the module's ASSUME allows. Two of them hold the proofs of two
components each (`WebProofs`: `WebPage` and `WebRules`; `PluginProofs`: `DockerProbe`
and `Fleet`), which share lemmas about sequences and finite sets; the names of
`WebRules` and `Fleet` that a module usually has (`RulesInit`, `RulesTypeOK`,
`FleetNext`, `fleetVars`, `StartAgent`) are apart from those of the other component
for that reason.

| Module | Theorem | Argument |
| --- | --- | --- |
| `RuleStoreProofs` | `TypeCorrect`, `IdsUnique` | `UniqueIds` is inductive with `TypeOK`: the next id lies above every id of the list, and lists move only as wholes |
| | `RestartsKeepRulesHolds`, `NoDisarmHolds` | assume `Undisturbed` (one front end, no fault in a save). `KInv`: where the front end is in a save determines what `file`, `mem` and `promised` have in common; what the daemon watches is promised or was stopped |
| | `RefinesBookHolds` | assumes `Undisturbed`. `OneChange`: a list about to be saved is one rule away from the file, since lists and file agree between commands (`KInv`). `SaveOpen` maps to `Add` or `Stop`, `SaveWrite` to a stutter, a load of a whole file to `Watch`; a whole file is one that no save has open |
| `DaemonLockProofs` | `TypeCorrect`, `LockIsLiveHolds`, `OneDaemonHolds`, `PidFileNamesDaemonHolds` | `LInv`: a process past `Acquire` holds the lock, and the pid file names the one that has written it |
| `AlertEngineProofs` | `TypeCorrect`, `RepeatsSpacedHolds` | `AgeBound`: the cooldown table is older than the last dispatch by the delay of a tick at most, also as seen from a `now` that a clock set back has left in the future; of what a daemon that died dispatched (`forgotten`) it claims nothing |
| | `OneReadingPerTickHolds` | `ReadInv`: an alert's value is that of the tick's cache |
| | `BreachIsShownHolds` | assumes `~IdsReused`. `SInv`: the entry under an id belongs to the rule listed under it, and is younger than its dispatch by no more than the clock was set back |
| | `SilentForCooldownHolds` | assumes besides that the clock is not set back: what `AlertEngineClock` violates has no other cause |
| `AlertTailProofs` | `TypeCorrect`, `NoneOverlookedHolds`, `NoReplayHolds` | assume `~HastyReuse`. `IInv`: the offset of a tracked rule lies between the line it was met at and the end of its log, and no due line lies at or before it |
| `TelemetryProofs` | `TypeCorrect`, `OnlineIsEarnedHolds`, `ReadingsAdvanceHolds` | `IInv`: no store, copy or stamp is younger than the last push that was heard; unless a push was given up, at most one stamp of a node is on its way, and it is as young as any entry |
| `ReceiverPortProofs` | `TypeCorrect`, `ServerListensHolds` | inductive together |
| | `UrlIsTrueHolds` | `EarlyWeb`: before it serves, a process has named no port and has ports left to try; it names what it binds (a CLI, if it got the port it asked for) |
| | `AlreadyIsTrueHolds`, `StartedIsTrueHolds` | assume `ReceiversElsewhere` and `ClisOnDefault`; `EarlyHoldings` says what server a process may have before its main. `Holdings`: a port that a process of the package holds is that of its server, its receiver or its page, so that who answers is one of these or a stranger |
| `PluginProofs` (`DockerProbe`) | `TypeCorrect`, `RowsAreSnapshotHolds`, `FailureIsTrueHolds` | `AnswerInv`: what is measured and left to measure is one list of the SDK; every result a gatherer returns is `Justified` by the histories, which only grow, or is a failure that `failed` comes to hold (`Returnable`) |
| | `PageIsTrueHolds` | `PageInv`: the sections behind the one being listed are justified, each by its own failure |
| | `LogsAreTrueHolds` | assumes that no container writes the marker of a missing one |
| `PluginProofs` (`Fleet`) | `FleetTypeCorrect`, `OneEntryPerRunHolds`, `AnswerIsAskedHolds`, `StatusFitsHolds` | `FleetInv`: the store is sorted and has a name once; `Current`: an entry of an agent that runs has the name of its agent; `Known`: the names a command has read stay in the store. `UpdatedMovesUp` says which entry a push replaces and where the others move |
| | `RefinesReportsHolds` | `Faithful`: what is found under the name of an entry is that entry. `PushMoves` then gives the one report that changes, and sortedness the latest one |
| | `OneEntryPerMachineHolds` | assumes `OneName`: no machine's name depends on what the metadata service answers. `OfItsName`: entries and agents have that name. What `FleetLimits` violates has no other cause |
| `WebProofs` (`WebPage`) | `TypeCorrect`, `OneTimerHolds` | a timer is set exactly while the page is live, and `pollTimer` is then that timer |
| | `BackOnlyIfOvertakenHolds` | `Abreast`: what a tab shows is no newer than the server, and a response not overtaken is no older than what its tab shows |
| `WebProofs` (`WebRules`) | `RulesTypeCorrect`, `ResponsesAreWholeHolds` | `Counted`: the ids in the list, the dump, the file and each request's parsed rules are of rules that were made, and no more rules are made than operations and saves allow (without it the ids could leave the set `RulesTypeOK` gives them); `HasList`: while a request is alone no command runs, nothing else is in progress, the list and what it parsed are ones that it may show, and what it has put in its response is the beginning of the list |

Every invariant and every action property of a regular run is a theorem, and so are
the two refinements. Only model-checked is liveness (`DaemonFollowsFile`,
`DaemonFollowsFrontEnd`, `SpawnBringsDaemon`, `PersistentBreachIsLogged`,
`AlertsSurfaced`, `ReadersCatchUp`, `ListCatchesUp`, `FleetSettles`, `AlarmComes`,
`PageCatchesUp`): liveness under fairness and ENABLED are outside what the installed
backends prove, as are RECURSIVE operators and induction over data; no module here
needs either of the last two.

## Not modelled

- What a probe reads, how text is formatted, laid out and charted, paths, logging.
  `probes.py` and half of `dsl.py` are of this kind: each command reads one thing of
  the host and prints it, without state and in one step.
- The parser of the DSL and its queries, which have no state; `proc.kill` acts on the
  operating system.
- The console: the dispatch of a line to registry, handler or rule, and the command
  history, are sequential look-ups; what the commands change is in the modules.
- `/api/overview`, which no page asks for, and static files.
- The history of the charts and their markup.
- The scripts, a benchmark and a simulator of agents, which use the program.
- Malformed entries in `rules.json`: a file is whole or does not parse.
- Authentication of pushes, except that a reader without the token gets no answer.

## Plan

Done: the modules above. What could follow, in this order:

1. `AlertPipeline`: rule store, alert engine and tail composed, against an abstract
   contract (a breach of a confirmed rule is surfaced), with the refinement proved
   for its safety part.
2. Theorems on what holds where the divergences end, as `SilentForCooldownHolds` and
   `OneEntryPerMachineHolds` do: for `NoRuleTwice`, `SurfacedOnce` and
   `ReachableIsListed`.
