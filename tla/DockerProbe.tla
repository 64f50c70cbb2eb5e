---------------------------- MODULE DockerProbe ----------------------------
(***************************************************************************)
(* What the program tells of Docker: the reports of the docker.* commands, *)
(* the metric docker.containers.running and the Docker section of the web  *)
(* page. Each asks the SDK first and the command line if that fails, in    *)
(* calls between which containers come and go and the daemon may stop      *)
(* answering. Docker itself is known by what the program uses of it.       *)
(***************************************************************************)
EXTENDS FiniteSets, Naturals

CONSTANTS
    Names,       \* names of containers
    LogKinds,    \* what containers write, see Written
    MaxChanges   \* bound: changes of Docker while one question is answered

ASSUME DockerProbeAssumption ==
    /\ LogKinds \subseteq {"none", "lines", "misleading"} /\ LogKinds # {}
    /\ MaxChanges \in Nat

VARIABLES
    setup,     \* how the host is set up: the SDK, the command line, the logs
    up,        \* the daemon answers in time
    state,     \* the state of each container
    call,      \* the question that is being answered
    name,      \* the container whose logs are asked for
    pc,        \* where the answer has got to
    family,    \* what is being listed
    listed,    \* containers the SDK has listed and not yet measured
    rows,      \* containers it has measured
    answer,    \* what a command or the metric answered
    page,      \* get_docker_payload
    seen,      \* history: every state of the containers since the question
    wasDown,   \* history: the daemon has failed to answer since the question
    failed,    \* history: the listings that failed for a reason of their own
    changes    \* bound: changes since the question

vars == <<setup, up, state, call, name, pc, family, listed, rows, answer, page,
          seen, wasDown, failed, changes>>

docker == <<setup, up, state, seen, wasDown, changes>>

host == <<docker, failed>>

-----------------------------------------------------------------------------
(* Images, networks, volumes and the daemon's data change too seldom to    *)
(* matter; the containers stand for their rows as well.                    *)
Stock == {"images", "info", "networks", "volumes"}

Families == Stock \cup {"ps", "containers", "stats"}

(* The metric counts the rows of `ps`.                                     *)
Calls == Families \cup {"logs", "metric", "page"}

(* "missing" cannot be imported, "broken" makes no client, "elsewhere" is  *)
(* set up for an endpoint without a daemon (the command line has contexts  *)
(* of its own), "usable" reaches the daemon.                               *)
Setup == [sdk : {"missing", "broken", "elsewhere", "usable"},
          cli : BOOLEAN,
          logs : [Names -> LogKinds]]

Running(s) == {n \in Names : s[n] = "running"}
Existing(s) == {n \in Names : s[n] # "absent"}

(* What the daemon lists of a family.                                      *)
Offered(f, s) ==
    CASE f \in Stock -> Names
      [] f = "containers" -> Existing(s)
      [] OTHER -> Running(s)

Answer == [says : {"nothing", "rows", "not available", "unreachable", "error",
                   "no such container", "no output", "lines"},
           rows : SUBSET Names]

Says(s) == [says |-> s, rows |-> {}]
Rows(S) == [says |-> "rows", rows |-> S]

Sections == {"containers", "stats", "images", "info"}

Page == [installed : BOOLEAN, reachable : BOOLEAN,
         section : [Sections -> SUBSET Names]]

EmptyPage == [installed |-> FALSE, reachable |-> FALSE,
              section |-> [f \in Sections |-> {}]]

TypeOK ==
    /\ setup \in Setup /\ up \in BOOLEAN
    /\ state \in [Names -> {"absent", "exited", "running"}]
    /\ call \in Calls /\ name \in Names
    /\ pc \in {"idle", "ask", "ping", "sdk", "measure", "cli"}
    /\ family \in Families \cup {"logs"}
    /\ listed \subseteq Names /\ rows \subseteq Names
    /\ answer \in Answer /\ page \in Page
    /\ seen \subseteq [Names -> {"absent", "exited", "running"}]
    /\ wasDown \in BOOLEAN /\ failed \subseteq Families \cup {"logs", "ping"}
    /\ changes \in 0..MaxChanges

Init ==
    /\ setup \in Setup /\ up \in BOOLEAN
    /\ state \in [Names -> {"absent", "exited", "running"}]
    /\ call = "ps" /\ name \in Names
    /\ pc = "idle" /\ family = "ps"
    /\ listed = {} /\ rows = {}
    /\ answer = Says("nothing") /\ page = EmptyPage
    /\ seen = {state} /\ wasDown = ~up /\ failed = {} /\ changes = 0

-----------------------------------------------------------------------------
(* Docker, while a question is being answered.                             *)

Change ==
    /\ pc # "idle" /\ changes < MaxChanges
    /\ changes' = changes + 1
    /\ \/ \E n \in Names, s \in {"absent", "exited", "running"} :
            /\ state' = [state EXCEPT ![n] = s]
            /\ seen' = seen \cup {state'}
            /\ UNCHANGED <<up, wasDown>>
       \/ /\ up' = ~up
          /\ wasDown' = (wasDown \/ up)
          /\ UNCHANGED <<state, seen>>
    /\ UNCHANGED <<setup, call, name, pc, family, listed, rows, answer, page, failed>>

(* docker.from_env makes a client, or the program goes without: depending  *)
(* on its version it contacts the daemon at once or not before it is used. *)
Client == setup.sdk \in {"elsewhere", "usable"}
NoClient == setup.sdk # "usable" \/ ~up

(* The SDK's calls raise unless its daemon answers, and may raise then.    *)
SdkAnswers == setup.sdk = "usable" /\ up

-----------------------------------------------------------------------------
(* Mutant of Classify: a missing command line is an error like any other.  *)
ClassifyRefused(onSuccess) ==
    IF ~setup.cli \/ ~up THEN {Says("unreachable"), Says("error")} ELSE {onSuccess}

(* What is made of a command that does all it can: what it printed, or the *)
(* reason why not. A daemon that does not answer is either refused or      *)
(* timed out, which is reported as an error. Other failures: CliFails.     *)
Classify(onSuccess) ==
    IF ~setup.cli THEN {Says("not available")}
    ELSE IF ~up THEN {Says("unreachable"), Says("error")}
    ELSE {onSuccess}

(* What containers write: nothing, lines, or lines on the standard error   *)
(* that have "no such object" or "no such container" in them.              *)
Written(n) == Says(IF setup.logs[n] = "none" THEN "no output" ELSE "lines")

(* Mutant of CliLogs: the marker of a missing container is not looked for. *)
CliLogsOfAny(n) == Classify(Written(n))

(* docker logs. The marker of a missing container is looked for before the *)
(* exit status, and so in what the container itself has written.           *)
CliLogs(n) ==
    IF setup.cli /\ up /\ (state[n] = "absent" \/ setup.logs[n] = "misleading")
    THEN {Says("no such container")}
    ELSE Classify(Written(n))

-----------------------------------------------------------------------------
(* A section of the page: a failure leaves it empty.                       *)
Section(a) == IF a.says = "rows" THEN a.rows ELSE {}

(* The number of rows, or None.                                            *)
Metric(a) == IF a.says = "rows" THEN a ELSE Says("nothing")

NextSection(f) ==
    CASE f = "containers" -> "stats"
      [] f = "stats" -> "images"
      [] f = "images" -> "info"

(* The gatherer that was called for the question has result a.             *)
Return(a) ==
    /\ listed' = {} /\ rows' = {}
    /\ IF call = "page"
       THEN /\ page' = [page EXCEPT !.section[family] = Section(a)]
            /\ IF family = "info"
               THEN pc' = "idle" /\ UNCHANGED family
               ELSE pc' = "sdk" /\ family' = NextSection(family)
            /\ UNCHANGED answer
       ELSE /\ answer' = IF call = "metric" THEN Metric(a) ELSE a
            /\ pc' = "idle"
            /\ UNCHANGED <<page, family>>

(* A question: a command, an evaluation of the metric, or a poll.          *)
Ask(c, n) ==
    /\ pc = "idle"
    /\ call' = c /\ name' = n /\ pc' = "ask"
    /\ answer' = Says("nothing") /\ page' = EmptyPage
    /\ family' = CASE c = "metric" -> "ps" [] c = "page" -> "containers" [] OTHER -> c
    /\ listed' = {} /\ rows' = {}
    /\ seen' = {state} /\ wasDown' = ~up /\ failed' = {} /\ changes' = 0
    /\ UNCHANGED <<setup, up, state>>

(* is_docker_installed, which the metric does without.                     *)
Installed == setup.cli \/ setup.sdk # "missing"

Start ==
    /\ pc = "ask"
    /\ CASE call = "metric" -> pc' = "sdk" /\ UNCHANGED <<answer, page>>
         [] call = "page" ->
                /\ page' = [page EXCEPT !.installed = Installed]
                /\ pc' = IF Installed THEN "ping" ELSE "idle"
                /\ UNCHANGED answer
         [] OTHER ->
                /\ IF Installed
                   THEN pc' = "sdk" /\ UNCHANGED answer
                   ELSE pc' = "idle" /\ answer' = Says("not available")
                /\ UNCHANGED page
    /\ UNCHANGED <<call, name, family, listed, rows, host>>

(* Mutant of Reached: without a client nothing is reached.                 *)
ReachedBySdk(r) ==
    \/ Client /\ r = SdkAnswers
    \/ NoClient /\ r = FALSE

(* is_daemon_reachable: of a client only the client's word counts.         *)
Reached(r) ==
    \/ Client /\ r = SdkAnswers
    \/ NoClient /\ r = (setup.cli /\ up)

Ping ==
    /\ pc = "ping"
    /\ \E r \in BOOLEAN :
        /\ Reached(r)
        /\ page' = [page EXCEPT !.reachable = r]
        /\ pc' = IF r THEN "sdk" ELSE "idle"
    /\ UNCHANGED <<call, name, family, listed, rows, answer, host>>

(* The ping raises, or the command fails, although the daemon answers.     *)
PingFails ==
    /\ pc = "ping" /\ (Client \/ setup.cli)
    /\ pc' = "idle" /\ failed' = failed \cup {"ping"}
    /\ UNCHANGED <<call, name, family, listed, rows, answer, page, docker>>

(* The SDK's list, or a container's logs.                                  *)
SdkAsk ==
    /\ pc = "sdk" /\ SdkAnswers
    /\ CASE family = "logs" -> state[name] # "absent" /\ Return(Written(name))
         [] family = "stats" ->
                /\ listed' = Running(state) /\ rows' = {}
                /\ pc' = "measure"
                /\ UNCHANGED <<family, answer, page>>
         [] OTHER -> Return(Rows(Offered(family, state)))
    /\ UNCHANGED <<call, name, host>>

(* Mutant of Measure: a container that has gone is left out.               *)
MeasurePast(n) ==
    /\ listed' = listed \ {n}
    /\ rows' = IF state[n] = "absent" THEN rows ELSE rows \cup {n}

(* The statistics of a container, which must not have gone.                *)
Measure(n) ==
    /\ state[n] # "absent"
    /\ listed' = listed \ {n}
    /\ rows' = rows \cup {n}

SdkMeasure ==
    /\ pc = "measure" /\ SdkAnswers
    /\ \E n \in listed : Measure(n)
    /\ UNCHANGED <<call, name, pc, family, answer, page, host>>

SdkMeasured ==
    /\ pc = "measure" /\ listed = {}
    /\ Return(Rows(rows))
    /\ UNCHANGED <<call, name, host>>

(* There is no client, or a call of it raised, for whatever reason: one is *)
(* a container of the list that has gone before it is measured.            *)
SdkFails ==
    /\ pc = "sdk" \/ (pc = "measure" /\ listed # {})
    /\ pc' = "cli" /\ listed' = {} /\ rows' = {}
    /\ UNCHANGED <<call, name, family, answer, page, host>>

CliAsk ==
    /\ pc = "cli"
    /\ \E a \in IF family = "logs" THEN CliLogs(name)
                ELSE Classify(Rows(Offered(family, state))) : Return(a)
    /\ UNCHANGED <<call, name, host>>

(* The command fails for a reason of its own, or prints what is not        *)
(* understood, and the exit status and the text decide which reason is     *)
(* given: any text may have a marker of another failure in it.             *)
CliFails ==
    /\ pc = "cli" /\ setup.cli
    /\ \E s \in {"not available", "unreachable", "error"} : Return(Says(s))
    /\ failed' = failed \cup {family}
    /\ UNCHANGED <<call, name, docker>>

Next ==
    \/ Change
    \/ \E c \in Calls, n \in Names : Ask(c, n)
    \/ Start \/ Ping \/ PingFails
    \/ SdkAsk \/ SdkMeasure \/ SdkMeasured \/ SdkFails
    \/ CliAsk \/ CliFails

Spec == Init /\ [][Next]_vars

-----------------------------------------------------------------------------
(* S is what the daemon had of family f at some moment since the question. *)
Snapshot(f, S) == \E s \in seen : S = Offered(f, s)

(* A table shows, and the metric counts, what there was at one moment of   *)
(* the call: neither a failure nor a container that goes meanwhile makes   *)
(* an empty or a partial one.                                              *)
RowsAreSnapshot ==
    answer.says = "rows" => Snapshot(family, answer.rows)

(* A failure has a reason: the daemon has not answered, there is no        *)
(* command line ("Docker: not available", even where the SDK is            *)
(* installed), or the command itself has failed. Neither the SDK that      *)
(* fails alone nor a container that goes meanwhile is one.                 *)
FailureIsTrue ==
    /\ answer.says \in {"unreachable", "error"} => wasDown \/ family \in failed
    /\ answer.says = "not available" => ~setup.cli \/ family \in failed
    /\ pc = "idle" /\ call = "metric" /\ answer.says = "nothing"
        => wasDown \/ ~setup.cli \/ family \in failed

(* A section of the page is what there was at one moment, or is empty      *)
(* since the daemon did not answer, or the command line is missing or has  *)
(* failed at this very listing. The page calls a daemon unreachable if     *)
(* that did not answer, or answers only a command line that is missing, or *)
(* is not the one the SDK is set up for, or if the ping itself has failed. *)
PageIsTrue ==
    pc = "idle" /\ call = "page" /\ page.installed =>
        IF page.reachable
        THEN \A f \in Sections :
                \/ Snapshot(f, page.section[f])
                \/ page.section[f] = {} /\ (wasDown \/ ~setup.cli \/ f \in failed)
        ELSE \/ wasDown \/ "ping" \in failed
             \/ setup.sdk = "elsewhere"
             \/ ~setup.cli /\ setup.sdk # "usable"

(* A container whose logs are shown has been there; one that is reported   *)
(* missing has been missing.                                               *)
LogsAreTrue ==
    /\ answer.says \in {"lines", "no output"} =>
        \E s \in seen : s[name] # "absent"
    /\ answer.says = "no such container" =>
        \E s \in seen : s[name] = "absent"

(* A page that calls the daemon reachable shows its containers.            *)
ReachableIsListed ==
    pc = "idle" /\ call = "page" /\ page.reachable =>
        Snapshot("containers", page.section["containers"])
=============================================================================
