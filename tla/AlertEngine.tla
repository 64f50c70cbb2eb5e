---------------------------- MODULE AlertEngine ----------------------------
(***************************************************************************)
(* The daemon's monitor loop: once a second it picks up a changed rule     *)
(* list, evaluates every rule against the current readings, dispatches the *)
(* action of each rule that fires and then logs the fired alerts.          *)
(*                                                                         *)
(* Time is kept as ages. age[i] is how long ago _last_triggered_at[i] lies *)
(* and is Forever when there is no entry (the code's default, 0.0, is as   *)
(* old); ages stop growing at Forever, where they suppress nothing. The    *)
(* clock is that of the host: when it is set back, ages shrink, and an     *)
(* entry may come to lie in the future.                                    *)
(***************************************************************************)
EXTENDS Integers

CONSTANTS
    Ids,         \* rule ids
    Metrics,     \* registered metrics
    Operators,   \* operators rules are written with
    Thresholds,  \* thresholds rules are written with
    Values,      \* readings
    None,        \* the reading of a metric that is unavailable
    Unread,      \* a metric the current tick has not fetched
    Cooldown,    \* cooldown_seconds
    MaxElapsed,  \* bound: how long metrics, actions and logs may delay a tick
    MaxBack,     \* bound: how far the clock is set back in all
    IdsReused,   \* TRUE: a removed rule's id may come back for another rule
    MaxFaults    \* bound: alert logs that cannot be written, daemon deaths

ASSUME AlertEngineAssumption ==
    /\ Ids \subseteq Nat
    /\ Cooldown \in Nat \ {0} /\ MaxElapsed \in Nat /\ MaxFaults \in Nat
    /\ MaxBack \in Nat
    /\ None \notin Values /\ Unread \notin Values /\ Unread # None
    /\ IdsReused \in BOOLEAN

VARIABLES
    reading,    \* what each metric would read now
    rules,      \* ACTIVE_RULES of the daemon
    age,        \* _last_triggered_at, as ages
    pc,         \* where the loop is
    elapsed,    \* age of `now`, the time the evaluation started
    back,       \* history: how far the clock has been set back
    todo,       \* rules the evaluation has not reached
    cache,      \* metric_values
    triggered,  \* alerts fired in this tick and not logged yet
    logged,     \* rules whose alert this tick has logged
    used,       \* history: ids the daemon has seen
    shown,      \* history: time since the rule under an id was dispatched
    listed,     \* history: the list that was loaded last, by any daemon
    forgotten,  \* history: ids whose last dispatch was by a daemon that died
    faults      \* bound: faults so far

vars == <<reading, rules, age, pc, elapsed, back, todo, cache, triggered, logged,
          used, shown, listed, forgotten, faults>>

(* What dispatches are, and what lists were, whichever daemon runs.       *)
dispatches == <<shown, forgotten>>

Rule == [id : Ids, metric : Metrics, operator : Operators, threshold : Thresholds]

Forever == Cooldown + MaxElapsed + MaxBack

OneRulePerId(S) == \A r, s \in S : r.id = s.id => r = s

Alert == [rule : Rule, value : Values]

TypeOK ==
    /\ reading \in [Metrics -> Values \cup {None}]
    /\ rules \in SUBSET Rule /\ OneRulePerId(rules)
    /\ age \in [Ids -> Int] /\ \A i \in Ids : age[i] <= Forever
    /\ pc \in {"reload", "evaluate", "log", "sleep"}
    /\ elapsed \in Int /\ elapsed <= MaxElapsed
    /\ back \in 0..MaxBack
    /\ todo \subseteq rules
    /\ cache \in [Metrics -> Values \cup {None, Unread}]
    /\ triggered \in SUBSET Alert
    /\ logged \in SUBSET Rule
    /\ used \in SUBSET Ids
    /\ shown \in [Ids -> 0..Forever]
    /\ listed \in SUBSET Rule /\ OneRulePerId(listed) /\ rules \subseteq listed
    /\ forgotten \in SUBSET Ids
    /\ faults \in 0..MaxFaults

Never == [i \in Ids |-> Forever]

Init ==
    /\ reading \in [Metrics -> Values \cup {None}]
    /\ rules = {} /\ age = Never
    /\ pc = "reload" /\ elapsed = 0 /\ back = 0 /\ todo = {}
    /\ cache = [m \in Metrics |-> Unread]
    /\ triggered = {} /\ logged = {}
    /\ used = {} /\ shown = Never /\ faults = 0
    /\ listed = {} /\ forgotten = {}

-----------------------------------------------------------------------------
(* _OPERATORS: a rule with an operator it does not know never fires.       *)
KnownOperators == {">", "<", "==", ">=", "<="}

Breached(r, v) ==
    \/ r.operator = ">" /\ v > r.threshold
    \/ r.operator = "<" /\ v < r.threshold
    \/ r.operator = "==" /\ v = r.threshold
    \/ r.operator = ">=" /\ v >= r.threshold
    \/ r.operator = "<=" /\ v <= r.threshold

(* Ages a second later.                                                    *)
Older(ages) == [i \in Ids |-> IF ages[i] < Forever THEN ages[i] + 1 ELSE Forever]

(* S can be the rule list after the present one: while ids are not reused, *)
(* an id once seen stands for the rule it was seen with.                   *)
Successor(S) ==
    /\ OneRulePerId(S)
    /\ IdsReused \/ \A r \in S : r \in rules \/ r.id \notin used

(* A metric comes to read something else.                                  *)
Change(m) ==
    /\ \E v \in Values \cup {None} : reading' = [reading EXCEPT ![m] = v]
    /\ UNCHANGED <<rules, age, pc, elapsed, back, todo, cache, triggered, logged,
                   used, shown, listed, forgotten, faults>>

(* The clock is set back by a second. An entry at Forever is one that is   *)
(* not there, or far older than what the clock is set back.                *)
SetBack ==
    /\ back < MaxBack /\ back' = back + 1
    /\ age' = [i \in Ids |-> IF age[i] = Forever THEN Forever ELSE age[i] - 1]
    /\ elapsed' = elapsed - 1
    /\ UNCHANGED <<reading, rules, pc, todo, cache, triggered, logged, used, shown, listed,
                   forgotten, faults>>

(* Fetching metrics, running actions and writing logs take time.           *)
Delay ==
    /\ pc \in {"evaluate", "log"} /\ elapsed < MaxElapsed
    /\ elapsed' = elapsed + 1
    /\ age' = Older(age) /\ shown' = Older(shown)
    /\ UNCHANGED <<reading, rules, pc, back, todo, cache, triggered, logged, used, listed,
                   forgotten, faults>>

(* The list as load_rules leaves it, then evaluate_active_rules begins.    *)
Reload ==
    /\ pc = "reload"
    /\ \E S \in SUBSET Rule :
        /\ Successor(S)
        /\ rules' = S /\ todo' = S
        /\ used' = used \cup {i \in Ids : \E r \in S : r.id = i}
        /\ shown' = [i \in Ids |-> IF \E r \in S \cap listed : r.id = i
                                   THEN shown[i] ELSE Forever]
        /\ listed' = S
    /\ pc' = "evaluate" /\ elapsed' = 0
    /\ cache' = [m \in Metrics |-> Unread]
    /\ logged' = {}
    /\ UNCHANGED <<reading, age, back, triggered, forgotten, faults>>

(* Mutant of Current: every rule fetches its metric anew.                  *)
Refetched(m) == reading[m]

(* The reading the rule is evaluated against: fetched once per tick.       *)
Current(m) == IF cache[m] = Unread THEN reading[m] ELSE cache[m]

Suppressed(r) == age[r.id] - elapsed < Cooldown

(* The action handler runs here; what it does cannot reach the engine.     *)
Fire(r, v) ==
    /\ ~Suppressed(r)
    /\ age' = [age EXCEPT ![r.id] = elapsed]
    /\ shown' = [shown EXCEPT ![r.id] = 0]
    /\ forgotten' = forgotten \ {r.id}
    /\ triggered' = triggered \cup {[rule |-> r, value |-> v]}

(* Mutant of Rearm: the entry is kept.                                     *)
RearmNot(r) ==
    /\ shown' = [shown EXCEPT ![r.id] = Forever]
    /\ UNCHANGED <<age, triggered, forgotten>>

(* The condition does not hold: the rule is armed again.                   *)
Rearm(r) ==
    /\ age' = [age EXCEPT ![r.id] = Forever]
    /\ shown' = [shown EXCEPT ![r.id] = Forever]
    /\ UNCHANGED <<triggered, forgotten>>

Skip == UNCHANGED <<age, triggered, dispatches>>

(* Mutant of Unavailable: a missing reading drops the entry.               *)
UnavailableDrops(r) == /\ age' = [age EXCEPT ![r.id] = Forever]
                       /\ UNCHANGED <<triggered, dispatches>>

(* No reading leaves the rule as it is.                                    *)
Unavailable(r) == Skip

(* Mutant of Suppress: a suppressed rule is stamped again.                 *)
SuppressRestamping(r) == /\ Suppressed(r)
                         /\ age' = [age EXCEPT ![r.id] = elapsed]
                         /\ UNCHANGED <<triggered, dispatches>>

Suppress(r) == Suppressed(r) /\ Skip

(* One rule, in list order.                                                *)
Evaluate(r) ==
    LET v == Current(r.metric) IN
    /\ pc = "evaluate"
    /\ r \in todo /\ \A s \in todo : r.id <= s.id
    /\ todo' = todo \ {r}
    /\ cache' = [cache EXCEPT ![r.metric] = v]
    /\ IF v = None THEN Unavailable(r)
       ELSE IF r.operator \notin KnownOperators THEN Skip
       ELSE IF Breached(r, v) THEN Fire(r, v) \/ Suppress(r)
       ELSE Rearm(r)
    /\ UNCHANGED <<reading, rules, pc, elapsed, back, logged, used, listed, faults>>

Evaluated ==
    /\ pc = "evaluate" /\ todo = {}
    /\ pc' = "log"
    /\ UNCHANGED <<reading, rules, age, elapsed, back, todo, cache, triggered, logged,
                   used, shown, listed, forgotten, faults>>

(* The alerts are logged in the order they fired. A log that cannot be     *)
(* written loses its line; the loop goes on.                               *)
Log(a) ==
    /\ pc = "log"
    /\ a \in triggered /\ \A b \in triggered : a.rule.id <= b.rule.id
    /\ triggered' = triggered \ {a}
    /\ \/ logged' = logged \cup {a.rule} /\ UNCHANGED faults
       \/ faults < MaxFaults /\ faults' = faults + 1 /\ UNCHANGED logged
    /\ UNCHANGED <<reading, rules, age, pc, elapsed, back, todo, cache, used, shown, listed,
                   forgotten>>

Sleep ==
    /\ pc = "log" /\ triggered = {}
    /\ pc' = "sleep"
    /\ UNCHANGED <<reading, rules, age, elapsed, back, todo, cache, triggered, logged,
                   used, shown, listed, forgotten, faults>>

(* time.sleep(1).                                                          *)
Wake ==
    /\ pc = "sleep"
    /\ pc' = "reload"
    /\ age' = Older(age) /\ shown' = Older(shown)
    /\ UNCHANGED <<reading, rules, elapsed, back, todo, cache, triggered, logged, used, listed,
                   forgotten, faults>>

(* The daemon dies and another one starts with empty tables. What was      *)
(* dispatched, and how long ago, is as it was; the new one cannot tell.    *)
Restart ==
    /\ faults < MaxFaults /\ faults' = faults + 1
    /\ rules' = {} /\ age' = Never
    /\ pc' = "reload" /\ elapsed' = 0 /\ todo' = {}
    /\ cache' = [m \in Metrics |-> Unread]
    /\ triggered' = {} /\ logged' = {}
    /\ used' = {} /\ forgotten' = Ids
    /\ UNCHANGED <<reading, back, shown, listed>>

Loop ==
    \/ Reload
    \/ \E r \in Rule : Evaluate(r)
    \/ Evaluated
    \/ \E a \in Alert : Log(a)
    \/ Sleep
    \/ Wake

Next == Loop \/ Delay \/ SetBack \/ Restart \/ \E m \in Metrics : Change(m)

Spec == Init /\ [][Next]_vars

(* The loop never ends and every step of it does: probes and actions have  *)
(* timeouts, and exceptions are caught.                                    *)
FairSpec == Spec /\ WF_vars(Loop)

-----------------------------------------------------------------------------
(* As long as its condition is not seen to clear, a rule is not dispatched *)
(* again before the cooldown is over, but for the delay of the tick that   *)
(* dispatched it: the cooldown counts from the start of that tick. A       *)
(* missing reading is no clearing. A daemon that dies takes the cooldowns  *)
(* along, and each of its rules may then be dispatched early, once.        *)
RepeatsSpaced ==
    [][\A a \in triggered' \ triggered :
          \/ shown[a.rule.id] + MaxElapsed >= Cooldown
          \/ a.rule.id \in forgotten]_vars

(* The cooldown as it is documented: "once a rule fires, suppress repeat   *)
(* firings for this long".                                                 *)
RepeatsFullySpaced ==
    [][\A a \in triggered' \ triggered : shown[a.rule.id] >= Cooldown]_vars

(* A rule found breached has itself been dispatched, in this tick or at    *)
(* most a cooldown before it, and as much earlier as the clock was set     *)
(* back. It is never silenced by what another rule did, or by an episode   *)
(* of its own that is over.                                                *)
BreachIsShown ==
    pc \in {"log", "sleep"} =>
        \A r \in rules :
            /\ cache[r.metric] # None /\ r.operator \in KnownOperators
            /\ Breached(r, cache[r.metric])
            => shown[r.id] < Cooldown + elapsed + back

(* The cooldown as it is documented, from the side of who waits: a rule    *)
(* that stays breached is not silent for longer.                           *)
SilentForCooldown ==
    pc \in {"log", "sleep"} =>
        \A r \in rules :
            /\ cache[r.metric] # None /\ r.operator \in KnownOperators
            /\ Breached(r, cache[r.metric])
            => shown[r.id] < Cooldown + MaxElapsed

(* Rules that watch one metric are judged by one reading of it per tick.   *)
OneReadingPerTick ==
    \A a, b \in triggered : a.rule.metric = b.rule.metric => a.value = b.value

(* A rule that stays listed and breached keeps being logged, in spite of   *)
(* logs that failed, daemons that died and a clock that was set back.      *)
PersistentBreachIsLogged ==
    \A r \in Rule :
        <>[](r \in rules /\ reading[r.metric] # None /\ Breached(r, reading[r.metric]))
            => []<>(r \in logged)
=============================================================================
