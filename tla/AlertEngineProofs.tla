------------------------- MODULE AlertEngineProofs -------------------------
(***************************************************************************)
(* Proofs about AlertEngine, for any rules, metrics, readings, cooldown    *)
(* and delays.                                                             *)
(***************************************************************************)
EXTENDS AlertEngine, TLAPS

-----------------------------------------------------------------------------
LEMMA ForeverType ==
    /\ Forever \in Nat /\ MaxElapsed \in Nat /\ MaxElapsed <= Forever
    /\ Never \in [Ids -> 0..Forever]
  BY AlertEngineAssumption DEF Forever, Never

(* Ages stay in their ranges when time passes.                             *)
LEMMA OlderType ==
    /\ \A ages \in [Ids -> 0..Forever] : Older(ages) \in [Ids -> 0..Forever]
    /\ \A ages \in [Ids -> Int] : /\ Older(ages) \in [Ids -> Int]
                                  /\ \A i \in Ids : Older(ages)[i] <= Forever
  BY ForeverType DEF Older

LEMMA CurrentType ==
    ASSUME TypeOK, NEW m \in Metrics
    PROVE  Current(m) \in Values \cup {None} /\ Current(m) # Unread
  BY AlertEngineAssumption DEF TypeOK, Current

(* Every variable keeps its type: ages and delays stay in their ranges,    *)
(* and no two rules of the list share an id.                               *)
THEOREM TypeCorrect == Spec => []TypeOK
<1>1. Init => TypeOK
  BY ForeverType, AlertEngineAssumption DEF Init, TypeOK, OneRulePerId
<1>2. TypeOK /\ [Next]_vars => TypeOK'
  <2> SUFFICES ASSUME TypeOK, [Next]_vars PROVE TypeOK'
    OBVIOUS
  <2> USE AlertEngineAssumption, ForeverType
  <2>1. CASE UNCHANGED vars
    BY <2>1 DEF TypeOK, vars
  <2>2. CASE Reload
    <3>1. PICK S \in SUBSET Rule :
            /\ OneRulePerId(S) /\ rules' = S /\ todo' = S /\ listed' = S
            /\ used' = used \cup {i \in Ids : \E r \in S : r.id = i}
            /\ shown' = [i \in Ids |-> IF \E r \in S \cap listed : r.id = i
                                       THEN shown[i] ELSE Forever]
      BY <2>2 DEF Reload, Successor
    <3>2. used' \in SUBSET Ids
      BY <3>1 DEF TypeOK
    <3>3. shown' \in [Ids -> 0..Forever]
      BY <3>1 DEF TypeOK
    <3>4. /\ rules' \in SUBSET Rule /\ OneRulePerId(rules)' /\ todo' \subseteq rules'
          /\ listed' \in SUBSET Rule /\ OneRulePerId(listed)' /\ rules' \subseteq listed'
      BY <3>1 DEF OneRulePerId
    <3>5. cache' \in [Metrics -> Values \cup {None, Unread}]
      BY <2>2 DEF Reload
    <3> QED
      BY <2>2, <3>2, <3>3, <3>4, <3>5 DEF Reload, TypeOK
  <2>3. ASSUME NEW r \in Rule, Evaluate(r) PROVE TypeOK'
    <3> DEFINE v == Current(r.metric)
    <3>1. r.id \in Ids /\ r.metric \in Metrics
      BY DEF Rule
    <3>2. v \in Values \cup {None}
      BY <3>1, CurrentType
    <3>3. todo' \subseteq rules /\ cache' \in [Metrics -> Values \cup {None, Unread}]
      BY <2>3, <3>2 DEF Evaluate, TypeOK
    <3>4. CASE Skip
      BY <2>3, <3>3, <3>4 DEF Evaluate, Skip, dispatches, TypeOK, OneRulePerId
    <3>5. CASE Rearm(r)
      BY <2>3, <3>1, <3>3, <3>5 DEF Evaluate, Rearm, TypeOK, OneRulePerId
    <3>6. CASE Fire(r, v) /\ v # None
      <4>1. elapsed \in Int /\ elapsed <= Forever
        BY DEF TypeOK
      <4>2. triggered' \in SUBSET Alert
        BY <3>2, <3>6 DEF Fire, Alert, TypeOK
      <4>3. /\ age' \in [Ids -> Int] /\ \A i \in Ids : age'[i] <= Forever
            /\ forgotten' \in SUBSET Ids
        <5>1. age \in [Ids -> Int] /\ \A i \in Ids : age[i] <= Forever
          BY DEF TypeOK
        <5>2. age' = [age EXCEPT ![r.id] = elapsed] /\ forgotten' = forgotten \ {r.id}
          BY <3>6 DEF Fire
        <5>3. forgotten' \in SUBSET Ids
          BY <5>2 DEF TypeOK
        <5> QED
          BY <3>1, <4>1, <5>1, <5>2, <5>3
      <4>5. shown' \in [Ids -> 0..Forever]
        BY <3>1, <3>6 DEF Fire, TypeOK
      <4>4. /\ UNCHANGED <<reading, rules, pc, elapsed, back, logged, used, listed, faults>>
            /\ OneRulePerId(rules)' /\ OneRulePerId(listed)'
        BY <2>3 DEF Evaluate, TypeOK, OneRulePerId
      <4> QED
        BY <3>3, <4>2, <4>3, <4>4, <4>5 DEF TypeOK
    <3> QED
      BY <2>3, <3>4, <3>5, <3>6 DEF Evaluate, Unavailable, Suppress
  <2>4. CASE Evaluated
    BY <2>4 DEF Evaluated, TypeOK
  <2>5. ASSUME NEW a \in Alert, Log(a) PROVE TypeOK'
    <3>1. a.rule \in Rule
      BY DEF Alert
    <3> QED
      BY <2>5, <3>1 DEF Log, TypeOK
  <2>6. CASE Sleep
    BY <2>6 DEF Sleep, TypeOK
  <2>7. CASE Wake
    BY <2>7, OlderType DEF Wake, TypeOK
  <2>8. CASE Delay
    BY <2>8, OlderType DEF Delay, TypeOK
  <2>9. CASE Restart
    BY <2>9 DEF Restart, TypeOK, OneRulePerId
  <2>10. ASSUME NEW m \in Metrics, Change(m) PROVE TypeOK'
    BY <2>10 DEF Change, TypeOK
  <2>11. CASE SetBack
    BY <2>11 DEF SetBack, TypeOK
  <2> QED
    BY <2>1, <2>2, <2>3, <2>4, <2>5, <2>6, <2>7, <2>8, <2>9, <2>10, <2>11 DEF Next, Loop
<1> QED
  BY <1>1, <1>2, PTL DEF Spec

-----------------------------------------------------------------------------
(* The entry of a rule is never much older than its last dispatch: it may  *)
(* only be ahead by the delay of the tick that dispatched it. A clock that *)
(* is set back makes entries younger, and, while the tick has not reached  *)
(* their rule, no older as seen from the start of the tick. Of a dispatch  *)
(* by a daemon that died there is no entry, and nothing is claimed.        *)
AgeBound ==
    /\ \A i \in Ids \ forgotten : age[i] <= shown[i] + MaxElapsed
    /\ pc = "evaluate" =>
        \A r \in todo : \/ r.id \in forgotten
                        \/ age[r.id] = Forever
                        \/ age[r.id] - elapsed <= shown[r.id] + MaxElapsed

LEMMA TimeType ==
    ASSUME TypeOK
    PROVE  /\ elapsed \in Int /\ back \in Nat /\ Forever \in Nat /\ Cooldown \in Nat \ {0}
           /\ MaxElapsed \in Nat /\ MaxElapsed <= Forever /\ elapsed <= MaxElapsed
           /\ \A i \in Ids : /\ age[i] \in Int /\ age[i] <= Forever
                             /\ shown[i] \in Nat /\ shown[i] <= Forever
<1>1. back \in Nat /\ elapsed \in Int /\ elapsed <= MaxElapsed
  BY AlertEngineAssumption DEF TypeOK
<1>2. Forever \in Nat /\ Cooldown \in Nat \ {0} /\ MaxElapsed \in Nat /\ MaxElapsed <= Forever
  BY AlertEngineAssumption, ForeverType
<1>3. \A i \in Ids : age[i] \in Int /\ age[i] <= Forever /\ shown[i] \in 0..Forever
  BY DEF TypeOK
<1> QED
  BY <1>1, <1>2, <1>3

LEMMA AgeBoundInit == Init => AgeBound
<1> SUFFICES ASSUME Init PROVE AgeBound
  OBVIOUS
<1>1. pc = "reload" /\ \A i \in Ids : age[i] = Forever /\ shown[i] = Forever
  BY DEF Init, Never
<1>2. Forever \in Nat /\ MaxElapsed \in Nat
  BY ForeverType
<1> QED
  BY <1>1, <1>2 DEF AgeBound

LEMMA AgeBoundNext == TypeOK /\ AgeBound /\ [Next]_vars => AgeBound'
<1> SUFFICES ASSUME TypeOK, AgeBound, [Next]_vars PROVE AgeBound'
  OBVIOUS
<1>0. /\ elapsed \in Int /\ Forever \in Nat /\ MaxElapsed \in Nat /\ MaxElapsed <= Forever
      /\ elapsed <= MaxElapsed
      /\ \A i \in Ids : /\ age[i] \in Int /\ age[i] <= Forever
                        /\ shown[i] \in Nat /\ shown[i] <= Forever
  BY TimeType
<1>i. ASSUME NEW r \in Rule PROVE r.id \in Ids
  BY DEF Rule
<1>t. todo \subseteq Rule
  BY DEF TypeOK
<1>1. CASE UNCHANGED <<age, shown, forgotten>> /\ (pc' # "evaluate" \/ UNCHANGED <<pc, todo, elapsed>>)
  BY <1>1 DEF AgeBound
<1>2. CASE Reload
  <2>1. /\ age' = age /\ pc' = "evaluate" /\ elapsed' = 0
        /\ todo' \subseteq Rule /\ forgotten' = forgotten
        /\ \A i \in Ids : shown'[i] = shown[i] \/ shown'[i] = Forever
    BY <1>2 DEF Reload
  <2>2. \A i \in Ids \ forgotten' : age'[i] <= shown'[i] + MaxElapsed /\ age'[i] \in Int
    BY <1>0, <2>1 DEF AgeBound
  <2>3. \A i \in Ids \ forgotten' : age'[i] - elapsed' <= shown'[i] + MaxElapsed
    BY <2>1, <2>2
  <2> QED
    BY <1>i, <2>1, <2>2, <2>3 DEF AgeBound
<1>3. ASSUME NEW r \in Rule, Evaluate(r) PROVE AgeBound'
  <2>1. /\ r.id \in Ids /\ pc = "evaluate" /\ elapsed' = elapsed
        /\ todo' = todo \ {r}
    BY <1>3, <1>i DEF Evaluate
  <2>2. \A s \in todo' : s.id \in Ids \ {r.id}
    BY <1>3, <1>t, <1>i DEF Evaluate, OneRulePerId, TypeOK
  <2>3. /\ \A i \in Ids \ {r.id} : /\ age'[i] = age[i] /\ shown'[i] = shown[i]
                                   /\ i \in forgotten' <=> i \in forgotten
        /\ forgotten' = forgotten \/ (age'[r.id] = elapsed /\ shown'[r.id] = 0)
    BY <1>3, <2>1 DEF Evaluate, Unavailable, Suppress, Skip, dispatches, Rearm, Fire, TypeOK
  <2>4. \/ age'[r.id] = age[r.id] /\ shown'[r.id] = shown[r.id]
        \/ age'[r.id] = Forever /\ shown'[r.id] = Forever
        \/ age'[r.id] = elapsed /\ shown'[r.id] = 0
    <3>1. CASE Skip
      BY <3>1 DEF Skip, dispatches
    <3>2. CASE Rearm(r)
      BY <3>2, <2>1 DEF Rearm, TypeOK
    <3>3. ASSUME NEW v, Fire(r, v)
          PROVE  age'[r.id] = elapsed /\ shown'[r.id] = 0
      BY <3>3, <2>1 DEF Fire, TypeOK
    <3> QED
      BY <1>3, <3>1, <3>2, <3>3 DEF Evaluate, Unavailable, Suppress
  <2>5. r.id \in forgotten' \/ age'[r.id] <= shown'[r.id] + MaxElapsed
    BY <1>0, <2>1, <2>3, <2>4 DEF AgeBound
  <2> QED
    BY <2>1, <2>2, <2>3, <2>5 DEF AgeBound
<1>4. CASE Wake \/ Delay
  <2>1. \A i \in Ids : /\ age'[i] = IF age[i] < Forever THEN age[i] + 1 ELSE Forever
                       /\ shown'[i] = IF shown[i] < Forever THEN shown[i] + 1 ELSE Forever
                       /\ forgotten' = forgotten
    BY <1>4 DEF Older, Wake, Delay
  <2>2. \A i \in Ids \ forgotten' : age'[i] <= shown'[i] + MaxElapsed
    BY <1>0, <2>1 DEF AgeBound
  <2>3. CASE pc' # "evaluate"
    BY <2>2, <2>3 DEF AgeBound
  <2>4. CASE pc' = "evaluate"
    <3>1. pc = "evaluate" /\ elapsed' = elapsed + 1 /\ todo' = todo
      BY <1>4, <2>4 DEF Wake, Delay
    <3>2. ASSUME NEW r \in todo
          PROVE  \/ r.id \in forgotten'
                 \/ age'[r.id] = Forever
                 \/ age'[r.id] - elapsed' <= shown'[r.id] + MaxElapsed
      <4>1. r.id \in Ids
        BY <1>i, <1>t
      <4>2. \/ r.id \in forgotten
            \/ age[r.id] = Forever \/ age[r.id] - elapsed <= shown[r.id] + MaxElapsed
        BY <3>1 DEF AgeBound
      <4> QED
        BY <1>0, <2>1, <3>1, <4>1, <4>2
    <3> QED
      BY <2>2, <3>1, <3>2 DEF AgeBound
  <2> QED
    BY <2>3, <2>4
<1>5. CASE Restart
  <2> QED
    BY <1>5 DEF Restart, AgeBound
<1>6. CASE SetBack
  <2>1. /\ elapsed' = elapsed - 1 /\ UNCHANGED <<pc, todo, shown, forgotten>>
        /\ \A i \in Ids : age'[i] = IF age[i] = Forever THEN Forever ELSE age[i] - 1
    BY <1>6 DEF SetBack
  <2>2. \A i \in Ids \ forgotten : age'[i] <= shown'[i] + MaxElapsed
    BY <1>0, <2>1 DEF AgeBound
  <2>3. ASSUME NEW r \in todo, pc = "evaluate"
        PROVE  \/ r.id \in forgotten
               \/ age'[r.id] = Forever
               \/ age'[r.id] - elapsed' <= shown'[r.id] + MaxElapsed
    <3>1. r.id \in Ids
      BY <1>i, <1>t
    <3>2. \/ r.id \in forgotten
          \/ age[r.id] = Forever \/ age[r.id] - elapsed <= shown[r.id] + MaxElapsed
      BY <2>3 DEF AgeBound
    <3> QED
      BY <1>0, <2>1, <3>1, <3>2
  <2> QED
    BY <2>1, <2>2, <2>3 DEF AgeBound
<1> QED
  BY <1>1, <1>2, <1>3, <1>4, <1>5, <1>6
  DEF Next, Loop, vars, Evaluated, Log, Sleep, Change

LEMMA AgeBoundHolds == Spec => []AgeBound
  BY AgeBoundInit, AgeBoundNext, TypeCorrect, PTL DEF Spec

(* Repeats of a rule that stays breached are a cooldown apart, less the    *)
(* longest delay of a tick; each death of a daemon costs a rule one repeat *)
(* that comes early. With MaxElapsed = 0 this is the full cooldown.        *)
THEOREM RepeatsSpacedHolds == Spec => RepeatsSpaced
<1> DEFINE Spaced == \A a \in triggered' \ triggered :
                        \/ shown[a.rule.id] + MaxElapsed >= Cooldown
                        \/ a.rule.id \in forgotten
<1>1. TypeOK /\ AgeBound /\ [Next]_vars => Spaced \/ UNCHANGED vars
  <2> SUFFICES ASSUME TypeOK, AgeBound, [Next]_vars, NEW a \in triggered' \ triggered,
                      a.rule.id \notin forgotten
               PROVE  shown[a.rule.id] + MaxElapsed >= Cooldown
    OBVIOUS
  <2>1. PICK r \in Rule : Evaluate(r)
    BY DEF Next, Loop, vars, Reload, Evaluated, Log, Sleep, Wake, Delay, SetBack, Restart, Change
  <2>2. PICK v : Fire(r, v) /\ a = [rule |-> r, value |-> v]
    BY <2>1 DEF Evaluate, Unavailable, Suppress, Skip, dispatches, Rearm, Fire
  <2>3. a.rule.id = r.id /\ r.id \in Ids \ forgotten
    BY <2>2 DEF Rule
  <2>4. ~(age[r.id] - elapsed < Cooldown)
    BY <2>2 DEF Fire, Suppressed
  <2>5. pc = "evaluate" /\ r \in todo
    BY <2>1 DEF Evaluate
  <2>6. /\ age[r.id] \in Int /\ shown[r.id] \in Nat /\ elapsed \in Int
        /\ Cooldown \in Nat /\ MaxElapsed \in Nat /\ MaxBack \in Nat
        /\ Forever = Cooldown + MaxElapsed + MaxBack
    BY <2>3, TimeType, AlertEngineAssumption DEF Forever
  <2>7. age[r.id] <= shown[r.id] + MaxElapsed
    BY <2>3 DEF AgeBound
  <2>8. CASE age[r.id] = Forever
    BY <2>3, <2>6, <2>7, <2>8
  <2>9. CASE age[r.id] - elapsed <= shown[r.id] + MaxElapsed
    BY <2>3, <2>4, <2>6, <2>9
  <2> QED
    BY <2>3, <2>5, <2>8, <2>9 DEF AgeBound
<1> QED
  BY <1>1, TypeCorrect, AgeBoundHolds, PTL DEF Spec, RepeatsSpaced

-----------------------------------------------------------------------------
(* An alert that waits to be logged carries the reading its tick cached,   *)
(* and none waits from one tick to the next.                               *)
ReadInv ==
    /\ pc \in {"reload", "sleep"} => triggered = {}
    /\ \A a \in triggered : a.value = cache[a.rule.metric]

LEMMA ReadInvNext == TypeOK /\ ReadInv /\ [Next]_vars => ReadInv'
<1> SUFFICES ASSUME TypeOK, ReadInv, [Next]_vars PROVE ReadInv'
  OBVIOUS
<1> USE DEF ReadInv
<1>1. CASE Reload
  BY <1>1 DEF Reload
<1>2. ASSUME NEW r \in Rule, Evaluate(r) PROVE ReadInv'
  <2> DEFINE v == Current(r.metric)
  <2>1. r.metric \in Metrics
    BY DEF Rule
  <2>2. pc' = "evaluate" /\ cache' = [cache EXCEPT ![r.metric] = v]
    BY <1>2 DEF Evaluate, Unavailable, Suppress
  <2>3. triggered' = triggered \/ triggered' = triggered \cup {[rule |-> r, value |-> v]}
    BY <1>2 DEF Evaluate, Unavailable, Suppress, Skip, dispatches, Rearm, Fire
  <2>4. ASSUME NEW a \in triggered PROVE a.value = cache'[a.rule.metric]
    <3>1. a.value \in Values /\ a.rule.metric \in Metrics
      BY DEF TypeOK, Alert, Rule
    <3>2. cache[a.rule.metric] # Unread
      BY <3>1, AlertEngineAssumption
    <3> QED
      BY <2>1, <2>2, <3>1, <3>2 DEF Current, TypeOK
  <2>5. cache'[r.metric] = v
    BY <2>1, <2>2 DEF TypeOK
  <2> QED
    BY <2>2, <2>3, <2>4, <2>5
<1>3. ASSUME NEW a \in Alert, Log(a) PROVE ReadInv'
  BY <1>3 DEF Log
<1>4. CASE Restart
  BY <1>4 DEF Restart
<1>5. CASE Evaluated \/ Sleep \/ Wake \/ Delay \/ SetBack \/ \E m \in Metrics : Change(m)
  BY <1>5 DEF Evaluated, Sleep, Wake, Delay, SetBack, Change
<1>6. CASE UNCHANGED vars
  BY <1>6 DEF vars
<1> QED
  BY <1>1, <1>2, <1>3, <1>4, <1>5, <1>6 DEF Next, Loop

(* In one tick, all rules over a metric are judged by the same reading.    *)
THEOREM OneReadingPerTickHolds == Spec => []OneReadingPerTick
<1>1. Init => ReadInv
  BY DEF Init, ReadInv
<1>2. ReadInv => OneReadingPerTick
  BY DEF ReadInv, OneReadingPerTick
<1> QED
  BY <1>1, <1>2, ReadInvNext, TypeCorrect, PTL DEF Spec

-----------------------------------------------------------------------------
(***************************************************************************)
(* The inductive invariant behind BreachIsShown. While ids are not reused, *)
(* an entry of the cooldown table is no younger than the last dispatch of  *)
(* the very rule it silences, but for what the clock was set back, and a   *)
(* rule the evaluation has passed is judged by the reading in the cache.   *)
(***************************************************************************)
Judged(r) ==
    /\ cache[r.metric] # Unread
    /\ cache[r.metric] # None /\ r.operator \in KnownOperators
       /\ Breached(r, cache[r.metric])
       => shown[r.id] < Cooldown + elapsed + back

SInv ==
    /\ \A i \in Ids : i \notin used => age[i] = Forever
    /\ \A r \in rules : r.id \in used /\ shown[r.id] <= age[r.id] + back
    /\ \A i \in Ids : 0 <= age[i] + back
    /\ 0 <= elapsed + back
    /\ pc # "reload" => \A r \in rules \ todo : Judged(r)
    /\ pc \in {"log", "sleep"} => todo = {}

(* A rule list that reuses no id starts with entries that silence none but *)
(* the rules that were kept.                                               *)
LEMMA SInvReload == TypeOK /\ SInv /\ ~IdsReused /\ Reload => SInv'
<1> SUFFICES ASSUME TypeOK, SInv, ~IdsReused, Reload PROVE SInv'
  OBVIOUS
<1>1. PICK S \in SUBSET Rule :
        /\ \A r \in S : r \in rules \/ r.id \notin used
        /\ rules' = S /\ todo' = S
        /\ used' = used \cup {i \in Ids : \E r \in S : r.id = i}
        /\ shown' = [i \in Ids |-> IF \E r \in S \cap listed : r.id = i
                                   THEN shown[i] ELSE Forever]
  BY DEF Reload, Successor
<1>2. age' = age /\ pc' = "evaluate" /\ back' = back /\ elapsed' = 0
  BY DEF Reload
<1>3. ASSUME NEW r \in S PROVE r.id \in used' /\ shown'[r.id] <= age[r.id] + back
  <2>1. r.id \in Ids
    BY DEF Rule
  <2>2. CASE r \in rules
    <3>1. \E s \in S \cap listed : s.id = r.id
      BY <2>2 DEF TypeOK
    <3>2. shown'[r.id] = shown[r.id] /\ r.id \in used'
      BY <1>1, <2>1, <3>1
    <3> QED
      BY <2>2, <3>2 DEF SInv
  <2>3. CASE r.id \notin used
    <3>1. age[r.id] = Forever /\ r.id \in used'
      BY <1>1, <2>1, <2>3 DEF SInv
    <3>2. shown'[r.id] \in Nat /\ shown'[r.id] <= Forever
      BY <1>1, <2>1, TimeType
    <3>3. Forever \in Nat /\ back \in Nat
      BY TimeType
    <3> QED
      BY <3>1, <3>2, <3>3
  <2> QED
    BY <1>1, <2>2, <2>3
<1>4. 0 <= elapsed' + back'
  BY <1>2, TimeType
<1> QED
  BY <1>1, <1>2, <1>3, <1>4 DEF SInv

(* Evaluating a rule judges it and leaves the others as they were judged.  *)
LEMMA SInvEvaluate ==
    ASSUME TypeOK, SInv, NEW r \in Rule, Evaluate(r)
    PROVE  SInv'
<1> DEFINE v == Current(r.metric)
<1>1. r.id \in Ids /\ r.metric \in Metrics /\ r \in rules
  BY DEF Evaluate, Rule, TypeOK
<1>2. /\ pc = "evaluate" /\ pc' = "evaluate" /\ elapsed' = elapsed /\ back' = back
      /\ rules' = rules /\ used' = used /\ todo' = todo \ {r}
      /\ cache' = [cache EXCEPT ![r.metric] = v]
  BY DEF Evaluate, Unavailable, Suppress
<1>3. v # Unread /\ cache'[r.metric] = v
  BY <1>1, <1>2, CurrentType DEF TypeOK
<1>4. /\ elapsed \in Int /\ back \in Nat /\ Forever \in Nat /\ Cooldown \in Nat \ {0}
      /\ shown[r.id] \in Nat /\ age[r.id] \in Int
  BY <1>1, TimeType
<1>5. /\ \A i \in Ids \ {r.id} : age'[i] = age[i] /\ shown'[i] = shown[i]
      /\ \/ age'[r.id] = Forever /\ shown'[r.id] = Forever /\ ~Breached(r, v)
         \/ age'[r.id] = elapsed /\ shown'[r.id] = 0
         \/ /\ age'[r.id] = age[r.id] /\ shown'[r.id] = shown[r.id]
            /\ v = None \/ r.operator \notin KnownOperators \/ Suppressed(r)
  <2>1. CASE Skip /\ (v = None \/ r.operator \notin KnownOperators \/ Suppressed(r))
    BY <2>1 DEF Skip, dispatches
  <2>2. CASE Rearm(r) /\ ~Breached(r, v)
    BY <1>1, <2>2 DEF Rearm, TypeOK
  <2>3. CASE Fire(r, v)
    BY <1>1, <2>3 DEF Fire, TypeOK
  <2> QED
    BY <2>1, <2>2, <2>3 DEF Evaluate, Unavailable, Suppress
<1>6. /\ shown[r.id] <= age[r.id] + back /\ r.id \in used
      /\ 0 <= age[r.id] + back /\ 0 <= elapsed + back
  BY <1>1 DEF SInv
<1>7. shown'[r.id] <= age'[r.id] + back' /\ 0 <= age'[r.id] + back' /\ Judged(r)'
  <2>1. CASE age'[r.id] = Forever /\ shown'[r.id] = Forever /\ ~Breached(r, v)
    BY <1>2, <1>3, <1>4, <2>1 DEF Judged
  <2>2. CASE age'[r.id] = elapsed /\ shown'[r.id] = 0
    BY <1>2, <1>3, <1>4, <1>6, <2>2 DEF Judged
  <2>3. CASE /\ age'[r.id] = age[r.id] /\ shown'[r.id] = shown[r.id]
             /\ v = None \/ r.operator \notin KnownOperators \/ Suppressed(r)
    BY <1>2, <1>3, <1>4, <1>6, <2>3 DEF Judged, Suppressed
  <2> QED
    BY <1>5, <2>1, <2>2, <2>3
<1>8. ASSUME NEW s \in rules, s # r
      PROVE  /\ s.id \in used' /\ shown'[s.id] <= age'[s.id] + back'
             /\ s \notin todo => Judged(s)'
  <2>1. s.id \in Ids \ {r.id} /\ s.metric \in Metrics
    BY <1>1, <1>8 DEF TypeOK, OneRulePerId, Rule
  <2>2. shown'[s.id] = shown[s.id] /\ age'[s.id] = age[s.id]
    BY <1>5, <2>1
  <2>3. ASSUME s \notin todo PROVE cache'[s.metric] = cache[s.metric] /\ Judged(s)
    <3>1. Judged(s)
      BY <1>2, <2>3 DEF SInv
    <3> QED
      BY <1>1, <1>2, <2>1, <3>1 DEF Judged, Current, TypeOK
  <2> QED
    BY <1>2, <2>2, <2>3 DEF Judged, SInv
<1>9. \A i \in Ids : i \notin used' => age'[i] = Forever
  BY <1>2, <1>5, <1>6 DEF SInv
<1>10. \A i \in Ids : 0 <= age'[i] + back'
  BY <1>1, <1>2, <1>5, <1>7 DEF SInv
<1>11. rules' = rules /\ \A s \in rules : s.id \in used' /\ shown'[s.id] <= age'[s.id] + back'
  BY <1>2, <1>6, <1>7, <1>8
<1>12. \A s \in rules' \ todo' : Judged(s)'
  BY <1>2, <1>7, <1>8
<1> QED
  BY <1>2, <1>6, <1>9, <1>10, <1>11, <1>12 DEF SInv

(* Time moves ages and delays alike.                                       *)
LEMMA SInvTime ==
    ASSUME TypeOK, SInv, Delay \/ Wake
    PROVE  SInv'
<1>1. /\ age' = Older(age) /\ shown' = Older(shown) /\ back' = back
      /\ rules' = rules /\ used' = used /\ todo' = todo /\ cache' = cache
      /\ elapsed' = elapsed \/ elapsed' = elapsed + 1
  BY DEF Delay, Wake
<1>2. elapsed \in Int /\ back \in Nat /\ Cooldown \in Nat /\ Forever \in Nat
  BY TimeType
<1>3. ASSUME NEW i \in Ids
      PROVE  /\ age'[i] = IF age[i] < Forever THEN age[i] + 1 ELSE Forever
             /\ shown'[i] = IF shown[i] < Forever THEN shown[i] + 1 ELSE Forever
             /\ age[i] \in Int /\ age[i] <= Forever
             /\ shown[i] \in Nat /\ shown[i] <= Forever
  BY <1>1, <1>3, TimeType DEF Older
<1>4. /\ \A i \in Ids : i \notin used' => age'[i] = Forever
      /\ \A i \in Ids : 0 <= age'[i] + back'
      /\ 0 <= elapsed' + back'
  BY <1>1, <1>2, <1>3 DEF SInv
<1>5. \A r \in rules' : r.id \in used' /\ shown'[r.id] <= age'[r.id] + back'
  <2> SUFFICES ASSUME NEW r \in rules
               PROVE  r.id \in used /\ shown'[r.id] <= age'[r.id] + back
    BY <1>1
  <2>1. r.id \in Ids /\ r.id \in used /\ shown[r.id] <= age[r.id] + back
    BY DEF TypeOK, Rule, SInv
  <2> QED
    BY <1>2, <1>3, <2>1
<1>6. CASE Wake
  <2>1. pc' = "reload"
    BY <1>6 DEF Wake
  <2> QED
    BY <1>1, <1>4, <1>5, <2>1 DEF SInv
<1>7. CASE Delay
  <2>1. pc' = pc /\ pc # "reload" /\ elapsed' = elapsed + 1
    BY <1>7 DEF Delay
  <2>2. ASSUME NEW r \in rules \ todo PROVE Judged(r)'
    <3>1. Judged(r) /\ r.id \in Ids
      BY <2>1 DEF SInv, TypeOK, Rule
    <3>2. shown'[r.id] <= shown[r.id] + 1 /\ shown[r.id] \in Nat /\ shown'[r.id] \in Nat
      BY <1>2, <1>3, <3>1
    <3> QED
      BY <1>1, <1>2, <2>1, <3>1, <3>2 DEF Judged
  <2> QED
    BY <1>1, <1>4, <1>5, <2>1, <2>2 DEF SInv
<1> QED
  BY <1>6, <1>7

(* A clock set back makes entries younger, and `back` makes up for it.     *)
LEMMA SInvSetBack ==
    ASSUME TypeOK, SInv, SetBack
    PROVE  SInv'
<1>1. /\ back' = back + 1 /\ elapsed' = elapsed - 1
      /\ UNCHANGED <<rules, pc, todo, cache, used, shown>>
      /\ \A i \in Ids : age'[i] = IF age[i] = Forever THEN Forever ELSE age[i] - 1
  BY DEF SetBack
<1>2. /\ elapsed \in Int /\ back \in Nat /\ Cooldown \in Nat /\ Forever \in Nat
      /\ \A i \in Ids : age[i] \in Int /\ shown[i] \in Nat
  BY TimeType
<1>3. /\ \A i \in Ids : i \notin used' => age'[i] = Forever
      /\ \A i \in Ids : 0 <= age'[i] + back'
      /\ 0 <= elapsed' + back'
  BY <1>1, <1>2 DEF SInv
<1>4. ASSUME NEW r \in rules
      PROVE  r.id \in used /\ shown[r.id] <= age'[r.id] + back'
  <2>1. r.id \in Ids /\ r.id \in used /\ shown[r.id] <= age[r.id] + back
    BY DEF TypeOK, Rule, SInv
  <2> QED
    BY <1>1, <1>2, <2>1
<1>5. ASSUME NEW r \in rules, Judged(r) PROVE Judged(r)'
  <2>1. elapsed' + back' = elapsed + back
    BY <1>1, <1>2
  <2>2. Cooldown + elapsed' + back' = Cooldown + elapsed + back
    BY <1>1, <1>2
  <2> QED
    BY <1>1, <1>5, <2>2 DEF Judged
<1> QED
  BY <1>1, <1>3, <1>4, <1>5 DEF SInv

LEMMA SInvNext == TypeOK /\ SInv /\ ~IdsReused /\ [Next]_vars => SInv'
<1> SUFFICES ASSUME TypeOK, SInv, ~IdsReused, [Next]_vars PROVE SInv'
  OBVIOUS
<1>1. CASE Evaluated \/ Sleep \/ \E a \in Alert : Log(a)
  <2>1. /\ UNCHANGED <<rules, age, elapsed, back, todo, cache, used, shown>>
        /\ pc # "reload"
        /\ pc' \in {"log", "sleep"} => todo = {}
    BY <1>1 DEF Evaluated, Sleep, Log, SInv
  <2> QED
    BY <2>1 DEF SInv, Judged
<1>2. CASE Restart
  <2>1. /\ rules' = {} /\ pc' = "reload" /\ elapsed' = 0 /\ back' = back
        /\ \A i \in Ids : age'[i] = Forever
    BY <1>2 DEF Restart, Never
  <2>2. 0 <= elapsed' + back' /\ 0 <= Forever + back'
    BY <2>1, TimeType
  <2> QED
    BY <2>1, <2>2 DEF SInv
<1>3. CASE UNCHANGED vars \/ \E m \in Metrics : Change(m)
  <2>1. UNCHANGED <<rules, age, elapsed, back, todo, cache, used, shown, pc>>
    BY <1>3 DEF vars, Change
  <2> QED
    BY <2>1 DEF SInv, Judged
<1> QED
  BY <1>1, <1>2, <1>3, SInvReload, SInvEvaluate, SInvTime, SInvSetBack DEF Next, Loop

(* As long as ids are not reused, a rule found breached has itself been    *)
(* dispatched at most a cooldown before the tick, and as much earlier as   *)
(* the clock was set back.                                                 *)
THEOREM BreachIsShownHolds ==
    ASSUME ~IdsReused
    PROVE  Spec => []BreachIsShown
<1>1. Init => SInv
  <2> SUFFICES ASSUME Init PROVE SInv
    OBVIOUS
  <2>1. /\ rules = {} /\ pc = "reload" /\ elapsed = 0 /\ back = 0
        /\ \A i \in Ids : age[i] = Forever
    BY DEF Init, Never
  <2>2. 0 <= elapsed + back /\ 0 <= Forever + back
    BY <2>1, ForeverType
  <2> QED
    BY <2>1, <2>2 DEF SInv
<1>2. SInv => BreachIsShown
  BY DEF SInv, BreachIsShown, Judged
<1> QED
  BY <1>1, <1>2, SInvNext, TypeCorrect, PTL DEF Spec

(* If the clock is not set back, a rule that stays breached is silent for  *)
(* no longer than the cooldown and the tick.                               *)
THEOREM SilentForCooldownHolds ==
    ASSUME ~IdsReused, MaxBack = 0
    PROVE  Spec => []SilentForCooldown
<1>1. TypeOK /\ BreachIsShown => SilentForCooldown
  <2> SUFFICES ASSUME TypeOK, BreachIsShown, pc \in {"log", "sleep"}, NEW r \in rules,
                      cache[r.metric] # None, r.operator \in KnownOperators,
                      Breached(r, cache[r.metric])
               PROVE  shown[r.id] < Cooldown + MaxElapsed
    BY DEF SilentForCooldown
  <2>1. shown[r.id] < Cooldown + elapsed + back
    BY DEF BreachIsShown
  <2>2. back = 0 /\ elapsed \in Int /\ elapsed <= MaxElapsed /\ Cooldown \in Nat /\ MaxElapsed \in Nat
    BY AlertEngineAssumption DEF TypeOK
  <2>3. r.id \in Ids /\ shown[r.id] \in Nat
    BY TimeType DEF TypeOK, Rule
  <2> QED BY <2>1, <2>2, <2>3
<1> QED
  BY <1>1, BreachIsShownHolds, TypeCorrect, PTL
=============================================================================
