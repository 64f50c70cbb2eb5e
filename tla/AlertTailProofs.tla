--------------------------- MODULE AlertTailProofs ---------------------------
(***************************************************************************)
(* Proofs about AlertTail: whatever the number of rules, logs and lines,   *)
(* the races of stat, read and append make a dashboard neither skip nor    *)
(* replay an alert, as long as no id is reused within a tick.              *)
(***************************************************************************)
EXTENDS AlertTail, TLAPS

LEMMA Constants == Ids \subseteq Nat /\ MaxLines \in Nat /\ MaxLines >= 2 /\ Unseen \notin Int
  BY AlertTailAssumption

(* What the rules of a dashboard are worth: an id without a rule or an     *)
(* offset has no history, and an offset lies within its log, at or after   *)
(* `before` and in front of every alert that is due.                       *)
Forgotten(i) == due[i] = {} /\ surfaced[i] = {}

Tracked(r) ==
    /\ before[r.id] <= offsets[r.id] /\ offsets[r.id] <= Len(logs[r.name])
    /\ \A k \in due[r.id] : /\ offsets[r.id] < k /\ k <= Len(logs[r.name])
                            /\ logs[r.name][k] = "alert"
    /\ \A k \in surfaced[r.id] : before[r.id] < k

IInv ==
    /\ TypeOK
    /\ \A i \in Ids : (\A r \in rules : r.id # i) => Forgotten(i)
    /\ \A r \in rules : offsets[r.id] = Unseen => Forgotten(r.id)
    /\ \A r \in rules : offsets[r.id] # Unseen => Tracked(r)
    /\ pc = "idle" => todo = {}
    /\ pc = "read" => \A r \in todo : AtRule(r) =>
           offsets[r.id] # Unseen /\ offsets[r.id] <= size /\ size <= Len(logs[r.name])

(* The step that appends a line leaves the lines that are there.           *)
LEMMA ExtendKeeps ==
  ASSUME TypeOK, NEW n \in Names, NEW line \in Lines, Extend(n, line)
  PROVE  /\ logs' \in [Names -> Seq(Lines)]
         /\ \A m \in Names :
              /\ Len(logs'[m]) \in Nat /\ Len(logs[m]) \in Nat
              /\ Len(logs'[m]) <= MaxLines
              /\ Len(logs[m]) <= Len(logs'[m])
              /\ \A k \in 1..Len(logs[m]) : logs'[m][k] = logs[m][k]
         /\ Len(logs'[n]) = Len(logs[n]) + 1
         /\ logs'[n][Len(logs[n]) + 1] = line
<1>1. \A m \in Names : logs[m] \in Seq(Lines) /\ Len(logs[m]) \in Nat /\ Len(logs[m]) <= MaxLines
  BY DEF TypeOK
<1>2. logs[n] \in Seq(Lines) /\ Len(logs[n]) < MaxLines
  BY <1>1 DEF Extend
<1>3. logs' = [logs EXCEPT ![n] = Append(logs[n], line)] /\ logs \in [Names -> Seq(Lines)]
  BY DEF Extend, TypeOK
<1>4. /\ Append(logs[n], line) \in Seq(Lines)
      /\ Len(Append(logs[n], line)) = Len(logs[n]) + 1
      /\ Append(logs[n], line)[Len(logs[n]) + 1] = line
      /\ \A k \in 1..Len(logs[n]) : Append(logs[n], line)[k] = logs[n][k]
  BY <1>1, <1>2
<1>5. logs'[n] = Append(logs[n], line) /\ \A m \in Names \ {n} : logs'[m] = logs[m]
  BY <1>3
<1>6. logs' \in [Names -> Seq(Lines)]
  BY <1>3, <1>4
<1>7. Len(logs'[n]) = Len(logs[n]) + 1 /\ Len(logs'[n]) <= MaxLines
  BY <1>1, <1>2, <1>4, <1>5, Constants
<1>8. \A m \in Names : /\ Len(logs'[m]) \in Nat /\ Len(logs[m]) <= Len(logs'[m])
                       /\ Len(logs'[m]) <= MaxLines
                       /\ \A k \in 1..Len(logs[m]) : logs'[m][k] = logs[m][k]
  <2> SUFFICES ASSUME NEW m \in Names
               PROVE  /\ Len(logs'[m]) \in Nat /\ Len(logs[m]) <= Len(logs'[m])
                      /\ Len(logs'[m]) <= MaxLines
                      /\ \A k \in 1..Len(logs[m]) : logs'[m][k] = logs[m][k]
    OBVIOUS
  <2>1. CASE m = n
    BY <2>1, <1>1, <1>4, <1>5, <1>7
  <2>2. CASE m # n
    BY <2>2, <1>1, <1>5
  <2> QED BY <2>1, <2>2
<1> QED BY <1>1, <1>4, <1>5, <1>6, <1>7, <1>8

(* A step of the log alone: rules stay tracked by what they were.          *)
LEMMA TrackedGrows ==
  ASSUME IInv, logs' \in [Names -> Seq(Lines)],
         \A m \in Names :
              /\ Len(logs'[m]) \in Nat /\ Len(logs[m]) \in Nat
              /\ Len(logs[m]) <= Len(logs'[m])
              /\ \A k \in 1..Len(logs[m]) : logs'[m][k] = logs[m][k],
         NEW r \in rules, offsets[r.id] # Unseen
  PROVE  /\ before[r.id] <= offsets[r.id] /\ offsets[r.id] <= Len(logs'[r.name])
         /\ \A k \in due[r.id] : /\ offsets[r.id] < k /\ k <= Len(logs'[r.name])
                                 /\ logs'[r.name][k] = "alert"
         /\ \A k \in surfaced[r.id] : before[r.id] < k
<1>1. r.id \in Ids /\ r.name \in Names
  BY DEF IInv, TypeOK, Rule
<1>2. /\ due[r.id] \subseteq 1..MaxLines /\ offsets[r.id] \in Nat /\ before[r.id] \in Nat
      /\ \A k \in due[r.id] : k \in Nat
  BY <1>1, Constants DEF IInv, TypeOK
<1>3. Tracked(r)
  BY DEF IInv
<1> QED BY <1>1, <1>2, <1>3, Constants DEF Tracked

LEMMA InitIInv == Init => IInv
<1> SUFFICES ASSUME Init PROVE IInv
  OBVIOUS
<1>1. \A n \in Names : logs[n] \in Seq(Lines) /\ Len(logs[n]) <= MaxLines
  <2> SUFFICES ASSUME NEW n \in Names
               PROVE  logs[n] \in Seq(Lines) /\ Len(logs[n]) <= MaxLines
    OBVIOUS
  <2>1. logs[n] = <<>> \/ logs[n] = <<"note", "alert">>
    BY DEF Init
  <2>2. CASE logs[n] = <<>>
    BY <2>2, Constants
  <2>3. CASE logs[n] = <<"note", "alert">>
    BY <2>3, Constants DEF Lines
  <2> QED BY <2>1, <2>2, <2>3
<1>2. logs \in [Names -> Seq(Lines)]
  BY <1>1 DEF Init
<1>3. TypeOK
  BY <1>1, <1>2, Constants DEF Init, TypeOK
<1>4. (\A i \in Ids : offsets[i] = Unseen /\ Forgotten(i)) /\ \A r \in rules : r.id \in Ids
  BY DEF Init, Forgotten, Rule
<1> QED BY <1>3, <1>4 DEF Init, IInv

LEMMA NextIInv ==
  ASSUME ~HastyReuse, IInv, [Next]_vars PROVE IInv'
<1> USE Constants
<1>1. ASSUME NEW n \in Names, DaemonLogs(n) PROVE IInv'
  <2>1. Extend(n, "alert") /\ "alert" \in Lines /\ TypeOK
    BY <1>1 DEF DaemonLogs, Lines, IInv
  <2>2. /\ logs' \in [Names -> Seq(Lines)]
        /\ \A m \in Names :
             /\ Len(logs'[m]) \in Nat /\ Len(logs[m]) \in Nat
             /\ Len(logs'[m]) <= MaxLines
             /\ Len(logs[m]) <= Len(logs'[m])
             /\ \A k \in 1..Len(logs[m]) : logs'[m][k] = logs[m][k]
        /\ Len(logs'[n]) = Len(logs[n]) + 1
        /\ logs'[n][Len(logs[n]) + 1] = "alert"
    BY <2>1, ExtendKeeps
  <2>3. \A r \in rules : r.id \in Ids /\ r.name \in Names /\ r = [id |-> r.id, name |-> r.name]
    BY DEF IInv, TypeOK, Rule
  <2>4. /\ UNCHANGED <<rules, offsets, pc, todo, size, before, surfaced, again>>
        /\ due' \in [Ids -> SUBSET (1..MaxLines)]
    <3>1. \A i \in Ids : due[i] \subseteq 1..MaxLines
      BY DEF IInv, TypeOK
    <3>2. Len(logs[n]) + 1 \in 1..MaxLines
      BY <2>2
    <3> QED BY <1>1, <3>1, <3>2 DEF DaemonLogs
  <2>5. TypeOK'
    BY <2>2, <2>4 DEF IInv, TypeOK
  <2>6. \A i \in Ids : (\A r \in rules' : r.id # i) => Forgotten(i)'
    BY <1>1, <2>4 DEF DaemonLogs, IInv, Forgotten
  <2>7. \A r \in rules' : offsets'[r.id] = Unseen => Forgotten(r.id)'
    BY <1>1, <2>3, <2>4 DEF DaemonLogs, IInv, Forgotten
  <2>8. ASSUME NEW r \in rules', offsets'[r.id] # Unseen PROVE Tracked(r)'
    <3>1. r \in rules /\ offsets[r.id] # Unseen
      BY <2>4, <2>8
    <3>2. /\ before[r.id] <= offsets[r.id] /\ offsets[r.id] <= Len(logs'[r.name])
          /\ \A k \in due[r.id] : /\ offsets[r.id] < k /\ k <= Len(logs'[r.name])
                                  /\ logs'[r.name][k] = "alert"
          /\ \A k \in surfaced[r.id] : before[r.id] < k
      BY <2>2, <3>1, TrackedGrows
    <3>3. \A k \in due'[r.id] : k \in due[r.id] \/ (r.name = n /\ k = Len(logs[n]) + 1)
      BY <1>1, <2>3, <3>1 DEF DaemonLogs, IInv, TypeOK, OneRulePerId
    <3>4. Tracked(r) /\ offsets[r.id] \in Nat
      BY <2>3, <3>1 DEF IInv, TypeOK
    <3> QED BY <2>2, <2>3, <2>4, <3>1, <3>2, <3>3, <3>4 DEF Tracked
  <2>9. pc' = "read" => \A r \in todo' : AtRule(r)' =>
           offsets'[r.id] # Unseen /\ offsets'[r.id] <= size' /\ size' <= Len(logs'[r.name])
    BY <2>2, <2>3, <2>4 DEF IInv, TypeOK, AtRule
  <2> QED BY <2>4, <2>5, <2>6, <2>7, <2>8, <2>9 DEF IInv
<1>2. ASSUME NEW r \in Rule, Add(r) PROVE IInv'
  <2>1. r.id \in Ids /\ r.name \in Names /\ offsets[r.id] = Unseen /\ pc = "idle"
    BY <1>2 DEF Add, Between, Rule
  <2>2. \A s \in rules : s.id \in Ids /\ s.name \in Names /\ s.id < r.id /\ s.id # r.id
    <3>1. \A s \in rules : s.id \in Ids /\ s.name \in Names
      BY DEF IInv, TypeOK, Rule
    <3>2. \A s \in rules : s.id < r.id
      BY <1>2 DEF Add
    <3>3. ASSUME NEW s \in rules PROVE s.id # r.id
      <4>1. s.id \in Nat /\ s.id < r.id
        BY <3>1, <3>2, Constants
      <4> QED BY <4>1
    <3> QED BY <3>1, <3>2, <3>3
  <2>3. /\ logs' \in [Names -> Seq(Lines)]
        /\ \A m \in Names :
             /\ Len(logs'[m]) \in Nat /\ Len(logs[m]) \in Nat
             /\ Len(logs'[m]) <= MaxLines
             /\ Len(logs[m]) <= Len(logs'[m])
             /\ \A k \in 1..Len(logs[m]) : logs'[m][k] = logs[m][k]
    <3>1. CASE Extend(r.name, "note")
      BY <2>1, <3>1, ExtendKeeps DEF IInv, Lines
    <3>2. CASE UNCHANGED logs
      BY <3>2 DEF IInv, TypeOK
    <3> QED BY <1>2, <3>1, <3>2 DEF Add
  <2>4. UNCHANGED <<offsets, pc, todo, size, due, surfaced, again>> /\ rules' = rules \cup {r}
    BY <1>2 DEF Add
  <2>5. /\ before' \in [Ids -> 0..MaxLines]
        /\ \A s \in rules : before'[s.id] = before[s.id]
    BY <1>2, <2>1, <2>2, <2>3 DEF Add, IInv, TypeOK
  <2>6. Forgotten(r.id)
    BY <2>1, <2>2 DEF IInv
  <2>7. TypeOK'
    <3>1. OneRulePerId(rules') /\ rules' \in SUBSET Rule /\ todo' \subseteq rules'
      BY <1>2, <2>2, <2>4 DEF IInv, TypeOK, OneRulePerId
    <3> QED BY <2>3, <2>4, <2>5, <3>1 DEF IInv, TypeOK
  <2>8. ASSUME NEW s \in rules', offsets'[s.id] # Unseen PROVE Tracked(s)'
    <3>1. s \in rules /\ offsets[s.id] # Unseen
      BY <2>1, <2>4, <2>8
    <3> QED BY <2>3, <2>4, <2>5, <3>1, TrackedGrows DEF Tracked
  <2> QED BY <2>1, <2>4, <2>6, <2>7, <2>8 DEF IInv, Forgotten
<1>3. ASSUME NEW r \in Rule, Remove(r) PROVE IInv'
  <2>1. /\ r.id \in Ids /\ r \in rules /\ pc = "idle"
        /\ \A s \in rules : s.id \in Ids /\ (s # r => s.id # r.id)
    BY <1>3 DEF Remove, Between, Rule, IInv, TypeOK, OneRulePerId
  <2>2. /\ UNCHANGED <<logs, offsets, pc, todo, size>> /\ rules' = rules \ {r}
        /\ Forgotten(r.id)'
        /\ \A i \in Ids \ {r.id} : /\ before'[i] = before[i]
                                   /\ due'[i] = due[i] /\ surfaced'[i] = surfaced[i]
    BY <1>3, <2>1 DEF Remove, Forgotten, IInv, TypeOK
  <2>3. TypeOK'
    <3>1. \A s \in todo : s.id \in Ids
      BY <2>1 DEF IInv, TypeOK
    <3>2. todo' \subseteq rules'
      <4>1. todo = {}
        BY <2>1 DEF IInv
      <4> QED BY <2>2, <4>1
    <3> QED BY <1>3, <2>1, <2>2, <3>2 DEF Remove, IInv, TypeOK, OneRulePerId
  <2> QED BY <2>1, <2>2, <2>3 DEF IInv, Forgotten, Tracked
<1>4. CASE Begin
  BY <1>4 DEF Begin, IInv, TypeOK, Forgotten, Tracked, AtRule, shown
<1>5. ASSUME NEW r \in Rule, Watch(r) PROVE IInv'
  <2>1. r \in rules /\ r.id \in Ids /\ r.name \in Names /\ offsets[r.id] = Unseen
    BY <1>5 DEF Watch, AtRule, Rule, IInv, TypeOK
  <2>2. Len(logs[r.name]) \in 0..MaxLines
    BY <2>1 DEF IInv, TypeOK
  <2>3. \A s \in rules : s.id \in Ids /\ (s # r => s.id # r.id)
    BY <2>1 DEF Rule, IInv, TypeOK, OneRulePerId
  <2>4. TypeOK'
    BY <1>5, <2>1, <2>2 DEF Watch, FirstOffset, IInv, TypeOK
  <2>5. /\ \A s \in rules : s # r => offsets'[s.id] = offsets[s.id] /\ before'[s.id] = before[s.id]
        /\ offsets'[r.id] = Len(logs[r.name]) /\ before'[r.id] = Len(logs[r.name])
        /\ UNCHANGED <<logs, rules, pc, size, due, surfaced, again>> /\ pc = "scan"
    BY <1>5, <2>1, <2>3 DEF Watch, FirstOffset, IInv, TypeOK
  <2>6. Forgotten(r.id)
    BY <2>1 DEF IInv
  <2> QED BY <2>1, <2>2, <2>3, <2>4, <2>5, <2>6 DEF IInv, Forgotten, Tracked
<1>6. ASSUME NEW r \in Rule, PassOver(r) PROVE IInv'
  <2>1. /\ UNCHANGED <<logs, rules, offsets, before, due, surfaced, again>>
        /\ pc' = "scan" /\ todo' \subseteq todo /\ size' = 0
    BY <1>6 DEF PassOver, shown
  <2>2. TypeOK'
    BY <2>1 DEF IInv, TypeOK
  <2> QED BY <2>1, <2>2 DEF IInv, Forgotten, Tracked
<1>7. ASSUME NEW r \in Rule, Stat(r) PROVE IInv'
  <2>1. r \in rules /\ r.id \in Ids /\ r.name \in Names /\ offsets[r.id] # Unseen
    BY <1>7 DEF Stat, AtRule, Rule, IInv, TypeOK
  <2>2. Len(logs[r.name]) \in 0..MaxLines /\ size' = Len(logs[r.name])
    BY <1>7, <2>1 DEF Stat, IInv, TypeOK
  <2>3. UNCHANGED <<logs, rules, offsets, todo, before, due, surfaced, again>>
    BY <1>7 DEF Stat, shown
  <2>4. \A s \in todo : AtRule(s) => s = r
    <3> SUFFICES ASSUME NEW s \in todo, AtRule(s) PROVE s = r
      OBVIOUS
    <3>1. s \in rules /\ r \in todo /\ AtRule(r)
      BY <1>7 DEF Stat, AtRule, IInv, TypeOK
    <3>2. s.id \in Nat /\ r.id \in Nat /\ s.id <= r.id /\ r.id <= s.id
      BY <2>1, <3>1 DEF AtRule, Rule, IInv, TypeOK
    <3> QED BY <2>1, <3>1, <3>2 DEF IInv, TypeOK, OneRulePerId
  <2>5. TypeOK'
    BY <1>7, <2>2, <2>3 DEF Stat, IInv, TypeOK
  <2>6. Tracked(r) /\ offsets[r.id] \in Nat
    BY <2>1 DEF IInv, TypeOK
  <2>7. \A s \in todo' : AtRule(s)' =>
           offsets'[s.id] # Unseen /\ offsets'[s.id] <= size' /\ size' <= Len(logs'[s.name])
    BY <2>1, <2>2, <2>3, <2>4, <2>6 DEF AtRule, Tracked
  <2>8. pc' = "read"
    BY <1>7 DEF Stat
  <2> QED BY <2>3, <2>5, <2>7, <2>8 DEF IInv, Forgotten, Tracked
<1>8. ASSUME NEW r \in Rule, Read(r) PROVE IInv'
  <2> DEFINE alerts == {k \in From(r) + 1 .. Len(logs[r.name]) : logs[r.name][k] = "alert"}
  <2>1. /\ r \in rules /\ r \in todo /\ AtRule(r) /\ pc = "read"
        /\ r.id \in Ids /\ r.name \in Names
    BY <1>8 DEF Read, AtRule, Rule, IInv, TypeOK
  <2>2. /\ offsets[r.id] # Unseen /\ offsets[r.id] <= size /\ size <= Len(logs[r.name])
        /\ Tracked(r)
    BY <2>1 DEF IInv
  <2>3. /\ offsets[r.id] \in Nat /\ size \in Nat /\ before[r.id] \in Nat
        /\ Len(logs[r.name]) \in Nat /\ Len(logs[r.name]) <= MaxLines
    <3>1. offsets[r.id] \in Nat /\ before[r.id] \in Nat
      <4>1. offsets[r.id] \in 0..MaxLines \cup {Unseen} /\ before[r.id] \in 0..MaxLines
        BY <2>1 DEF IInv, TypeOK
      <4> QED BY <2>2, <4>1, Constants
    <3>2. logs[r.name] \in Seq(Lines) /\ Len(logs[r.name]) <= MaxLines /\ size \in Nat
      BY <2>1 DEF IInv, TypeOK
    <3> QED BY <3>1, <3>2
  <2>4. From(r) = offsets[r.id]
    BY <2>2, <2>3 DEF From
  <2>5. \A s \in rules : s.id \in Ids /\ (s # r => s.id # r.id)
    BY <2>1 DEF Rule, IInv, TypeOK, OneRulePerId
  <2>6. alerts \subseteq 1..MaxLines /\ \A k \in alerts : before[r.id] < k
    BY <2>2, <2>3, <2>4 DEF Tracked
  <2>7. due[r.id] \subseteq alerts
    <3>1. due[r.id] \subseteq 1..MaxLines
      BY <2>1 DEF IInv, TypeOK
    <3> QED BY <2>2, <2>3, <2>4, <3>1 DEF Tracked
  <2>8. /\ UNCHANGED <<logs, rules, before>> /\ pc' = "scan"
        /\ todo' = todo \ {r} /\ size' = 0
        /\ surfaced' = [surfaced EXCEPT ![r.id] = @ \cup alerts]
        /\ again' = [again EXCEPT ![r.id] = @ \cup (alerts \cap surfaced[r.id])]
        /\ due' = [due EXCEPT ![r.id] = @ \ alerts]
        /\ offsets' = [offsets EXCEPT ![r.id] = size]
    BY <1>8 DEF Read, NewOffset
  <2> HIDE DEF alerts
  <2>9. TypeOK'
    <3>1. \A i \in Ids : /\ surfaced[i] \subseteq 1..MaxLines /\ again[i] \subseteq 1..MaxLines
                         /\ due[i] \subseteq 1..MaxLines
      BY DEF IInv, TypeOK
    <3>2. /\ surfaced' \in [Ids -> SUBSET (1..MaxLines)]
          /\ again' \in [Ids -> SUBSET (1..MaxLines)]
          /\ due' \in [Ids -> SUBSET (1..MaxLines)]
      BY <2>1, <2>6, <2>8, <3>1 DEF IInv, TypeOK
    <3>3. offsets' \in [Ids -> 0..MaxLines \cup {Unseen}]
      BY <2>1, <2>2, <2>3, <2>8 DEF IInv, TypeOK
    <3> QED BY <2>8, <3>2, <3>3 DEF IInv, TypeOK
  <2>10. /\ \A i \in Ids \ {r.id} : /\ surfaced'[i] = surfaced[i] /\ due'[i] = due[i]
                                    /\ offsets'[i] = offsets[i]
         /\ surfaced'[r.id] = surfaced[r.id] \cup alerts
         /\ due'[r.id] = {} /\ offsets'[r.id] = size /\ size # Unseen
    BY <2>1, <2>3, <2>7, <2>8 DEF IInv, TypeOK
  <2>11. Tracked(r)'
    BY <2>1, <2>2, <2>3, <2>6, <2>8, <2>10 DEF Tracked
  <2>12. \A s \in rules' : offsets'[s.id] # Unseen => Tracked(s)'
    BY <2>5, <2>8, <2>10, <2>11 DEF Tracked, IInv
  <2>13. \A i \in Ids : (\A s \in rules' : s.id # i) => Forgotten(i)'
    BY <2>1, <2>8, <2>10 DEF Forgotten, IInv
  <2>14. \A s \in rules' : offsets'[s.id] = Unseen => Forgotten(s.id)'
    BY <2>5, <2>8, <2>10 DEF Forgotten, IInv
  <2> QED BY <2>8, <2>9, <2>12, <2>13, <2>14 DEF IInv
<1>9. CASE End
  <2>1. \A r \in rules : r.id \in Ids /\ ~Stale(r.id)
    BY DEF IInv, TypeOK, Rule, Stale
  <2>2. \A r \in rules : offsets'[r.id] = offsets[r.id]
    BY <1>9, <2>1 DEF End
  <2>3. TypeOK'
    BY <1>9 DEF End, shown, IInv, TypeOK
  <2> QED BY <1>9, <2>2, <2>3 DEF End, shown, IInv, Forgotten, Tracked
<1>10. CASE UNCHANGED vars
  BY <1>10 DEF vars, IInv, TypeOK, Forgotten, Tracked, AtRule
<1> QED BY <1>1, <1>2, <1>3, <1>4, <1>5, <1>6, <1>7, <1>8, <1>9, <1>10 DEF Next, Tick, Command

LEMMA Invariance == ASSUME ~HastyReuse PROVE Spec => []IInv
<1>1. Init => IInv
  BY InitIInv
<1>2. IInv /\ [Next]_vars => IInv'
  BY NextIInv
<1> QED BY <1>1, <1>2, PTL DEF Spec

(* Rules, logs, offsets and what was surfaced keep their types; no two     *)
(* rules share an id.                                                      *)
THEOREM TypeCorrect == ASSUME ~HastyReuse PROVE Spec => []TypeOK
<1>1. IInv => TypeOK
  BY DEF IInv
<1> QED BY <1>1, Invariance, PTL

(* No race of stat, read and append puts an alert that is due behind the   *)
(* offset of its rule, for any number of rules and logs.                   *)
THEOREM NoneOverlookedHolds == ASSUME ~HastyReuse PROVE Spec => []NoneOverlooked
<1>1. IInv => NoneOverlooked
  BY DEF IInv, Tracked, Forgotten, NoneOverlooked
<1> QED BY <1>1, Invariance, PTL

(* No line from before a rule was added or met is ever shown for it.       *)
THEOREM NoReplayHolds == ASSUME ~HastyReuse PROVE Spec => []NoReplay
<1>1. IInv => NoReplay
  <2> SUFFICES ASSUME IInv, NEW r \in rules, NEW k \in surfaced[r.id] PROVE k > before[r.id]
    BY DEF NoReplay
  <2>1. r.id \in Ids /\ k \in Nat /\ before[r.id] \in Nat
    <3>1. r.id \in Ids
      BY DEF IInv, TypeOK, Rule
    <3>2. surfaced[r.id] \subseteq 1..MaxLines /\ before[r.id] \in 0..MaxLines
      BY <3>1 DEF IInv, TypeOK
    <3> QED BY <3>1, <3>2, Constants
  <2> QED BY <2>1 DEF IInv, Tracked, Forgotten
<1> QED BY <1>1, Invariance, PTL
=============================================================================
