----------------------------- MODULE AlertTail -----------------------------
(***************************************************************************)
(* How a dashboard surfaces what the daemon logs: once a second it looks   *)
(* at the log of each of its rules, reads what lies beyond the offset it   *)
(* remembers for the rule's id, and remembers the size it had seen.        *)
(*                                                                         *)
(* The daemon appends at any time, also between the stat and the read of   *)
(* one file. Offsets count lines, since lines are appended whole. Commands *)
(* run between two ticks, on the same event loop.                          *)
(***************************************************************************)
EXTENDS Integers, Sequences

CONSTANTS
    Names,     \* rule names, each of which has a log file
    Ids,       \* rule ids
    Unseen,    \* the offset of a rule that no tick has met
    HastyReuse, \* TRUE: an id may be removed and given again within a tick
    MaxLines   \* bound: lines a log may have

ASSUME AlertTailAssumption ==
    /\ Ids \subseteq Nat /\ MaxLines \in Nat /\ MaxLines >= 2
    /\ Unseen \notin Int
    /\ HastyReuse \in BOOLEAN

VARIABLES
    logs,      \* logs[n]: the lines of n.log
    rules,     \* ACTIVE_RULES of the dashboard
    offsets,   \* _alert_log_offsets
    pc,        \* "idle" between ticks, "scan" in one, "read" after a stat
    todo,      \* rules the tick has not reached
    size,      \* what the stat of the current rule's log returned
    before,    \* history: how many lines the log had when rule i was added or met
    due,       \* history: alerts logged for rule i since then and not shown yet
    surfaced,  \* history: lines shown for rule i
    again      \* history: lines shown for rule i more than once

vars == <<logs, rules, offsets, pc, todo, size, before, due, surfaced, again>>
shown == <<before, due, surfaced, again>>

Rule == [id : Ids, name : Names]

OneRulePerId(S) == \A r, s \in S : r.id = s.id => r = s

Lines == {"alert", "note"}

TypeOK ==
    /\ logs \in [Names -> Seq(Lines)] /\ \A n \in Names : Len(logs[n]) <= MaxLines
    /\ rules \in SUBSET Rule /\ OneRulePerId(rules)
    /\ offsets \in [Ids -> 0..MaxLines \cup {Unseen}]
    /\ pc \in {"idle", "scan", "read"}
    /\ todo \subseteq rules
    /\ size \in 0..MaxLines
    /\ before \in [Ids -> 0..MaxLines]
    /\ due \in [Ids -> SUBSET (1..MaxLines)]
    /\ surfaced \in [Ids -> SUBSET (1..MaxLines)]
    /\ again \in [Ids -> SUBSET (1..MaxLines)]

(* The dashboard starts over the logs and rules of earlier sessions.       *)
Init ==
    /\ logs \in [Names -> {<<>>, <<"note", "alert">>}]
    /\ rules \in SUBSET Rule /\ OneRulePerId(rules)
    /\ offsets = [i \in Ids |-> Unseen]
    /\ pc = "idle" /\ todo = {} /\ size = 0
    /\ before = [i \in Ids |-> 0]
    /\ due = [i \in Ids |-> {}] /\ surfaced = due /\ again = due

-----------------------------------------------------------------------------
(* Append a line to a log.                                                 *)
Extend(n, line) == /\ Len(logs[n]) < MaxLines
                   /\ logs' = [logs EXCEPT ![n] = Append(@, line)]

(* The daemon logs an alert for a rule of this name, one the dashboard     *)
(* lists or one it has removed since.                                      *)
DaemonLogs(n) ==
    /\ Extend(n, "alert")
    /\ due' = [i \in Ids |->
                 IF offsets[i] # Unseen /\ [id |-> i, name |-> n] \in rules
                 THEN due[i] \cup {Len(logs[n]) + 1} ELSE due[i]]
    /\ UNCHANGED <<rules, offsets, pc, todo, size, before, surfaced, again>>

(* Commands and ticks share an event loop, and a tick never awaits.        *)
Between == pc = "idle"

(* A command adds a rule under the next id, and the dashboard adds a note  *)
(* to its log, if it can.                                                  *)
Add(r) ==
    /\ Between
    /\ \A s \in rules : s.id < r.id
    /\ r.id = 1 \/ \E s \in rules : s.id = r.id - 1
    /\ HastyReuse \/ offsets[r.id] = Unseen
    /\ rules' = rules \cup {r}
    /\ Extend(r.name, "note") \/ UNCHANGED logs
    /\ before' = [before EXCEPT ![r.id] = Len(logs[r.name])]
    /\ UNCHANGED <<offsets, pc, todo, size, due, surfaced, again>>

Remove(r) ==
    /\ Between /\ r \in rules
    /\ rules' = rules \ {r}
    /\ before' = [before EXCEPT ![r.id] = 0]
    /\ due' = [due EXCEPT ![r.id] = {}]
    /\ surfaced' = [surfaced EXCEPT ![r.id] = {}]
    /\ again' = [again EXCEPT ![r.id] = {}]
    /\ UNCHANGED <<logs, offsets, pc, todo, size>>

-----------------------------------------------------------------------------
(* _check_for_new_alerts.                                                  *)

Begin ==
    /\ pc = "idle"
    /\ pc' = "scan" /\ todo' = rules
    /\ UNCHANGED <<logs, rules, offsets, size, shown>>

(* The rule the loop has reached.                                          *)
AtRule(r) == r \in todo /\ \A s \in todo : r.id <= s.id

(* Mutant of FirstOffset: alerts of earlier sessions are replayed.         *)
FromTheTop(r) == 0

FirstOffset(r) == Len(logs[r.name])

(* A rule met for the first time is watched from the end of its log.       *)
Watch(r) ==
    /\ pc = "scan" /\ AtRule(r)
    /\ offsets[r.id] = Unseen
    /\ offsets' = [offsets EXCEPT ![r.id] = FirstOffset(r)]
    /\ before' = [before EXCEPT ![r.id] = Len(logs[r.name])]
    /\ todo' = todo \ {r}
    /\ UNCHANGED <<logs, rules, pc, size, due, surfaced, again>>

(* The log has not changed, or cannot be read: next tick.                  *)
PassOver(r) ==
    /\ AtRule(r)
    /\ offsets[r.id] # Unseen
    /\ \/ pc = "scan" /\ Len(logs[r.name]) = offsets[r.id]
       \/ pc = "read"
    /\ pc' = "scan" /\ todo' = todo \ {r} /\ size' = 0
    /\ UNCHANGED <<logs, rules, offsets, shown>>

Stat(r) ==
    /\ pc = "scan" /\ AtRule(r)
    /\ offsets[r.id] # Unseen /\ Len(logs[r.name]) # offsets[r.id]
    /\ size' = Len(logs[r.name])
    /\ pc' = "read"
    /\ UNCHANGED <<logs, rules, offsets, todo, shown>>

(* Mutant of NewOffset: the next read starts past lines nobody has seen.   *)
OneFurther == IF size < MaxLines THEN size + 1 ELSE size

NewOffset == size

(* A log that is shorter than the offset was rotated: from the top.        *)
From(r) == IF size < offsets[r.id] THEN 0 ELSE offsets[r.id]

(* The read returns everything up to the present end of the log.           *)
Read(r) ==
    LET alerts == {k \in From(r) + 1 .. Len(logs[r.name]) : logs[r.name][k] = "alert"}
    IN
    /\ pc = "read" /\ AtRule(r)
    /\ surfaced' = [surfaced EXCEPT ![r.id] = @ \cup alerts]
    /\ again' = [again EXCEPT ![r.id] = @ \cup (alerts \cap surfaced[r.id])]
    /\ due' = [due EXCEPT ![r.id] = @ \ alerts]
    /\ offsets' = [offsets EXCEPT ![r.id] = NewOffset]
    /\ pc' = "scan" /\ todo' = todo \ {r} /\ size' = 0
    /\ UNCHANGED <<logs, rules, before>>

(* Mutant of Stale: the rules that are active are forgotten.               *)
StillActive(i) == \E r \in rules : r.id = i

Stale(i) == \A r \in rules : r.id # i

(* The offsets of rules that are gone are dropped.                         *)
End ==
    /\ pc = "scan" /\ todo = {}
    /\ offsets' = [i \in Ids |-> IF Stale(i) THEN Unseen ELSE offsets[i]]
    /\ pc' = "idle"
    /\ UNCHANGED <<logs, rules, todo, size, shown>>

Tick ==
    \/ Begin
    \/ \E r \in Rule : Watch(r) \/ PassOver(r) \/ Stat(r) \/ Read(r)
    \/ End

Command == \E r \in Rule : Add(r) \/ Remove(r)

Next == Tick \/ Command \/ \E n \in Names : DaemonLogs(n)

Spec == Init /\ [][Next]_vars

(* The loop ticks as long as the dashboard runs, and a log that can be     *)
(* read is read at some tick.                                              *)
FairSpec == Spec /\ WF_vars(Tick) /\ \A r \in Rule : SF_vars(Read(r))

-----------------------------------------------------------------------------
(* An alert logged for a rule the dashboard tracks is never behind its     *)
(* offset: no race of stat, read and append makes the dashboard skip it.   *)
NoneOverlooked ==
    \A r \in rules : \A k \in due[r.id] : offsets[r.id] # Unseen /\ offsets[r.id] < k

(* "We don't replay alerts that fired before the dashboard started         *)
(* watching": a line shown for a rule was logged after the rule was added  *)
(* or, if that is later, met by a tick.                                    *)
NoReplay == \A r \in rules : \A k \in surfaced[r.id] : k > before[r.id]

(* Every alert logged for a tracked rule is surfaced, unless the rule is   *)
(* removed first.                                                          *)
AlertsSurfaced == \A i \in Ids, k \in 1..MaxLines : k \in due[i] ~> k \notin due[i]

(* A tick reads "only the bytes appended since it was last checked", so no *)
(* alert is surfaced twice.                                                *)
SurfacedOnce == \A i \in Ids : again[i] = {}
=============================================================================
