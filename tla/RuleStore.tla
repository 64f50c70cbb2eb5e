----------------------------- MODULE RuleStore -----------------------------
(***************************************************************************)
(* The alert rules and the three places they live: the ACTIVE_RULES list   *)
(* of each front end (the dashboard, the CLI), the file rules.json, and    *)
(* the ACTIVE_RULES list of the background daemon, which never talks to a  *)
(* front end and only follows the file's modification time.                *)
(*                                                                         *)
(* A list is a set of rules: ids grow along the list (add_rule appends     *)
(* under an id above every other), so the set and the ids give the order.  *)
(* A save truncates the file when it opens it and writes it when it        *)
(* closes it, so every other process can see it in between.                *)
(***************************************************************************)
EXTENDS Integers

CONSTANTS
    FrontEnds,    \* the processes that add and stop rules
    Texts,        \* the strings that can name or identify a rule
    Names,        \* the names users give to new rules
    NoName,       \* stands for no name given
    IdText,       \* IdText[i] is the string of the integer i
    DefaultName,  \* DefaultName[i] is the string rule_<i>
    Faults,       \* what may fail: a subset of FaultKinds
    FineStamps,   \* TRUE: every write of the file changes its mtime
    MaxId,        \* bound: the largest id
    MaxOps,       \* bound: the number of rules added and stopped
    MaxFaults     \* bound: the number of faults

FaultKinds == {"open", "write", "kill", "daemon"}

ASSUME RuleStoreAssumption ==
    /\ MaxId \in Nat /\ MaxOps \in Nat /\ MaxFaults \in Nat
    /\ IdText \in [1..MaxId -> Texts]
    /\ DefaultName \in [1..MaxId -> Texts]
    /\ Names \subseteq Texts \cup {NoName} /\ NoName \notin Texts
    /\ Faults \subseteq FaultKinds
    /\ FineStamps \in BOOLEAN

VARIABLES
    mem,        \* mem[p]: ACTIVE_RULES of front end p
    pc,         \* pc[p]: where p is in add_rule, remove_rule and save_rules
    file,       \* rules.json: its form, the rules it parses to, its mtime
    watched,    \* ACTIVE_RULES of the daemon
    lastMtime,  \* last_mtime of the daemon's loop
    seen,       \* the mtime of the stat call the daemon is acting upon
    dpc,        \* where the daemon is in its loop
    promised,   \* history: rules a front end confirmed and nobody stopped
    ops,        \* bound: rules added and stopped so far
    faults      \* bound: faults so far

vars == <<mem, pc, file, watched, lastMtime, seen, dpc, promised, ops, faults>>
daemonVars == <<watched, lastMtime, seen, dpc>>

Rule == [id : 1..MaxId, name : Texts]

(***************************************************************************)
(* "empty" is the file between the truncation and the write of a save;     *)
(* "garbage" is a file that has bytes and is no JSON document.             *)
(***************************************************************************)
RulesFile == [form : {"absent", "empty", "garbage", "whole"},
              rules : SUBSET Rule,
              mtime : Nat]

TypeOK ==
    /\ mem \in [FrontEnds -> SUBSET Rule]
    /\ pc \in [FrontEnds -> {"down", "idle", "open", "write"}]
    /\ file \in RulesFile
    /\ watched \in SUBSET Rule
    /\ lastMtime \in Nat /\ seen \in Nat
    /\ dpc \in {"down", "poll", "load"}
    /\ promised \in SUBSET Rule
    /\ ops \in 0..MaxOps /\ faults \in 0..MaxFaults

Init ==
    /\ mem = [p \in FrontEnds |-> {}]
    /\ pc = [p \in FrontEnds |-> "down"]
    /\ file = [form |-> "absent", rules |-> {}, mtime |-> 0]
    /\ watched = {} /\ lastMtime = 0 /\ seen = 0 /\ dpc = "down"
    /\ promised = {} /\ ops = 0 /\ faults = 0

-----------------------------------------------------------------------------
(***************************************************************************)
(* Helpers.                                                                *)
(***************************************************************************)

(* The mtimes a write may leave: the clock that stamps files is coarse, so *)
(* two writes close together may share one.                                *)
Stamps == IF FineStamps \/ file.form = "absent"
          THEN {file.mtime + 1} ELSE {file.mtime, file.mtime + 1}

(* Mutants of Loaded: the list is cleared before the file is parsed; the   *)
(* file is not found.                                                      *)
LoadedClearing(old) == IF file.form = "whole" THEN file.rules ELSE {}
LoadedNever(old) == old

(* What load_rules makes of a list that was `old`: an absent or unreadable *)
(* file leaves the list alone, since the file is parsed before the list is *)
(* cleared.                                                                *)
Loaded(old) == IF file.form = "whole" THEN file.rules ELSE old

(* Mutant of IsNextId: the largest id is given again.                      *)
IsLastId(n, S) == /\ \A r \in S : r.id <= n
                  /\ IF S = {} THEN n = 1 ELSE \E r \in S : r.id = n

(* n is the id add_rule gives: one more than the largest id of S, 1 for an *)
(* empty list.                                                             *)
IsNextId(n, S) == /\ \A r \in S : r.id < n
                  /\ n = 1 \/ \E r \in S : r.id = n - 1

(* The name of the new rule n.                                             *)
NameFor(name, n) == IF name = NoName THEN DefaultName[n] ELSE name

(* r is the rule remove_rule takes out of S for an identifier: the rule    *)
(* with that id, or else the first one with that name.                     *)
IsTarget(r, ident, S) ==
    /\ r \in S
    /\ \/ IdText[r.id] = ident
       \/ /\ \A s \in S : IdText[s.id] # ident
          /\ r.name = ident
          /\ \A s \in S : s.name = ident => r.id <= s.id

Fault(kind) == /\ kind \in Faults
               /\ faults < MaxFaults
               /\ faults' = faults + 1

-----------------------------------------------------------------------------
(***************************************************************************)
(* A front end.                                                            *)
(***************************************************************************)

(* The dashboard's on_mount and the CLI's main load the rules once.        *)
Start(p) ==
    /\ pc[p] = "down"
    /\ mem' = [mem EXCEPT ![p] = Loaded({})]
    /\ pc' = [pc EXCEPT ![p] = "idle"]
    /\ UNCHANGED <<file, daemonVars, promised, ops, faults>>

AddRule(p, name) ==
    /\ pc[p] = "idle" /\ ops < MaxOps
    /\ \E n \in 1..MaxId :
        /\ IsNextId(n, mem[p])
        /\ mem' = [mem EXCEPT ![p] = @ \cup
             {[id |-> n, name |-> NameFor(name, n)]}]
    /\ pc' = [pc EXCEPT ![p] = "open"]
    /\ ops' = ops + 1
    /\ UNCHANGED <<file, daemonVars, promised, faults>>

RemoveRule(p, ident) ==
    /\ pc[p] = "idle" /\ ops < MaxOps
    /\ \E r \in Rule :
        /\ IsTarget(r, ident, mem[p])
        /\ mem' = [mem EXCEPT ![p] = @ \ {r}]
        /\ promised' = promised \ {r}
    /\ pc' = [pc EXCEPT ![p] = "open"]
    /\ ops' = ops + 1
    /\ UNCHANGED <<file, daemonVars, faults>>

(* save_rules, open(RULES_FILE, "w").                                      *)
SaveOpen(p) ==
    /\ pc[p] = "open"
    /\ \E m \in Stamps :
        file' = [form |-> "empty", rules |-> {}, mtime |-> m]
    /\ pc' = [pc EXCEPT ![p] = "write"]
    /\ UNCHANGED <<mem, daemonVars, promised, ops, faults>>

(* The caller is told of success whatever save_rules met.                  *)
Confirm(p) == /\ pc' = [pc EXCEPT ![p] = "idle"]
              /\ promised' = promised \cup mem[p]

SaveOpenFails(p) ==
    /\ pc[p] = "open"
    /\ Fault("open")
    /\ Confirm(p)
    /\ UNCHANGED <<mem, file, daemonVars, ops>>

(* save_rules, the list reaches the file from its start. Bytes that        *)
(* another front end wrote since SaveOpen stay behind where they are the   *)
(* longer ones, and make the file unreadable.                              *)
SaveWrite(p) ==
    /\ pc[p] = "write"
    /\ \E m \in Stamps, leftover \in BOOLEAN :
        /\ leftover => \/ file.form = "garbage"
                       \/ file.form = "whole" /\ file.rules \notin {{}, mem[p]}
        /\ file' = IF leftover
                   THEN [form |-> "garbage", rules |-> {}, mtime |-> m]
                   ELSE [form |-> "whole", rules |-> mem[p], mtime |-> m]
    /\ Confirm(p)
    /\ UNCHANGED <<mem, daemonVars, ops, faults>>

(* A full disk: none of the list, or a part of it, is written.             *)
SaveWriteFails(p) ==
    /\ pc[p] = "write"
    /\ Fault("write")
    /\ \/ UNCHANGED file
       \/ \E m \in Stamps :
            file' = [form |-> "garbage", rules |-> {}, mtime |-> m]
    /\ Confirm(p)
    /\ UNCHANGED <<mem, daemonVars, ops>>

Quit(p) ==
    /\ pc[p] = "idle"
    /\ pc' = [pc EXCEPT ![p] = "down"]
    /\ mem' = [mem EXCEPT ![p] = {}]
    /\ UNCHANGED <<file, daemonVars, promised, ops, faults>>

(* The process dies inside a save.                                         *)
Killed(p) ==
    /\ pc[p] \in {"open", "write"}
    /\ Fault("kill")
    /\ pc' = [pc EXCEPT ![p] = "down"]
    /\ mem' = [mem EXCEPT ![p] = {}]
    /\ UNCHANGED <<file, daemonVars, promised, ops>>

-----------------------------------------------------------------------------
(***************************************************************************)
(* The daemon.                                                             *)
(***************************************************************************)

(* A dashboard spawned the daemon. Its list stays empty until the loop     *)
(* loads the file.                                                         *)
DaemonStart ==
    /\ dpc = "down"
    /\ dpc' = "poll" /\ watched' = {} /\ lastMtime' = 0 /\ seen' = 0
    /\ UNCHANGED <<mem, pc, file, promised, ops, faults>>

(* Mutants of Modified: the file is loaded once; changes that follow each  *)
(* other closely are ignored.                                              *)
ModifiedOnce == lastMtime = 0
ModifiedByMore == file.mtime > lastMtime + 1

Modified == file.mtime > lastMtime

DaemonStat ==
    /\ dpc = "poll"
    /\ file.form # "absent" /\ Modified
    /\ seen' = file.mtime
    /\ dpc' = "load"
    /\ UNCHANGED <<mem, pc, file, watched, lastMtime, promised, ops, faults>>

DaemonLoad ==
    /\ dpc = "load"
    /\ watched' = Loaded(watched)
    /\ lastMtime' = seen
    /\ dpc' = "poll"
    /\ UNCHANGED <<mem, pc, file, seen, promised, ops, faults>>

DaemonKilled ==
    /\ dpc # "down"
    /\ Fault("daemon")
    /\ dpc' = "down" /\ watched' = {} /\ lastMtime' = 0 /\ seen' = 0
    /\ UNCHANGED <<mem, pc, file, promised, ops>>

-----------------------------------------------------------------------------
Save(p) == SaveOpen(p) \/ SaveOpenFails(p) \/ SaveWrite(p) \/ SaveWriteFails(p)

FrontEnd(p) ==
    \/ Start(p)
    \/ \E name \in Names : AddRule(p, name)
    \/ \E ident \in Texts : RemoveRule(p, ident)
    \/ Save(p)
    \/ Quit(p)
    \/ Killed(p)

Daemon == DaemonStart \/ DaemonStat \/ DaemonLoad \/ DaemonKilled

Next == Daemon \/ \E p \in FrontEnds : FrontEnd(p)

Spec == Init /\ [][Next]_vars

(***************************************************************************)
(* A daemon that runs keeps looping, and a save that began goes on: both   *)
(* are straight-line code. Users, spawns and faults owe nothing.           *)
(***************************************************************************)
Fairness ==
    /\ WF_vars(DaemonStat)
    /\ WF_vars(DaemonLoad)
    /\ \A p \in FrontEnds : WF_vars(Save(p))

FairSpec == Spec /\ Fairness

-----------------------------------------------------------------------------
(***************************************************************************)
(* Properties.                                                             *)
(***************************************************************************)

(* No list, in a process or in the file, ever holds two rules under one    *)
(* id, whatever front ends and faults interleave: `stop rule <id>`, the    *)
(* daemon's cooldown table and the dashboard's tail all key on the id.     *)
OneRulePerId(S) == \A r, s \in S : r.id = s.id => r = s

UniqueIds ==
    /\ \A p \in FrontEnds : OneRulePerId(mem[p])
    /\ OneRulePerId(file.rules)
    /\ OneRulePerId(watched)

(* The case the program is written for: one front end, and no process dies *)
(* or fails inside a save.                                                 *)
Undisturbed == /\ \A p, q \in FrontEnds : p = q
               /\ Faults \subseteq {"daemon"}

(* If Undisturbed, a front end lists, across restarts, exactly the rules   *)
(* it confirmed and nobody stopped: none is lost and none comes back.      *)
RestartsKeepRules == \A p \in FrontEnds : pc[p] = "idle" => mem[p] = promised

(* If Undisturbed, a running daemon stops watching a rule only if that     *)
(* rule was stopped: a load that meets a half-written file must not disarm *)
(* the rules it cannot read.                                               *)
NoDisarm == [][dpc' = "down" \/ \A r \in watched \ watched' : r \notin promised]_vars

(* What the file holds, or is about to hold once the save that has opened  *)
(* it writes it.                                                           *)
Registered ==
    file.rules \cup UNION {mem[p] : p \in {q \in FrontEnds : pc[q] = "write"}}

Book == INSTANCE RuleBook WITH book <- Registered, awake <- dpc # "down"

(* If Undisturbed, the list, the file and the daemon's copy, which go      *)
(* through a truncated file and loads at any moment, are to the user one   *)
(* list that changes by one rule at a time, and a watcher of the whole.    *)
RefinesBook == Book!Spec

(* A confirmed rule is not lost across a restart: rules.json "survives     *)
(* process restarts".                                                      *)
RulesSurvive == \A p \in FrontEnds : pc[p] = "idle" => promised \subseteq mem[p]

(* The daemon ends up watching what the last save left in the file, if     *)
(* that can be read at all.                                                *)
DaemonFollowsFile == <>[](dpc # "down" /\ file.form = "whole" => watched = file.rules)

(* If Undisturbed, the daemon ends up watching the very list the front end *)
(* shows.                                                                  *)
DaemonFollowsFrontEnd ==
    \A p \in FrontEnds : <>[](dpc # "down" /\ pc[p] = "idle" => watched = mem[p])

(* An id names one rule to all front ends: the id invariant "holds         *)
(* regardless of caller".                                                  *)
IdsAgree == \A p, q \in FrontEnds :
    pc[p] = "idle" /\ pc[q] = "idle" => OneRulePerId(mem[p] \cup mem[q])

=============================================================================
