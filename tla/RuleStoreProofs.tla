-------------------------- MODULE RuleStoreProofs --------------------------
(***************************************************************************)
(* Proofs about RuleStore, for any number of front ends, rules and faults. *)
(***************************************************************************)
EXTENDS RuleStore, TLAPS

-----------------------------------------------------------------------------
(* What load_rules leaves in a list is a list of rules if the old one was. *)
LEMMA LoadedType ==
    ASSUME TypeOK, NEW old \in SUBSET Rule
    PROVE  Loaded(old) \in SUBSET Rule
  BY DEF TypeOK, RulesFile, Loaded

(* The mtime a write leaves is a natural number.                           *)
LEMMA StampsType == TypeOK => Stamps \subseteq Nat
  BY DEF TypeOK, RulesFile, Stamps

(* A fault stays within its bound.                                         *)
LEMMA FaultType ==
    ASSUME TypeOK, NEW k, Fault(k)
    PROVE  faults' \in 0..MaxFaults
  BY RuleStoreAssumption DEF TypeOK, Fault

(* Every variable keeps its type: lists hold rules, bounds are respected.  *)
THEOREM TypeCorrect == Spec => []TypeOK
<1>1. Init => TypeOK
  BY RuleStoreAssumption DEF Init, TypeOK, RulesFile
<1>2. TypeOK /\ [Next]_vars => TypeOK'
  <2> SUFFICES ASSUME TypeOK, [Next]_vars PROVE TypeOK'
    OBVIOUS
  <2>1. CASE UNCHANGED vars
    BY <2>1 DEF TypeOK, vars
  <2>2. ASSUME NEW p \in FrontEnds, Start(p) PROVE TypeOK'
    <3>1. Loaded({}) \in SUBSET Rule
      BY LoadedType
    <3> QED
      BY <2>2, <3>1 DEF Start, TypeOK, daemonVars
  <2>3. ASSUME NEW p \in FrontEnds, NEW name \in Names, AddRule(p, name) PROVE TypeOK'
    <3>1. PICK n \in 1..MaxId : mem' = [mem EXCEPT ![p] = @ \cup
            {[id |-> n, name |-> NameFor(name, n)]}]
      BY <2>3 DEF AddRule
    <3>2. [id |-> n, name |-> NameFor(name, n)] \in Rule
      BY RuleStoreAssumption DEF Rule, NameFor
    <3>3. mem' \in [FrontEnds -> SUBSET Rule]
      BY <3>1, <3>2 DEF TypeOK
    <3>4. ops' \in 0..MaxOps
      BY <2>3, RuleStoreAssumption DEF AddRule, TypeOK
    <3> QED
      BY <2>3, <3>3, <3>4 DEF AddRule, TypeOK, daemonVars
  <2>4. ASSUME NEW p \in FrontEnds, NEW ident \in Texts, RemoveRule(p, ident) PROVE TypeOK'
    <3>1. ops' \in 0..MaxOps
      BY <2>4, RuleStoreAssumption DEF RemoveRule, TypeOK
    <3>2. PICK r \in Rule : /\ mem' = [mem EXCEPT ![p] = @ \ {r}]
                            /\ promised' = promised \ {r}
      BY <2>4 DEF RemoveRule
    <3>3. mem' \in [FrontEnds -> SUBSET Rule] /\ promised' \in SUBSET Rule
      BY <3>2 DEF TypeOK
    <3> QED
      BY <2>4, <3>1, <3>3 DEF RemoveRule, TypeOK, daemonVars
  <2>5. ASSUME NEW p \in FrontEnds, SaveOpen(p) PROVE TypeOK'
    BY <2>5, StampsType DEF SaveOpen, TypeOK, RulesFile, daemonVars
  <2>6. ASSUME NEW p \in FrontEnds, SaveOpenFails(p) PROVE TypeOK'
    BY <2>6, FaultType DEF SaveOpenFails, Confirm, TypeOK, daemonVars
  <2>7. ASSUME NEW p \in FrontEnds, SaveWrite(p) PROVE TypeOK'
    BY <2>7, StampsType DEF SaveWrite, Confirm, TypeOK, RulesFile, daemonVars
  <2>8. ASSUME NEW p \in FrontEnds, SaveWriteFails(p) PROVE TypeOK'
    BY <2>8, StampsType, FaultType DEF SaveWriteFails, Confirm, TypeOK, RulesFile, daemonVars
  <2>9. ASSUME NEW p \in FrontEnds, Quit(p) PROVE TypeOK'
    BY <2>9 DEF Quit, TypeOK, daemonVars
  <2>10. ASSUME NEW p \in FrontEnds, Killed(p) PROVE TypeOK'
    BY <2>10, FaultType DEF Killed, TypeOK, daemonVars
  <2>11. CASE DaemonStart
    BY <2>11 DEF DaemonStart, TypeOK
  <2>12. CASE DaemonStat
    BY <2>12 DEF DaemonStat, TypeOK, RulesFile
  <2>13. CASE DaemonLoad
    <3>1. Loaded(watched) \in SUBSET Rule
      BY LoadedType DEF TypeOK
    <3> QED
      BY <2>13, <3>1 DEF DaemonLoad, TypeOK
  <2>14. CASE DaemonKilled
    BY <2>14, FaultType DEF DaemonKilled, TypeOK
  <2> QED
    BY <2>1, <2>2, <2>3, <2>4, <2>5, <2>6, <2>7, <2>8, <2>9, <2>10, <2>11, <2>12,
       <2>13, <2>14 DEF Next, FrontEnd, Save, Daemon
<1> QED
  BY <1>1, <1>2, PTL DEF Spec

-----------------------------------------------------------------------------
(* add_rule keeps a list free of shared ids: the new id is above every     *)
(* other.                                                                  *)
LEMMA NextIdIsFree ==
    ASSUME NEW S \in SUBSET Rule, OneRulePerId(S),
           NEW r \in Rule, IsNextId(r.id, S)
    PROVE  OneRulePerId(S \cup {r})
<1>1. \A s \in S : s.id # r.id
  BY DEF IsNextId, Rule
<1> QED
  BY <1>1 DEF OneRulePerId

(* load_rules replaces a list by the file's, or keeps it.                  *)
LEMMA LoadedUnique ==
    ASSUME UniqueIds, NEW old, OneRulePerId(old)
    PROVE  OneRulePerId(Loaded(old))
  BY DEF UniqueIds, Loaded

(* No list ever holds two rules under one id, however front ends, the      *)
(* daemon and faults interleave.                                           *)
THEOREM IdsUnique == Spec => []UniqueIds
<1>1. Init => UniqueIds
  BY DEF Init, UniqueIds, OneRulePerId
<1>2. TypeOK /\ UniqueIds /\ [Next]_vars => UniqueIds'
  <2> SUFFICES ASSUME TypeOK, UniqueIds, [Next]_vars PROVE UniqueIds'
    OBVIOUS
  <2>e. OneRulePerId({})
    BY DEF OneRulePerId
  <2>1. CASE UNCHANGED vars
    BY <2>1 DEF UniqueIds, vars
  <2>2. ASSUME NEW p \in FrontEnds, Start(p) PROVE UniqueIds'
    <3>1. OneRulePerId(Loaded({}))
      BY <2>e, LoadedUnique
    <3>2. \A q \in FrontEnds : mem'[q] = IF q = p THEN Loaded({}) ELSE mem[q]
      BY <2>2 DEF Start, TypeOK
    <3> QED
      BY <2>2, <3>1, <3>2 DEF Start, UniqueIds, daemonVars
  <2>3. ASSUME NEW p \in FrontEnds, NEW name \in Names, AddRule(p, name) PROVE UniqueIds'
    <3>1. PICK n \in 1..MaxId :
            /\ IsNextId(n, mem[p])
            /\ mem' = [mem EXCEPT ![p] = @ \cup
                 {[id |-> n, name |-> NameFor(name, n)]}]
      BY <2>3 DEF AddRule
    <3> DEFINE new == [id |-> n, name |-> NameFor(name, n)]
    <3>2. new \in Rule /\ new.id = n
      BY RuleStoreAssumption DEF Rule, NameFor
    <3>3. mem[p] \in SUBSET Rule /\ OneRulePerId(mem[p])
      BY DEF TypeOK, UniqueIds
    <3>4. OneRulePerId(mem[p] \cup {new})
      BY <3>1, <3>2, <3>3, NextIdIsFree
    <3>5. \A q \in FrontEnds : mem'[q] = IF q = p THEN mem[p] \cup {new} ELSE mem[q]
      BY <3>1 DEF TypeOK
    <3> QED
      BY <2>3, <3>4, <3>5 DEF AddRule, UniqueIds, daemonVars
  <2>4. ASSUME NEW p \in FrontEnds, NEW ident \in Texts, RemoveRule(p, ident) PROVE UniqueIds'
    <3>1. PICK r \in Rule : mem' = [mem EXCEPT ![p] = @ \ {r}]
      BY <2>4 DEF RemoveRule
    <3>2. \A q \in FrontEnds : mem'[q] \subseteq mem[q]
      BY <3>1 DEF TypeOK
    <3>3. \A q \in FrontEnds : OneRulePerId(mem'[q])
      BY <3>2 DEF UniqueIds, OneRulePerId
    <3> QED
      BY <2>4, <3>3 DEF RemoveRule, UniqueIds, daemonVars
  <2>5. ASSUME NEW p \in FrontEnds, SaveOpen(p) PROVE UniqueIds'
    <3>1. file'.rules = {}
      BY <2>5 DEF SaveOpen
    <3> QED
      BY <2>5, <3>1, <2>e DEF SaveOpen, UniqueIds, daemonVars
  <2>6. ASSUME NEW p \in FrontEnds, SaveOpenFails(p) PROVE UniqueIds'
    BY <2>6 DEF SaveOpenFails, UniqueIds, daemonVars
  <2>7. ASSUME NEW p \in FrontEnds, SaveWrite(p) PROVE UniqueIds'
    <3>1. file'.rules = {} \/ file'.rules = mem[p]
      BY <2>7 DEF SaveWrite
    <3> QED
      BY <2>7, <3>1, <2>e DEF SaveWrite, UniqueIds, daemonVars
  <2>8. ASSUME NEW p \in FrontEnds, SaveWriteFails(p) PROVE UniqueIds'
    <3>1. file'.rules = {} \/ file' = file
      BY <2>8 DEF SaveWriteFails
    <3> QED
      BY <2>8, <3>1, <2>e DEF SaveWriteFails, UniqueIds, daemonVars
  <2>9. ASSUME NEW p \in FrontEnds, Quit(p) \/ Killed(p) PROVE UniqueIds'
    <3>1. \A q \in FrontEnds : mem'[q] = IF q = p THEN {} ELSE mem[q]
      BY <2>9 DEF Quit, Killed, TypeOK
    <3> QED
      BY <2>9, <3>1, <2>e DEF Quit, Killed, UniqueIds, daemonVars
  <2>10. CASE DaemonStart \/ DaemonKilled
    BY <2>10, <2>e DEF DaemonStart, DaemonKilled, UniqueIds
  <2>11. CASE DaemonStat
    BY <2>11 DEF DaemonStat, UniqueIds
  <2>12. CASE DaemonLoad
    <3>1. OneRulePerId(Loaded(watched))
      BY LoadedUnique DEF UniqueIds
    <3> QED
      BY <2>12, <3>1 DEF DaemonLoad, UniqueIds
  <2> QED
    BY <2>1, <2>2, <2>3, <2>4, <2>5, <2>6, <2>7, <2>8, <2>9, <2>10, <2>11, <2>12
    DEF Next, FrontEnd, Save, Daemon
<1> QED
  BY <1>1, <1>2, TypeCorrect, PTL DEF Spec

-----------------------------------------------------------------------------
(***************************************************************************)
(* The inductive invariant of the undisturbed case. Between saves the file *)
(* holds exactly the confirmed rules; while a save is under way the front  *)
(* end's own list is what holds them, and the file is unreadable only      *)
(* between SaveOpen and SaveWrite.                                         *)
(***************************************************************************)
FileHolds == /\ file.form \in {"absent", "whole"}
             /\ file.rules = promised

Kept(p) ==
    /\ pc[p] = "down" => FileHolds
    /\ pc[p] = "idle" => FileHolds /\ mem[p] = promised
    /\ pc[p] = "open" => /\ promised \subseteq mem[p]
                         /\ file.form \in {"absent", "whole"}
                         /\ promised \subseteq file.rules
    /\ pc[p] = "write" => file.form = "empty" /\ promised \subseteq mem[p]

KInv == /\ \A p \in FrontEnds : Kept(p)
        /\ file.form # "whole" => file.rules = {}
        /\ dpc = "down" => watched = {}

(* A step of the daemon moves nothing the front end or the file holds.     *)
LEMMA DaemonKeeps ==
    ASSUME KInv, Daemon
    PROVE  KInv'
  BY DEF KInv, Kept, FileHolds, Daemon, DaemonStart, DaemonStat, DaemonLoad, DaemonKilled

(* A step of the only front end keeps the invariant.                       *)
LEMMA FrontEndKeeps ==
    ASSUME Undisturbed, TypeOK, KInv, NEW p \in FrontEnds, FrontEnd(p)
    PROVE  KInv'
<1>1. \A q \in FrontEnds : q = p
  BY DEF Undisturbed
<1>2. SUFFICES /\ Kept(p)'
               /\ file'.form # "whole" => file'.rules = {}
  <2>1. dpc' = dpc /\ watched' = watched
    BY DEF FrontEnd, Start, AddRule, RemoveRule, Save, SaveOpen, SaveOpenFails,
       SaveWrite, SaveWriteFails, Quit, Killed, daemonVars
  <2> QED
    BY <1>1, <2>1 DEF KInv
<1> USE DEF TypeOK
<1>3. Kept(p) /\ (file.form # "whole" => file.rules = {})
  BY DEF KInv
<1>4. ~Fault("open") /\ ~Fault("write") /\ ~Fault("kill")
  BY DEF Undisturbed, Fault
<1>5. CASE Start(p)
  BY <1>5, <1>3 DEF Start, Loaded, Kept, FileHolds
<1>6. ASSUME NEW name \in Names, AddRule(p, name) PROVE Kept(p)' /\ file' = file
  <2>1. pc'[p] = "open" /\ mem[p] \subseteq mem'[p]
    BY <1>6 DEF AddRule
  <2> QED
    BY <1>6, <1>3, <2>1 DEF AddRule, Kept, FileHolds
<1>7. ASSUME NEW ident \in Texts, RemoveRule(p, ident) PROVE Kept(p)' /\ file' = file
  <2>1. PICK r \in Rule : mem'[p] = mem[p] \ {r} /\ promised' = promised \ {r}
    BY <1>7 DEF RemoveRule
  <2>2. pc'[p] = "open"
    BY <1>7 DEF RemoveRule
  <2> QED
    BY <1>7, <1>3, <2>1, <2>2 DEF RemoveRule, Kept, FileHolds
<1>8. CASE SaveOpen(p)
  <2>1. pc[p] = "open" /\ pc'[p] = "write" /\ file'.form = "empty" /\ file'.rules = {}
    BY <1>8 DEF SaveOpen
  <2> QED
    BY <1>8, <1>3, <2>1 DEF SaveOpen, Kept
<1>9. CASE SaveWrite(p)
  <2>1. file.form = "empty" /\ promised \subseteq mem[p]
    BY <1>9, <1>3 DEF SaveWrite, Kept
  <2>2. file'.form = "whole" /\ file'.rules = mem[p]
    BY <1>9, <2>1 DEF SaveWrite
  <2>3. pc'[p] = "idle" /\ promised' = mem[p] /\ mem' = mem
    BY <1>9, <2>1 DEF SaveWrite, Confirm
  <2> QED
    BY <2>2, <2>3 DEF Kept, FileHolds
<1>10. CASE Quit(p)
  BY <1>10, <1>3 DEF Quit, Kept, FileHolds
<1>11. ~SaveOpenFails(p) /\ ~SaveWriteFails(p) /\ ~Killed(p)
  BY <1>4 DEF SaveOpenFails, SaveWriteFails, Killed
<1> QED
  BY <1>3, <1>5, <1>6, <1>7, <1>8, <1>9, <1>10, <1>11 DEF FrontEnd, Save

(* Undisturbed, the file and the lists hold the confirmed rules.           *)
LEMMA UndisturbedKeeps ==
    ASSUME Undisturbed
    PROVE  Spec => []KInv
<1>1. Init => KInv
  BY DEF Init, KInv, Kept, FileHolds
<1>2. TypeOK /\ KInv /\ [Next]_vars => KInv'
  <2>1. ASSUME KInv, UNCHANGED vars PROVE KInv'
    BY <2>1 DEF KInv, Kept, FileHolds, vars
  <2> QED
    BY <2>1, DaemonKeeps, FrontEndKeeps DEF Next
<1> QED
  BY <1>1, <1>2, TypeCorrect, PTL DEF Spec

(* With one front end and no fault inside a save, restarts keep exactly    *)
(* the rules that were confirmed and not stopped.                          *)
THEOREM RestartsKeepRulesHolds ==
    ASSUME Undisturbed
    PROVE  Spec => []RestartsKeepRules
<1>1. KInv => RestartsKeepRules
  BY DEF KInv, Kept, RestartsKeepRules
<1> QED
  BY <1>1, UndisturbedKeeps, PTL

(* With one front end and no fault inside a save, the daemon disarms only  *)
(* rules that were stopped, however its loads fall into saves.             *)
THEOREM NoDisarmHolds ==
    ASSUME Undisturbed, FrontEnds # {}
    PROVE  Spec => NoDisarm
<1> DEFINE Step == dpc' = "down" \/ \A r \in watched \ watched' : r \notin promised
<1>1. TypeOK /\ KInv /\ [Next]_vars => Step \/ UNCHANGED vars
  <2> SUFFICES ASSUME TypeOK, KInv, [Next]_vars PROVE Step \/ UNCHANGED vars
    OBVIOUS
  <2>1. CASE DaemonLoad
    <3>1. CASE file.form = "whole"
      <4>1. PICK p \in FrontEnds : TRUE
        OBVIOUS
      <4>2. promised \subseteq file.rules
        BY <3>1, <4>1 DEF KInv, Kept, FileHolds, TypeOK
      <4> QED
        BY <2>1, <3>1, <4>2 DEF DaemonLoad, Loaded
    <3>2. CASE file.form # "whole"
      BY <2>1, <3>2 DEF DaemonLoad, Loaded
    <3> QED
      BY <3>1, <3>2
  <2>2. CASE Daemon /\ ~DaemonLoad
    <3>1. dpc' = "down" \/ watched = {} \/ watched' = watched
      BY <2>2 DEF Daemon, DaemonStart, DaemonStat, DaemonKilled, KInv
    <3> QED
      BY <3>1
  <2>3. ASSUME NEW p \in FrontEnds, FrontEnd(p) PROVE watched' = watched
    BY <2>3 DEF FrontEnd, Start, AddRule, RemoveRule, Save, SaveOpen, SaveOpenFails,
       SaveWrite, SaveWriteFails, Quit, Killed, daemonVars
  <2> QED
    BY <2>1, <2>2, <2>3 DEF Next
<1> QED
  BY <1>1, TypeCorrect, UndisturbedKeeps, PTL DEF Spec, NoDisarm

-----------------------------------------------------------------------------
(***************************************************************************)
(* The rules as one list. While a front end is about to save, its list is  *)
(* one rule away from what the file holds.                                 *)
(***************************************************************************)
OneChange ==
    \A p \in FrontEnds : pc[p] = "open" =>
        \/ \E r \in Rule : (\A s \in file.rules : s.id < r.id) /\ mem[p] = file.rules \cup {r}
        \/ \E r \in file.rules : mem[p] = file.rules \ {r}

(* Of the only front end, only a save under way counts.                    *)
LEMMA RegisteredIs ==
    ASSUME Undisturbed, NEW p \in FrontEnds
    PROVE  Registered = IF pc[p] = "write" THEN file.rules \cup mem[p] ELSE file.rules
<1>1. FrontEnds = {p}
  BY DEF Undisturbed
<1> QED
  BY <1>1 DEF Registered

(* add_rule and remove_rule change a list that is the file's, by one rule, *)
(* and only when no save is due.                                           *)
LEMMA NextOneChange ==
    ASSUME Undisturbed, TypeOK, KInv, OneChange, [Next]_vars
    PROVE  OneChange'
<1>1. ASSUME NEW p \in FrontEnds, pc'[p] = "open", pc[p] # "open"
      PROVE  /\ UNCHANGED file
             /\ \/ \E r \in Rule : /\ \A s \in file.rules : s.id < r.id
                                  /\ mem'[p] = file.rules \cup {r}
                \/ \E r \in file.rules : mem'[p] = file.rules \ {r}
  <2>1. \A q \in FrontEnds : q = p
    BY DEF Undisturbed
  <2>2. pc[p] = "idle" => mem[p] = file.rules
    BY DEF KInv, Kept, FileHolds
  <2>3. ASSUME NEW name \in Names, AddRule(p, name)
        PROVE  /\ UNCHANGED file
               /\ \E r \in Rule : /\ \A s \in file.rules : s.id < r.id
                                /\ mem'[p] = file.rules \cup {r}
    <3>1. PICK n \in 1..MaxId :
             /\ IsNextId(n, mem[p])
             /\ mem' = [mem EXCEPT ![p] = @ \cup {[id |-> n, name |-> NameFor(name, n)]}]
      BY <2>3 DEF AddRule
    <3> DEFINE new == [id |-> n, name |-> NameFor(name, n)]
    <3>2. new \in Rule /\ new.id = n
      BY RuleStoreAssumption DEF Rule, NameFor
    <3>3. mem[p] = file.rules
      BY <2>2, <2>3 DEF AddRule
    <3>4. mem'[p] = file.rules \cup {new}
      BY <3>1, <3>3 DEF TypeOK
    <3>5. \A s \in file.rules : s.id < new.id
      BY <3>1, <3>2, <3>3 DEF IsNextId
    <3> QED
      BY <2>3, <3>2, <3>4, <3>5 DEF AddRule
  <2>4. ASSUME NEW ident \in Texts, RemoveRule(p, ident)
        PROVE  UNCHANGED file /\ \E r \in file.rules : mem'[p] = file.rules \ {r}
    <3>1. PICK r \in Rule : IsTarget(r, ident, mem[p]) /\ mem' = [mem EXCEPT ![p] = @ \ {r}]
      BY <2>4 DEF RemoveRule
    <3>2. mem[p] = file.rules
      BY <2>2, <2>4 DEF RemoveRule
    <3>3. r \in file.rules /\ mem'[p] = file.rules \ {r}
      BY <3>1, <3>2 DEF IsTarget, TypeOK
    <3> QED
      BY <2>4, <3>3 DEF RemoveRule
  <2>5. ASSUME Start(p) \/ Save(p) \/ Quit(p) \/ Killed(p) PROVE pc'[p] # "open"
    BY <2>5 DEF Start, Save, SaveOpen, SaveOpenFails, SaveWrite, SaveWriteFails, Confirm,
       Quit, Killed, TypeOK
  <2>6. ~Daemon /\ ~UNCHANGED vars
    BY <1>1 DEF Daemon, DaemonStart, DaemonStat, DaemonLoad, DaemonKilled, vars
  <2> QED
    BY <1>1, <2>1, <2>3, <2>4, <2>5, <2>6 DEF Next, FrontEnd
<1>2. ASSUME NEW p \in FrontEnds, pc'[p] = "open", pc[p] = "open"
      PROVE  UNCHANGED file /\ mem'[p] = mem[p]
  <2>1. \A q \in FrontEnds : q = p
    BY DEF Undisturbed
  <2>2. ~FrontEnd(p)
    BY <1>2 DEF FrontEnd, Start, AddRule, RemoveRule, Save, SaveOpen, SaveOpenFails,
       SaveWrite, SaveWriteFails, Confirm, Quit, Killed, TypeOK
  <2> QED
    BY <2>1, <2>2 DEF Next, Daemon, DaemonStart, DaemonStat, DaemonLoad, DaemonKilled, vars
<1> QED
  BY <1>1, <1>2, Zenon DEF OneChange

(* The list changes when a save opens the file, and by that one rule.      *)
LEMMA FrontEndRefines ==
    ASSUME Undisturbed, TypeOK, KInv, OneChange, NEW p \in FrontEnds, FrontEnd(p)
    PROVE  [Book!Next]_(Book!bookVars)
<1>1. UNCHANGED <<watched, dpc>>
  BY DEF FrontEnd, Start, AddRule, RemoveRule, Save, SaveOpen, SaveOpenFails,
     SaveWrite, SaveWriteFails, Quit, Killed, daemonVars
<1>2. /\ Registered = IF pc[p] = "write" THEN file.rules \cup mem[p] ELSE file.rules
      /\ Registered' = IF pc'[p] = "write" THEN file'.rules \cup mem'[p] ELSE file'.rules
  BY RegisteredIs DEF Undisturbed, Registered
<1>3. ~Fault("open") /\ ~Fault("write") /\ ~Fault("kill")
  BY DEF Undisturbed, Fault
<1>4. CASE SaveOpen(p)
  <2>1. pc[p] = "open" /\ pc'[p] = "write" /\ file'.rules = {} /\ mem' = mem
    BY <1>4 DEF SaveOpen, TypeOK
  <2>2. Registered = file.rules /\ Registered' = mem[p]
    BY <1>2, <2>1
  <2>3. Book!Add \/ Book!Stop
    BY <1>1, <2>1, <2>2 DEF OneChange, Book!Add, Book!Stop
  <2> QED
    BY <2>3 DEF Book!Next
<1>5. CASE SaveWrite(p)
  <2>1. file.form = "empty" /\ pc[p] = "write" /\ file.rules = {}
    BY <1>5 DEF SaveWrite, KInv, Kept
  <2>2. file'.rules = mem[p] /\ pc'[p] = "idle"
    BY <1>5, <2>1 DEF SaveWrite, Confirm, TypeOK
  <2> QED
    BY <1>1, <1>2, <2>1, <2>2 DEF Book!bookVars
<1>6. ASSUME UNCHANGED file, pc[p] # "write", pc'[p] # "write" PROVE UNCHANGED Registered
  BY <1>2, <1>6
<1>7. ASSUME Start(p) \/ (\E name \in Names : AddRule(p, name))
              \/ (\E ident \in Texts : RemoveRule(p, ident)) \/ Quit(p)
      PROVE  UNCHANGED Registered
  <2>1. UNCHANGED file /\ pc[p] # "write" /\ pc'[p] # "write"
    BY <1>7 DEF Start, AddRule, RemoveRule, Quit, TypeOK
  <2> QED
    BY <1>6, <2>1
<1>8. ~SaveOpenFails(p) /\ ~SaveWriteFails(p) /\ ~Killed(p)
  BY <1>3 DEF SaveOpenFails, SaveWriteFails, Killed
<1> QED
  BY <1>1, <1>4, <1>5, <1>7, <1>8 DEF FrontEnd, Save, Book!bookVars

(* The daemon starts and dies as the watcher does, and a load that finds   *)
(* the file readable finds all the rules there are.                        *)
LEMMA DaemonRefines ==
    ASSUME TypeOK, KInv, Daemon
    PROVE  [Book!Next]_(Book!bookVars)
<1>1. UNCHANGED Registered
  BY DEF Daemon, DaemonStart, DaemonStat, DaemonLoad, DaemonKilled, Registered
<1>2. CASE DaemonStart
  BY <1>1, <1>2 DEF DaemonStart, Book!Next, Book!Wake
<1>3. CASE DaemonStat
  BY <1>1, <1>3 DEF DaemonStat, Book!bookVars
<1>4. CASE DaemonLoad
  <2>1. CASE file.form = "whole"
    <3>1. {q \in FrontEnds : pc[q] = "write"} = {}
      BY <2>1 DEF KInv, Kept
    <3>2. Registered = file.rules
      BY <3>1 DEF Registered
    <3> QED
      BY <1>1, <1>4, <2>1, <3>2 DEF DaemonLoad, Loaded, Book!Next, Book!Watch
  <2>2. CASE file.form # "whole"
    BY <1>1, <1>4, <2>2 DEF DaemonLoad, Loaded, Book!bookVars
  <2> QED
    BY <2>1, <2>2
<1>5. CASE DaemonKilled
  BY <1>1, <1>5 DEF DaemonKilled, Book!Next, Book!Fall
<1> QED
  BY <1>2, <1>3, <1>4, <1>5 DEF Daemon

(* With one front end and no fault inside a save, the list, the truncated  *)
(* and rewritten file and the daemon's copy implement one list that        *)
(* changes by one rule at a time, and a watcher of the whole of it.        *)
THEOREM RefinesBookHolds ==
    ASSUME Undisturbed
    PROVE  Spec => RefinesBook
<1>1. Init => OneChange /\ Book!Init
  <2>1. ASSUME Init PROVE Registered = {}
    BY <2>1 DEF Init, Registered
  <2> QED
    BY <2>1 DEF Init, OneChange, Book!Init
<1>2. TypeOK /\ KInv /\ OneChange /\ [Next]_vars => OneChange'
  BY NextOneChange
<1>3. TypeOK /\ KInv /\ OneChange /\ [Next]_vars => [Book!Next]_(Book!bookVars)
  <2>1. ASSUME UNCHANGED vars PROVE UNCHANGED Book!bookVars
    BY <2>1 DEF vars, Registered, Book!bookVars
  <2> QED
    BY <2>1, FrontEndRefines, DaemonRefines DEF Next
<1> QED
  BY <1>1, <1>2, <1>3, TypeCorrect, UndisturbedKeeps, PTL DEF Spec, RefinesBook, Book!Spec

=============================================================================
