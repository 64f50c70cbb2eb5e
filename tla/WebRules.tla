------------------------------ MODULE WebRules ------------------------------
(***************************************************************************)
(* One process that runs a front end and, with --web, the web dashboard:   *)
(* every request for the rules reloads them, on a thread of its own, into  *)
(* the ACTIVE_RULES list that the front end's commands work upon. No lock  *)
(* keeps the threads apart, and each may be interrupted between any two    *)
(* uses of the list. Another process may save rules to the same file.      *)
(***************************************************************************)
EXTENDS Integers, Sequences, FiniteSets, SequencesExt

CONSTANTS
    Handlers,  \* request threads that may be at work at a time
    MaxOps,    \* bound: commands of the front end
    MaxSaves   \* bound: saves of the other process

ASSUME WebRulesAssumption == MaxOps \in Nat /\ MaxSaves \in Nat

VARIABLES
    list,       \* ACTIVE_RULES
    file,       \* rules.json, Truncated within a save
    fpc,        \* where the front end is in a command
    command,    \* the command it is in
    dump,       \* the list its save has collected
    wpc,        \* wpc[h]: where handler h is
    data,       \* data[h]: the list h has parsed
    out,        \* out[h]: the rules in h's response so far
    saving,     \* the other process is within a save
    made,       \* history: rules made so far
    confirmed,  \* history: keys of the rules the user believes to be active
    alone,      \* history: the request, if any, that no other one and no command overlapped
    held,       \* history: the lists it may answer with
    ops, saves  \* bounds: commands and saves so far

frontEnd == <<fpc, command, dump, confirmed, ops>>
handlers == <<wpc, data, out>>
other == <<saving, saves>>
rulesVars == <<list, file, frontEnd, handlers, other, made, alone, held>>

MaxRules == 1 + MaxOps + MaxSaves

(* A rule, with a key that tells it from others under its id.              *)
Rule == [id : 1..MaxRules, key : 1..MaxRules]

(* What a file in the making holds, told from every list of rules.           *)
Truncated == <<[id |-> 0, key |-> 0]>>

(* A stop command remembers the index it found.                            *)
Command == [kind : {"add", "stop"}, rule : Rule, at : Nat]

RulesTypeOK ==
    /\ list \in Seq(Rule)
    /\ file \in Seq(Rule) \cup {Truncated}
    /\ fpc \in {"idle", "append", "pop", "open", "collect"}
    /\ command \in Command
    /\ dump \in Seq(Rule)
    /\ wpc \in [Handlers -> {"idle", "load", "clear", "extend", "scan"}]
    /\ data \in [Handlers -> Seq(Rule)]
    /\ out \in [Handlers -> Seq(Rule)]
    /\ saving \in BOOLEAN
    /\ made \in 1..MaxRules
    /\ confirmed \subseteq 1..made
    /\ alone \subseteq Handlers /\ \A g, h \in alone : g = h
    /\ \A l \in held : l \in Seq(Rule)
    /\ ops \in 0..MaxOps /\ saves \in 0..MaxSaves

(* One rule is active, and loaded when the process starts.                 *)
RulesInit ==
    /\ file = <<[id |-> 1, key |-> 1]>> /\ list = file
    /\ fpc = "idle" /\ command = [kind |-> "add", rule |-> file[1], at |-> 0]
    /\ dump = <<>>
    /\ wpc = [h \in Handlers |-> "idle"]
    /\ data = [h \in Handlers |-> <<>>] /\ out = data
    /\ saving = FALSE
    /\ made = 1 /\ confirmed = {1}
    /\ alone = {} /\ held = {}
    /\ ops = 0 /\ saves = 0

-----------------------------------------------------------------------------
(* The file comes to hold l, and a request that is alone may show it.      *)
Store(l) ==
    /\ file' = l
    /\ held' = IF alone = {} THEN {} ELSE held \cup {l}

(* A command or another request begins, or the one that is alone ends.     *)
Overlap == alone' = {} /\ held' = {}

(* The file is opened for writing. Overlapping saves of the two processes  *)
(* are left to RuleStore.                                                  *)
Truncate == file # Truncated /\ file' = Truncated /\ UNCHANGED held

NextId == IF list = <<>> THEN 1 ELSE Max({list[i].id : i \in 1..Len(list)}) + 1

-----------------------------------------------------------------------------
(* Commands of the front end: add_rule, remove_rule and their save_rules.  *)

AddBegin ==
    /\ fpc = "idle" /\ ops < MaxOps /\ ops' = ops + 1
    /\ made' = made + 1
    /\ command' = [kind |-> "add", rule |-> [id |-> NextId, key |-> made + 1], at |-> 0]
    /\ fpc' = "append" /\ Overlap
    /\ UNCHANGED <<list, file, dump, confirmed, handlers, other>>

AddAppend ==
    /\ fpc = "append"
    /\ list' = Append(list, command.rule)
    /\ fpc' = "open"
    /\ UNCHANGED <<file, command, dump, confirmed, ops, handlers, other, made, alone, held>>

(* An identifier is found, ...                                             *)
StopFind(i) ==
    /\ fpc = "idle" /\ ops < MaxOps /\ ops' = ops + 1
    /\ i \in 1..Len(list)
    /\ command' = [kind |-> "stop", rule |-> list[i], at |-> i]
    /\ fpc' = "pop" /\ Overlap
    /\ UNCHANGED <<list, file, dump, confirmed, handlers, other, made>>

(* ... and what its index then stands for is taken out; if that is         *)
(* nothing, the user is shown an error.                                    *)
StopPop ==
    /\ fpc = "pop"
    /\ IF command.at <= Len(list)
       THEN list' = RemoveAt(list, command.at) /\ fpc' = "open"
       ELSE fpc' = "idle" /\ UNCHANGED list
    /\ UNCHANGED <<file, command, dump, confirmed, ops, handlers, other, made, alone, held>>

SaveOpen ==
    /\ fpc = "open"
    /\ Truncate
    /\ fpc' = "collect"
    /\ UNCHANGED <<list, command, dump, confirmed, ops, handlers, other, made, alone>>

(* The list is walked through, and may change under it.                    *)
SaveCollect ==
    /\ fpc = "collect" /\ Len(dump) < Len(list)
    /\ dump' = Append(dump, list[Len(dump) + 1])
    /\ UNCHANGED <<list, file, fpc, command, confirmed, ops, handlers, other, made, alone, held>>

SaveWrite ==
    /\ fpc = "collect" /\ Len(dump) >= Len(list)
    /\ Store(dump)
    /\ dump' = <<>>
    /\ confirmed' = IF command.kind = "add" THEN confirmed \cup {command.rule.key}
                                            ELSE confirmed \ {command.rule.key}
    /\ fpc' = "idle"
    /\ UNCHANGED <<list, command, ops, handlers, other, made, alone>>

-----------------------------------------------------------------------------
(* The other process: a save of what its user has made of the rules.       *)

OtherOpen ==
    /\ ~saving /\ saves < MaxSaves /\ saves' = saves + 1
    /\ saving' = TRUE
    /\ Truncate
    /\ UNCHANGED <<list, frontEnd, handlers, made, alone>>

OtherWrite ==
    /\ saving /\ saving' = FALSE
    /\ \E l \in {<<>>, <<[id |-> 1, key |-> made + 1]>>} : Store(l)
    /\ made' = made + 1
    /\ UNCHANGED <<list, frontEnd, handlers, saves, alone>>

-----------------------------------------------------------------------------
(* Requests: get_rules_payload.                                            *)

At(h, from, to) == wpc[h] = from /\ wpc' = [wpc EXCEPT ![h] = to]

Request(h) ==
    /\ IF fpc = "idle" /\ \A g \in Handlers : wpc[g] = "idle"
       THEN alone' = {h} /\ held' = {list} \cup ({file} \ {Truncated})
       ELSE Overlap
    /\ At(h, "idle", "load")
    /\ UNCHANGED <<list, file, frontEnd, data, out, other, made>>

Readable == file # Truncated

(* Mutant of Wanted: rules are loaded only where there are none.           *)
OnlyAtFirst == list = <<>>

(* A request loads the rules whether or not there are some.                *)
Wanted == TRUE

(* load_rules, in three uses of shared state. A file that cannot be read   *)
(* leaves the list alone.                                                  *)
Parse(h) ==
    /\ \/ Readable /\ Wanted /\ At(h, "load", "clear") /\ data' = [data EXCEPT ![h] = file]
       \/ ~(Readable /\ Wanted) /\ At(h, "load", "scan") /\ UNCHANGED data
    /\ UNCHANGED <<list, file, frontEnd, out, other, made, alone, held>>

(* Mutant of Emptied: what was there stays.                                *)
Kept == list

Emptied == <<>>

Clear(h) ==
    /\ At(h, "clear", "extend")
    /\ list' = Emptied
    /\ UNCHANGED <<file, frontEnd, data, out, other, made, alone, held>>

Extend(h) ==
    /\ At(h, "extend", "scan")
    /\ list' = list \o data[h]
    /\ UNCHANGED <<file, frontEnd, data, out, other, made, alone, held>>

(* The loop over the list, which may change under it.                      *)
Scan(h) ==
    /\ wpc[h] = "scan" /\ Len(out[h]) < Len(list)
    /\ out' = [out EXCEPT ![h] = Append(@, list[Len(@) + 1])]
    /\ UNCHANGED <<list, file, frontEnd, wpc, data, other, made, alone, held>>

Respond(h) ==
    /\ Len(out[h]) >= Len(list)
    /\ At(h, "scan", "idle")
    /\ out' = [out EXCEPT ![h] = <<>>]
    /\ data' = [data EXCEPT ![h] = <<>>]
    /\ Overlap
    /\ UNCHANGED <<list, file, frontEnd, other, made>>

-----------------------------------------------------------------------------
FrontEnd == \/ AddBegin \/ AddAppend
            \/ StopPop \/ \E i \in 1..Len(list) : StopFind(i)
            \/ SaveOpen \/ SaveCollect \/ SaveWrite
Other == OtherOpen \/ OtherWrite
Handle(h) == Request(h) \/ Parse(h) \/ Clear(h) \/ Extend(h) \/ Scan(h) \/ Respond(h)

RulesNext == FrontEnd \/ Other \/ \E h \in Handlers : Handle(h)

RulesSpec == RulesInit /\ [][RulesNext]_rulesVars

(* The page polls, and a thread that has something to do does it.          *)
RulesFairSpec == RulesSpec /\ \A h \in Handlers : WF_rulesVars(Handle(h))

-----------------------------------------------------------------------------
Keys(l) == {l[i].key : i \in 1..Len(l)}

(* No rule comes to be listed twice: with one request at a time, a list is *)
(* cleared before a load extends it.                                       *)
NoRuleTwice == Cardinality(Keys(list)) = Len(list)

(* While another process saves, the response to a request that no other    *)
(* request and no command overlapped shows the rules as they were, in the  *)
(* list or in the file, at some time of the request, never a part.         *)
ResponsesAreWhole ==
    [][\A h \in alone : Respond(h) => out[h] \in held]_rulesVars

Quiet == fpc = "idle" /\ ~saving
OneAtATime == Cardinality({h \in Handlers : wpc[h] # "idle"}) <= 1

(* Whatever commands and overlapping requests made of the list: once       *)
(* nobody edits the rules and requests come one at a time, each shows what *)
(* the file holds.                                                         *)
ListCatchesUp ==
    <>[](Quiet /\ OneAtATime)
        => <>[](\A h \in Handlers : wpc[h] = "scan" => list = file)

(* What the user was told is active, and no more, is in the file, which    *)
(* "survives process restarts" (docs/file-roles-and-connections.md:38).    *)
RulesSurvive == fpc = "idle" /\ file # Truncated => confirmed = Keys(file)
=============================================================================
