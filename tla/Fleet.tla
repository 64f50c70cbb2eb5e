-------------------------------- MODULE Fleet --------------------------------
(***************************************************************************)
(* The machines of a fleet, the names their agents report under, and what  *)
(* commands and rules make of the reports. An agent takes its name once,   *)
(* from the metadata service of EC2 or from the host, and pushes under it  *)
(* until it ends. The process that is modelled listens itself, so that its *)
(* commands read its own store, twice each, while pushes come in. (How     *)
(* pushes and copies of the store travel is Telemetry's matter.)           *)
(***************************************************************************)
EXTENDS Naturals, FiniteSetsExt, SequencesExt

CONSTANTS
    Machines,
    Ids,               \* names of nodes, and what users type for one
    None,              \* no machine, no name, no command
    NodeId,            \* NodeId[m]: --node-id of the agent on m, or None
    Instance,          \* Instance[m]: the instance-id of m, None off EC2
    Host,              \* Host[m]: the host name of m
    PartOf,            \* PartOf[i]: the names with i in them, but i itself
    OnlineThreshold    \* ONLINE_THRESHOLD, in intervals of an agent

ASSUME FleetAssumption ==
    /\ None \notin Ids
    /\ NodeId \in [Machines -> Ids \cup {None}]
    /\ Instance \in [Machines -> Ids \cup {None}]
    /\ Host \in [Machines -> Ids]
    /\ PartOf \in [Ids -> SUBSET Ids] /\ \A i \in Ids : i \notin PartOf[i]
    /\ OnlineThreshold \in Nat \ {0}

VARIABLES
    agent,    \* agent[m]: the name the agent on m took, None if none runs
    sent,     \* sent[m]: the agent on m has pushed since the last tick
    nodes,    \* the store, sorted by last_seen, latest first
    armed,    \* the rule on ec2.disk.usage has not fired since it cleared
    query     \* a command or a request between its two reads of the store

fleetVars == <<agent, sent, nodes, armed, query>>

(* last_seen is reduced to its age, which stops growing at Old.            *)
Old == OnlineThreshold + 1
Ages == 0..Old

(* "none": the metric is missing from the payload.                         *)
Readings == {"high", "low", "none"}

(* of: the machine that pushed; current: history, its agent still runs.    *)
Entry == [id : Ids, age : Ages, disk : Readings, of : Machines, current : BOOLEAN]

(* What is told of a node: its entry apart from its name.                  *)
Told == [age : Ages, disk : Readings, of : Machines]

ASSUME ToldAssumption == None \notin Told

(* asked: the argument of ec2.metrics or ec2.info, None without; seen: the *)
(* names of the first read; count: how many were online, if it counts.     *)
Query == [kind : {"list", "node", "server"}, asked : Ids \cup {None},
          seen : Seq(Ids), count : Nat]

IdsOf(ns) == {ns[k].id : k \in DOMAIN ns}

FleetTypeOK ==
    /\ agent \in [Machines -> Ids \cup {None}]
    /\ sent \in [Machines -> BOOLEAN]
    /\ nodes \in Seq(Entry)
    /\ \A j, k \in DOMAIN nodes : j < k => nodes[j].id # nodes[k].id /\ nodes[j].age <= nodes[k].age
    /\ armed \in BOOLEAN
    /\ query \in Query \cup {None}

FleetInit ==
    /\ agent = [m \in Machines |-> None]
    /\ sent = [m \in Machines |-> FALSE]
    /\ nodes = <<>>
    /\ armed = TRUE
    /\ query = None

-----------------------------------------------------------------------------
(* Agents.                                                                 *)

(* collect_ec2_metadata: the instance-id, if there is a token and then the *)
(* item; each request may fail.                                            *)
InstanceFound(m) == {None, Instance[m]}

(* What run_agent makes of it and of the option.                           *)
Resolved(m, instance) ==
    IF NodeId[m] # None THEN NodeId[m]
    ELSE IF instance # None THEN instance
    ELSE Host[m]

(* The entries m has pushed are those of an agent that is gone.            *)
Outdated(m) ==
    [k \in DOMAIN nodes |->
        [nodes[k] EXCEPT !.current = @ /\ nodes[k].of # m]]

StartAgent(m) ==
    /\ agent[m] = None
    /\ \E instance \in InstanceFound(m) : agent' = [agent EXCEPT ![m] = Resolved(m, instance)]
    /\ sent' = [sent EXCEPT ![m] = FALSE]
    /\ UNCHANGED <<nodes, armed, query>>

(* The agent is interrupted, or was told to push once.                     *)
EndAgent(m) ==
    /\ agent[m] # None
    /\ agent' = [agent EXCEPT ![m] = None]
    /\ nodes' = Outdated(m)
    /\ UNCHANGED <<sent, armed, query>>

(* Mutant of Named: build_payload is left to find the name for itself.     *)
NamedAnew(m) == {Resolved(m, i) : i \in InstanceFound(m)}

(* The name build_payload gives a payload is that of the agent's start.    *)
Named(m) == {agent[m]}

(* Mutant of Updated: what the store has of a node keeps its last_seen.    *)
UpdatedInPlace(e) ==
    IF e.id \notin IdsOf(nodes) THEN <<e>> \o nodes
    ELSE [k \in DOMAIN nodes |->
             IF nodes[k].id = e.id THEN [e EXCEPT !.age = nodes[k].age] ELSE nodes[k]]

(* update_node: the payload replaces all that was known of the name.       *)
Updated(e) ==
    <<e>> \o IF e.id \notin IdsOf(nodes) THEN nodes
             ELSE RemoveAt(nodes, CHOOSE k \in DOMAIN nodes : nodes[k].id = e.id)

Push(m) ==
    /\ agent[m] # None
    /\ \E i \in Named(m), r \in Readings :
          nodes' = Updated([id |-> i, age |-> 0, disk |-> r, of |-> m, current |-> TRUE])
    /\ sent' = [sent EXCEPT ![m] = TRUE]
    /\ UNCHANGED <<agent, armed, query>>

PushFails(m) ==
    /\ agent[m] # None
    /\ sent' = [sent EXCEPT ![m] = TRUE]
    /\ UNCHANGED <<agent, nodes, armed, query>>

(* An interval passes, in which each agent has tried to push.              *)
Tick ==
    /\ \A m \in Machines : agent[m] # None => sent[m]
    /\ sent' = [m \in Machines |-> FALSE]
    /\ nodes' = [k \in DOMAIN nodes |-> [nodes[k] EXCEPT !.age = IF @ = Old THEN Old ELSE @ + 1]]
    /\ UNCHANGED <<agent, armed, query>>

-----------------------------------------------------------------------------
(* What is read from the store.                                            *)

IsOnline(n) == n.age <= OnlineThreshold
CountOnline == Cardinality({k \in DOMAIN nodes : IsOnline(nodes[k])})

(* Mutant of GetMetric: of the node known longest that has the metric.     *)
GetMetricOfAny ==
    LET with == {k \in DOMAIN nodes : nodes[k].disk # "none"}
    IN IF with = {} THEN "none" ELSE nodes[Max(with)].disk

(* get_metric without a name: of the node heard last, among those that are *)
(* online and have it.                                                     *)
GetMetric ==
    LET with == {k \in DOMAIN nodes : IsOnline(nodes[k]) /\ nodes[k].disk # "none"}
    IN IF with = {} THEN "none" ELSE nodes[Min(with)].disk

(* The daemon judges a rule on ec2.disk.usage: it fires on a high reading, *)
(* a low one arms it again, a missing one does neither. (When it repeats,  *)
(* AlertEngine says.)                                                      *)
Judge ==
    /\ armed' = CASE GetMetric = "high" -> FALSE
                  [] GetMetric = "low" -> TRUE
                  [] OTHER -> armed
    /\ UNCHANGED <<agent, sent, nodes, query>>

(* The first read of ec2.list, ec2.metrics, ec2.info and ec2.server.       *)
Command(kind, asked) ==
    /\ query = None
    /\ asked # None => kind = "node"
    /\ query' = [kind |-> kind, asked |-> asked,
                 seen |-> [k \in DOMAIN nodes |-> nodes[k].id],
                 count |-> IF kind = "server" THEN CountOnline ELSE 0]
    /\ UNCHANGED <<agent, sent, nodes, armed>>

(* Mutant of Target: the argument is looked for in the names at once.      *)
TargetByPart(q) ==
    LET hits == {k \in DOMAIN q.seen :
                    q.asked \in {None, q.seen[k]} \/ q.seen[k] \in PartOf[q.asked]}
    IN IF hits = {} THEN None ELSE q.seen[Min(hits)]

(* _resolve_target_node: the name itself, as of the second read; or one of *)
(* the first read that it is a part of. Without a name, the latest there.  *)
Target(q) ==
    LET hits == {k \in DOMAIN q.seen : q.asked = None \/ q.seen[k] \in PartOf[q.asked]}
    IN IF q.seen # <<>> /\ q.asked # None /\ q.asked \in IdsOf(nodes) THEN q.asked
       ELSE IF hits = {} THEN None ELSE q.seen[Min(hits)]

(* Mutant of Counts: the status is put together as the list is.            *)
CountsAsListed(q) == [online |-> CountOnline, total |-> Len(q.seen)]

(* The list counts who is online after it has taken the nodes, the status  *)
(* of the server before.                                                   *)
Counts(q) ==
    IF q.kind = "list" THEN [online |-> CountOnline, total |-> Len(q.seen)]
    ELSE [online |-> q.count, total |-> Len(nodes)]

(* The second read, after which Target or Counts are shown.                *)
Reply ==
    /\ query # None
    /\ query' = None
    /\ UNCHANGED <<agent, sent, nodes, armed>>

-----------------------------------------------------------------------------
FleetNext ==
    \/ \E m \in Machines : StartAgent(m) \/ EndAgent(m) \/ Push(m) \/ PushFails(m)
    \/ Tick
    \/ Judge
    \/ \E kind \in {"list", "node", "server"}, asked \in Ids \cup {None} : Command(kind, asked)
    \/ Reply

FleetSpec == FleetInit /\ [][FleetNext]_fleetVars

(* Agents push in each interval, time passes, and the daemon judges.       *)
FleetFairSpec ==
    /\ FleetSpec
    /\ WF_fleetVars(Tick) /\ WF_fleetVars(Judge)
    /\ \A m \in Machines : WF_fleetVars(Push(m) \/ PushFails(m))

-----------------------------------------------------------------------------
(* Whatever the metadata service answers meanwhile, an agent has one entry *)
(* from its start to its end.                                              *)
OneEntryPerRun ==
    \A j, k \in DOMAIN nodes :
        nodes[j].current /\ nodes[k].current /\ nodes[j].of = nodes[k].of => j = k

Steady == <>[][\A m \in Machines : ~StartAgent(m) /\ ~EndAgent(m) /\ ~PushFails(m)]_fleetVars
Reporting == {agent[m] : m \in Machines} \ {None}
Online == {nodes[k].id : k \in {j \in DOMAIN nodes : IsOnline(nodes[j])}}

(* Once agents neither start nor end and their pushes get through, exactly *)
(* the names they have are online: ec2.nodes.online comes to be right, and *)
(* the names of earlier runs go.                                           *)
FleetSettles == Steady => <>[](Online = Reporting)

(* When all agents that run report too much, the rule comes to fire and    *)
(* does not clear: what machines that are gone reported last does not keep *)
(* it from that.                                                           *)
AlarmComes ==
    Steady /\ <>[](Reporting # {} /\ \A k \in DOMAIN nodes : nodes[k].current => nodes[k].disk = "high")
        => <>[]~armed

(* ec2.metrics and ec2.info answer for the node that was asked for if it   *)
(* is known by the start of the command, whatever is heard meanwhile, and  *)
(* never say that a node known by then is not found.                       *)
AnswerIsAsked ==
    query # None /\ query.kind = "node" =>
        /\ query.asked \in Range(query.seen) => Target(query) = query.asked
        /\ Target(query) = None => query.asked \notin Range(query.seen)
        /\ Target(query) \in IdsOf(nodes) \cup {None}

(* What the store has of a name, apart from its place in the list.         *)
ReportOf(i) ==
    IF i \notin IdsOf(nodes) THEN None
    ELSE LET n == nodes[CHOOSE k \in DOMAIN nodes : nodes[k].id = i]
         IN [age |-> n.age, disk |-> n.disk, of |-> n.of]

Kept == INSTANCE Reports WITH last <- [i \in Ids |-> ReportOf(i)]

(* However machines share names and agents restart, the sorted list of the *)
(* store is, to those who read it, the last report of each name, and       *)
(* get_metric takes a latest one.                                          *)
RefinesReports == Kept!Spec

(* "Nodes Online: x / y total" never has more of the former.               *)
StatusFits ==
    query # None /\ query.kind = "server" => Counts(query).online <= Counts(query).total

(* Nor has "Total: y node(s) | Online: x".                                 *)
ListFits ==
    query # None /\ query.kind = "list" => Counts(query).online <= Counts(query).total

(* "ec2.nodes.online": a machine counts once.                              *)
OneEntryPerMachine ==
    \A j, k \in DOMAIN nodes :
        IsOnline(nodes[j]) /\ IsOnline(nodes[k]) /\ nodes[j].of = nodes[k].of => j = k

(* A rule is armed again only once nobody who is online is over its limit. *)
ClearedIsTrue ==
    [][~armed /\ armed' => \A k \in DOMAIN nodes : IsOnline(nodes[k]) => nodes[k].disk # "high"]_fleetVars
=============================================================================
