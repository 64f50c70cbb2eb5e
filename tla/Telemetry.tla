----------------------------- MODULE Telemetry -----------------------------
(***************************************************************************)
(* Remote nodes and the processes that show them. Agents push metrics to   *)
(* the one process that listens on the receiver port; every other process  *)
(* keeps a NodeStore of its own and copies the listener's from time to     *)
(* time. Handlers and readers are threads: a push is stamped before it     *)
(* takes the store's lock, and a copy is fetched before it takes it.       *)
(*                                                                         *)
(* An entry of a store is reduced to last_seen, and last_seen to its age,  *)
(* which stops growing at Old; a metric comes and goes with its entry.     *)
(***************************************************************************)
EXTENDS Integers, FiniteSets

CONSTANTS
    Nodes,            \* remote nodes, one agent each
    Procs,            \* the processes of the host: dashboards, web servers, receivers
    Standalone,       \* receiver programs, which listen without an _ACTIVE_SERVER
    None,             \* nobody, nothing
    OnlineThreshold,  \* ONLINE_THRESHOLD
    StaleThreshold,   \* STALE_THRESHOLD
    MaxSyncs,         \* bound: syncs of one process at a time
    MaxGivenUp        \* bound: pushes an agent may give up on and repeat

ASSUME TelemetryAssumption ==
    /\ Standalone \subseteq Procs /\ None \notin Procs
    /\ OnlineThreshold \in Nat /\ StaleThreshold \in Nat
    /\ OnlineThreshold < StaleThreshold
    /\ None \notin Nat
    /\ MaxSyncs \in Nat /\ MaxGivenUp \in Nat

VARIABLES
    store,     \* store[p][n]: the age of n's last_seen in p, None without entry
    owner,     \* the process whose receiver listens on the port
    pushes,    \* POST requests on their way through the receiver
    syncs,     \* GET requests of readers, and the copies they brought
    limited,   \* limited[p]: _last_sync_time lies less than a second back
    heard,     \* history: how long ago a receiver last took in a push of n
    givenUp    \* bound: pushes given up so far

vars == <<store, owner, pushes, syncs, limited, heard, givenUp>>

Old == StaleThreshold + 1
Ages == 0..Old
Entries == [Nodes -> Ages \cup {None}]

(* at: the process that took the connection; now: the age of the stamp, if *)
(* there is one; waited: the agent still waits for the answer.             *)
Push == [node : Nodes, at : Procs, now : Ages \cup {None}, waited : BOOLEAN]

(* copy: the nodes that were answered, if there is an answer.              *)
Sync == [by : Procs, copy : Entries \cup {None}]

TypeOK ==
    /\ store \in [Procs -> Entries]
    /\ owner \in Procs \cup {None}
    /\ pushes \in SUBSET Push
    /\ syncs \in SUBSET Sync
    /\ limited \in [Procs -> BOOLEAN]
    /\ heard \in [Nodes -> Ages]
    /\ givenUp \in 0..MaxGivenUp

Empty == [n \in Nodes |-> None]

Init ==
    /\ store = [p \in Procs |-> Empty]
    /\ owner = None
    /\ pushes = {} /\ syncs = {}
    /\ limited = [p \in Procs |-> FALSE]
    /\ heard = [n \in Nodes |-> Old]
    /\ givenUp = 0

-----------------------------------------------------------------------------
(* Time passes; the thresholds are a few units of age.                     *)

Older(a) == IF a = None \/ a = Old THEN a ELSE a + 1

AllOlder(entries) == [n \in Nodes |-> Older(entries[n])]

Tick ==
    /\ store' = [p \in Procs |-> AllOlder(store[p])]
    /\ pushes' = {[q EXCEPT !.now = Older(@)] : q \in pushes}
    /\ syncs' = {[s EXCEPT !.copy = IF @ = None THEN None ELSE AllOlder(@)] : s \in syncs}
    /\ heard' = AllOlder(heard)
    /\ UNCHANGED <<owner, limited, givenUp>>

(* A second is over since p began a sync: much less than a unit of age.    *)
Expire(p) ==
    /\ limited[p]
    /\ limited' = [limited EXCEPT ![p] = FALSE]
    /\ UNCHANGED <<store, owner, pushes, syncs, heard, givenUp>>

-----------------------------------------------------------------------------
(* The receiver port.                                                      *)

(* get_or_start_receiver, or the receiver's main: the port is bound if it  *)
(* is free. If not, a dashboard goes on without a server and a standalone  *)
(* receiver exits. (ReceiverPort has the ports; here is the one that the   *)
(* agents push to and the readers ask, NANO_RECEIVER_PORT.)                *)
Listen(p) ==
    /\ owner = None
    /\ owner' = p
    /\ UNCHANGED <<store, pushes, syncs, limited, heard, givenUp>>

(* `ec2.server stop`. Handler threads finish what they took on.            *)
Shutdown(p) ==
    /\ owner = p /\ p \notin Standalone
    /\ owner' = None
    /\ UNCHANGED <<store, pushes, syncs, limited, heard, givenUp>>

(* The process ends, and its threads and its store with it.                *)
Exit(p) ==
    /\ owner' = IF owner = p THEN None ELSE owner
    /\ store' = [store EXCEPT ![p] = Empty]
    /\ pushes' = {q \in pushes : q.at # p}
    /\ syncs' = {s \in syncs : s.by # p}
    /\ limited' = [limited EXCEPT ![p] = FALSE]
    /\ UNCHANGED <<heard, givenUp>>

-----------------------------------------------------------------------------
(* Agents and the handler of their pushes.                                 *)

(* Mutant of Ready: pushes overlap.                                        *)
Eager(n) == TRUE

(* The agent's loop sends a push only after the last one came to an end.   *)
Ready(n) == \A q \in pushes : q.node = n => ~q.waited

Connected == owner # None

Send(n) ==
    /\ Ready(n) /\ Connected
    /\ pushes' = pushes \cup {[node |-> n, at |-> owner, now |-> None, waited |-> TRUE]}
    /\ UNCHANGED <<store, owner, syncs, limited, heard, givenUp>>

(* The connection breaks before the push is handled, or is refused by it.  *)
Lose(q) ==
    /\ q \in pushes /\ q.now = None
    /\ pushes' = pushes \ {q}
    /\ UNCHANGED <<store, owner, syncs, limited, heard, givenUp>>

(* The answer takes too long for the agent; the handler does not notice.   *)
GiveUp(q) ==
    /\ q \in pushes /\ q.waited
    /\ givenUp < MaxGivenUp /\ givenUp' = givenUp + 1
    /\ pushes' = (pushes \ {q}) \cup {[q EXCEPT !.waited = FALSE]}
    /\ UNCHANGED <<store, owner, syncs, limited, heard>>

(* update_node up to the lock.                                             *)
Stamp(q) ==
    /\ q \in pushes /\ q.now = None
    /\ pushes' = (pushes \ {q}) \cup {[q EXCEPT !.now = 0]}
    /\ heard' = [heard EXCEPT ![q.node] = 0]
    /\ UNCHANGED <<store, owner, syncs, limited, givenUp>>

(* update_node under the lock; the answer ends the push.                   *)
Update(q) ==
    /\ q \in pushes /\ q.now # None
    /\ store' = [store EXCEPT ![q.at][q.node] = q.now]
    /\ pushes' = pushes \ {q}
    /\ UNCHANGED <<owner, syncs, limited, heard, givenUp>>

-----------------------------------------------------------------------------
(* Readers: sync_from_receiver.                                            *)

(* _ACTIVE_SERVER is running. The main of a receiver program sets none,    *)
(* and run with python -m it has a second copy of its module and so does   *)
(* not see that of its plugin either.                                      *)
Serving(p) == owner = p /\ p \notin Standalone

(* Only one of several threads may see the limit, since it is unlocked; a  *)
(* command forces its way past it.                                         *)
BeginSync(p, force) ==
    /\ p \in Standalone => owner = p /\ ~force
    /\ ~Serving(p)
    /\ force \/ ~limited[p]
    /\ Cardinality({s \in syncs : s.by = p}) < MaxSyncs
    /\ limited' = [limited EXCEPT ![p] = TRUE]
    /\ syncs' = syncs \cup {[by |-> p, copy |-> None]}
    /\ UNCHANGED <<store, owner, pushes, heard, givenUp>>

(* The listener answers with the nodes it has.                             *)
Answer(s) ==
    /\ s \in syncs /\ s.copy = None /\ owner # None
    /\ syncs' = (syncs \ {s}) \cup {[s EXCEPT !.copy = store[owner]]}
    /\ UNCHANGED <<store, owner, pushes, limited, heard, givenUp>>

(* No listener, a timeout, or a token the reader does not send.            *)
Fail(s) ==
    /\ s \in syncs /\ s.copy = None
    /\ syncs' = syncs \ {s}
    /\ UNCHANGED <<store, owner, pushes, limited, heard, givenUp>>

(* Mutants of Merged: entries the reader has are kept; what is copied is   *)
(* taken for seen now.                                                     *)
MergedOnce(own, copied) == IF own = None THEN copied ELSE own
MergedNow(own, copied) == IF copied = None THEN own ELSE 0

(* What the copy makes of one node: nodes it lacks stay.                   *)
Merged(own, copied) == IF copied = None THEN own ELSE copied

Merge(s) ==
    /\ s \in syncs /\ s.copy # None
    /\ store' = [store EXCEPT ![s.by] =
                   [n \in Nodes |-> Merged(store[s.by][n], s.copy[n])]]
    /\ syncs' = syncs \ {s}
    /\ UNCHANGED <<owner, pushes, limited, heard, givenUp>>

-----------------------------------------------------------------------------
Handle == \E q \in pushes : Stamp(q) \/ Update(q)

Next ==
    \/ Tick
    \/ \E p \in Procs : Expire(p) \/ Listen(p) \/ Shutdown(p) \/ Exit(p)
    \/ \E n \in Nodes : Send(n)
    \/ \E q \in pushes : Lose(q) \/ GiveUp(q)
    \/ Handle
    \/ \E p \in Procs, force \in BOOLEAN : BeginSync(p, force)
    \/ \E s \in syncs : Answer(s) \/ Fail(s) \/ Merge(s)

Spec == Init /\ [][Next]_vars

(* Dashboards poll, a sync that is answered is merged, and a listener that *)
(* is asked over and over answers.                                         *)
Asked(p) == \E s \in syncs : s.by = p /\ Answer(s)
Copied(p) == \E s \in syncs : s.by = p /\ Merge(s)

FairSpec ==
    /\ Spec
    /\ \A p \in Procs \ Standalone :
          /\ WF_vars(Expire(p)) /\ WF_vars(BeginSync(p, FALSE))
          /\ SF_vars(Asked(p)) /\ WF_vars(Copied(p))

-----------------------------------------------------------------------------
(* get_node_status.                                                        *)
Status(age) == IF age <= OnlineThreshold THEN "online"
               ELSE IF age <= StaleThreshold THEN "stale" ELSE "offline"

(* A node a process calls online has been heard by a receiver within the   *)
(* threshold: copies of copies, made and merged late and passed on by the  *)
(* next listener, never make a dead node look alive.                       *)
OnlineIsEarned ==
    \A p \in Procs, n \in Nodes :
        store[p][n] # None /\ Status(store[p][n]) = "online" => Status(heard[n]) = "online"

(* An entry of p gets older other than by time passing.                    *)
Regress(p, n) == store[p][n] # None /\ store'[p][n] # None /\ store'[p][n] > store[p][n]

(* In the process that listens, a node's reading is not replaced by an     *)
(* older one, but while a sync of its own is under way or once an agent    *)
(* has given up on a push that a handler still holds.                      *)
ReadingsAdvance ==
    [][Tick \/ \A p \in Procs, n \in Nodes :
                  owner = p /\ givenUp = 0 /\ (\A s \in syncs : s.by # p)
                      => ~Regress(p, n)]_vars

(* The listener syncs with no one, since sync_from_receiver is for "an     *)
(* external receiver": only pushes replace its readings.                   *)
ReadingsNeverRegress ==
    [][Tick \/ \A p \in Procs, n \in Nodes :
                  owner = p /\ givenUp = 0 => ~Regress(p, n)]_vars

Fresh(p, n, threshold) == store[p][n] # None /\ store[p][n] <= threshold

(* While another process listens and the pushes of a node get through to   *)
(* it in time to keep the node within a threshold there, a dashboard comes *)
(* to see it within that threshold, again and again: online, or at least   *)
(* not offline. Whatever else goes on: pushes under way or given up, syncs *)
(* that overlap or fail. It is assumed that the dashboard lives, and that  *)
(* an answer it got is merged before a unit of age is over: a request      *)
(* times out within seconds, and the merge follows.                        *)
ReadersCatchUp ==
    \A p \in Procs \ Standalone, n \in Nodes, t \in {OnlineThreshold, StaleThreshold} :
        /\ <>[](owner \notin {None, p} /\ Fresh(owner, n, t))
        /\ <>[][~Exit(p) /\ (Tick => \A s \in syncs : s.by = p => s.copy = None)]_vars
        => []<>Fresh(p, n, t)
=============================================================================
