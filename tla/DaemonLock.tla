---------------------------- MODULE DaemonLock -----------------------------
(***************************************************************************)
(* How a spawned daemon becomes the only one: daemon_lock.py takes an      *)
(* flock on daemon.pid without waiting, and a process that does not get it *)
(* exits. The kernel gives the lock back when its holder closes the file   *)
(* or dies.                                                                *)
(***************************************************************************)
EXTENDS Integers

CONSTANTS
    Daemons,   \* the processes that dashboards may spawn
    None,      \* no process
    MaxEnds    \* bound: the number of daemons that stop, fail or are killed

ASSUME DaemonLockAssumption == None \notin Daemons /\ MaxEnds \in Nat

VARIABLES
    pc,       \* pc[d]: where d is in run_daemon
    lock,     \* the process that holds the flock
    pidFile,  \* the process daemon.pid names
    ends      \* holders that ended so far

vars == <<pc, lock, pidFile, ends>>

(* Where a process that holds the lock can be.                             *)
Holding == {"locked", "emptied", "running", "leaving"}

TypeOK ==
    /\ pc \in [Daemons -> {"off", "spawned", "opened", "refused"} \cup Holding]
    /\ lock \in Daemons \cup {None}
    /\ pidFile \in Daemons \cup {None}
    /\ ends \in 0..MaxEnds

Init ==
    /\ pc = [d \in Daemons |-> "off"]
    /\ lock = None
    /\ pidFile = None
    /\ ends = 0

-----------------------------------------------------------------------------
(* The program counter of d moves on.                                      *)
Goto(d, from, to) == pc[d] = from /\ pc' = [pc EXCEPT ![d] = to]

(* A dashboard's on_mount starts the process, whether or not one runs.     *)
Spawn(d) == Goto(d, "off", "spawned") /\ UNCHANGED <<lock, pidFile, ends>>

(* Mutant of Open: the file is truncated as it is opened.                  *)
OpenTruncating(d) ==
    Goto(d, "spawned", "opened") /\ pidFile' = None /\ UNCHANGED <<lock, ends>>

(* os.open without O_TRUNC: the file keeps the pid it has.                 *)
Open(d) == Goto(d, "spawned", "opened") /\ UNCHANGED <<lock, pidFile, ends>>

(* Mutant of Acquire: nothing excludes a second daemon.                    *)
AcquireUnchecked(d) ==
    /\ lock' = d
    /\ Goto(d, "opened", "locked")
    /\ UNCHANGED <<pidFile, ends>>

Acquire(d) ==
    /\ lock = None
    /\ lock' = d
    /\ Goto(d, "opened", "locked")
    /\ UNCHANGED <<pidFile, ends>>

Refuse(d) ==
    /\ lock # None
    /\ Goto(d, "opened", "refused")
    /\ UNCHANGED <<lock, pidFile, ends>>

(* run_daemon returns and the file is closed.                              *)
Exit(d) == Goto(d, "refused", "off") /\ UNCHANGED <<lock, pidFile, ends>>

Truncate(d) ==
    /\ Goto(d, "locked", "emptied")
    /\ pidFile' = None
    /\ UNCHANGED <<lock, ends>>

WritePid(d) ==
    /\ Goto(d, "emptied", "running")
    /\ pidFile' = d
    /\ UNCHANGED <<lock, ends>>

(* An exception that is no Exception ends the monitor loop.                *)
Stop(d) ==
    /\ ends < MaxEnds /\ ends' = ends + 1
    /\ Goto(d, "running", "leaving")
    /\ UNCHANGED <<lock, pidFile>>

(* Mutant of Unlock: the lock is kept.                                     *)
UnlockForgotten(d) == Goto(d, "leaving", "off") /\ UNCHANGED <<lock, pidFile, ends>>

Unlock(d) ==
    /\ Goto(d, "leaving", "off")
    /\ lock' = None
    /\ UNCHANGED <<pidFile, ends>>

(* Mutant of Die: a lock that outlives its process, like a bare pid file.  *)
DieLocked(d) ==
    /\ pc[d] # "off"
    /\ ends < MaxEnds /\ ends' = ends + 1
    /\ pc' = [pc EXCEPT ![d] = "off"]
    /\ UNCHANGED <<lock, pidFile>>

(* The process is killed, or a system call on the file fails: what it held *)
(* is released with its descriptors.                                       *)
Die(d) ==
    /\ pc[d] # "off"
    /\ ends < MaxEnds /\ ends' = ends + 1
    /\ pc' = [pc EXCEPT ![d] = "off"]
    /\ lock' = IF lock = d THEN None ELSE lock
    /\ UNCHANGED pidFile

Step(d) == Open(d) \/ Acquire(d) \/ Refuse(d) \/ Exit(d) \/ Truncate(d) \/ WritePid(d)
           \/ Unlock(d)

Next == \E d \in Daemons : Spawn(d) \/ Step(d) \/ Stop(d) \/ Die(d)

Spec == Init /\ [][Next]_vars

(* A process that runs takes its next step; spawning and ending are up to  *)
(* users.                                                                  *)
FairSpec == Spec /\ \A d \in Daemons : WF_vars(Step(d))

-----------------------------------------------------------------------------
Active == {d \in Daemons : pc[d] = "running"}

(* At most one daemon evaluates the rules, so no alert is logged twice.    *)
OneDaemon == \A d, e \in Active : d = e

(* While a daemon runs, daemon.pid names it: processes that are refused,   *)
(* or died on the way, left no trace in it.                                *)
PidFileNamesDaemon == \A d \in Active : pidFile = d

(* The lock is never stale: who holds it is on its way into or out of the  *)
(* loop.                                                                   *)
LockIsLive == lock # None => pc[lock] \in Holding

(* Once a dashboard has spawned a daemon, one comes to run, its own or     *)
(* another, unless a daemon is ending or ends meanwhile. (A process that   *)
(* is refused while the holder leaves exits, and nobody runs.)             *)
SpawnBringsDaemon ==
    \A d \in Daemons, n \in 0..MaxEnds :
        (pc[d] = "spawned" /\ ends = n /\ \A e \in Daemons : pc[e] # "leaving")
            ~> (Active # {} \/ ends # n)
=============================================================================
