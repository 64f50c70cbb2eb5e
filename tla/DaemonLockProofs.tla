-------------------------- MODULE DaemonLockProofs -------------------------
(***************************************************************************)
(* Proofs about DaemonLock, for any set of processes: the flock is a mutex *)
(* over the whole stretch from Acquire to Unlock, so one daemon runs,      *)
(* and the pid file names it.                                              *)
(***************************************************************************)
EXTENDS DaemonLock, TLAPS

(***************************************************************************)
(* The inductive invariant: a process is past Acquire exactly while it     *)
(* holds the lock, and once it has written its pid nobody else can.        *)
(***************************************************************************)
LInv ==
    /\ TypeOK
    /\ \A d \in Daemons : pc[d] \in Holding <=> lock = d
    /\ \A d \in Daemons : pc[d] \in {"running", "leaving"} => pidFile = d

LEMMA InitLInv == Init => LInv
  BY DaemonLockAssumption DEF Init, LInv, TypeOK, Holding

(* Each step of each process keeps the invariant.                          *)
LEMMA NextLInv == LInv /\ [Next]_vars => LInv'
<1> SUFFICES ASSUME LInv, [Next]_vars PROVE LInv'
  OBVIOUS
<1> USE DaemonLockAssumption DEF LInv, TypeOK, Holding, Goto
<1>1. CASE UNCHANGED vars
  BY <1>1 DEF vars
<1>2. ASSUME NEW d \in Daemons, Spawn(d) PROVE LInv'
  BY <1>2 DEF Spawn
<1>3. ASSUME NEW d \in Daemons, Open(d) PROVE LInv'
  BY <1>3 DEF Open
<1>4. ASSUME NEW d \in Daemons, Acquire(d) PROVE LInv'
  BY <1>4 DEF Acquire
<1>5. ASSUME NEW d \in Daemons, Refuse(d) PROVE LInv'
  BY <1>5 DEF Refuse
<1>6. ASSUME NEW d \in Daemons, Exit(d) PROVE LInv'
  BY <1>6 DEF Exit
<1>7. ASSUME NEW d \in Daemons, Truncate(d) PROVE LInv'
  BY <1>7 DEF Truncate
<1>8. ASSUME NEW d \in Daemons, WritePid(d) PROVE LInv'
  BY <1>8 DEF WritePid
<1>9. ASSUME NEW d \in Daemons, Stop(d) PROVE LInv'
  BY <1>9 DEF Stop
<1>10. ASSUME NEW d \in Daemons, Unlock(d) PROVE LInv'
  BY <1>10 DEF Unlock
<1>11. ASSUME NEW d \in Daemons, Die(d) PROVE LInv'
  BY <1>11 DEF Die
<1> QED
  BY <1>1, <1>2, <1>3, <1>4, <1>5, <1>6, <1>7, <1>8, <1>9, <1>10, <1>11 DEF Next, Step

(* The type invariant, the mutual exclusion and the link of lock and       *)
(* program counters hold in every state.                                   *)
LEMMA LInvHolds == Spec => []LInv
  BY InitLInv, NextLInv, PTL DEF Spec

(* Program counters, the lock and the pid file keep their types: the file  *)
(* never holds anything but the whole pid of a process, or nothing.        *)
THEOREM TypeCorrect == Spec => []TypeOK
<1>1. LInv => TypeOK
  BY DEF LInv
<1> QED
  BY <1>1, LInvHolds, PTL

(* The lock is never stale: its holder is between Acquire and Unlock, and  *)
(* a process that dies takes its lock with it.                             *)
THEOREM LockIsLiveHolds == Spec => []LockIsLive
<1>1. LInv => LockIsLive
  BY DaemonLockAssumption DEF LInv, TypeOK, LockIsLive
<1> QED
  BY <1>1, LInvHolds, PTL

(* However many dashboards race to spawn one, at most one daemon runs.     *)
THEOREM OneDaemonHolds == Spec => []OneDaemon
<1>1. LInv => OneDaemon
  BY DEF LInv, OneDaemon, Active, Holding
<1> QED
  BY <1>1, LInvHolds, PTL

(* daemon.pid names the daemon that runs.                                  *)
THEOREM PidFileNamesDaemonHolds == Spec => []PidFileNamesDaemon
<1>1. LInv => PidFileNamesDaemon
  BY DEF LInv, PidFileNamesDaemon, Active
<1> QED
  BY <1>1, LInvHolds, PTL
=============================================================================
