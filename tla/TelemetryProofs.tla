--------------------------- MODULE TelemetryProofs ---------------------------
(***************************************************************************)
(* Proofs about Telemetry, for any number of nodes, processes, concurrent  *)
(* syncs and thresholds.                                                   *)
(***************************************************************************)
EXTENDS Telemetry, TLAPS

LEMMA Constants ==
  /\ None \notin Procs /\ None \notin Nat /\ Old \in Nat /\ Ages \subseteq Nat
  /\ OnlineThreshold \in Nat /\ StaleThreshold \in Nat /\ OnlineThreshold < StaleThreshold
  /\ MaxGivenUp \in Nat
  BY TelemetryAssumption DEF Old, Ages

(* Ages keep their type and their order as they grow.                      *)
LEMMA OlderAge ==
  /\ \A a \in Ages \cup {None} : /\ Older(a) \in Ages \cup {None}
                                 /\ Older(a) = None <=> a = None
  /\ \A a, b \in Ages : a >= b => Older(a) >= Older(b)
<1>1. ASSUME NEW a \in Ages \cup {None}
      PROVE  Older(a) \in Ages \cup {None} /\ (Older(a) = None <=> a = None)
  BY Constants DEF Older, Ages
<1>2. ASSUME NEW a \in Ages, NEW b \in Ages, a >= b PROVE Older(a) >= Older(b)
  BY <1>2, Constants DEF Older, Ages
<1> QED BY <1>1, <1>2

LEMMA AllOlderType ==
  ASSUME NEW e \in Entries
  PROVE  AllOlder(e) \in Entries /\ \A n \in Nodes : AllOlder(e)[n] = Older(e[n])
  BY OlderAge DEF AllOlder, Entries

(* No entry, in a store, a copy or a push, is younger than the last push   *)
(* that a receiver took in.                                                *)
EarnedEntries(e) == \A n \in Nodes : e[n] # None => e[n] >= heard[n]

(* As long as no push is given up, a node has one at most, and a stamped   *)
(* one is the last that was heard.                                         *)
OnePush ==
    givenUp = 0 =>
        \A q \in pushes : /\ q.waited
                          /\ q.now # None => q.now = heard[q.node]
                          /\ \A r \in pushes : r.node = q.node => r = q

IInv ==
    /\ TypeOK
    /\ \A p \in Procs : EarnedEntries(store[p])
    /\ \A s \in syncs : s.copy # None => EarnedEntries(s.copy)
    /\ \A q \in pushes : q.now # None => q.now >= heard[q.node]
    /\ OnePush

-----------------------------------------------------------------------------
LEMMA InitTypeOK == Init => TypeOK
  BY Constants DEF Init, TypeOK, Empty, Entries, Ages


LEMMA NextTypeOK == TypeOK /\ [Next]_vars => TypeOK'
<1> SUFFICES ASSUME TypeOK, [Next]_vars PROVE TypeOK'
  OBVIOUS
<1>1. CASE Tick
  <2>1. store' \in [Procs -> Entries]
    BY <1>1, AllOlderType DEF Tick, TypeOK
  <2>2. pushes' \in SUBSET Push
    <3> SUFFICES ASSUME NEW q \in pushes PROVE [q EXCEPT !.now = Older(@)] \in Push
      BY <1>1 DEF Tick
    <3>1. q \in Push
      BY DEF TypeOK
    <3> QED BY <3>1, OlderAge DEF Push
  <2>3. syncs' \in SUBSET Sync
    <3> SUFFICES ASSUME NEW s \in syncs
                 PROVE  [s EXCEPT !.copy = IF @ = None THEN None ELSE AllOlder(@)] \in Sync
      BY <1>1 DEF Tick
    <3>1. s \in Sync
      BY DEF TypeOK
    <3>2. s.copy # None => AllOlder(s.copy) \in Entries
      BY <3>1, AllOlderType DEF Sync
    <3> QED BY <3>1, <3>2 DEF Sync
  <2>4. heard' \in [Nodes -> Ages]
    BY <1>1, OlderAge, Constants DEF Tick, TypeOK, AllOlder
  <2> QED BY <1>1, <2>1, <2>2, <2>3, <2>4 DEF Tick, TypeOK
<1>2. ASSUME NEW p \in Procs, Expire(p) \/ Listen(p) \/ Shutdown(p) PROVE TypeOK'
  BY <1>2 DEF Expire, Listen, Shutdown, TypeOK
<1>3. ASSUME NEW p \in Procs, Exit(p) PROVE TypeOK'
  <2>1. Empty \in Entries
    BY DEF Empty, Entries
  <2> QED BY <1>3, <2>1 DEF Exit, TypeOK
<1>4. ASSUME NEW n \in Nodes, Send(n) PROVE TypeOK'
  <2>1. [node |-> n, at |-> owner, now |-> None, waited |-> TRUE] \in Push
    BY <1>4 DEF Send, Connected, TypeOK, Push
  <2> QED BY <1>4, <2>1 DEF Send, TypeOK
<1>5. ASSUME NEW q \in pushes, Lose(q) PROVE TypeOK'
  BY <1>5 DEF Lose, TypeOK
<1>6. ASSUME NEW q \in pushes, GiveUp(q) PROVE TypeOK'
  <2>1. [q EXCEPT !.waited = FALSE] \in Push
    BY DEF TypeOK, Push
  <2>2. givenUp + 1 \in 0..MaxGivenUp
    BY <1>6, Constants DEF GiveUp, TypeOK
  <2> QED BY <1>6, <2>1, <2>2 DEF GiveUp, TypeOK
<1>7. ASSUME NEW q \in pushes, Stamp(q) PROVE TypeOK'
  <2>1. 0 \in Ages
    BY Constants DEF Ages
  <2>2. [q EXCEPT !.now = 0] \in Push
    BY <2>1 DEF TypeOK, Push
  <2> QED BY <1>7, <2>1, <2>2 DEF Stamp, TypeOK
<1>8. ASSUME NEW q \in pushes, Update(q) PROVE TypeOK'
  <2>1. q.at \in Procs /\ q.node \in Nodes /\ q.now \in Ages
    BY <1>8 DEF Update, TypeOK, Push
  <2>2. [store[q.at] EXCEPT ![q.node] = q.now] \in Entries
    BY <2>1 DEF TypeOK, Entries
  <2>3. store' = [store EXCEPT ![q.at] = [store[q.at] EXCEPT ![q.node] = q.now]]
    BY <1>8 DEF Update
  <2> QED BY <1>8, <2>1, <2>2, <2>3 DEF Update, TypeOK
<1>9. ASSUME NEW p \in Procs, NEW force \in BOOLEAN, BeginSync(p, force) PROVE TypeOK'
  BY <1>9 DEF BeginSync, TypeOK, Sync
<1>10. ASSUME NEW s \in syncs, Answer(s) PROVE TypeOK'
  <2>1. store[owner] \in Entries
    BY <1>10 DEF Answer, TypeOK
  <2>2. [s EXCEPT !.copy = store[owner]] \in Sync
    BY <2>1 DEF TypeOK, Sync
  <2> QED BY <1>10, <2>2 DEF Answer, TypeOK
<1>11. ASSUME NEW s \in syncs, Fail(s) PROVE TypeOK'
  BY <1>11 DEF Fail, TypeOK
<1>12. ASSUME NEW s \in syncs, Merge(s) PROVE TypeOK'
  <2>1. s.by \in Procs /\ s.copy \in Entries /\ store[s.by] \in Entries
    BY <1>12 DEF Merge, TypeOK, Sync
  <2>2. [n \in Nodes |-> Merged(store[s.by][n], s.copy[n])] \in Entries
    BY <2>1 DEF Entries, Merged
  <2> QED BY <1>12, <2>1, <2>2 DEF Merge, TypeOK
<1>13. CASE UNCHANGED vars
  BY <1>13 DEF vars, TypeOK
<1> QED BY <1>1, <1>2, <1>3, <1>4, <1>5, <1>6, <1>7, <1>8, <1>9, <1>10, <1>11, <1>12, <1>13
        DEF Next, Handle

(* What is stored for a node is an age of it.                              *)
LEMMA AgesOf ==
  ASSUME TypeOK
  PROVE  /\ \A n \in Nodes : heard[n] \in Ages /\ heard[n] \in Nat
         /\ \A p \in Procs : store[p] \in Entries
         /\ \A e \in Entries, n \in Nodes : e[n] # None => e[n] \in Ages
         /\ \A s \in syncs : s.by \in Procs /\ (s.copy # None => s.copy \in Entries)
         /\ \A q \in pushes : /\ q \in Push /\ q.node \in Nodes /\ q.at \in Procs
                              /\ q.now # None => q.now \in Ages
  BY Constants DEF TypeOK, Entries, Sync, Push

LEMMA InitIInv == Init => IInv
  BY InitTypeOK DEF Init, IInv, EarnedEntries, OnePush, Empty

LEMMA NextIInv ==
  ASSUME IInv, [Next]_vars PROVE IInv'
<1>0. TypeOK /\ TypeOK'
  BY NextTypeOK DEF IInv
<1> USE <1>0
<1>1. CASE Tick
  <2>1. \A e \in Entries : EarnedEntries(e) => EarnedEntries(AllOlder(e))'
    <3> SUFFICES ASSUME NEW e \in Entries, EarnedEntries(e), NEW n \in Nodes, AllOlder(e)[n] # None
                 PROVE  AllOlder(e)[n] >= heard'[n]
      BY DEF EarnedEntries
    <3>1. heard'[n] = Older(heard[n]) /\ AllOlder(e)[n] = Older(e[n])
      BY <1>1, AllOlderType DEF Tick, AllOlder
    <3>2. e[n] \in Ages /\ heard[n] \in Ages /\ e[n] >= heard[n]
      BY <3>1, AgesOf, OlderAge DEF EarnedEntries, Entries
    <3> QED BY <3>1, <3>2, OlderAge
  <2>2. \A p \in Procs : EarnedEntries(store[p])'
    BY <1>1, <2>1, AgesOf DEF Tick, IInv
  <2>3. \A s \in syncs' : s.copy # None => EarnedEntries(s.copy)'
    <3> SUFFICES ASSUME NEW r \in syncs', r.copy # None PROVE EarnedEntries(r.copy)'
      OBVIOUS
    <3>1. PICK s \in syncs : r = [s EXCEPT !.copy = IF @ = None THEN None ELSE AllOlder(@)]
      BY <1>1 DEF Tick
    <3>2. s \in Sync
      BY DEF TypeOK
    <3>3. s.copy # None /\ r.copy = AllOlder(s.copy)
      BY <3>1, <3>2 DEF Sync
    <3>4. s.copy \in Entries /\ EarnedEntries(s.copy)
      BY <3>3, AgesOf DEF IInv
    <3>5. EarnedEntries(AllOlder(s.copy))'
      BY <2>1, <3>4
    <3> QED BY <3>3, <3>5 DEF EarnedEntries
  <2>4. ASSUME NEW q \in pushes'
        PROVE  \E r \in pushes : /\ q = [r EXCEPT !.now = Older(r.now)]
                                 /\ q.node = r.node /\ q.waited = r.waited
                                 /\ q.now = Older(r.now)
                                 /\ q.now # None => /\ r.now # None
                                                    /\ q.now >= heard'[q.node]
                                                    /\ heard'[q.node] = Older(heard[r.node])
    <3>1. PICK r \in pushes : q = [r EXCEPT !.now = Older(@)]
      BY <1>1 DEF Tick
    <3>2. r \in Push
      BY AgesOf
    <3>3. q.node = r.node /\ q.waited = r.waited /\ q.now = Older(r.now)
      BY <3>1, <3>2 DEF Push
    <3>4. heard'[q.node] = Older(heard[r.node])
      BY <1>1, <3>2, <3>3 DEF Tick, AllOlder, Push
    <3>5. ASSUME q.now # None PROVE r.now # None /\ q.now >= heard'[q.node]
      <4>1. r.now # None
        BY <3>3, <3>5 DEF Older
      <4>2. r.now \in Ages /\ heard[r.node] \in Ages /\ r.now >= heard[r.node]
        BY <4>1, AgesOf DEF IInv
      <4> QED BY <3>3, <3>4, <4>1, <4>2, OlderAge
    <3> QED BY <3>1, <3>3, <3>4, <3>5
  <2>5. OnePush'
    <3> SUFFICES ASSUME givenUp = 0, NEW q \in pushes'
                 PROVE  /\ q.waited
                        /\ q.now # None => q.now = heard'[q.node]
                        /\ \A r \in pushes' : r.node = q.node => r = q
      BY <1>1 DEF Tick, OnePush
    <3>1. PICK r \in pushes : /\ q = [r EXCEPT !.now = Older(r.now)]
                              /\ q.node = r.node /\ q.waited = r.waited
                              /\ q.now = Older(r.now)
                              /\ q.now # None => /\ r.now # None
                                                 /\ heard'[q.node] = Older(heard[r.node])
      BY <2>4
    <3>2. /\ r.waited /\ (r.now # None => r.now = heard[r.node])
          /\ \A t \in pushes : t.node = r.node => t = r
      BY DEF IInv, OnePush
    <3>3. \A t \in pushes' : t.node = q.node => t = q
      <4> SUFFICES ASSUME NEW t \in pushes', t.node = q.node PROVE t = q
        OBVIOUS
      <4>1. PICK u \in pushes : t = [u EXCEPT !.now = Older(u.now)] /\ t.node = u.node
        BY <2>4
      <4>2. u = r
        BY <3>1, <3>2, <4>1
      <4> QED BY <3>1, <4>1, <4>2
    <3> QED BY <3>1, <3>2, <3>3
  <2> QED BY <2>2, <2>3, <2>4, <2>5 DEF IInv
<1>2. ASSUME NEW p \in Procs, Expire(p) \/ Listen(p) \/ Shutdown(p) PROVE IInv'
  BY <1>2 DEF Expire, Listen, Shutdown, IInv, EarnedEntries, OnePush
<1>3. ASSUME NEW p \in Procs, Exit(p) PROVE IInv'
  <2>1. \A r \in Procs : EarnedEntries(store[r])'
    BY <1>3 DEF Exit, IInv, EarnedEntries, Empty, TypeOK
  <2> QED BY <1>3, <2>1 DEF Exit, IInv, EarnedEntries, OnePush
<1>4. ASSUME NEW n \in Nodes, Send(n) PROVE IInv'
  <2>1. \A q \in pushes' : q \in pushes \/ (q.node = n /\ q.now = None /\ q.waited)
    BY <1>4 DEF Send
  <2>2. OnePush'
    <3>1. givenUp = 0 => \A q \in pushes : q.node # n
      BY <1>4 DEF Send, Ready, IInv, OnePush
    <3>2. \A q, r \in pushes' \ pushes : q = r
      BY <1>4 DEF Send
    <3> QED BY <1>4, <2>1, <3>1, <3>2 DEF Send, IInv, OnePush
  <2> QED BY <1>4, <2>1, <2>2 DEF Send, IInv, EarnedEntries
<1>5. ASSUME NEW q \in pushes, Lose(q) PROVE IInv'
  BY <1>5 DEF Lose, IInv, EarnedEntries, OnePush
<1>6. ASSUME NEW q \in pushes, GiveUp(q) PROVE IInv'
  <2>1. givenUp' # 0
    BY <1>6 DEF GiveUp, TypeOK
  <2>2. \A r \in pushes' : r \in pushes \/ (r.node = q.node /\ r.now = q.now)
    BY <1>6, AgesOf DEF GiveUp, Push
  <2> QED BY <1>6, <2>1, <2>2 DEF GiveUp, IInv, EarnedEntries, OnePush
<1>7. ASSUME NEW q \in pushes, Stamp(q) PROVE IInv'
  <2>1. q \in Push /\ q.node \in Nodes
    BY AgesOf
  <2>2. heard' = [heard EXCEPT ![q.node] = 0] /\ UNCHANGED <<store, syncs, givenUp>>
    BY <1>7 DEF Stamp
  <2>3. \A n \in Nodes : heard'[n] \in Nat /\ heard'[n] <= heard[n]
    BY <2>2, AgesOf, Constants DEF TypeOK
  <2>4. \A e \in Entries : EarnedEntries(e) => EarnedEntries(e)'
    <3> SUFFICES ASSUME NEW e \in Entries, EarnedEntries(e), NEW n \in Nodes, e[n] # None
                 PROVE  e[n] >= heard'[n]
      BY DEF EarnedEntries
    <3>1. e[n] \in Nat /\ heard[n] \in Nat /\ e[n] >= heard[n]
      BY AgesOf, Constants DEF EarnedEntries
    <3> QED BY <2>3, <3>1
  <2>5. /\ [q EXCEPT !.now = 0].now = 0 /\ [q EXCEPT !.now = 0].node = q.node
        /\ [q EXCEPT !.now = 0].waited = q.waited
    BY <2>1 DEF Push
  <2>6. pushes' = (pushes \ {q}) \cup {[q EXCEPT !.now = 0]}
    BY <1>7 DEF Stamp
  <2>7. \A r \in pushes' : r.now # None => r.now >= heard'[r.node]
    <3> SUFFICES ASSUME NEW r \in pushes', r.now # None PROVE r.now >= heard'[r.node]
      OBVIOUS
    <3>1. CASE r \in pushes
      <4>1. r.node \in Nodes /\ r.now \in Nat /\ heard[r.node] \in Nat /\ r.now >= heard[r.node]
        BY <3>1, AgesOf, Constants DEF IInv
      <4> QED BY <2>3, <4>1
    <3>2. CASE r = [q EXCEPT !.now = 0]
      BY <2>1, <2>2, <2>5, <3>2 DEF TypeOK
    <3> QED BY <2>6, <3>1, <3>2
  <2>8. OnePush'
    <3> SUFFICES ASSUME givenUp = 0, NEW r \in pushes'
                 PROVE  /\ r.waited /\ (r.now # None => r.now = heard'[r.node])
                        /\ \A t \in pushes' : t.node = r.node => t = r
      BY <2>2 DEF OnePush
    <3>1. q.waited /\ \A t \in pushes : t.node = q.node => t = q
      BY DEF IInv, OnePush
    <3>2. CASE r \in pushes /\ r # q
      <4>1. r.node # q.node /\ r.node \in Nodes
        BY <3>1, <3>2, AgesOf
      <4>2. heard'[r.node] = heard[r.node]
        BY <2>2, <4>1 DEF TypeOK
      <4> QED BY <2>5, <2>6, <3>2, <4>1, <4>2 DEF IInv, OnePush
    <3>3. CASE r = [q EXCEPT !.now = 0]
      <4>1. heard'[q.node] = 0
        BY <2>1, <2>2 DEF TypeOK
      <4> QED BY <2>5, <2>6, <3>1, <3>3, <4>1
    <3> QED BY <2>6, <3>2, <3>3
  <2>9. \A s \in syncs' : s.copy # None => EarnedEntries(s.copy)'
    BY <2>2, <2>4, AgesOf DEF IInv
  <2>10. \A p \in Procs : EarnedEntries(store[p])'
    <3> SUFFICES ASSUME NEW p \in Procs PROVE EarnedEntries(store[p])'
      OBVIOUS
    <3>1. EarnedEntries(store[p]) /\ store[p] \in Entries /\ store'[p] = store[p]
      BY <2>2, AgesOf DEF IInv
    <3> QED BY <2>4, <3>1 DEF EarnedEntries
  <2> QED BY <2>7, <2>8, <2>9, <2>10 DEF IInv
<1>8. ASSUME NEW q \in pushes, Update(q) PROVE IInv'
  <2>1. q.at \in Procs /\ q.node \in Nodes /\ q.now # None /\ q.now >= heard[q.node]
    BY <1>8, AgesOf DEF Update, IInv
  <2>2. /\ store' = [store EXCEPT ![q.at][q.node] = q.now]
        /\ pushes' = pushes \ {q} /\ UNCHANGED <<syncs, heard, givenUp>>
    BY <1>8 DEF Update
  <2>3. \A p \in Procs, n \in Nodes : store'[p][n] = store[p][n] \/ (n = q.node /\ store'[p][n] = q.now)
    BY <2>1, <2>2 DEF TypeOK, Entries
  <2>4. \A p \in Procs : EarnedEntries(store[p])'
    BY <2>1, <2>2, <2>3 DEF IInv, EarnedEntries
  <2> QED BY <2>2, <2>4 DEF IInv, EarnedEntries, OnePush
<1>9. ASSUME NEW p \in Procs, NEW force \in BOOLEAN, BeginSync(p, force) PROVE IInv'
  BY <1>9 DEF BeginSync, IInv, EarnedEntries, OnePush
<1>10. ASSUME NEW s \in syncs, Answer(s) PROVE IInv'
  <2>1. owner \in Procs /\ EarnedEntries(store[owner]) /\ s \in Sync
    BY <1>10 DEF Answer, IInv, TypeOK
  <2>2. [s EXCEPT !.copy = store[owner]].copy = store[owner]
    BY <2>1 DEF Sync
  <2>3. \A r \in syncs' : r \in syncs \/ r.copy = store[owner]
    BY <1>10, <2>2 DEF Answer
  <2> QED BY <1>10, <2>1, <2>3 DEF Answer, IInv, EarnedEntries, OnePush
<1>11. ASSUME NEW s \in syncs, Fail(s) PROVE IInv'
  BY <1>11 DEF Fail, IInv, EarnedEntries, OnePush
<1>12. ASSUME NEW s \in syncs, Merge(s) PROVE IInv'
  <2>1. s.by \in Procs /\ EarnedEntries(s.copy)
    BY <1>12, AgesOf DEF Merge, IInv
  <2>2. \A p \in Procs, n \in Nodes :
            store'[p][n] = store[p][n] \/ (s.copy[n] # None /\ store'[p][n] = s.copy[n])
    BY <1>12, <2>1 DEF Merge, Merged, TypeOK, Entries
  <2>3. \A p \in Procs : EarnedEntries(store[p])'
    BY <1>12, <2>1, <2>2 DEF Merge, IInv, EarnedEntries
  <2> QED BY <1>12, <2>3 DEF Merge, IInv, EarnedEntries, OnePush
<1>13. CASE UNCHANGED vars
  BY <1>13 DEF vars, IInv, EarnedEntries, OnePush
<1> QED BY <1>1, <1>2, <1>3, <1>4, <1>5, <1>6, <1>7, <1>8, <1>9, <1>10, <1>11, <1>12, <1>13
        DEF Next, Handle

LEMMA Invariance == Spec => []IInv
<1>1. IInv /\ [Next]_vars => IInv'
  BY NextIInv
<1> QED BY <1>1, InitIInv, PTL DEF Spec

(* Every process's store is well-formed whatever threads overlap.          *)
THEOREM TypeCorrect == Spec => []TypeOK
<1>1. IInv => TypeOK
  BY DEF IInv
<1> QED BY <1>1, Invariance, PTL

(* A node that some process calls online was heard within the threshold,   *)
(* however its entry travelled from store to store.                        *)
THEOREM OnlineIsEarnedHolds == Spec => []OnlineIsEarned
<1>1. IInv => OnlineIsEarned
  <2> SUFFICES ASSUME IInv, NEW p \in Procs, NEW n \in Nodes,
                      store[p][n] # None, Status(store[p][n]) = "online"
               PROVE  Status(heard[n]) = "online"
    BY DEF OnlineIsEarned
  <2>1. store[p][n] \in Nat /\ heard[n] \in Nat /\ store[p][n] >= heard[n]
    BY AgesOf, Constants DEF IInv, EarnedEntries
  <2>2. store[p][n] <= OnlineThreshold
    BY DEF Status
  <2> QED BY <2>1, <2>2, Constants DEF Status
<1> QED BY <1>1, Invariance, PTL

(* A listener without a sync of its own never goes back to an older        *)
(* reading of a node, while no push is given up.                           *)
THEOREM ReadingsAdvanceHolds == Spec => ReadingsAdvance
<1>1. ASSUME IInv, [Next]_vars
      PROVE  [Tick \/ \A p \in Procs, n \in Nodes :
                  owner = p /\ givenUp = 0 /\ (\A s \in syncs : s.by # p)
                      => ~Regress(p, n)]_vars
  <2> SUFFICES ASSUME Next, ~Tick, NEW p \in Procs, NEW n \in Nodes,
                      owner = p, givenUp = 0, \A s \in syncs : s.by # p,
                      Regress(p, n)
               PROVE  FALSE
    BY <1>1
  <2>1. /\ store[p][n] \in Nat /\ heard[n] \in Nat /\ store[p][n] >= heard[n]
        /\ store'[p][n] # None /\ store'[p][n] > store[p][n]
    BY <1>1, AgesOf, Constants DEF Regress, IInv, EarnedEntries
  <2>2. store' # store
    BY <2>1
  <2>3. \/ \E r \in Procs : Exit(r)
        \/ \E q \in pushes : Update(q)
        \/ \E s \in syncs : Merge(s)
    BY <2>2 DEF Next, Handle, Expire, Listen, Shutdown, Send, Lose, GiveUp, Stamp,
                BeginSync, Answer, Fail
  <2>4. ASSUME NEW r \in Procs, Exit(r) PROVE FALSE
    <3>1. store'[p] = store[p] \/ store'[p] = Empty
      BY <2>4 DEF Exit, IInv, TypeOK
    <3> QED BY <2>1, <3>1 DEF Empty
  <2>5. ASSUME NEW q \in pushes, Update(q) PROVE FALSE
    <3>1. q.at \in Procs /\ q.node \in Nodes /\ q.now # None /\ q.now = heard[q.node]
      BY <1>1, <2>5, AgesOf DEF Update, IInv, OnePush
    <3>2. store'[p][n] = store[p][n] \/ (n = q.node /\ store'[p][n] = q.now)
      BY <1>1, <2>5, <3>1 DEF Update, IInv, TypeOK, Entries
    <3> QED BY <2>1, <3>1, <3>2
  <2>6. ASSUME NEW s \in syncs, Merge(s) PROVE FALSE
    <3>1. s.by # p /\ s.by \in Procs
      BY <1>1, AgesOf DEF IInv
    <3>2. store'[p] = store[p]
      BY <1>1, <2>6, <3>1 DEF Merge, IInv, TypeOK
    <3> QED BY <2>1, <3>2
  <2> QED BY <2>3, <2>4, <2>5, <2>6
<1> QED BY <1>1, Invariance, PTL DEF Spec, ReadingsAdvance
=============================================================================
