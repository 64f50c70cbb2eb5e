------------------------------ MODULE WebProofs ------------------------------
(***************************************************************************)
(* Proofs about the web dashboard. Of WebPage, for any endpoints and any   *)
(* number of polls and workers: there is one timer, and a tab goes back    *)
(* only when a poll is rendered that another one has overtaken. Of         *)
(* WebRules, whose names are apart from those of WebPage, for any number   *)
(* of threads, commands and saves: a response shows the rules whole if     *)
(* nothing in its process came between.                                    *)
(***************************************************************************)
EXTENDS WebPage, WebRules, SequenceTheorems, WellFoundedInduction, TLAPS

LEMMA Constants ==
  /\ "metrics" \in Endpoints /\ None \notin Nat /\ Reading \notin Nat /\ None # Reading
  /\ MaxPolls \in Nat /\ MaxWorkers \in Nat
  BY WebPageAssumption

(* pollTimer is the only interval there is.                                *)
Timer == mine = live /\ OneTimer

(* Neither what polls carry nor what is shown is ahead of the server, and  *)
(* what a poll carries is behind what is shown only if it was overtaken.   *)
Abreast ==
    /\ \A e \in Endpoints : tables[e] # None => tables[e] <= world[e]
    /\ \A k \in 1..MaxPolls, e \in Endpoints :
          polls[k] # None /\ polls[k].got[e] # None =>
             /\ polls[k].got[e] <= world[e]
             /\ e \notin polls[k].overtaken /\ tables[e] # None => tables[e] <= polls[k].got[e]

IInv == TypeOK /\ Timer /\ Abreast

LEMMA InitIInv == Init => IInv
<1> SUFFICES ASSUME Init PROVE IInv
  OBVIOUS
<1> USE Constants
<1>1. NewPoll("overview") \in Polls /\ Nothing \in [Endpoints -> Shown]
  BY DEF NewPoll, Nothing, Polls, Shown, Tabs
<1>2. TypeOK
  BY <1>1 DEF Init, TypeOK, Versions, Shown, Tabs
<1>3. Timer
  BY DEF Init, Timer, OneTimer
<1>4. Abreast
  BY DEF Init, Abreast, NewPoll, Nothing
<1> QED BY <1>2, <1>3, <1>4 DEF IInv

-----------------------------------------------------------------------------
(* Types.                                                                  *)

(* A poll that begins takes a free place, and the others go on.            *)
LEMMA FetchDataFills ==
  ASSUME TypeOK, NEW t \in Tabs, FetchData(t)
  PROVE  /\ polls' \in [1..MaxPolls -> Polls \cup {None}]
         /\ \A k \in 1..MaxPolls : polls'[k] = polls[k] \/ polls'[k] = NewPoll(t)
<1>1. NewPoll(t) \in Polls
  BY DEF NewPoll, Nothing, Polls, Shown
<1> QED BY <1>1 DEF FetchData, TypeOK

LEMMA NextTypeOK == TypeOK /\ Timer /\ [Next]_vars => TypeOK'
<1> SUFFICES ASSUME TypeOK, Timer, [Next]_vars PROVE TypeOK'
  OBVIOUS
<1> USE Constants
<1>1. ASSUME NEW t \in Tabs, SwitchTab(t) PROVE TypeOK'
  BY <1>1, FetchDataFills DEF SwitchTab, TypeOK, served, shown
<1>2. ASSUME NEW on \in BOOLEAN, SetupPolling(on) PROVE TypeOK'
  <2>1. timers' \in Nat
    BY <1>2 DEF SetupPolling, Cleared, Timer, OneTimer, TypeOK
  <2> QED BY <1>2, <2>1 DEF SetupPolling, TypeOK, served, shown
<1>3. CASE Fire
  <2>1. tab \in Tabs
    BY DEF TypeOK
  <2> QED BY <1>3, <2>1, FetchDataFills DEF Fire, TypeOK, served, control, shown
<1>4. ASSUME NEW k \in 1..MaxPolls, Render(k) PROVE TypeOK'
  <2> DEFINE q == polls[k]
  <2>1. q \in Polls
    BY <1>4 DEF Render, TypeOK
  <2>2. /\ tables' \in [Endpoints -> Shown] /\ cards' \in [Endpoints -> Shown]
        /\ temps' \in Shown
    BY <1>4, <2>1 DEF Render, Rendered, TypeOK, Polls
  <2>3. \A j \in 1..MaxPolls :
           polls[j] # None => [polls[j] EXCEPT !.overtaken = @ \cup (Asked(q.of) \cap Got(polls[j]))] \in Polls
    BY DEF TypeOK, Polls, Got
  <2>4. polls' \in [1..MaxPolls -> Polls \cup {None}]
    BY <1>4, <2>3 DEF Render
  <2> QED BY <1>4, <2>2, <2>4 DEF Render, TypeOK, served, control
<1>5. ASSUME NEW k \in 1..MaxPolls, AnswerMetrics(k) PROVE TypeOK'
  <2>1. due' \in BOOLEAN /\ worker' \in [1..MaxWorkers -> Shown \cup {Reading}]
    BY <1>5 DEF AnswerMetrics, CheckSensors, TypeOK
  <2>2. polls[k] \in Polls
    BY <1>5 DEF AnswerMetrics, Waits, TypeOK
  <2>3. polls' \in [1..MaxPolls -> Polls \cup {None}]
    BY <1>5, <2>2 DEF AnswerMetrics, TypeOK, Polls, Shown
  <2> QED BY <1>5, <2>1, <2>3 DEF AnswerMetrics, TypeOK, control, shown
<1>6. ASSUME NEW k \in 1..MaxPolls, NEW e \in Endpoints, Answer(k, e) PROVE TypeOK'
  <2>1. polls[k] \in Polls
    BY <1>6 DEF Answer, Waits, TypeOK
  <2>2. polls' \in [1..MaxPolls -> Polls \cup {None}]
    BY <1>6, <2>1 DEF Answer, TypeOK, Polls, Shown
  <2> QED BY <1>6, <2>2 DEF Answer, TypeOK, served, control, shown
<1>7. ASSUME NEW k \in 1..MaxPolls, NEW e \in Endpoints, Fail(k, e) PROVE TypeOK'
  <2>1. due' \in BOOLEAN /\ worker' \in [1..MaxWorkers -> Shown \cup {Reading}]
    BY <1>7 DEF Fail, CheckSensors, TypeOK
  <2> QED BY <1>7, <2>1 DEF Fail, TypeOK, control, shown
<1>8. ASSUME NEW w \in 1..MaxWorkers, WorkerRead(w) \/ WorkerPublish(w) \/ WorkerFail(w)
      PROVE  TypeOK'
  BY <1>8 DEF WorkerRead, WorkerPublish, WorkerFail, TypeOK, Versions, Shown, control, shown
<1>9. CASE Elapse
  BY <1>9 DEF Elapse, TypeOK, control, shown
<1>10. CASE Change
  BY <1>10 DEF Change, TypeOK, Versions, control, shown
<1>11. CASE UNCHANGED vars
  BY <1>11 DEF vars, TypeOK
<1> QED BY <1>1, <1>2, <1>3, <1>4, <1>5, <1>6, <1>7, <1>8, <1>9, <1>10, <1>11 DEF Next

-----------------------------------------------------------------------------
(* Only setupPolling touches the timer.                                    *)
LEMMA NextTimer == TypeOK /\ Timer /\ [Next]_vars => Timer'
<1> SUFFICES ASSUME TypeOK, Timer, [Next]_vars PROVE Timer'
  OBVIOUS
<1>1. ASSUME NEW on \in BOOLEAN, SetupPolling(on) PROVE Timer'
  BY <1>1 DEF SetupPolling, Cleared, Timer, OneTimer, TypeOK
<1>2. ASSUME UNCHANGED <<live, timers, mine>> PROVE Timer'
  BY <1>2 DEF Timer, OneTimer
<1> QED
  BY <1>1, <1>2 DEF Next, SwitchTab, Fire, Render, AnswerMetrics, Answer, Fail, WorkerRead,
                    WorkerPublish, WorkerFail, Elapse, Change, vars, control

(* Steps that leave the tables alone and at most begin or end polls.       *)
LEMMA PollsComeAndGo ==
  ASSUME TypeOK, Abreast, UNCHANGED <<world, tables>>,
         \A k \in 1..MaxPolls :
            polls'[k] = polls[k] \/ polls'[k] = None \/ \E t \in Tabs : polls'[k] = NewPoll(t)
  PROVE  Abreast'
<1>1. \A t \in Tabs : \A e \in Endpoints : NewPoll(t).got[e] = None
  BY DEF NewPoll, Nothing
<1> QED BY <1>1 DEF Abreast

(* A response is as new as anything shown or carried.                      *)
LEMMA AnswerAbreast ==
  ASSUME TypeOK, Abreast, NEW k \in 1..MaxPolls, NEW e \in Endpoints, polls[k] # None,
         UNCHANGED <<world, tables>>,
         \A j \in (1..MaxPolls) \ {k} : polls'[j] = polls[j],
         polls'[k].got = [polls[k].got EXCEPT ![e] = world[e]],
         polls'[k].overtaken = polls[k].overtaken
  PROVE  Abreast'
<1> USE Constants
<1>1. polls[k] \in Polls /\ polls[k].got \in [Endpoints -> Shown]
  BY DEF TypeOK, Polls
<1>2. \A d \in Endpoints : polls'[k].got[d] = IF d = e THEN world[e] ELSE polls[k].got[d]
  BY <1>1
<1>3. \A d \in Endpoints : world[d] \in Nat /\ tables[d] \in Nat \cup {None}
  BY DEF TypeOK, Versions, Shown
<1>4. \A d \in Endpoints : tables'[d] # None => tables'[d] <= world'[d]
  BY DEF Abreast
<1>5. ASSUME NEW j \in 1..MaxPolls, NEW d \in Endpoints, polls'[j] # None, polls'[j].got[d] # None
      PROVE  /\ polls'[j].got[d] <= world'[d]
             /\ d \notin polls'[j].overtaken /\ tables'[d] # None => tables'[d] <= polls'[j].got[d]
  <2>1. CASE j = k /\ d = e
    <3>1. polls'[j].got[d] = world'[d] /\ world'[d] \in Nat
      BY <1>2, <1>3, <2>1
    <3> QED BY <1>4, <3>1
  <2>2. CASE j = k /\ d # e
    BY <1>2, <1>5, <2>2 DEF Abreast
  <2>3. CASE j # k
    BY <1>5, <2>3 DEF Abreast
  <2> QED BY <2>1, <2>2, <2>3
<1> QED BY <1>4, <1>5 DEF Abreast

LEMMA NextAbreast == TypeOK /\ Abreast /\ [Next]_vars => Abreast'
<1> SUFFICES ASSUME TypeOK, Abreast, [Next]_vars PROVE Abreast'
  OBVIOUS
<1> USE Constants
<1>1. ASSUME NEW t \in Tabs, FetchData(t), UNCHANGED <<world, tables>> PROVE Abreast'
  BY <1>1, FetchDataFills, PollsComeAndGo
<1>2. ASSUME NEW k \in 1..MaxPolls, Render(k) PROVE Abreast'
  <2> DEFINE q == polls[k]
  <2>1. q \in Polls /\ \A e \in Endpoints : e \in Asked(q.of) => q.got[e] # None
    BY <1>2 DEF Render, Complete, Got, TypeOK
  <2>2. \A e \in Endpoints : tables'[e] = IF e \in Asked(q.of) THEN q.got[e] ELSE tables[e]
    BY <1>2 DEF Render, Rendered
  <2>3. ASSUME NEW j \in 1..MaxPolls, polls'[j] # None
        PROVE  /\ polls[j] # None /\ polls'[j].got = polls[j].got
               /\ polls'[j].overtaken = polls[j].overtaken \cup (Asked(q.of) \cap Got(polls[j]))
    <3>1. polls[j] # None /\ polls[j] \in Polls
      BY <1>2, <2>3 DEF Render, TypeOK
    <3> QED BY <1>2, <2>3, <3>1 DEF Render, Polls
  <2>4. UNCHANGED world
    BY <1>2 DEF Render, served
  <2>5. \A e \in Endpoints : tables'[e] # None => tables'[e] <= world'[e]
    BY <1>2, <2>1, <2>2, <2>4 DEF Abreast, Render
  <2>6. ASSUME NEW j \in 1..MaxPolls, NEW e \in Endpoints, polls'[j] # None, polls'[j].got[e] # None
        PROVE  /\ polls'[j].got[e] <= world'[e]
               /\ e \notin polls'[j].overtaken /\ tables'[e] # None => tables'[e] <= polls'[j].got[e]
    BY <2>2, <2>3, <2>4, <2>6 DEF Abreast, Got
  <2> QED BY <2>5, <2>6 DEF Abreast
<1>3. ASSUME NEW k \in 1..MaxPolls, AnswerMetrics(k) PROVE Abreast'
  <2>1. polls[k] # None /\ polls[k] \in Polls
    BY <1>3 DEF AnswerMetrics, Waits, TypeOK
  <2>2. /\ polls'[k].got = [polls[k].got EXCEPT !["metrics"] = world["metrics"]]
        /\ polls'[k].overtaken = polls[k].overtaken
        /\ \A j \in (1..MaxPolls) \ {k} : polls'[j] = polls[j]
    BY <1>3, <2>1 DEF AnswerMetrics, TypeOK, Polls
  <2> QED BY <1>3, <2>1, <2>2, AnswerAbreast DEF AnswerMetrics, shown
<1>4. ASSUME NEW k \in 1..MaxPolls, NEW e \in Endpoints, Answer(k, e) PROVE Abreast'
  <2>1. polls[k] # None /\ polls[k] \in Polls
    BY <1>4 DEF Answer, Waits, TypeOK
  <2>2. /\ polls'[k].got = [polls[k].got EXCEPT ![e] = world[e]]
        /\ polls'[k].overtaken = polls[k].overtaken
        /\ \A j \in (1..MaxPolls) \ {k} : polls'[j] = polls[j]
    BY <1>4, <2>1 DEF Answer, TypeOK, Polls
  <2> QED BY <1>4, <2>1, <2>2, AnswerAbreast DEF Answer, served, shown
<1>5. ASSUME NEW k \in 1..MaxPolls, NEW e \in Endpoints, Fail(k, e) PROVE Abreast'
  BY <1>5, PollsComeAndGo DEF Fail, TypeOK, shown
<1>6. CASE Change
  <2>1. \A e \in Endpoints : world[e] \in Nat /\ world'[e] \in Nat /\ world[e] <= world'[e]
    BY <1>6 DEF Change, TypeOK, Versions
  <2>2. \A e \in Endpoints : tables[e] \in Nat \cup {None}
    BY DEF TypeOK, Versions, Shown
  <2>3. \A k \in 1..MaxPolls, e \in Endpoints : polls[k] # None => polls[k].got[e] \in Nat \cup {None}
    BY DEF TypeOK, Polls, Versions, Shown
  <2>4. UNCHANGED <<polls, tables>>
    BY <1>6 DEF Change, shown
  <2> QED BY <2>1, <2>2, <2>3, <2>4 DEF Abreast
<1>7. ASSUME UNCHANGED <<world, polls, tables>> PROVE Abreast'
  BY <1>7 DEF Abreast
<1>8. tab \in Tabs
  BY DEF TypeOK
<1>9. ASSUME NEW t \in Tabs, SwitchTab(t) PROVE Abreast'
  BY <1>1, <1>9 DEF SwitchTab, served, shown
<1>10. CASE Fire
  BY <1>1, <1>8, <1>10 DEF Fire, served, shown
<1> QED
  BY <1>2, <1>3, <1>4, <1>5, <1>6, <1>7, <1>9, <1>10
     DEF Next, SetupPolling, WorkerRead, WorkerPublish, WorkerFail, Elapse, vars, served, shown

LEMMA Invariance == Spec => []IInv
<1>1. IInv /\ [Next]_vars => IInv'
  BY NextTypeOK, NextTimer, NextAbreast DEF IInv
<1> QED BY InitIInv, <1>1, PTL DEF Spec

-----------------------------------------------------------------------------
(* The page, the cache and the polls keep their types.                     *)
THEOREM TypeCorrect == Spec => []TypeOK
<1>1. IInv => TypeOK
  BY DEF IInv
<1> QED BY <1>1, Invariance, PTL

(* However often the interval is changed, one timer is set, or none while  *)
(* the page is paused.                                                     *)
THEOREM OneTimerHolds == Spec => []OneTimer
<1>1. IInv => OneTimer
  BY DEF IInv, Timer
<1> QED BY <1>1, Invariance, PTL

(* A tab goes back to an older state of the server only with a poll that   *)
(* was overtaken, for any number of polls that overlap.                    *)
THEOREM BackOnlyIfOvertakenHolds == Spec => BackOnlyIfOvertaken
<1>1. IInv /\ [Next]_vars =>
         [\A e \in Endpoints : StepsBack(e) => \E k \in 1..MaxPolls : Overtaken(k, e)]_vars
  <2> SUFFICES ASSUME IInv, [Next]_vars, NEW e \in Endpoints, StepsBack(e)
               PROVE  \E k \in 1..MaxPolls : Overtaken(k, e)
    OBVIOUS
  <2>1. tables[e] \in Nat
    BY DEF IInv, TypeOK, Versions, Shown, StepsBack
  <2>2. tables'[e] # tables[e]
    BY <2>1, Constants DEF StepsBack
  <2>3. PICK k \in 1..MaxPolls : Render(k)
    BY <2>2 DEF Next, SwitchTab, SetupPolling, Fire, AnswerMetrics, Answer, Fail, WorkerRead,
                WorkerPublish, WorkerFail, Elapse, Change, vars, shown
  <2>4. polls[k] # None /\ polls'[k] = None
    BY <2>3 DEF Render
  <2>5. e \in Asked(polls[k].of) /\ tables'[e] = polls[k].got[e] /\ polls[k].got[e] # None
    BY <2>2, <2>3 DEF Render, Rendered, Complete, Got
  <2>6. polls[k].got[e] \in Nat
    BY <2>4, <2>5 DEF IInv, TypeOK, Polls, Versions, Shown
  <2>7. e \in polls[k].overtaken
    BY <2>1, <2>4, <2>5, <2>6 DEF IInv, Abreast, StepsBack
  <2> QED BY <2>4, <2>7 DEF Overtaken
<1> QED BY <1>1, Invariance, PTL DEF Spec, BackOnlyIfOvertaken

-----------------------------------------------------------------------------
LEMMA RulesConstants == MaxOps \in Nat /\ MaxSaves \in Nat
  BY WebRulesAssumption

(* A set of numbers that is bounded has a greatest one.                    *)
LEMMA Greatest ==
  ASSUME NEW S, NEW n \in Nat, S \subseteq 0..n, S # {}
  PROVE  Max(S) \in S /\ \A y \in S : y <= Max(S)
<1> DEFINE T == {n - x : x \in S}
<1>1. T \subseteq Nat /\ T # {}
  <2>1. \A x \in S : n - x \in Nat
    OBVIOUS
  <2>2. PICK x \in S : TRUE
    OBVIOUS
  <2>3. n - x \in T
    BY <2>2
  <2> QED BY <2>1, <2>3
<1>2. PICK t \in T : \A u \in T : ~(<<u, t>> \in OpToRel(<, Nat))
  BY <1>1, WFMin, NatLessThanWellFounded
<1>3. PICK x \in S : t = n - x
  OBVIOUS
<1>4. \A y \in S : y <= x
  <2> SUFFICES ASSUME NEW y \in S PROVE y <= x
    OBVIOUS
  <2>1. n - y \in T /\ n - y \in Nat /\ t \in Nat
    BY <1>1
  <2>2. ~(n - y < t)
    BY <1>2, <2>1 DEF OpToRel
  <2> QED BY <1>3, <2>2
<1>5. \E z \in S : \A y \in S : z >= y
  BY <1>4
<1>6. Max(S) \in S /\ \A y \in S : Max(S) >= y
  BY <1>5, Zenon DEF Max
<1> QED BY <1>6

(* No rule has an id beyond the number of rules made.                      *)
Numbered(l) == \A i \in 1..Len(l) : l[i].id <= made

(* Wherever rules are kept. Within a save of the other process, one is yet *)
(* to be made.                                                             *)
Counted ==
    /\ Numbered(list) /\ Numbered(dump)
    /\ file # Truncated => Numbered(file)
    /\ \A h \in Handlers : Numbered(data[h])
    /\ command.rule.id <= made /\ (command.kind = "add" => command.rule.key <= made)
    /\ fpc = "pop" => command.at >= 1
    /\ made + (IF saving THEN 1 ELSE 0) <= 1 + ops + saves

IsPartOf(a, b) == Len(a) <= Len(b) /\ \A i \in 1..Len(a) : a[i] = b[i]

(* A request that is alone has the list to itself: before it clears it and *)
(* once it has extended it, the list is one that it may show, and so is    *)
(* what it parsed; what its response has is the beginning of the list.     *)
HasList ==
    /\ \A h \in Handlers : wpc[h] # "scan" => out[h] = <<>>
    /\ alone # {} => fpc = "idle" /\ (file # Truncated => file \in held)
    /\ \A h \in alone :
          /\ wpc[h] # "idle" /\ \A g \in Handlers \ {h} : wpc[g] = "idle"
          /\ wpc[h] # "extend" => list \in held
          /\ wpc[h] \in {"clear", "extend"} => data[h] \in held
          /\ wpc[h] = "extend" => list = <<>>
          /\ wpc[h] = "scan" => IsPartOf(out[h], list)

RulesInv == RulesTypeOK /\ Counted /\ HasList

LEMMA InitRulesInv == RulesInit => RulesInv
<1> SUFFICES ASSUME RulesInit PROVE RulesInv
  OBVIOUS
<1>1. MaxRules \in Nat /\ 1 \in 1..MaxRules
  BY RulesConstants DEF MaxRules
<1> DEFINE r == [id |-> 1, key |-> 1]
<1>2. r \in Rule
  BY <1>1 DEF Rule
<1>3. list = <<r>> /\ file = <<r>> /\ <<r>> \in Seq(Rule)
  BY <1>2 DEF RulesInit
<1>4. file[1] = r /\ Len(<<r>>) = 1
  BY <1>3
<1>5. command \in Command /\ command.rule.id = 1 /\ command.rule.key = 1
  BY <1>2, <1>4 DEF RulesInit, Command
<1>6. <<>> \in Seq(Rule)
  OBVIOUS
<1>7. RulesTypeOK
  <2>1. /\ list \in Seq(Rule) /\ file \in Seq(Rule) /\ dump \in Seq(Rule)
        /\ command \in Command
    BY <1>3, <1>5, <1>6 DEF RulesInit
  <2>2. data \in [Handlers -> Seq(Rule)] /\ out \in [Handlers -> Seq(Rule)]
    BY <1>6 DEF RulesInit
  <2>3. /\ wpc \in [Handlers -> {"idle", "load", "clear", "extend", "scan"}]
        /\ made \in 1..MaxRules /\ confirmed \subseteq 1..made
    BY <1>1 DEF RulesInit
  <2>4. alone \subseteq Handlers /\ (\A g, h \in alone : g = h) /\ (\A l \in held : l \in Seq(Rule))
    BY DEF RulesInit
  <2>5. fpc = "idle" /\ saving \in BOOLEAN
    BY DEF RulesInit
  <2>6. ops \in 0..MaxOps /\ saves \in 0..MaxSaves
    <3>1. ops = 0 /\ saves = 0
      BY DEF RulesInit
    <3> QED BY <3>1, RulesConstants
  <2> QED BY <2>1, <2>2, <2>3, <2>4, <2>5, <2>6 DEF RulesTypeOK
<1>8. Numbered(<<r>>) /\ Numbered(<<>>)
  BY <1>4 DEF Numbered, RulesInit
<1>9. Counted
  BY <1>3, <1>5, <1>8 DEF RulesInit, Counted
<1>10. HasList
  BY DEF RulesInit, HasList
<1> QED BY <1>7, <1>9, <1>10 DEF RulesInv

(* The id of a new rule is the next after those in the list.               *)
LEMMA NextIdNumbered ==
  ASSUME list \in Seq(Rule), Numbered(list), made \in Nat \ {0}
  PROVE  NextId \in 1..(made + 1)
<1> DEFINE S == {list[i].id : i \in 1..Len(list)}
<1>1. CASE list = <<>>
  BY <1>1 DEF NextId
<1>2. CASE list # <<>>
  <2>1. Len(list) \in Nat \ {0} /\ list[1] \in Rule
    BY <1>2
  <2>2. list[1].id \in S
    BY <2>1
  <2>3. \A i \in 1..Len(list) : list[i] \in Rule
    OBVIOUS
  <2>4. S \subseteq 0..made
    BY <2>3 DEF Numbered, Rule
  <2>5. Max(S) \in S
    BY <2>2, <2>4, Greatest
  <2>6. NextId = Max(S) + 1
    BY <1>2, Zenon DEF NextId
  <2>7. Max(S) \in 0..made
    BY <2>4, <2>5, Zenon
  <2> HIDE DEF S
  <2> QED BY <2>6, <2>7
<1> QED BY <1>1, <1>2

(* What is taken out leaves a list of rules that were there.               *)
LEMMA RemoveAtKeeps ==
  ASSUME NEW S, NEW l \in Seq(S), NEW i \in 1..Len(l)
  PROVE  /\ RemoveAt(l, i) \in Seq(S) /\ Len(RemoveAt(l, i)) = Len(l) - 1
         /\ \A j \in 1..(Len(l) - 1) : RemoveAt(l, i)[j] = l[IF j < i THEN j ELSE j + 1]
<1> DEFINE s == SubSeq(l, 1, i - 1)
           t == SubSeq(l, i + 1, Len(l))
<1>1. /\ s \in Seq(S) /\ Len(s) = i - 1 /\ \A j \in 1..(i - 1) : s[j] = l[j]
      /\ t \in Seq(S) /\ Len(t) = Len(l) - i /\ \A j \in 1..(Len(l) - i) : t[j] = l[i + j]
  <2>1. \A j \in 1..(i - 1) : l[j] \in S
    OBVIOUS
  <2>2. \A j \in (i + 1)..Len(l) : l[j] \in S
    OBVIOUS
  <2>3. s \in Seq(S) /\ Len(s) = i - 1 /\ \A j \in 1..(i - 1) : s[j] = l[j]
    BY <2>1, SubSeqProperties
  <2>4. t \in Seq(S) /\ Len(t) = Len(l) - i /\ \A j \in 1..(Len(l) - i) : t[j] = l[i + j]
    BY <2>2, SubSeqProperties
  <2> QED BY <2>3, <2>4
<1> HIDE DEF s, t
<1>2. /\ s \o t \in Seq(S) /\ Len(s \o t) = Len(l) - 1
      /\ \A j \in 1..(Len(l) - 1) : (s \o t)[j] = IF j <= i - 1 THEN s[j] ELSE t[j - (i - 1)]
  <2>1. /\ s \o t \in Seq(S) /\ Len(s \o t) = Len(s) + Len(t)
        /\ \A j \in 1..(Len(s) + Len(t)) :
              (s \o t)[j] = IF j <= Len(s) THEN s[j] ELSE t[j - Len(s)]
    BY <1>1, ConcatProperties
  <2>2. Len(s) + Len(t) = Len(l) - 1
    BY <1>1
  <2> QED BY <1>1, <2>1, <2>2
<1>3. ASSUME NEW j \in 1..(Len(l) - 1) PROVE (s \o t)[j] = l[IF j < i THEN j ELSE j + 1]
  <2>1. CASE j < i
    BY <1>1, <1>2, <2>1
  <2>2. CASE ~(j < i)
    <3>1. j - (i - 1) \in 1..(Len(l) - i) /\ i + (j - (i - 1)) = j + 1 /\ ~(j <= i - 1)
      BY <2>2
    <3> QED BY <1>1, <1>2, <2>2, <3>1
  <2> QED BY <2>1, <2>2
<1>4. RemoveAt(l, i) = s \o t
  BY DEF RemoveAt, s, t
<1> QED BY <1>2, <1>3, <1>4

LEMMA RulesNextTypeOK ==
  RulesTypeOK /\ Counted /\ [RulesNext]_rulesVars => RulesTypeOK'
<1> SUFFICES ASSUME RulesTypeOK, Counted, [RulesNext]_rulesVars
             PROVE  RulesTypeOK'
  OBVIOUS
<1> USE DEF frontEnd, handlers, other
<1>1. /\ MaxRules \in Nat /\ made \in 1..MaxRules /\ ops \in 0..MaxOps /\ saves \in 0..MaxSaves
      /\ MaxOps \in Nat /\ MaxSaves \in Nat /\ made <= 1 + ops + saves
      /\ saving => made + 1 <= 1 + ops + saves
  BY RulesConstants DEF MaxRules, RulesTypeOK, Counted
<1>2. CASE AddBegin
  <2>1. made + 1 \in 1..MaxRules
    BY <1>1, <1>2 DEF AddBegin, MaxRules
  <2>2. NextId \in 1..MaxRules
    <3>1. NextId \in 1..(made + 1)
      <4>1. list \in Seq(Rule) /\ Numbered(list)
        BY DEF Counted, RulesTypeOK
      <4>2. made \in Nat \ {0}
        BY <1>1
      <4> QED BY <4>1, <4>2, NextIdNumbered
    <3> QED BY <1>1, <2>1, <3>1
  <2>3. command' \in Command
    BY <1>2, <2>1, <2>2 DEF AddBegin, Command, Rule
  <2>4. ops' \in 0..MaxOps /\ confirmed' \subseteq 1..made'
    BY <1>1, <1>2 DEF AddBegin, RulesTypeOK
  <2>5. made' \in 1..MaxRules /\ alone' = {} /\ held' = {}
    BY <1>2, <2>1 DEF AddBegin, Overlap
  <2> QED BY <1>2, <2>3, <2>4, <2>5 DEF AddBegin, RulesTypeOK
<1>3. CASE AddAppend
  <2>1. command.rule \in Rule
    BY DEF RulesTypeOK, Command
  <2>2. list' \in Seq(Rule)
    BY <1>3, <2>1 DEF AddAppend, RulesTypeOK
  <2> QED BY <1>3, <2>2 DEF AddAppend, RulesTypeOK
<1>4. ASSUME NEW i \in 1..Len(list), StopFind(i) PROVE RulesTypeOK'
  <2>1. command' \in Command
    BY <1>4 DEF StopFind, RulesTypeOK, Command
  <2>2. ops' \in 0..MaxOps
    BY <1>1, <1>4 DEF StopFind
  <2> QED BY <1>4, <2>1, <2>2 DEF StopFind, RulesTypeOK, Overlap
<1>5. CASE StopPop
  <2>1. list' \in Seq(Rule)
    <3>1. CASE command.at <= Len(list)
      <4>1. command.at \in 1..Len(list)
        BY <1>5, <3>1 DEF StopPop, Counted, RulesTypeOK, Command
      <4> QED BY <1>5, <3>1, <4>1, RemoveAtKeeps DEF StopPop, RulesTypeOK
    <3> QED BY <1>5, <3>1 DEF StopPop, RulesTypeOK
  <2> QED BY <1>5, <2>1 DEF StopPop, RulesTypeOK
<1>6. CASE SaveOpen
  BY <1>6 DEF SaveOpen, Truncate, RulesTypeOK
<1>7. CASE SaveCollect
  <2>1. list[Len(dump) + 1] \in Rule
    BY <1>7 DEF SaveCollect, RulesTypeOK
  <2>2. dump' \in Seq(Rule)
    BY <1>7, <2>1 DEF SaveCollect, RulesTypeOK
  <2> QED BY <1>7, <2>2 DEF SaveCollect, RulesTypeOK
<1>8. CASE SaveWrite
  <2>1. command.kind = "add" => command.rule.key \in 1..made
    BY <1>1 DEF Counted, RulesTypeOK, Command, Rule
  <2>2. confirmed' \subseteq 1..made
    BY <1>8, <2>1 DEF SaveWrite, RulesTypeOK
  <2>3. file' = dump /\ dump' = <<>> /\ \A l \in held' : l \in Seq(Rule)
    BY <1>8 DEF SaveWrite, Store, RulesTypeOK
  <2>4. dump \in Seq(Rule) /\ <<>> \in Seq(Rule)
    BY DEF RulesTypeOK
  <2> QED BY <1>8, <2>2, <2>3, <2>4 DEF SaveWrite, RulesTypeOK
<1>9. CASE OtherOpen
  BY <1>1, <1>9 DEF OtherOpen, Truncate, RulesTypeOK
<1>10. CASE OtherWrite
  <2>1. PICK l \in {<<>>, <<[id |-> 1, key |-> made + 1]>>} : Store(l)
    BY <1>10 DEF OtherWrite
  <2>2. made + 1 \in 1..MaxRules /\ 1 \in 1..MaxRules
    BY <1>1, <1>10 DEF OtherWrite, MaxRules
  <2>3. [id |-> 1, key |-> made + 1] \in Rule
    BY <2>2 DEF Rule
  <2>4. l \in Seq(Rule)
    <3>1. <<>> \in Seq(Rule) /\ <<[id |-> 1, key |-> made + 1]>> \in Seq(Rule)
      BY <2>3
    <3> QED BY <3>1
  <2>5. /\ file' \in Seq(Rule) /\ \A k \in held' : k \in Seq(Rule)
    BY <2>1, <2>4 DEF Store, RulesTypeOK
  <2>6. made' \in 1..MaxRules /\ confirmed' \subseteq 1..made'
    BY <1>1, <1>10, <2>2 DEF OtherWrite, RulesTypeOK
  <2> QED BY <1>10, <2>5, <2>6 DEF OtherWrite, RulesTypeOK
<1>11. ASSUME NEW h \in Handlers, Request(h) PROVE RulesTypeOK'
  BY <1>11 DEF Request, Overlap, At, RulesTypeOK
<1>12. ASSUME NEW h \in Handlers, Parse(h) PROVE RulesTypeOK'
  BY <1>12 DEF Parse, Readable, At, RulesTypeOK
<1>13. ASSUME NEW h \in Handlers, Clear(h) PROVE RulesTypeOK'
  BY <1>13 DEF Clear, Emptied, At, RulesTypeOK
<1>14. ASSUME NEW h \in Handlers, Extend(h) PROVE RulesTypeOK'
  <2>1. list' \in Seq(Rule)
    BY <1>14, ConcatProperties DEF Extend, RulesTypeOK
  <2> QED BY <1>14, <2>1 DEF Extend, At, RulesTypeOK
<1>15. ASSUME NEW h \in Handlers, Scan(h) PROVE RulesTypeOK'
  <2>1. list[Len(out[h]) + 1] \in Rule
    BY <1>15 DEF Scan, RulesTypeOK
  <2>2. out' \in [Handlers -> Seq(Rule)]
    BY <1>15, <2>1 DEF Scan, RulesTypeOK
  <2> QED BY <1>15, <2>2 DEF Scan, RulesTypeOK
<1>16. ASSUME NEW h \in Handlers, Respond(h) PROVE RulesTypeOK'
  BY <1>16 DEF Respond, Overlap, At, RulesTypeOK
<1>17. CASE UNCHANGED rulesVars
  BY <1>17 DEF rulesVars, RulesTypeOK
<1> QED
  BY <1>2, <1>3, <1>4, <1>5, <1>6, <1>7, <1>8, <1>9, <1>10, <1>11, <1>12, <1>13, <1>14, <1>15,
     <1>16, <1>17 DEF RulesNext, FrontEnd, Other, Handle

(* Whatever is added, taken out, parsed or saved, no rule is beyond those  *)
(* that were made.                                                         *)
LEMMA RulesNextCounted ==
  RulesTypeOK /\ Counted /\ [RulesNext]_rulesVars => Counted'
<1> SUFFICES ASSUME RulesTypeOK, Counted, [RulesNext]_rulesVars
             PROVE  Counted'
  OBVIOUS
<1> USE DEF frontEnd, handlers, other
<1>1. /\ made \in Nat /\ made >= 1 /\ ops \in Nat /\ saves \in Nat /\ saving \in BOOLEAN
      /\ list \in Seq(Rule) /\ dump \in Seq(Rule)
      /\ data \in [Handlers -> Seq(Rule)] /\ command \in Command
      /\ command.rule \in Rule
  BY DEF RulesTypeOK, Command
<1>2. \A l \in Seq(Rule) : \A i \in 1..Len(l) : l[i].id \in Nat
  <2>1. \A l \in Seq(Rule) : \A i \in 1..Len(l) : l[i] \in Rule
    OBVIOUS
  <2> QED BY <2>1 DEF Rule
<1>3. CASE AddBegin
  <2>1. NextId \in 1..(made + 1)
    BY <1>1, NextIdNumbered DEF Counted
  <2>2. made' = made + 1 /\ command'.rule.id <= made' /\ command'.rule.key <= made'
    BY <1>1, <1>3, <2>1 DEF AddBegin
  <2>3. \A l \in Seq(Rule) : Numbered(l) => Numbered(l)'
    BY <1>1, <1>2, <2>2 DEF Numbered
  <2>4. file # Truncated => file \in Seq(Rule)
    BY DEF RulesTypeOK
  <2> QED BY <1>1, <1>3, <2>2, <2>3, <2>4 DEF AddBegin, Counted
<1>4. CASE AddAppend
  <2>1. Numbered(list)'
    BY <1>1, <1>4 DEF AddAppend, Numbered, Counted
  <2> QED BY <1>4, <2>1 DEF AddAppend, Numbered, Counted
<1>5. ASSUME NEW i \in 1..Len(list), StopFind(i) PROVE Counted'
  <2>1. list[i].id <= made /\ list[i] \in Rule
    BY <1>1 DEF Counted, Numbered
  <2>2. command' = [kind |-> "stop", rule |-> list[i], at |-> i]
    BY <1>5 DEF StopFind
  <2>3. command'.rule.id <= made /\ command'.kind = "stop" /\ command'.at >= 1
    BY <2>1, <2>2
  <2> QED BY <1>1, <1>5, <2>3 DEF StopFind, Numbered, Counted
<1>6. CASE StopPop
  <2>1. Numbered(list)'
    <3>1. CASE command.at <= Len(list)
      <4>1. command.at \in 1..Len(list)
        BY <1>1, <1>6, <3>1 DEF StopPop, Counted, Command
      <4>2. list \in Seq(Rule)
        BY <1>1
      <4>3. /\ Len(RemoveAt(list, command.at)) = Len(list) - 1
            /\ \A j \in 1..(Len(list) - 1) : RemoveAt(list, command.at)[j]
                    = list[IF j < command.at THEN j ELSE j + 1]
        BY <4>1, <4>2, RemoveAtKeeps
      <4>4. Numbered(RemoveAt(list, command.at))
        BY <4>1, <4>2, <4>3 DEF Numbered, Counted
      <4> QED BY <1>6, <3>1, <4>4 DEF StopPop, Numbered
    <3> QED BY <1>6, <3>1 DEF StopPop, Numbered, Counted
  <2> QED BY <1>6, <2>1 DEF StopPop, Numbered, Counted
<1>7. CASE SaveOpen
  BY <1>7 DEF SaveOpen, Truncate, Numbered, Counted
<1>8. CASE SaveCollect
  <2>1. Numbered(dump)'
    BY <1>1, <1>8 DEF SaveCollect, Numbered, Counted
  <2> QED BY <1>8, <2>1 DEF SaveCollect, Numbered, Counted
<1>9. CASE SaveWrite
  BY <1>9 DEF SaveWrite, Store, Numbered, Counted
<1>10. CASE OtherOpen
  BY <1>1, <1>10 DEF OtherOpen, Truncate, Numbered, Counted
<1>11. CASE OtherWrite
  <2>1. PICK l \in {<<>>, <<[id |-> 1, key |-> made + 1]>>} : Store(l)
    BY <1>11 DEF OtherWrite
  <2>2. made' = made + 1 /\ file' = l
    BY <1>11, <2>1 DEF OtherWrite, Store
  <2>3. Numbered(file)'
    BY <1>1, <2>2 DEF Numbered
  <2>4. \A k \in Seq(Rule) : Numbered(k) => Numbered(k)'
    BY <1>1, <1>2, <2>2 DEF Numbered
  <2>5. made' + (IF saving' THEN 1 ELSE 0) <= 1 + ops + saves
    BY <1>1, <1>11, <2>2 DEF OtherWrite, Counted
  <2>6. command.rule.id <= made' /\ (command.kind = "add" => command.rule.key <= made')
    BY <1>1, <2>2 DEF Counted, Rule
  <2> QED BY <1>1, <1>11, <2>3, <2>4, <2>5, <2>6 DEF OtherWrite, Counted
<1>12. ASSUME NEW h \in Handlers, Request(h) \/ Scan(h) PROVE Counted'
  BY <1>12 DEF Request, Scan, Numbered, Counted
<1>13. ASSUME NEW h \in Handlers, Parse(h) PROVE Counted'
  BY <1>1, <1>13 DEF Parse, Readable, Numbered, Counted
<1>14. ASSUME NEW h \in Handlers, Clear(h) PROVE Counted'
  BY <1>14 DEF Clear, Emptied, Numbered, Counted
<1>15. ASSUME NEW h \in Handlers, Extend(h) PROVE Counted'
  <2>1. data[h] \in Seq(Rule) /\ list' = list \o data[h]
    BY <1>1, <1>15 DEF Extend
  <2>2. /\ Len(list \o data[h]) = Len(list) + Len(data[h])
        /\ \A i \in 1..(Len(list) + Len(data[h])) :
              (list \o data[h])[i] = IF i <= Len(list) THEN list[i] ELSE data[h][i - Len(list)]
    BY <1>1, <2>1, ConcatProperties
  <2>3. \A i \in 1..Len(list) : list[i].id <= made
    BY DEF Counted, Numbered
  <2>4. \A i \in 1..Len(data[h]) : data[h][i].id <= made
    BY DEF Counted, Numbered
  <2>5. Numbered(list \o data[h])
    <3> DEFINE l == list \o data[h]
    <3>1. ASSUME NEW i \in 1..(Len(list) + Len(data[h])) PROVE l[i].id <= made
      <4>1. CASE i <= Len(list)
        BY <1>1, <2>2, <2>3, <4>1
      <4>2. CASE ~(i <= Len(list))
        <5>1. i - Len(list) \in 1..Len(data[h])
          BY <1>1, <2>1, <4>2
        <5> QED BY <2>2, <2>4, <4>2, <5>1
      <4> QED BY <4>1, <4>2
    <3> QED BY <2>2, <3>1 DEF Numbered
  <2>6. Numbered(list)'
    BY <1>15, <2>1, <2>5 DEF Extend, Numbered
  <2> QED BY <1>15, <2>6 DEF Extend, Numbered, Counted
<1>16. ASSUME NEW h \in Handlers, Respond(h) PROVE Counted'
  BY <1>1, <1>16 DEF Respond, Numbered, Counted
<1>17. CASE UNCHANGED rulesVars
  BY <1>17 DEF rulesVars, Numbered, Counted
<1> QED
  BY <1>3, <1>4, <1>5, <1>6, <1>7, <1>8, <1>9, <1>10, <1>11, <1>12, <1>13, <1>14, <1>15,
     <1>16, <1>17 DEF RulesNext, FrontEnd, Other, Handle

-----------------------------------------------------------------------------
(* A request keeps the list to itself as long as it is alone.              *)
LEMMA RulesNextHasList ==
  RulesTypeOK /\ HasList /\ [RulesNext]_rulesVars => HasList'
<1> SUFFICES ASSUME RulesTypeOK, HasList, [RulesNext]_rulesVars
             PROVE  HasList'
  OBVIOUS
<1> USE DEF frontEnd, handlers, other
<1>1. /\ list \in Seq(Rule) /\ data \in [Handlers -> Seq(Rule)]
      /\ out \in [Handlers -> Seq(Rule)]
      /\ wpc \in [Handlers -> {"idle", "load", "clear", "extend", "scan"}]
      /\ alone \subseteq Handlers /\ \A g, h \in alone : g = h
  BY DEF RulesTypeOK
<1>2. CASE AddBegin \/ \E i \in 1..Len(list) : StopFind(i)
  BY <1>2 DEF AddBegin, StopFind, Overlap, HasList
<1>3. CASE AddAppend \/ StopPop \/ SaveOpen \/ SaveCollect \/ SaveWrite
  <2>1. alone = {} /\ alone' = {} /\ UNCHANGED <<wpc, out>>
    BY <1>3 DEF AddAppend, StopPop, SaveOpen, SaveCollect, SaveWrite, HasList
  <2> QED BY <2>1 DEF HasList
<1>4. CASE OtherOpen
  BY <1>4 DEF OtherOpen, Truncate, HasList, IsPartOf
<1>5. CASE OtherWrite
  <2>1. file' \in held' \/ alone = {}
    BY <1>5 DEF OtherWrite, Store
  <2>2. held \subseteq held' \/ alone = {}
    BY <1>5 DEF OtherWrite, Store
  <2> QED BY <1>5, <2>1, <2>2 DEF OtherWrite, HasList, IsPartOf
<1>6. ASSUME NEW h \in Handlers, Request(h) PROVE HasList'
  <2>1. /\ wpc[h] = "idle" /\ wpc' = [wpc EXCEPT ![h] = "load"] /\ out[h] = <<>>
        /\ UNCHANGED <<list, file, fpc, data, out>>
    BY <1>6 DEF Request, At, HasList
  <2>2. \A g \in Handlers : wpc'[g] # "scan" => out'[g] = <<>>
    BY <1>1, <2>1 DEF HasList
  <2>3. CASE fpc = "idle" /\ \A g \in Handlers : wpc[g] = "idle"
    <3>1. alone' = {h} /\ list \in held' /\ (file # Truncated => file \in held')
      BY <1>6, <2>3 DEF Request
    <3> QED BY <1>1, <2>1, <2>2, <2>3, <3>1 DEF HasList
  <2>4. CASE ~(fpc = "idle" /\ \A g \in Handlers : wpc[g] = "idle")
    BY <1>6, <2>2, <2>4 DEF Request, Overlap, HasList
  <2> QED BY <2>3, <2>4
<1>7. ASSUME NEW h \in Handlers, Parse(h) PROVE HasList'
  BY <1>1, <1>7 DEF Parse, Readable, Wanted, At, HasList, IsPartOf
<1>8. ASSUME NEW h \in Handlers, Clear(h) PROVE HasList'
  BY <1>1, <1>8 DEF Clear, Emptied, At, HasList, IsPartOf
<1>9. ASSUME NEW h \in Handlers, Extend(h) PROVE HasList'
  <2>1. data[h] \in Seq(Rule) /\ <<>> \o data[h] = data[h]
    BY <1>1, ConcatEmptySeq
  <2>2. ASSUME NEW g \in alone PROVE g = h /\ list' = data[h] /\ data[h] \in held /\ out[h] = <<>>
    BY <1>1, <1>9, <2>1, <2>2 DEF Extend, At, HasList
  <2>3. /\ wpc[h] = "extend" /\ wpc' = [wpc EXCEPT ![h] = "scan"]
        /\ UNCHANGED <<file, fpc, data, out, alone, held>>
    BY <1>9 DEF Extend, At
  <2>4. \A g \in Handlers : wpc'[g] = IF g = h THEN "scan" ELSE wpc[g]
    BY <1>1, <2>3
  <2>5. IsPartOf(<<>>, data[h])
    BY <2>1 DEF IsPartOf
  <2>6. ASSUME NEW g \in alone PROVE list' \in held' /\ IsPartOf(out'[g], list')
    BY <2>2, <2>3, <2>5, <2>6
  <2> QED BY <2>2, <2>3, <2>4, <2>6 DEF HasList
<1>10. ASSUME NEW h \in Handlers, Scan(h) PROVE HasList'
  <2>1. out' = [out EXCEPT ![h] = Append(out[h], list[Len(out[h]) + 1])]
    BY <1>10 DEF Scan
  <2>2. IsPartOf(out[h], list) => IsPartOf(out'[h], list)
    BY <1>1, <1>10, <2>1 DEF Scan, IsPartOf
  <2>3. \A g \in alone : g = h
    BY <1>1, <1>10 DEF Scan, HasList
  <2> QED BY <1>1, <1>10, <2>1, <2>2, <2>3 DEF Scan, HasList, IsPartOf
<1>11. ASSUME NEW h \in Handlers, Respond(h) PROVE HasList'
  BY <1>1, <1>11 DEF Respond, Overlap, At, HasList
<1>12. CASE UNCHANGED rulesVars
  BY <1>12 DEF rulesVars, HasList, IsPartOf
<1> QED
  BY <1>2, <1>3, <1>4, <1>5, <1>6, <1>7, <1>8, <1>9, <1>10, <1>11, <1>12
     DEF RulesNext, FrontEnd, Other, Handle

LEMMA RulesInvariance == RulesSpec => []RulesInv
<1>1. RulesInv /\ [RulesNext]_rulesVars => RulesInv'
  BY RulesNextTypeOK, RulesNextCounted, RulesNextHasList DEF RulesInv
<1>2. RulesInit => RulesInv
  BY InitRulesInv
<1> QED BY <1>1, <1>2, PTL DEF RulesSpec

(* The list, the file and the threads' copies of it keep their types, and  *)
(* ids stay within the number of rules made.                               *)
THEOREM RulesTypeCorrect == RulesSpec => []RulesTypeOK
<1>1. RulesInv => RulesTypeOK
  BY DEF RulesInv
<1> QED BY <1>1, RulesInvariance, PTL

(* For any number of threads, commands and saves: a request that no other  *)
(* one and no command overlapped shows the rules as they were at some time *)
(* of it, whatever another process saves meanwhile.                        *)
THEOREM ResponsesAreWholeHolds == RulesSpec => ResponsesAreWhole
<1>1. RulesInv => [\A h \in alone : Respond(h) => out[h] \in held]_rulesVars
  <2> SUFFICES ASSUME RulesInv, NEW h \in alone, Respond(h) PROVE out[h] \in held
    OBVIOUS
  <2>1. h \in Handlers /\ list \in Seq(Rule) /\ out[h] \in Seq(Rule)
    BY DEF RulesInv, RulesTypeOK
  <2>2. list \in held /\ IsPartOf(out[h], list) /\ Len(out[h]) >= Len(list)
    BY <2>1 DEF RulesInv, HasList, Respond, At
  <2>3. Len(out[h]) = Len(list) /\ \A i \in 1..Len(out[h]) : out[h][i] = list[i]
    BY <2>1, <2>2 DEF IsPartOf
  <2>4. out[h] = list
    BY <2>1, <2>3, SeqEqual
  <2> QED BY <2>2, <2>4
<1> QED BY <1>1, RulesInvariance, PTL DEF ResponsesAreWhole
=============================================================================
