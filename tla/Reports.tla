------------------------------ MODULE Reports ------------------------------
(***************************************************************************)
(* What the readers of a fleet's store are promised: there is one report   *)
(* of each name, the last that an agent of that name pushed, as old as     *)
(* that push is; and the alarm goes by a latest of the reports that are    *)
(* recent and have the metric.                                             *)
(***************************************************************************)
EXTENDS Naturals

CONSTANTS Machines, Ids, None, Readings, Old, OnlineThreshold

VARIABLES
    agent,  \* agent[m]: the name under which m reports, None while it does not
    last,   \* last[i]: the report of i, None before the first one
    armed   \* the alarm has not gone off since a low reading

reportsVars == <<agent, last, armed>>

Init ==
    /\ agent = [m \in Machines |-> None]
    /\ last = [i \in Ids |-> None]
    /\ armed = TRUE

Take(m) ==
    /\ agent[m] = None
    /\ \E i \in Ids : agent' = [agent EXCEPT ![m] = i]
    /\ UNCHANGED <<last, armed>>

Drop(m) ==
    /\ agent[m] # None
    /\ agent' = [agent EXCEPT ![m] = None]
    /\ UNCHANGED <<last, armed>>

Report(m) ==
    /\ agent[m] # None
    /\ last'[agent[m]] \in [age : {0}, disk : Readings, of : {m}]
    /\ \A i \in Ids \ {agent[m]} : last'[i] = last[i]
    /\ UNCHANGED <<agent, armed>>

Older(r) == IF r = None \/ r.age = Old THEN r ELSE [r EXCEPT !.age = @ + 1]

Pass == (\A i \in Ids : last'[i] = Older(last[i])) /\ UNCHANGED <<agent, armed>>

Telling == {i \in Ids : last[i] # None /\ last[i].age <= OnlineThreshold /\ last[i].disk # "none"}

Judge ==
    /\ \E i \in Telling :
          /\ \A j \in Telling : last[i].age <= last[j].age
          /\ armed' = (last[i].disk = "low")
    /\ UNCHANGED <<agent, last>>

Next == (\E m \in Machines : Take(m) \/ Drop(m) \/ Report(m)) \/ Pass \/ Judge

Spec == Init /\ [][Next]_reportsVars
=============================================================================
