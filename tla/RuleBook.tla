------------------------------ MODULE RuleBook ------------------------------
(***************************************************************************)
(* What a user is promised of the alert rules: they are one list, which    *)
(* changes by one rule at a time, and a watcher that comes and goes knows  *)
(* none of them or all that there were at one time, never a part.          *)
(***************************************************************************)
EXTENDS Naturals

CONSTANT Rule  \* rules, with an id

VARIABLES
    book,     \* the rules
    awake,    \* the watcher runs
    watched   \* the rules it watches

bookVars == <<book, awake, watched>>

Init == book = {} /\ awake = FALSE /\ watched = {}

(* A new rule comes after all others.                                      *)
Add ==
    /\ \E r \in Rule :
          /\ \A s \in book : s.id < r.id
          /\ book' = book \cup {r}
    /\ UNCHANGED <<awake, watched>>

Stop ==
    /\ \E r \in book : book' = book \ {r}
    /\ UNCHANGED <<awake, watched>>

Wake == ~awake /\ awake' = TRUE /\ watched' = {} /\ UNCHANGED book

Watch == awake /\ watched' = book /\ UNCHANGED <<book, awake>>

Fall == awake /\ awake' = FALSE /\ watched' = {} /\ UNCHANGED book

Next == Add \/ Stop \/ Wake \/ Watch \/ Fall

Spec == Init /\ [][Next]_bookVars
=============================================================================
