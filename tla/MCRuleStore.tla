---------------------------- MODULE MCRuleStore ----------------------------
(***************************************************************************)
(* Small instances of RuleStore. Users leave the name out or name a rule   *)
(* "1", which is also the identifier of the rule with id 1.                *)
(***************************************************************************)
EXTENDS RuleStore, Sequences, TLC

MCIdText == [i \in 1..MaxId |-> ToString(i)]
MCDefaultName == [i \in 1..MaxId |-> "rule_" \o ToString(i)]
MCNames == {"1", NoName}
MCTexts == {MCIdText[i] : i \in 1..MaxId} \cup {MCDefaultName[i] : i \in 1..MaxId}
=============================================================================
