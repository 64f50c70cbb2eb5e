------------------------------ MODULE MCFleet ------------------------------
(***************************************************************************)
(* An EC2 instance and a machine with the same host name, which is a part  *)
(* of the instance-id.                                                     *)
(***************************************************************************)
EXTENDS Fleet

CONSTANTS m1, m2, i1, h1

MCNodeId == [m \in Machines |-> None]
MCInstance == m1 :> i1 @@ m2 :> None
MCHost == [m \in Machines |-> h1]
MCPartOf == h1 :> {i1} @@ i1 :> {}
=============================================================================
