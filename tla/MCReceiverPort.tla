--------------------------- MODULE MCReceiverPort ---------------------------
(***************************************************************************)
(* Small instances of ReceiverPort: a process is named after its program,  *)
(* and a second receiver program "rival" is asked for a port that web      *)
(* servers try.                                                            *)
(***************************************************************************)
EXTENDS ReceiverPort

MCProcs == {"receiver", "rival", "cli", "web", "dashboard", "silent", "service"}
MCServing == {"cli", "web", "dashboard"}
MCFewProcs == {"receiver", "cli", "quiet", "web", "dashboard"}
MCFewServing == {"cli", "web"}
MCProgram == [p \in Procs |-> IF p = "rival" THEN "receiver" ELSE p]

(* A receiver and two strangers on 8081, the rival on the second web port, *)
(* everyone else on 8080; or the CLI alone on 8081.                        *)
MCAskedPort == [p \in Procs |-> IF p \in {"receiver", "silent", "service"} THEN 8081
                                ELSE IF p = "rival" THEN 5001 ELSE 8080]
MCCrossedPort == [p \in Procs |-> IF p = "cli" THEN 8081 ELSE 8080]
=============================================================================
