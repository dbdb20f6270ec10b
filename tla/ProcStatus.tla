----------------------------- MODULE ProcStatus -----------------------------
(***************************************************************************)
(* What Proc promises of its execution status (the state diagram in the    *)
(* comment of enum Status, src/src/engine/proc.h).                         *)
(***************************************************************************)
VARIABLE status

Init == status = "TERMINATED"

\* RUNNING => via Execute() => SUSPENDED | TRAPPED | TERMINATED | FAILED
Leave == /\ status = "RUNNING"
         /\ status' \in {"SUSPENDED", "TRAPPED", "TERMINATED", "FAILED"}

\* TRAPPED => via Execute() => SUSPENDED | FAILED
Handle == status = "TRAPPED" /\ status' \in {"SUSPENDED", "FAILED"}

\* SUSPENDED => Execute() => RUNNING
Resume == status = "SUSPENDED" /\ status' = "RUNNING"

\* TERMINATED | FAILED => SetupInitialization() | SetupRun() => SUSPENDED
Setup == status \in {"TERMINATED", "FAILED"} /\ status' = "SUSPENDED"

Next == Leave \/ Handle \/ Resume \/ Setup
Spec == Init /\ [][Next]_status
=============================================================================
