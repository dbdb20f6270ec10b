---------------------------- MODULE CallSession ----------------------------
(***************************************************************************)
(* What sawzall::Process promises of a session of function calls: the      *)
(* legal transitions of DoCallState (src/src/public/sawzall.h), together   *)
(* with the outcome of a call as the client sees it.  The interpreter, the *)
(* stack and the heap are not part of it.                                  *)
(***************************************************************************)
VARIABLES
  phase,   \* DoCallState
  outcome  \* of the call: "none" yet, "result" or "error"

Init == phase = "UNINITIALIZED" /\ outcome = "none"

SetupInitialization == phase = "UNINITIALIZED" /\ phase' = "ILLEGAL" /\ outcome' = "none"
InitializeDoCalls   == phase = "UNINITIALIZED" /\ phase' = "INITIALIZED" /\ outcome' = "none"
SetupCall == phase \in {"INITIALIZED", "FINISHED"} /\ phase' = "SETUP" /\ outcome' = "none"

\* A call ends with a result or an error, at once or in instalments.
DoCall == phase = "SETUP" /\ phase' = "CALLED" /\ outcome' \in {"result", "error"}
StartCall == phase = "SETUP" /\ phase' = "STARTED" /\ outcome' \in {"none", "error"}
ContinueCall == /\ phase \in {"STARTED", "CONTINUED"} /\ phase' = "CONTINUED"
                /\ IF outcome = "none" THEN outcome' \in {"none", "result", "error"}
                                       ELSE UNCHANGED outcome

\* A session can be ended at any time, and the next one starts afresh.
FinishCall == /\ phase \in {"SETUP", "CALLED", "STARTED", "CONTINUED"}
              /\ phase' = "FINISHED" /\ outcome' = "none"

Next == \/ SetupInitialization \/ InitializeDoCalls \/ SetupCall \/ DoCall
        \/ StartCall \/ ContinueCall \/ FinishCall
Spec == Init /\ [][Next]_<<phase, outcome>>
=============================================================================
