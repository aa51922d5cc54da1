------------------------- MODULE ExecutionContract -------------------------
(***************************************************************************)
(* What the control plane promises to the one who created an execution:    *)
(* it is open until it settles, it settles once, SUCCEEDED names an output *)
(* that a run of the task sent to the end, and what execution_status       *)
(* answers from then on is final.                                          *)
(***************************************************************************)
CONSTANTS
    Run,            \* deliveries of the task
    NoRun

VARIABLES
    phase,          \* "none", "open" or "settled"
    outcome,        \* the final status and the run of the recorded output
    offered         \* runs that sent their output to the end

cvars == <<phase, outcome, offered>>

ContractInit == phase = "none" /\ outcome = <<"none", NoRun>> /\ offered = {}

Create ==
    /\ phase = "none" /\ phase' = "open"
    /\ UNCHANGED <<outcome, offered>>

Offer(r) ==
    /\ offered' = offered \cup {r}
    /\ UNCHANGED <<phase, outcome>>

Settle ==
    /\ phase = "open" /\ phase' = "settled"
    /\ outcome' \in ({"FAILED", "TRANSFER_FAILED"} \X {NoRun}) \cup ({"SUCCEEDED"} \X offered)
    /\ UNCHANGED offered

ContractNext == Create \/ Settle \/ \E r \in Run : Offer(r)

ContractSpec == ContractInit /\ [][ContractNext]_cvars
=============================================================================
