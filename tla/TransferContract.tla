-------------------------- MODULE TransferContract --------------------------
(***************************************************************************)
(* What a chunked transfer promises to the one who waits for it: either    *)
(* the wait is given up, or exactly one of the payloads that were sent to  *)
(* the end is delivered, whole.  The design leaves open which of several   *)
(* transfers answers a request.                                            *)
(***************************************************************************)
CONSTANTS
    Receiver,       \* who waits
    Payload         \* what may be sent

VARIABLES
    offered,        \* payloads sent from DATA_START to DATA_END
    outcome,        \* of each receiver's wait
    delivered       \* the payloads each receiver was handed

cvars == <<offered, outcome, delivered>>

ContractInit ==
    /\ offered = {}
    /\ outcome = [w \in Receiver |-> "waiting"]
    /\ delivered = [w \in Receiver |-> {}]

Offer(p) ==
    /\ offered' = offered \cup {p}
    /\ UNCHANGED <<outcome, delivered>>

Accept(w, p) ==
    /\ outcome[w] = "waiting"
    /\ p \in offered
    /\ outcome' = [outcome EXCEPT ![w] = "received"]
    /\ delivered' = [delivered EXCEPT ![w] = {p}]
    /\ UNCHANGED offered

(* Several at once, as when their connections go *)
GiveUp(W) ==
    /\ \A w \in W : outcome[w] = "waiting"
    /\ outcome' = [w \in Receiver |-> IF w \in W THEN "failed" ELSE outcome[w]]
    /\ UNCHANGED <<offered, delivered>>

ContractNext ==
    \/ \E p \in Payload : Offer(p)
    \/ \E W \in SUBSET Receiver : GiveUp(W)
    \/ \E w \in Receiver, p \in Payload : Accept(w, p)

ContractSpec == ContractInit /\ [][ContractNext]_cvars
=============================================================================
