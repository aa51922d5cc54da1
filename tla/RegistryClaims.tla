--------------------------- MODULE RegistryClaims ---------------------------
(***************************************************************************)
(* What the documentation says of delegate registration and Redis access   *)
(* and the interleavings of the code do not deliver.                       *)
(***************************************************************************)
EXTENDS DelegateRegistry

VARIABLE owed       \* history: an XREAD has failed and no reconcile was completed since

ClaimsInit == Init /\ owed = FALSE
ClaimsNext ==
    /\ Next
    /\ owed' = IF dpc = "loop" /\ dpc' = "retry" THEN TRUE
               ELSE IF (dpc = "save" /\ ~broken) \/ dpc' = "start" THEN FALSE ELSE owed
ClaimsSpec == ClaimsInit /\ [][ClaimsNext]_<<vars, owed>>

AtRest == Busy = {} /\ up /\ dpc = "loop" /\ ~broken

(* issue_registration_token: "a short-lived, single-use registration       *)
(* token".  No two delegates are registered with one token.                *)
TokenSingleUse ==
    \A d, e \in Delegate : d # e /\ row[d] # "none" /\ row[e] # "none" => tok[d] # tok[e]

(* _reconcile_acls_when_back: "after a Redis outage it is repeated on      *)
(* reconnect".  The dispatcher is never back in its main loop, connected,  *)
(* without having reconciled after the outage it saw.                      *)
ReconciledOnReconnect == ~(owed /\ AtRest)
=============================================================================
