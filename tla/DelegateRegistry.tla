-------------------------- MODULE DelegateRegistry --------------------------
(***************************************************************************)
(* Who may use Redis.  A delegate is a row of the control plane's database *)
(* (ACTIVE, REVOKED) and an ACL user of Redis; nothing keeps the two in    *)
(* step but the order of the calls made by                                 *)
(*                                                                         *)
(*   register_delegate   token, certificate, ACL user, row, token used     *)
(*   revoke_delegate     row, ACL user     (control_plane/delegates/views) *)
(*   reconcile           rows -> ACL users (redis_acl.py), which the       *)
(*                       dispatcher runs when it starts and after an       *)
(*                       outage of Redis (stream_dispatcher.py)            *)
(*                                                                         *)
(* API requests run concurrently, each a sequence of database and Redis    *)
(* calls; one step is one such call.  A request mints the delegate's id,   *)
(* so a delegate is named by the request that registers it.  Every refusal *)
(* of a request before its first Redis call is one outcome, "rejected".    *)
(***************************************************************************)
EXTENDS Integers, FiniteSets

CONSTANTS
    Delegate,       \* delegate ids, one for each registration request
    Token,          \* registration tokens
    Faults,         \* the kinds of fault that may happen
    MaxFaults       \* bound: how many faults may happen in one behaviour

ASSUME RegistryAssumption ==
    /\ IsFiniteSet(Delegate)
    /\ MaxFaults \in Nat
    /\ Faults \subseteq {"outage", "aclfile_lost", "acl_error", "api_crash", "dispatcher_crash"}

VARIABLES
    \* the database
    row,            \* Delegate.status, or "none"
    token,          \* RegistrationToken: "none", "fresh", "used", "expired"
    \* Redis
    up,             \* is Redis reachable?
    users,          \* the delegates' ACL users
    aclfile,        \* those in the aclfile
    \* the API
    reg,            \* register_delegate: where the request is
    tok,            \* the token it presents
    rev,            \* revoke_delegate: where the request for a delegate is
    \* the dispatcher
    dpc,            \* where its main thread is
    origin,         \* "start" (retry_forever) or "retry": who called reconcile
    broken,         \* Redis went away since the XREAD under way began, or
                    \* since the reconcile under way read the users
    active, stale,  \* reconcile's two sets, of which it takes one id at a time
    \* bookkeeping
    disturbed,      \* history: delegates whose request overlapped with a
                    \* reconcile or an outage, or failed half way, and
                    \* whom no undisturbed reconcile has put right since
    touched,        \* history: those whose requests overlapped with the
                    \* reconcile under way
    overlapped,     \* history: pairs of registrations that overlapped
    faults          \* faults so far

dbVars    == <<row, token>>
redisVars == <<up, users, aclfile>>
apiVars   == <<reg, tok, rev>>
dispVars  == <<dpc, origin, broken, active, stale>>
histVars  == <<disturbed, touched, overlapped>>
vars == <<dbVars, redisVars, apiVars, dispVars, histVars, faults>>

Registering == {d \in Delegate : reg[d] \in {"signed", "provisioned", "saved", "created"}}
Revoking    == {d \in Delegate : rev[d] \in {"row", "user"}}
Busy        == Registering \cup Revoking
Active      == {d \in Delegate : row[d] = "ACTIVE"}
Reconciling == dpc \in {"users", "delete", "set", "save"}

Fault(kind) ==
    /\ kind \in Faults
    /\ faults < MaxFaults
    /\ faults' = faults + 1

Init ==
    /\ row = [d \in Delegate |-> "none"] /\ token = [t \in Token |-> "none"]
    /\ up = TRUE /\ users = {} /\ aclfile = {}
    /\ reg = [d \in Delegate |-> "new"] /\ rev = [d \in Delegate |-> "new"]
    /\ tok \in [Delegate -> Token]
    /\ dpc = "start" /\ origin = "start" /\ broken = FALSE /\ active = {} /\ stale = {}
    /\ disturbed = {} /\ touched = {} /\ overlapped = {} /\ faults = 0

(* A request of d begins: does a reconcile, or an outage, overlap with it? *)
Begin(d, amidOutage) ==
    /\ disturbed' = IF Reconciling \/ amidOutage THEN disturbed \cup {d} ELSE disturbed
    /\ touched' = IF Reconciling THEN touched \cup {d} ELSE touched

-----------------------------------------------------------------------------
(* register_delegate.                                                      *)

(* Mutant of CheckToken: used_at is not looked at *)
CheckTokenUnused(d) ==
    /\ reg[d] = "new"
    /\ \/ token[tok[d]] \in {"fresh", "used"} /\ reg' = [reg EXCEPT ![d] = "signed"]
       \/ reg' = [reg EXCEPT ![d] = "rejected"]
    /\ Begin(d, FALSE)
    /\ overlapped' = overlapped \cup {{d, e} : e \in Registering}
    /\ UNCHANGED <<dbVars, redisVars, tok, rev, dispVars, faults>>

(* The token is read and looked at, and the CSR signed.  A token that does *)
(* not exist or belongs to another tenant, an incomplete request or a bad  *)
(* CSR are rejected whatever the token's state.                            *)
CheckToken(d) ==
    /\ reg[d] = "new"
    /\ \/ token[tok[d]] = "fresh" /\ reg' = [reg EXCEPT ![d] = "signed"]
       \/ reg' = [reg EXCEPT ![d] = "rejected"]
    /\ Begin(d, FALSE)
    /\ overlapped' = overlapped \cup {{d, e} : e \in Registering}
    /\ UNCHANGED <<dbVars, redisVars, tok, rev, dispVars, faults>>

(* ACL SETUSER.  When the call raises the registration is refused, even if *)
(* Redis did execute it.                                                   *)
Provision(d) ==
    /\ reg[d] = "signed"
    /\ \/ /\ up
          /\ users' = users \cup {d}
          /\ reg' = [reg EXCEPT ![d] = "provisioned"]
          /\ UNCHANGED <<disturbed, faults>>
       \/ /\ ~up
          /\ reg' = [reg EXCEPT ![d] = "rejected"]
          /\ UNCHANGED <<users, disturbed, faults>>
       \/ /\ up /\ Fault("acl_error")
          /\ users' \in {users, users \cup {d}}
          /\ reg' = [reg EXCEPT ![d] = "rejected"]
          /\ disturbed' = disturbed \cup {d}
    /\ UNCHANGED <<dbVars, up, aclfile, tok, rev, dispVars, touched, overlapped>>

(* ACL SAVE; when it fails that is only logged *)
AclSave(d) ==
    \/ up /\ aclfile' = users /\ UNCHANGED <<disturbed, faults>>
    \/ ~up /\ UNCHANGED <<aclfile, disturbed, faults>>
    \/ up /\ Fault("acl_error") /\ disturbed' = disturbed \cup {d} /\ UNCHANGED aclfile

ProvisionSave(d) ==
    /\ reg[d] = "provisioned"
    /\ AclSave(d)
    /\ reg' = [reg EXCEPT ![d] = "saved"]
    /\ UNCHANGED <<dbVars, up, users, tok, rev, dispVars, touched, overlapped>>

CreateRow(d) ==
    /\ reg[d] = "saved"
    /\ row' = [row EXCEPT ![d] = "ACTIVE"]
    /\ reg' = [reg EXCEPT ![d] = "created"]
    /\ UNCHANGED <<token, redisVars, tok, rev, dispVars, histVars, faults>>

MarkUsed(d) ==
    /\ reg[d] = "created"
    /\ token' = [token EXCEPT ![tok[d]] = "used"]
    /\ reg' = [reg EXCEPT ![d] = "registered"]
    /\ UNCHANGED <<row, redisVars, tok, rev, dispVars, histVars, faults>>

IssueToken(t) ==
    /\ token[t] = "none"
    /\ token' = [token EXCEPT ![t] = "fresh"]
    /\ UNCHANGED <<row, redisVars, apiVars, dispVars, histVars, faults>>

ExpireToken(t) ==
    /\ token[t] = "fresh"
    /\ token' = [token EXCEPT ![t] = "expired"]
    /\ UNCHANGED <<row, redisVars, apiVars, dispVars, histVars, faults>>

-----------------------------------------------------------------------------
(* revoke_delegate, which may be called again.                             *)

(* Mutant of RevokeRow: the answer's word for it is stored *)
RevokeRowLower(d) ==
    /\ rev[d] \in {"new", "done"} /\ row[d] # "none"
    /\ row' = [row EXCEPT ![d] = "revoked"]
    /\ rev' = [rev EXCEPT ![d] = "row"]
    /\ Begin(d, ~up)
    /\ UNCHANGED <<token, redisVars, reg, tok, dispVars, overlapped, faults>>

RevokeRow(d) ==
    /\ rev[d] \in {"new", "done"} /\ row[d] # "none"
    /\ row' = [row EXCEPT ![d] = "REVOKED"]
    /\ rev' = [rev EXCEPT ![d] = "row"]
    /\ Begin(d, ~up)
    /\ UNCHANGED <<token, redisVars, reg, tok, dispVars, overlapped, faults>>

(* ACL DELUSER.  A failure is audited and not retried. *)
RevokeUser(d) ==
    /\ rev[d] = "row"
    /\ \/ /\ up
          /\ users' = users \ {d}
          /\ rev' = [rev EXCEPT ![d] = "user"]
          /\ UNCHANGED <<disturbed, faults>>
       \/ /\ ~up
          /\ rev' = [rev EXCEPT ![d] = "done"]
          /\ UNCHANGED <<users, disturbed, faults>>
       \/ /\ up /\ Fault("acl_error")
          /\ rev' = [rev EXCEPT ![d] = "done"]
          /\ disturbed' = disturbed \cup {d}
          /\ UNCHANGED users
    /\ UNCHANGED <<dbVars, up, aclfile, reg, tok, dispVars, touched, overlapped>>

(* Mutant of RevokeSave: the aclfile is not rewritten *)
RevokeSaveSkipped(d) ==
    /\ rev[d] = "user"
    /\ rev' = [rev EXCEPT ![d] = "done"]
    /\ UNCHANGED <<dbVars, redisVars, reg, tok, dispVars, histVars, faults>>

RevokeSave(d) ==
    /\ rev[d] = "user"
    /\ AclSave(d)
    /\ rev' = [rev EXCEPT ![d] = "done"]
    /\ UNCHANGED <<dbVars, up, users, reg, tok, dispVars, touched, overlapped>>

(* The API server dies in the middle of its requests. *)
ApiCrash ==
    /\ Busy # {}
    /\ Fault("api_crash")
    /\ reg' = [d \in Delegate |-> IF d \in Registering THEN "crashed" ELSE reg[d]]
    /\ rev' = [d \in Delegate |-> IF d \in Revoking THEN "done" ELSE rev[d]]
    /\ disturbed' = disturbed \cup Busy
    /\ UNCHANGED <<dbVars, redisVars, tok, dispVars, touched, overlapped>>

-----------------------------------------------------------------------------
(* Redis goes away, taking every connection with it, and comes back with   *)
(* the users of its aclfile, or with none if the file is gone.             *)

RedisDown ==
    /\ up
    /\ Fault("outage")
    /\ up' = FALSE /\ users' = {} /\ broken' = TRUE
    /\ disturbed' = disturbed \cup Busy
    /\ UNCHANGED <<dbVars, aclfile, apiVars, dpc, origin, active, stale, touched, overlapped>>

RedisUp ==
    /\ ~up
    /\ up' = TRUE
    /\ \/ users' = aclfile /\ UNCHANGED <<aclfile, faults, disturbed>>
       \/ /\ Fault("aclfile_lost")
          /\ users' = {} /\ aclfile' = {}
          /\ disturbed' = Delegate
    /\ UNCHANGED <<dbVars, apiVars, dispVars, touched, overlapped>>

-----------------------------------------------------------------------------
(* The dispatcher's main thread.  At "loop" it is in the XREAD of its main *)
(* loop, or between two of them; at "start" and "retry" it is about to     *)
(* reconcile, with a client of its own.  An outage makes the call under    *)
(* way raise, and every call made before Redis is back.  A call made after *)
(* that does not: the client's pool replaces a dead idle connection.       *)

(* XREAD raises; the client reconnects on the next call ... *)
XReadFails ==
    /\ dpc = "loop" /\ (broken \/ ~up)
    /\ dpc' = "retry" /\ broken' = FALSE
    /\ UNCHANGED <<dbVars, redisVars, apiVars, origin, active, stale, histVars, faults>>

(* ... or the outage fell between two XREADs, and nobody saw it *)
XReadReconnects ==
    /\ dpc = "loop" /\ broken /\ up
    /\ broken' = FALSE
    /\ UNCHANGED <<dbVars, redisVars, apiVars, dpc, origin, active, stale, histVars, faults>>

(* _reconcile_acls reads the active ids from the database ... *)
ReadActive ==
    /\ dpc \in {"start", "retry"}
    /\ active' = Active
    /\ dpc' = "users" /\ origin' = dpc /\ broken' = FALSE
    /\ disturbed' = disturbed \cup Busy /\ touched' = Busy
    /\ UNCHANGED <<dbVars, redisVars, apiVars, stale, overlapped, faults>>

(* ... and reconcile the users from Redis *)
ReadUsers ==
    /\ dpc = "users" /\ up
    /\ stale' = users \ active
    /\ dpc' = "delete" /\ broken' = FALSE
    /\ UNCHANGED <<dbVars, redisVars, apiVars, origin, active, histVars, faults>>

DeleteStale ==
    /\ dpc = "delete"
    /\ \/ \E d \in stale :
             /\ up
             /\ users' = users \ {d}
             /\ stale' = stale \ {d}
             /\ UNCHANGED dpc
       \/ stale = {} /\ dpc' = "set" /\ UNCHANGED <<users, stale>>
    /\ UNCHANGED <<dbVars, up, aclfile, apiVars, origin, broken, active, histVars, faults>>

(* Mutant of SetActive: only stale users are dealt with *)
SetActiveNot ==
    /\ dpc = "set"
    /\ dpc' = "save" /\ active' = {}
    /\ UNCHANGED <<dbVars, redisVars, apiVars, origin, broken, stale, histVars, faults>>

SetActive ==
    /\ dpc = "set"
    /\ \/ \E d \in active :
             /\ up
             /\ users' = users \cup {d}
             /\ active' = active \ {d}
             /\ UNCHANGED dpc
       \/ active = {} /\ dpc' = "save" /\ UNCHANGED <<users, active>>
    /\ UNCHANGED <<dbVars, up, aclfile, apiVars, origin, broken, stale, histVars, faults>>

(* save() swallows every exception.  After an outage in the middle of the  *)
(* reconcile it persists what Redis came back with.                        *)
ReconcileSave ==
    /\ dpc = "save"
    /\ \/ up /\ aclfile' = users
       \/ (~up \/ broken) /\ UNCHANGED aclfile
    /\ disturbed' = IF broken THEN disturbed ELSE touched
    /\ dpc' = "loop" /\ broken' = FALSE
    /\ UNCHANGED <<dbVars, up, users, apiVars, origin, active, stale, touched, overlapped, faults>>

(* A Redis call of reconcile raises.  At startup it is tried again for as  *)
(* long as it takes; later the main loop goes on.                          *)
ReconcileFails ==
    /\ \/ dpc = "users"
       \/ dpc = "delete" /\ stale # {}
       \/ dpc = "set" /\ active # {}
    /\ ~up \/ broken
    /\ dpc' = IF origin = "start" THEN "start" ELSE "loop"
    /\ broken' = FALSE /\ active' = {} /\ stale' = {}
    /\ UNCHANGED <<dbVars, redisVars, apiVars, origin, histVars, faults>>

DispatcherCrash ==
    /\ Fault("dispatcher_crash")
    /\ dpc' = "start" /\ broken' = FALSE
    /\ active' = {} /\ stale' = {}
    /\ UNCHANGED <<dbVars, redisVars, apiVars, origin, histVars>>

-----------------------------------------------------------------------------
ReconcileStep ==
    \/ XReadFails \/ XReadReconnects \/ ReadActive \/ ReadUsers \/ DeleteStale
    \/ SetActive \/ ReconcileSave \/ ReconcileFails

Next ==
    \/ \E d \in Delegate : \/ CheckToken(d) \/ Provision(d) \/ ProvisionSave(d) \/ CreateRow(d)
                           \/ MarkUsed(d) \/ RevokeRow(d) \/ RevokeUser(d) \/ RevokeSave(d)
    \/ \E t \in Token : IssueToken(t) \/ ExpireToken(t)
    \/ ApiCrash \/ RedisDown \/ RedisUp
    \/ ReconcileStep \/ DispatcherCrash

(* The dispatcher keeps running and Redis comes back; nothing is assumed   *)
(* of the API.                                                             *)
Spec == Init /\ [][Next]_vars /\ WF_vars(ReconcileStep) /\ WF_vars(RedisUp)

-----------------------------------------------------------------------------
TypeOK ==
    /\ row \in [Delegate -> {"none", "ACTIVE", "REVOKED"}]
    /\ token \in [Token -> {"none", "fresh", "used", "expired"}]
    /\ up \in BOOLEAN /\ broken \in BOOLEAN
    /\ users \subseteq Delegate /\ aclfile \subseteq Delegate
    /\ reg \in [Delegate -> {"new", "signed", "provisioned", "saved", "created",
                             "registered", "rejected", "crashed"}]
    /\ tok \in [Delegate -> Token]
    /\ rev \in [Delegate -> {"new", "row", "user", "done"}]
    /\ dpc \in {"start", "retry", "loop", "users", "delete", "set", "save"}
    /\ origin \in {"start", "retry"}
    /\ active \subseteq Delegate /\ stale \subseteq Delegate
    /\ disturbed \subseteq Delegate /\ touched \subseteq Delegate
    /\ overlapped \subseteq SUBSET Delegate
    /\ faults \in 0 .. MaxFaults

(* Outside of the requests under way, Redis and its aclfile know exactly   *)
(* the active delegates; the only exceptions are delegates whose own       *)
(* request overlapped with a reconcile or an outage or failed half way,    *)
(* and the next reconcile that completes with no outage since it read the  *)
(* users puts those right.                                                 *)
AccessMatchesRegistry ==
    \A d \in Delegate \ (Busy \cup disturbed) :
        /\ d \in aclfile <=> row[d] = "ACTIVE"
        /\ up => (d \in users <=> row[d] = "ACTIVE")

(* Two delegates come from one registration token only if their requests   *)
(* overlapped: once a request is answered, its token is spent.             *)
TokenReuseNeedsOverlap ==
    \A d, e \in Delegate :
        d # e /\ tok[d] = tok[e] /\ reg[d] = "registered" /\ reg[e] = "registered"
            => {d, e} \in overlapped

(* A dispatcher that starts while the API is at rest leaves Redis with     *)
(* exactly the active delegates, whatever state it found.                  *)
RestartHeals == (dpc = "start" /\ [](Busy = {} /\ up)) ~> (users = Active)
=============================================================================
