--------------------------- MODULE WorkerIdentity ---------------------------
(***************************************************************************)
(* How a worker gets its identity, keeps it across restarts, and shares it *)
(* with the agent_manager beside it:                                       *)
(*                                                                         *)
(*   register     worker/worker_app/registration.py, called on every start *)
(*                of the container (worker/entrypoint.py)                  *)
(*   sign_csr     control_plane/delegates/ca.py, called by the API's       *)
(*                register_delegate (views.py); what else that call does   *)
(*                is the subject of DelegateRegistry                       *)
(*   run          agent_manager/agent_manager.py, after its entrypoint.sh  *)
(*                has seen the files                                       *)
(*                                                                         *)
(* The worker's files are delegate.key, delegate.crt, ca.crt and           *)
(* identity.json in CERT_DIR, which agent_manager mounts read-only.  The   *)
(* control plane's own files are those of CertificateAuthority.            *)
(***************************************************************************)
EXTENDS CertificateAuthority

VARIABLES
    file,           \* the worker's files
    wpc, step,      \* the worker, and the file it is writing
    got,            \* what register holds: its key and the API's answer
    registered,     \* Delegate rows: ids 1 .. registered
    apc,            \* agent_manager
    agentId,        \* the delegate_id it has read
    agentCrt,       \* the delegate in the certificate it has loaded
    stale           \* history: CERT_DIR was wiped since it read the identity

workerVars == <<file, wpc, step, got, registered>>
agentVars == <<apc, agentId, agentCrt, stale>>
vars == <<pkiVars, faults, workerVars, agentVars>>

(* In key a key; in crt the number of the delegate, which is also that of  *)
(* its key, and the CA key it is signed by; in ca a CA key; in id a        *)
(* delegate.                                                               *)
NoFile == [key |-> Missing, crt |-> Cert(Missing, Missing), ca |-> Missing, id |-> Missing]

Init ==
    /\ PkiInit
    /\ file = NoFile /\ wpc = "down" /\ step = 1 /\ got = NoFile /\ registered = 0
    /\ apc = "waiting" /\ agentId = Missing /\ agentCrt = Missing /\ stale = FALSE

-----------------------------------------------------------------------------
(* register                                                                *)

(* Mutants of HasIdentity: one file is enough; every start registers.      *)
HasEither   == file.id # Missing \/ file.crt.of # Missing
HasNever    == FALSE
HasIdentity == file.id # Missing /\ file.crt.of # Missing

WorkerStart ==
    /\ wpc = "down"
    /\ \/ HasIdentity /\ file.id \notin {Missing, Torn} /\ wpc' = "running"   \* else json.load raises
       \/ ~HasIdentity /\ wpc' = "register"
    /\ UNCHANGED <<file, step, got, registered, agentVars, pkiVars, faults>>

(* Bound: no more registrations than any sequence of faults can cause.     *)
MaxRegistered == MaxFaults + 2

(* sign_csr, and ca_cert_pem: what the API answers to delegate n           *)
Signed(n) == [key |-> n, crt |-> Cert(n, key["ca"]), ca |-> crt["ca"].of, id |-> n]

(* _wait_for_control_plane *)
Reachable == apiUp

(* A token, a new key, and POST /api/register/: the API mints an id and    *)
(* signs the CSR.  The answer may be lost after that, and register raises. *)
Register ==
    /\ wpc = "register" /\ Reachable /\ Readable("ca")
    /\ registered < MaxRegistered
    /\ registered' = registered + 1
    /\ \/ /\ wpc' = "opening" /\ step' = 1
          /\ got' = Signed(registered + 1)
          /\ UNCHANGED faults
       \/ /\ Fault("lost_answer")
          /\ wpc' = "down"
          /\ UNCHANGED <<step, got>>
    /\ UNCHANGED <<file, agentVars, pkiVars>>

(* Mutant of Order: identity.json before ca.crt *)
OrderIdentityEarly == <<"key", "crt", "id", "ca">>
Order == <<"key", "crt", "ca", "id">>

OpenFile ==
    /\ wpc = "opening" /\ wpc' = "writing"
    /\ file' = [file EXCEPT ![Order[step]] = IF Order[step] = "crt" THEN Cert(Torn, Torn) ELSE Torn]
    /\ UNCHANGED <<step, got, registered, agentVars, pkiVars, faults>>

WriteFile ==
    /\ wpc = "writing"
    /\ file' = [file EXCEPT ![Order[step]] = got[Order[step]]]
    /\ IF step < Len(Order)
       THEN wpc' = "opening" /\ step' = step + 1 /\ UNCHANGED got
       ELSE wpc' = "running" /\ step' = 1 /\ got' = NoFile
    /\ UNCHANGED <<registered, agentVars, pkiVars, faults>>

WorkerDies == wpc' = "down" /\ step' = 1 /\ got' = NoFile /\ UNCHANGED registered

WorkerCrash ==
    /\ wpc \notin {"down", "running"}
    /\ Fault("crash")
    /\ WorkerDies
    /\ UNCHANGED <<file, agentVars, pkiVars>>

(* restart_delegate, or any other end of a running worker's container.  The *)
(* agent restarts its worker in whatever state it is: a RESTART that meets  *)
(* a worker in the middle of its registration is a fault, WorkerCrash.      *)
RestartDelegate ==
    /\ wpc = "running"
    /\ WorkerDies
    /\ UNCHANGED <<file, agentVars, pkiVars, faults>>

(* register: "delete that directory to force re-registration"              *)
Wipe ==
    /\ wpc = "running"
    /\ Fault("wipe")
    /\ file' = NoFile
    /\ WorkerDies
    /\ stale' = (apc # "waiting")
    /\ UNCHANGED <<apc, agentId, agentCrt, pkiVars>>

-----------------------------------------------------------------------------
(* agent_manager                                                           *)

AllPresent == file.id # Missing /\ file.crt.of # Missing /\ file.key # Missing /\ file.ca # Missing

(* Mutant of AgentReads: a half-written identity.json is taken for one *)
AgentReadsAny ==
    /\ apc = "waiting" /\ AllPresent
    /\ apc' = "loading" /\ agentId' = file.id /\ stale' = FALSE
    /\ UNCHANGED <<agentCrt, workerVars, pkiVars, faults>>

AgentReads ==
    /\ apc = "waiting" /\ AllPresent
    /\ file.id # Torn                                     \* else json.load raises
    /\ apc' = "loading" /\ agentId' = file.id /\ stale' = FALSE
    /\ UNCHANGED <<agentCrt, workerVars, pkiVars, faults>>

Loadable == {file.crt.of, file.ca} \cap {Missing, Torn} = {} /\ file.key = file.crt.of

AgentLoads ==
    /\ apc = "loading"
    /\ \/ /\ Loadable
          /\ apc' = "up" /\ agentCrt' = file.crt.of
          /\ UNCHANGED agentId
       \/ /\ ~Loadable
          /\ apc' = "waiting" /\ agentId' = Missing        \* load_cert_chain raises
          /\ UNCHANGED agentCrt
    /\ UNCHANGED <<stale, workerVars, pkiVars, faults>>

AgentCrash ==
    /\ apc # "waiting"
    /\ Fault("crash")
    /\ apc' = "waiting" /\ agentId' = Missing /\ agentCrt' = Missing /\ stale' = FALSE
    /\ UNCHANGED <<workerVars, pkiVars>>

-----------------------------------------------------------------------------
WorkerStep == WorkerStart \/ Register \/ OpenFile \/ WriteFile
AgentStep  == AgentReads \/ AgentLoads

Next ==
    \/ PkiNext /\ UNCHANGED <<workerVars, agentVars>>
    \/ WorkerStep \/ WorkerCrash \/ RestartDelegate \/ Wipe
    \/ AgentStep \/ AgentCrash

Spec == Init /\ [][Next]_vars

(* restart: unless-stopped also for the worker and agent_manager           *)
FairSpec == Spec /\ PkiFairness /\ WF_vars(WorkerStep) /\ WF_vars(AgentStep)

-----------------------------------------------------------------------------
(* Type correctness *)
TypeOK ==
    /\ PkiTypeOK
    /\ wpc \in {"down", "register", "opening", "writing", "running"} /\ step \in 1 .. Len(Order)
    /\ registered \in 0 .. MaxRegistered
    /\ apc \in {"waiting", "loading", "up"} /\ stale \in BOOLEAN
    /\ agentId \in 0 .. MaxRegistered /\ agentCrt \in 0 .. MaxRegistered

(* A worker that runs has an identity that works: all four files are there  *)
(* and of one registration, signed by the CA that the control plane still   *)
(* has, whatever was interrupted before.  identity.json comes last, and     *)
(* register looks for it first.                                             *)
IdentityUsable ==
    wpc = "running" =>
        /\ file.id \in 1 .. registered
        /\ file.key = file.id /\ file.crt = Cert(file.id, key["ca"]) /\ file.ca = key["ca"]

(* A worker registers again only because of a failure: restarting it,       *)
(* however often, leaves no orphaned delegate behind in the registry.       *)
RestartsRegisterNothing == registered <= 1 + faults

(* agent_manager speaks for the worker beside it, in the HELLO and in its   *)
(* certificate, unless CERT_DIR was wiped since it was started: it reads    *)
(* the files once.                                                          *)
AgentSpeaksForWorker ==
    apc = "up" /\ ~stale => agentCrt = agentId /\ agentId = file.id

(* identity.json and delegate.crt are there, so that register will not      *)
(* replace them, and identity.json cannot be read.                          *)
WorkerWedged == wpc = "down" /\ file.id = Torn /\ file.crt.of # Missing

(* A worker whose API is up keeps coming back to running, after any crash   *)
(* and any number of restarts, except that it never recovers from being     *)
(* killed between opening and writing identity.json.                        *)
WorkerServes == []<>(wpc = "running" \/ ~apiUp \/ WorkerWedged)
=============================================================================
