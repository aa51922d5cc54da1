------------------------ MODULE CertificateAuthority ------------------------
(***************************************************************************)
(* The files of the local CA (control_plane/delegates/ca.py) and the three *)
(* programs that create them in the one CA_DIR volume:                     *)
(*                                                                         *)
(*   init        manage.py init_ca: the one-shot pki_init and the start of *)
(*               the API server, which answers only after it               *)
(*   gateway     restart_gateway, which then serves with the server pair   *)
(*   dispatcher  stream_dispatcher                                         *)
(*                                                                         *)
(* gateway and dispatcher wait for the API before they start.  A key is    *)
(* known by a number, a certificate by the key it is of and the key it is  *)
(* signed by.  A file is missing, torn (opened for writing and not yet     *)
(* written) or complete; a program may be killed between any two steps.    *)
(***************************************************************************)
EXTENDS Integers, Sequences

CONSTANTS
    Faults,         \* the kinds of fault that may happen
    MaxFaults       \* bound: how many faults may happen in one behaviour

ASSUME FaultsAssumption ==
    /\ Faults \subseteq {"crash", "reissue", "lost_answer", "wipe"}
    /\ MaxFaults \in Nat

Program == {"init", "gateway", "dispatcher"}
Pair == {"ca", "server", "redis", "admin"}      \* <name>.key and <name>.crt

Missing == 0
Torn == -1
Cert(k, ca) == [of |-> k, by |-> ca]

VARIABLES
    key, crt,       \* the files of each pair
    pc, job,        \* each program, and the ensure_* call it is in
    mine,           \* the key it has generated, and the CA key it has loaded
    minted,         \* keys generated so far
    apiUp,          \* does the API answer?
    faults,
    overlap         \* history: pairs that were being created by one program when
                    \* another one began to, or the operator deleted them

pkiVars == <<key, crt, pc, job, mine, minted, apiUp, overlap>>

Fault(kind) ==
    /\ kind \in Faults
    /\ faults < MaxFaults
    /\ faults' = faults + 1

PkiInit ==
    /\ key = [p \in Pair |-> Missing] /\ crt = [p \in Pair |-> Cert(Missing, Missing)]
    /\ pc = [q \in Program |-> "down"] /\ job = [q \in Program |-> 1]
    /\ mine = [q \in Program |-> Cert(Missing, Missing)]
    /\ minted = 0 /\ apiUp = FALSE /\ faults = 0 /\ overlap = {}

-----------------------------------------------------------------------------
(* ensure_root_ca, ensure_control_plane_server_cert, _issue_leaf_cert.     *)

Jobs(q) == IF q = "init" THEN <<"ca", "server", "redis", "admin">> ELSE <<"ca", "server">>
Current(q) == Jobs(q)[job[q]]

(* Mutants of Exists: one file is enough; what exists is replaced. *)
ExistsEither(p) == key[p] # Missing \/ crt[p].of # Missing
ExistsNever(p)  == FALSE
Exists(p) == key[p] # Missing /\ crt[p].of # Missing

Readable(p) == {key[p], crt[p].of} \cap {Missing, Torn} = {}
Matching(p) == Readable(p) /\ crt[p].of = key[p]

Goto(q, from, to) == pc[q] = from /\ pc' = [pc EXCEPT ![q] = to]

Start(q) ==
    /\ q = "init" \/ apiUp
    /\ Goto(q, "down", "check")
    /\ UNCHANGED <<key, crt, job, mine, minted, apiUp, faults, overlap>>

Creating(q, p) == pc[q] \in {"mint", "write_key", "open_crt", "write_crt"} /\ Current(q) = p

Check(q) ==
    /\ pc[q] = "check" /\ job[q] <= Len(Jobs(q))
    /\ \/ /\ Exists(Current(q))
          /\ job' = [job EXCEPT ![q] = @ + 1]
          /\ UNCHANGED <<pc, overlap>>
       \/ /\ ~Exists(Current(q))
          /\ Goto(q, "check", "mint")
          /\ overlap' = overlap \cup {p \in {Current(q)} : \E r \in Program : Creating(r, p)}
          /\ UNCHANGED job
    /\ UNCHANGED <<key, crt, mine, minted, apiUp, faults>>

(* The CA is loaded, the pair made in memory, and the key file opened.     *)
Made(q) == Cert(minted + 1, IF Current(q) = "ca" THEN minted + 1 ELSE key["ca"])
CanSign(q) == Current(q) = "ca" \/ Readable("ca")

(* Mutant of OpenKey: a key file that is there is left alone *)
OpenKeyKeeping(q) ==
    /\ pc[q] = "mint" /\ CanSign(q)
    /\ minted' = minted + 1 /\ mine' = [mine EXCEPT ![q] = Made(q)]
    /\ \/ key[Current(q)] = Missing /\ key' = [key EXCEPT ![Current(q)] = Torn] /\ Goto(q, "mint", "write_key")
       \/ key[Current(q)] # Missing /\ UNCHANGED key /\ Goto(q, "mint", "open_crt")
    /\ UNCHANGED <<crt, job, apiUp, faults, overlap>>

OpenKey(q) ==
    /\ pc[q] = "mint"
    /\ \/ /\ CanSign(q)
          /\ minted' = minted + 1 /\ mine' = [mine EXCEPT ![q] = Made(q)]
          /\ key' = [key EXCEPT ![Current(q)] = Torn]
          /\ Goto(q, "mint", "write_key")
          /\ UNCHANGED job
       \/ /\ ~CanSign(q)                                  \* _load_ca raises
          /\ Goto(q, "mint", "down")
          /\ job' = [job EXCEPT ![q] = 1]
          /\ UNCHANGED <<minted, mine, key>>
    /\ UNCHANGED <<crt, apiUp, faults, overlap>>

WriteKey(q) ==
    /\ Goto(q, "write_key", "open_crt")
    /\ key' = [key EXCEPT ![Current(q)] = mine[q].of]
    /\ UNCHANGED <<crt, job, mine, minted, apiUp, faults, overlap>>

OpenCrt(q) ==
    /\ Goto(q, "open_crt", "write_crt")
    /\ crt' = [crt EXCEPT ![Current(q)] = Cert(Torn, Torn)]
    /\ UNCHANGED <<key, job, mine, minted, apiUp, faults, overlap>>

WriteCrt(q) ==
    /\ Goto(q, "write_crt", "check")
    /\ crt' = [crt EXCEPT ![Current(q)] = mine[q]]
    /\ job' = [job EXCEPT ![q] = @ + 1]
    /\ mine' = [mine EXCEPT ![q] = Cert(Missing, Missing)]
    /\ UNCHANGED <<key, minted, apiUp, faults, overlap>>

(* The program goes on to serve; the gateway loads the server pair.        *)
Serve(q) ==
    /\ pc[q] = "check" /\ job[q] > Len(Jobs(q))
    /\ Goto(q, "check", IF q = "gateway" /\ ~Matching("server") THEN "down" ELSE "up")
    /\ apiUp' = (apiUp \/ q = "init")
    /\ job' = [job EXCEPT ![q] = 1]
    /\ UNCHANGED <<key, crt, mine, minted, faults, overlap>>

-----------------------------------------------------------------------------
Stop(S) ==
    /\ pc' = [q \in Program |-> IF q \in S THEN "down" ELSE pc[q]]
    /\ apiUp' = (apiUp /\ "init" \notin S)
    /\ job' = [q \in Program |-> IF q \in S THEN 1 ELSE job[q]]
    /\ mine' = [q \in Program |-> IF q \in S THEN Cert(Missing, Missing) ELSE mine[q]]
    /\ UNCHANGED minted

Crash(q) ==
    /\ pc[q] # "down"
    /\ Fault("crash")
    /\ Stop({q})
    /\ UNCHANGED <<key, crt, overlap>>

(* settings.py: "delete the matching *_server.crt/.key in CA_DIR to force   *)
(* reissuance", and restart the whole stack or all but the API server      *)
Reissue(p, S) ==
    /\ Fault("reissue")
    /\ key' = [key EXCEPT ![p] = Missing]
    /\ crt' = [crt EXCEPT ![p] = Cert(Missing, Missing)]
    /\ Stop(S)
    /\ overlap' = overlap \cup {r \in {p} : \E q \in Program : Creating(q, r)}

PkiStep(q) ==
    Start(q) \/ Check(q) \/ OpenKey(q) \/ WriteKey(q) \/ OpenCrt(q) \/ WriteCrt(q) \/ Serve(q)

PkiNext ==
    \/ \E q \in Program : PkiStep(q) \/ Crash(q)
    \/ \E p \in {"server", "redis"}, S \in {Program, Program \ {"init"}} : Reissue(p, S)

(* restart: unless-stopped.  The API server has no restart policy: nothing *)
(* is assumed of how soon it is started.                                   *)
PkiFairness ==
    \A q \in Program : WF_pkiVars(PkiStep(q) /\ (q = "init" => pc[q] # "down"))

-----------------------------------------------------------------------------
(* Type correctness *)
PkiTypeOK ==
    /\ key \in [Pair -> Nat \cup {Torn}]
    /\ crt \in [Pair -> [of : Nat \cup {Torn}, by : Nat \cup {Torn}]]
    /\ pc \in [Program -> {"down", "check", "mint", "write_key", "open_crt", "write_crt", "up"}]
    /\ minted \in Nat /\ apiUp \in BOOLEAN /\ overlap \subseteq Pair /\ faults \in 0 .. MaxFaults

(* All that is in CA_DIR hangs off the one root key that is there: however  *)
(* often its programs are killed and started again, the CA is never         *)
(* replaced under a certificate that it issued.                             *)
OneIssuer ==
    \A p \in Pair : crt[p].of \notin {Missing, Torn} => crt[p].by = key["ca"] /\ Readable("ca")

(* A key and a certificate that do not belong together, which nothing in    *)
(* the code would ever repair, come about only when two programs find the   *)
(* pair missing at the same time: a crash alone never leaves them behind.   *)
MismatchNeedsOverlap == \A p \in Pair \ overlap : Readable(p) => Matching(p)

(* Both files are there, so that nothing will replace them, and of no use.  *)
Wedged(p) == Missing \notin {key[p], crt[p].of} /\ ~Matching(p)

(* The gateway ends up serving as long as the API is up, after any crash    *)
(* between two of its steps, except that it never recovers from a file that *)
(* was torn, or a pair that was mixed up.                                   *)
GatewayServes == <>[](pc["gateway"] = "up" \/ ~apiUp \/ Wedged("server"))
=============================================================================
