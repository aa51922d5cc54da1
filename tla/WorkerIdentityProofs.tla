------------------------ MODULE WorkerIdentityProofs ------------------------
(***************************************************************************)
(* Theorems about WorkerIdentity and the CertificateAuthority below it,    *)
(* for any number of crashes, reissues, lost answers and wipes.            *)
(***************************************************************************)
EXTENDS WorkerIdentity, TLAPS

USE FaultsAssumption

-----------------------------------------------------------------------------
(* The inductive invariant.                                                *)

(* What a program holds of the pair it creates. *)
Busy(q)   == pc[q] \in {"mint", "write_key", "open_crt", "write_crt"}
Holds(q)  == pc[q] \in {"write_key", "open_crt", "write_crt"}

JobsTyped ==
    /\ job \in [Program -> Nat \ {0}]
    /\ mine \in [Program -> [of : Nat, by : Nat]]
    /\ \A q \in Program : Busy(q) => job[q] <= Len(Jobs(q))
    /\ \A q \in Program : Holds(q) => mine[q].of # Missing

(* The root comes first: gateway and dispatcher run only after init got    *)
(* past it, so that nobody but init ever creates it.                       *)
InitServes == apiUp => pc["init"] = "up"

RootDone == pc["init"] = "up" \/ job["init"] > 1 => Exists("ca")

RootOfInit ==
    \A q \in Program \ {"init"} :
        /\ pc[q] # "down" => Exists("ca") /\ ~Creating("init", "ca")
        /\ Busy(q) => job[q] > 1

RootFirst == InitServes /\ RootDone /\ RootOfInit /\ "ca" \notin overlap

(* A pair whose creation overlapped with nothing has one creator, and its  *)
(* files are in the state that the creator's progress says.                *)
OneCreator ==
    \A p \in Pair \ overlap :
        /\ \A q, r \in Program : Creating(q, p) /\ Creating(r, p) => q = r
        /\ crt[p].of # Missing => key[p] # Missing
        /\ \A q \in Program : Creating(q, p) =>
              /\ pc[q] # "write_crt" => crt[p].of = Missing
              /\ pc[q] = "write_crt" => crt[p].of = Torn
              /\ pc[q] = "write_key" => key[p] = Torn
              /\ pc[q] \in {"open_crt", "write_crt"} => key[p] = mine[q].of

(* What is about to be written hangs off the root like what is there.      *)
SignedByRoot ==
    \A q \in Program : Holds(q) =>
        /\ Current(q) = "ca" => mine[q].by = mine[q].of
        /\ Current(q) # "ca" => mine[q].by = key["ca"] /\ Readable("ca")

PkiInv == PkiTypeOK /\ JobsTyped /\ RootFirst /\ OneCreator /\ MismatchNeedsOverlap /\ SignedByRoot /\ OneIssuer

(* A set of files of the n-th registration, under the root that is there.  *)
Whole(f, n) ==
    /\ n \in 1 .. registered
    /\ f.id = n /\ f.key = n /\ f.crt = Cert(n, key["ca"]) /\ f.ca = key["ca"]
    /\ Readable("ca")

Num == Nat \cup {Torn}
Files == [key : Num, crt : [of : {Torn} \cup 0 .. registered, by : Num], ca : Num,
          id : {Torn} \cup 0 .. registered]

(* identity.json is written last, and only over a directory without one.   *)
IdentityLast ==
    /\ file \in Files /\ got \in Files
    /\ file.id # Missing => file.crt.of # Missing
    /\ wpc = "register" => file.id = Missing
    /\ wpc = "running" => file.id \notin {Missing, Torn}
    /\ file.id \notin {Missing, Torn} => wpc \in {"down", "running"} /\ Whole(file, file.id)
    /\ wpc \in {"opening", "writing"} =>
          /\ Whole(got, registered)
          /\ file.id = IF wpc = "writing" /\ step = 4 THEN Torn ELSE Missing
          /\ step > 1 => file.key = got.key
          /\ step > 2 => file.crt = got.crt
          /\ step > 3 => file.ca = got.ca

(* Without an identity, every registration there was is owed to a failure. *)
Owed ==
    /\ registered <= 1 + faults
    /\ wpc \in {"down", "register"} /\ file.id = Missing => registered <= faults

(* agent_manager has read the identity that is there, unless it was wiped. *)
AgentCurrent ==
    /\ apc # "waiting" /\ ~stale => agentId = file.id /\ file.id \notin {Missing, Torn}
    /\ apc = "up" /\ ~stale => agentCrt = file.crt.of

IInv == PkiInv /\ TypeOK /\ IdentityLast /\ Owed /\ AgentCurrent

-----------------------------------------------------------------------------
(* The order in which the pairs are ensured: the root first, by everybody. *)
LEMMA JobsFacts ==
    \A q \in Program :
        /\ Len(Jobs(q)) \in Nat /\ Len(Jobs(q)) > 1
        /\ \A i \in 1 .. Len(Jobs(q)) : Jobs(q)[i] \in Pair /\ (Jobs(q)[i] = "ca" <=> i = 1)
<1> SUFFICES ASSUME NEW q \in Program
             PROVE  /\ Len(Jobs(q)) \in Nat /\ Len(Jobs(q)) > 1
                    /\ \A i \in 1 .. Len(Jobs(q)) : Jobs(q)[i] \in Pair /\ (Jobs(q)[i] = "ca" <=> i = 1)
    OBVIOUS
<1>1. CASE q = "init"
    BY <1>1 DEF Jobs, Pair
<1>2. CASE q # "init"
    BY <1>2 DEF Jobs, Pair
<1> QED
    BY <1>1, <1>2

(* The pair a program is at. *)
LEMMA CurrentFacts ==
    ASSUME JobsTyped
    PROVE  \A q \in Program :
              /\ Len(Jobs(q)) \in Nat /\ Len(Jobs(q)) > 1
              /\ job[q] \in Nat /\ job[q] > 0
              /\ job[q] <= Len(Jobs(q)) => Current(q) \in Pair /\ (Current(q) = "ca" <=> job[q] = 1)
BY JobsFacts DEF JobsTyped, Current

(* The names the actions mention. *)
LEMMA Names == "init" \in Program /\ {"ca", "server", "redis"} \subseteq Pair
BY DEF Program, Pair

-----------------------------------------------------------------------------
(* The two outcomes of a check, and of loading the CA.                     *)

(* What exists is left alone. *)
LEMMA CheckFinds ==
    ASSUME NEW q \in Program, Check(q), Exists(Current(q))
    PROVE  /\ pc[q] = "check" /\ job[q] <= Len(Jobs(q))
           /\ job' = [job EXCEPT ![q] = job[q] + 1]
           /\ pc' = pc /\ key' = key /\ crt' = crt /\ mine' = mine
           /\ apiUp' = apiUp /\ overlap' = overlap
BY DEF Check

(* What does not is created. *)
LEMMA CheckMints ==
    ASSUME NEW q \in Program, Check(q), ~Exists(Current(q))
    PROVE  /\ pc[q] = "check" /\ job[q] <= Len(Jobs(q))
           /\ pc' = [pc EXCEPT ![q] = "mint"]
           /\ overlap' = overlap \cup {p \in {Current(q)} : \E r \in Program : Creating(r, p)}
           /\ job' = job /\ key' = key /\ crt' = crt /\ mine' = mine /\ apiUp' = apiUp
BY DEF Check, Goto

(* The CA is loaded. *)
LEMMA OpenKeySigns ==
    ASSUME NEW q \in Program, OpenKey(q), CanSign(q)
    PROVE  /\ pc[q] = "mint" /\ pc' = [pc EXCEPT ![q] = "write_key"]
           /\ mine' = [mine EXCEPT ![q] = Made(q)]
           /\ key' = [key EXCEPT ![Current(q)] = Torn]
           /\ job' = job /\ crt' = crt /\ apiUp' = apiUp /\ overlap' = overlap
BY DEF OpenKey, Goto

(* The CA cannot be loaded. *)
LEMMA OpenKeyRaises ==
    ASSUME NEW q \in Program, OpenKey(q), ~CanSign(q)
    PROVE  /\ pc[q] = "mint" /\ pc' = [pc EXCEPT ![q] = "down"]
           /\ job' = [job EXCEPT ![q] = 1]
           /\ mine' = mine /\ key' = key /\ crt' = crt /\ apiUp' = apiUp /\ overlap' = overlap
BY DEF OpenKey, Goto

-----------------------------------------------------------------------------
(* The certificate authority.                                              *)

(* A program stays with its pair until it is done with it or stops. *)
LEMMA CurrentStep ==
    ASSUME PkiTypeOK, JobsTyped,
           [PkiNext]_pkiVars
    PROVE  \A r \in Program : Busy(r)' => Current(r)' = Current(r)
<1> USE Names DEF PkiTypeOK, JobsTyped, Busy, Current, Missing, Torn, Cert, pkiVars
<1>1. ASSUME NEW q \in Program, Start(q) PROVE \A r \in Program : Busy(r)' => Current(r)' = Current(r)
    BY <1>1 DEF Start, Goto
<1>2. ASSUME NEW q \in Program, Check(q) PROVE \A r \in Program : Busy(r)' => Current(r)' = Current(r)
  <2>1. CASE Exists(Current(q))
    <3>1. /\ pc[q] = "check" /\ job[q] <= Len(Jobs(q)) /\ job' = [job EXCEPT ![q] = job[q] + 1]
           /\ pc' = pc /\ key' = key /\ crt' = crt /\ mine' = mine /\ apiUp' = apiUp /\ overlap' = overlap
        BY <1>2, <2>1, CheckFinds
    <3> QED
        BY <3>1, <2>1 DEF CanSign, Made
  <2>2. CASE ~Exists(Current(q))
    <3>1. /\ pc[q] = "check" /\ job[q] <= Len(Jobs(q)) /\ pc' = [pc EXCEPT ![q] = "mint"]
           /\ overlap' = overlap \cup {p \in {Current(q)} : \E r \in Program : Creating(r, p)}
           /\ job' = job /\ key' = key /\ crt' = crt /\ mine' = mine /\ apiUp' = apiUp
        BY <1>2, <2>2, CheckMints
    <3> QED
        BY <3>1, <2>2 DEF CanSign, Made
  <2> QED
      BY <2>1, <2>2
<1>3. ASSUME NEW q \in Program, OpenKey(q) PROVE \A r \in Program : Busy(r)' => Current(r)' = Current(r)
  <2>1. CASE CanSign(q)
    <3>1. /\ pc[q] = "mint" /\ pc' = [pc EXCEPT ![q] = "write_key"] /\ mine' = [mine EXCEPT ![q] = Made(q)]
           /\ key' = [key EXCEPT ![Current(q)] = Torn]
           /\ job' = job /\ crt' = crt /\ apiUp' = apiUp /\ overlap' = overlap
        BY <1>3, <2>1, OpenKeySigns
    <3> QED
        BY <3>1, <2>1 DEF CanSign, Made
  <2>2. CASE ~CanSign(q)
    <3>1. /\ pc[q] = "mint" /\ pc' = [pc EXCEPT ![q] = "down"] /\ job' = [job EXCEPT ![q] = 1]
           /\ mine' = mine /\ key' = key /\ crt' = crt /\ apiUp' = apiUp /\ overlap' = overlap
        BY <1>3, <2>2, OpenKeyRaises
    <3> QED
        BY <3>1, <2>2 DEF CanSign, Made
  <2> QED
      BY <2>1, <2>2
<1>4. ASSUME NEW q \in Program, WriteKey(q) PROVE \A r \in Program : Busy(r)' => Current(r)' = Current(r)
    BY <1>4 DEF WriteKey, Goto
<1>5. ASSUME NEW q \in Program, OpenCrt(q) PROVE \A r \in Program : Busy(r)' => Current(r)' = Current(r)
    BY <1>5 DEF OpenCrt, Goto
<1>6. ASSUME NEW q \in Program, WriteCrt(q) PROVE \A r \in Program : Busy(r)' => Current(r)' = Current(r)
    BY <1>6 DEF WriteCrt, Goto
<1>7. ASSUME NEW q \in Program, Serve(q) PROVE \A r \in Program : Busy(r)' => Current(r)' = Current(r)
    BY <1>7 DEF Serve, Goto
<1>8. ASSUME NEW q \in Program, Crash(q) PROVE \A r \in Program : Busy(r)' => Current(r)' = Current(r)
    BY <1>8 DEF Crash, Stop
<1>9. ASSUME NEW p \in {"server", "redis"}, NEW S \in {Program, Program \ {"init"}}, Reissue(p, S) PROVE \A r \in Program : Busy(r)' => Current(r)' = Current(r)
    BY <1>9 DEF Reissue, Stop
<1>10. CASE UNCHANGED pkiVars
    BY <1>10 DEF pkiVars
<1> QED
    BY <1>1, <1>2, <1>3, <1>4, <1>5, <1>6, <1>7, <1>8, <1>9, <1>10
       DEF PkiNext, PkiStep

(* A program stays within its list of pairs. *)
LEMMA JobsStep ==
    ASSUME PkiTypeOK, JobsTyped,
           [PkiNext]_pkiVars
    PROVE  JobsTyped'
<1>a. \A r \in Program : Busy(r)' => Current(r)' = Current(r)
    BY CurrentStep
<1>b. \A r \in Program : job[r] <= Len(Jobs(r)) => Current(r) \in Pair /\ (Current(r) = "ca" <=> job[r] = 1)
    BY CurrentFacts
<1>c. \A r \in Program : Len(Jobs(r)) \in Nat /\ Len(Jobs(r)) > 1
    BY CurrentFacts
<1> USE Names, <1>a, <1>b DEF PkiTypeOK, JobsTyped, Busy, Holds, Creating, Readable, Missing, Torn, Cert, pkiVars
<1>1. ASSUME NEW q \in Program, Start(q) PROVE JobsTyped'
    BY <1>1 DEF Start, Goto
<1>2. ASSUME NEW q \in Program, Check(q) PROVE JobsTyped'
  <2>1. CASE Exists(Current(q))
    <3>1. /\ pc[q] = "check" /\ job[q] <= Len(Jobs(q)) /\ job' = [job EXCEPT ![q] = job[q] + 1]
           /\ pc' = pc /\ key' = key /\ crt' = crt /\ mine' = mine /\ apiUp' = apiUp /\ overlap' = overlap
        BY <1>2, <2>1, CheckFinds
    <3> QED
        BY <3>1, <2>1 DEF CanSign, Made
  <2>2. CASE ~Exists(Current(q))
    <3>1. /\ pc[q] = "check" /\ job[q] <= Len(Jobs(q)) /\ pc' = [pc EXCEPT ![q] = "mint"]
           /\ overlap' = overlap \cup {p \in {Current(q)} : \E r \in Program : Creating(r, p)}
           /\ job' = job /\ key' = key /\ crt' = crt /\ mine' = mine /\ apiUp' = apiUp
        BY <1>2, <2>2, CheckMints
    <3> QED
        BY <3>1, <2>2 DEF CanSign, Made
  <2> QED
      BY <2>1, <2>2
<1>3. ASSUME NEW q \in Program, OpenKey(q) PROVE JobsTyped'
  <2>1. CASE CanSign(q)
    <3>1. /\ pc[q] = "mint" /\ pc' = [pc EXCEPT ![q] = "write_key"] /\ mine' = [mine EXCEPT ![q] = Made(q)]
           /\ key' = [key EXCEPT ![Current(q)] = Torn]
           /\ job' = job /\ crt' = crt /\ apiUp' = apiUp /\ overlap' = overlap
        BY <1>3, <2>1, OpenKeySigns
    <3>2. Made(q) \in [of : Nat, by : Nat] /\ Made(q).of > Missing
      <4>1. minted + 1 \in Nat /\ minted + 1 > Missing
          OBVIOUS
      <4>2. CASE Current(q) = "ca"
          BY <4>1, <4>2 DEF Made
      <4>3. CASE Current(q) /= "ca"
        <5>1. key["ca"] \in Nat
            BY <4>3, <2>1 DEF CanSign
        <5> QED
            BY <4>1, <4>3, <5>1 DEF Made
      <4> QED
          BY <4>2, <4>3
    <3> QED
        BY <3>1, <3>2
  <2>2. CASE ~CanSign(q)
    <3>1. /\ pc[q] = "mint" /\ pc' = [pc EXCEPT ![q] = "down"] /\ job' = [job EXCEPT ![q] = 1]
           /\ mine' = mine /\ key' = key /\ crt' = crt /\ apiUp' = apiUp /\ overlap' = overlap
        BY <1>3, <2>2, OpenKeyRaises
    <3> QED
        BY <3>1, <2>2 DEF CanSign, Made
  <2> QED
      BY <2>1, <2>2
<1>4. ASSUME NEW q \in Program, WriteKey(q) PROVE JobsTyped'
    BY <1>4 DEF WriteKey, Goto
<1>5. ASSUME NEW q \in Program, OpenCrt(q) PROVE JobsTyped'
    BY <1>5 DEF OpenCrt, Goto
<1>6. ASSUME NEW q \in Program, WriteCrt(q) PROVE JobsTyped'
    BY <1>6 DEF WriteCrt, Goto
<1>7. ASSUME NEW q \in Program, Serve(q) PROVE JobsTyped'
    BY <1>7 DEF Serve, Goto
<1>8. ASSUME NEW q \in Program, Crash(q) PROVE JobsTyped'
    BY <1>8 DEF Crash, Stop
<1>9. ASSUME NEW p \in {"server", "redis"}, NEW S \in {Program, Program \ {"init"}}, Reissue(p, S) PROVE JobsTyped'
    BY <1>9 DEF Reissue, Stop
<1>10. CASE UNCHANGED pkiVars
    BY <1>10 DEF pkiVars
<1> QED
    BY <1>1, <1>2, <1>3, <1>4, <1>5, <1>6, <1>7, <1>8, <1>9, <1>10
       DEF PkiNext, PkiStep

(* Only init creates the root. *)
LEMMA RootStep ==
    ASSUME PkiTypeOK, JobsTyped, RootFirst, OneCreator,
           [PkiNext]_pkiVars
    PROVE  RootFirst'
<1>a. \A r \in Program : Busy(r)' => Current(r)' = Current(r)
    BY CurrentStep
<1>b. \A r \in Program : job[r] <= Len(Jobs(r)) => Current(r) \in Pair /\ (Current(r) = "ca" <=> job[r] = 1)
    BY CurrentFacts
<1>c. \A r \in Program : Len(Jobs(r)) \in Nat /\ Len(Jobs(r)) > 1
    BY CurrentFacts
<1> USE Names, <1>a, <1>b, <1>c DEF PkiTypeOK, JobsTyped, RootFirst, InitServes, RootDone, RootOfInit, OneCreator, Busy, Holds, Exists, Creating, Missing, Torn, Cert, pkiVars
<1>1. ASSUME NEW q \in Program, Start(q) PROVE RootFirst'
  <2>1. InitServes'
      BY <1>1 DEF Start, Goto, InitServes
  <2>2. RootDone'
      BY <1>1 DEF Start, Goto, RootDone
  <2>3. RootOfInit'
      BY <1>1 DEF Start, Goto, RootOfInit
  <2>4. "ca" \notin overlap'
      BY <1>1 DEF Start, Goto, RootFirst
  <2> QED
      BY <2>1, <2>2, <2>3, <2>4
<1>2. ASSUME NEW q \in Program, Check(q) PROVE RootFirst'
  <2>1. CASE Exists(Current(q))
    <3>1. /\ pc[q] = "check" /\ job[q] <= Len(Jobs(q)) /\ job' = [job EXCEPT ![q] = job[q] + 1]
           /\ pc' = pc /\ key' = key /\ crt' = crt /\ mine' = mine /\ apiUp' = apiUp /\ overlap' = overlap
        BY <1>2, <2>1, CheckFinds
    <3>2. InitServes'
        BY <3>1, <2>1
    <3>3. RootDone'
        BY <3>1, <2>1
    <3>4. RootOfInit'
        BY <3>1, <2>1
    <3>5. "ca" \notin overlap'
        BY <3>1, <2>1
    <3> QED
        BY <3>2, <3>3, <3>4, <3>5
  <2>2. CASE ~Exists(Current(q))
    <3>1. /\ pc[q] = "check" /\ job[q] <= Len(Jobs(q)) /\ pc' = [pc EXCEPT ![q] = "mint"]
           /\ overlap' = overlap \cup {p \in {Current(q)} : \E r \in Program : Creating(r, p)}
           /\ job' = job /\ key' = key /\ crt' = crt /\ mine' = mine /\ apiUp' = apiUp
        BY <1>2, <2>2, CheckMints
    <3>2. InitServes'
        BY <3>1, <2>2
    <3>3. RootDone'
        BY <3>1, <2>2
    <3>4. RootOfInit'
        BY <3>1, <2>2
    <3>5. "ca" \notin overlap'
        BY <3>1, <2>2
    <3> QED
        BY <3>2, <3>3, <3>4, <3>5
  <2> QED
      BY <2>1, <2>2
<1>3. ASSUME NEW q \in Program, OpenKey(q) PROVE RootFirst'
  <2>1. CASE CanSign(q)
    <3>1. /\ pc[q] = "mint" /\ pc' = [pc EXCEPT ![q] = "write_key"] /\ mine' = [mine EXCEPT ![q] = Made(q)]
           /\ key' = [key EXCEPT ![Current(q)] = Torn]
           /\ job' = job /\ crt' = crt /\ apiUp' = apiUp /\ overlap' = overlap
        BY <1>3, <2>1, OpenKeySigns
    <3>2. InitServes'
        BY <3>1, <2>1
    <3>3. RootDone'
        BY <3>1, <2>1
    <3>4. RootOfInit'
        BY <3>1, <2>1
    <3>5. "ca" \notin overlap'
        BY <3>1, <2>1
    <3> QED
        BY <3>2, <3>3, <3>4, <3>5
  <2>2. CASE ~CanSign(q)
    <3>1. /\ pc[q] = "mint" /\ pc' = [pc EXCEPT ![q] = "down"] /\ job' = [job EXCEPT ![q] = 1]
           /\ mine' = mine /\ key' = key /\ crt' = crt /\ apiUp' = apiUp /\ overlap' = overlap
        BY <1>3, <2>2, OpenKeyRaises
    <3>2. InitServes'
        BY <3>1, <2>2
    <3>3. RootDone'
        BY <3>1, <2>2
    <3>4. RootOfInit'
        BY <3>1, <2>2
    <3>5. "ca" \notin overlap'
        BY <3>1, <2>2
    <3> QED
        BY <3>2, <3>3, <3>4, <3>5
  <2> QED
      BY <2>1, <2>2
<1>4. ASSUME NEW q \in Program, WriteKey(q) PROVE RootFirst'
  <2>1. InitServes'
      BY <1>4 DEF WriteKey, Goto, InitServes
  <2>2. RootDone'
      BY <1>4 DEF WriteKey, Goto, RootDone
  <2>3. RootOfInit'
      BY <1>4 DEF WriteKey, Goto, RootOfInit
  <2>4. "ca" \notin overlap'
      BY <1>4 DEF WriteKey, Goto, RootFirst
  <2> QED
      BY <2>1, <2>2, <2>3, <2>4
<1>5. ASSUME NEW q \in Program, OpenCrt(q) PROVE RootFirst'
  <2>1. InitServes'
      BY <1>5 DEF OpenCrt, Goto, InitServes
  <2>2. RootDone'
      BY <1>5 DEF OpenCrt, Goto, RootDone
  <2>3. RootOfInit'
      BY <1>5 DEF OpenCrt, Goto, RootOfInit
  <2>4. "ca" \notin overlap'
      BY <1>5 DEF OpenCrt, Goto, RootFirst
  <2> QED
      BY <2>1, <2>2, <2>3, <2>4
<1>6. ASSUME NEW q \in Program, WriteCrt(q) PROVE RootFirst'
  <2>1. InitServes'
      BY <1>6 DEF WriteCrt, Goto, InitServes
  <2>2. RootDone'
      BY <1>6 DEF WriteCrt, Goto, RootDone
  <2>3. RootOfInit'
      BY <1>6 DEF WriteCrt, Goto, RootOfInit
  <2>4. "ca" \notin overlap'
      BY <1>6 DEF WriteCrt, Goto, RootFirst
  <2> QED
      BY <2>1, <2>2, <2>3, <2>4
<1>7. ASSUME NEW q \in Program, Serve(q) PROVE RootFirst'
  <2>1. InitServes'
      BY <1>7 DEF Serve, Goto, InitServes
  <2>2. RootDone'
      BY <1>7 DEF Serve, Goto, RootDone
  <2>3. RootOfInit'
      BY <1>7 DEF Serve, Goto, RootOfInit
  <2>4. "ca" \notin overlap'
      BY <1>7 DEF Serve, Goto, RootFirst
  <2> QED
      BY <2>1, <2>2, <2>3, <2>4
<1>8. ASSUME NEW q \in Program, Crash(q) PROVE RootFirst'
  <2>1. InitServes'
      BY <1>8 DEF Crash, Stop, InitServes
  <2>2. RootDone'
      BY <1>8 DEF Crash, Stop, RootDone
  <2>3. RootOfInit'
      BY <1>8 DEF Crash, Stop, RootOfInit
  <2>4. "ca" \notin overlap'
      BY <1>8 DEF Crash, Stop, RootFirst
  <2> QED
      BY <2>1, <2>2, <2>3, <2>4
<1>9. ASSUME NEW p \in {"server", "redis"}, NEW S \in {Program, Program \ {"init"}}, Reissue(p, S) PROVE RootFirst'
  <2>1. InitServes'
      BY <1>9 DEF Reissue, Stop, InitServes
  <2>2. RootDone'
      BY <1>9 DEF Reissue, Stop, RootDone
  <2>3. RootOfInit'
      BY <1>9 DEF Reissue, Stop, RootOfInit
  <2>4. "ca" \notin overlap'
      BY <1>9 DEF Reissue, Stop, RootFirst
  <2> QED
      BY <2>1, <2>2, <2>3, <2>4
<1>10. CASE UNCHANGED pkiVars
  <2>1. InitServes'
      BY <1>10 DEF pkiVars, InitServes
  <2>2. RootDone'
      BY <1>10 DEF pkiVars, RootDone
  <2>3. RootOfInit'
      BY <1>10 DEF pkiVars, RootOfInit
  <2>4. "ca" \notin overlap'
      BY <1>10 DEF pkiVars, RootFirst
  <2> QED
      BY <2>1, <2>2, <2>3, <2>4
<1> QED
    BY <1>1, <1>2, <1>3, <1>4, <1>5, <1>6, <1>7, <1>8, <1>9, <1>10
       DEF PkiNext, PkiStep

(* One creator takes a pair from file to file. *)
LEMMA CreatorStep ==
    ASSUME PkiTypeOK, JobsTyped, RootFirst, OneCreator,
           [PkiNext]_pkiVars
    PROVE  OneCreator'
<1>a. \A r \in Program : Busy(r)' => Current(r)' = Current(r)
    BY CurrentStep
<1>b. \A r \in Program : job[r] <= Len(Jobs(r)) => Current(r) \in Pair /\ (Current(r) = "ca" <=> job[r] = 1)
    BY CurrentFacts
<1>c. \A r \in Program : Len(Jobs(r)) \in Nat /\ Len(Jobs(r)) > 1
    BY CurrentFacts
<1> USE Names, <1>a, <1>b DEF PkiTypeOK, JobsTyped, OneCreator, Busy, Holds, Exists, Creating, Missing, Torn, Cert, pkiVars
<1>1. ASSUME NEW q \in Program, Start(q) PROVE OneCreator'
    BY <1>1 DEF Start, Goto
<1>2. ASSUME NEW q \in Program, Check(q) PROVE OneCreator'
  <2>1. CASE Exists(Current(q))
    <3>1. /\ pc[q] = "check" /\ job[q] <= Len(Jobs(q)) /\ job' = [job EXCEPT ![q] = job[q] + 1]
           /\ pc' = pc /\ key' = key /\ crt' = crt /\ mine' = mine /\ apiUp' = apiUp /\ overlap' = overlap
        BY <1>2, <2>1, CheckFinds
    <3> QED
        BY <3>1, <2>1 DEF CanSign, Made
  <2>2. CASE ~Exists(Current(q))
    <3>1. /\ pc[q] = "check" /\ job[q] <= Len(Jobs(q)) /\ pc' = [pc EXCEPT ![q] = "mint"]
           /\ overlap' = overlap \cup {p \in {Current(q)} : \E r \in Program : Creating(r, p)}
           /\ job' = job /\ key' = key /\ crt' = crt /\ mine' = mine /\ apiUp' = apiUp
        BY <1>2, <2>2, CheckMints
    <3> QED
        BY <3>1, <2>2 DEF CanSign, Made
  <2> QED
      BY <2>1, <2>2
<1>3. ASSUME NEW q \in Program, OpenKey(q) PROVE OneCreator'
  <2>1. CASE CanSign(q)
    <3>1. /\ pc[q] = "mint" /\ pc' = [pc EXCEPT ![q] = "write_key"] /\ mine' = [mine EXCEPT ![q] = Made(q)]
           /\ key' = [key EXCEPT ![Current(q)] = Torn]
           /\ job' = job /\ crt' = crt /\ apiUp' = apiUp /\ overlap' = overlap
        BY <1>3, <2>1, OpenKeySigns
    <3> QED
        BY <3>1, <2>1, SMTT(60) DEF CanSign, Made
  <2>2. CASE ~CanSign(q)
    <3>1. /\ pc[q] = "mint" /\ pc' = [pc EXCEPT ![q] = "down"] /\ job' = [job EXCEPT ![q] = 1]
           /\ mine' = mine /\ key' = key /\ crt' = crt /\ apiUp' = apiUp /\ overlap' = overlap
        BY <1>3, <2>2, OpenKeyRaises
    <3> QED
        BY <3>1, <2>2 DEF CanSign, Made
  <2> QED
      BY <2>1, <2>2
<1>4. ASSUME NEW q \in Program, WriteKey(q) PROVE OneCreator'
    BY <1>4, SMTT(60) DEF WriteKey, Goto
<1>5. ASSUME NEW q \in Program, OpenCrt(q) PROVE OneCreator'
    BY <1>5, SMTT(60) DEF OpenCrt, Goto
<1>6. ASSUME NEW q \in Program, WriteCrt(q) PROVE OneCreator'
    BY <1>6 DEF WriteCrt, Goto
<1>7. ASSUME NEW q \in Program, Serve(q) PROVE OneCreator'
    BY <1>7 DEF Serve, Goto
<1>8. ASSUME NEW q \in Program, Crash(q) PROVE OneCreator'
    BY <1>8 DEF Crash, Stop
<1>9. ASSUME NEW p \in {"server", "redis"}, NEW S \in {Program, Program \ {"init"}}, Reissue(p, S) PROVE OneCreator'
    BY <1>9 DEF Reissue, Stop
<1>10. CASE UNCHANGED pkiVars
    BY <1>10 DEF pkiVars
<1> QED
    BY <1>1, <1>2, <1>3, <1>4, <1>5, <1>6, <1>7, <1>8, <1>9, <1>10
       DEF PkiNext, PkiStep

(* A pair that one program creates belongs together. *)
LEMMA MatchStep ==
    ASSUME PkiTypeOK, JobsTyped, OneCreator, MismatchNeedsOverlap,
           [PkiNext]_pkiVars
    PROVE  MismatchNeedsOverlap'
<1>a. \A r \in Program : Busy(r)' => Current(r)' = Current(r)
    BY CurrentStep
<1>b. \A r \in Program : job[r] <= Len(Jobs(r)) => Current(r) \in Pair /\ (Current(r) = "ca" <=> job[r] = 1)
    BY CurrentFacts
<1>c. \A r \in Program : Len(Jobs(r)) \in Nat /\ Len(Jobs(r)) > 1
    BY CurrentFacts
<1> USE Names, <1>a, <1>b DEF PkiTypeOK, JobsTyped, OneCreator, MismatchNeedsOverlap, Matching, Readable, Busy, Holds, Creating, Missing, Torn, Cert, pkiVars
<1>1. ASSUME NEW q \in Program, Start(q) PROVE MismatchNeedsOverlap'
    BY <1>1 DEF Start, Goto
<1>2. ASSUME NEW q \in Program, Check(q) PROVE MismatchNeedsOverlap'
  <2>1. CASE Exists(Current(q))
    <3>1. /\ pc[q] = "check" /\ job[q] <= Len(Jobs(q)) /\ job' = [job EXCEPT ![q] = job[q] + 1]
           /\ pc' = pc /\ key' = key /\ crt' = crt /\ mine' = mine /\ apiUp' = apiUp /\ overlap' = overlap
        BY <1>2, <2>1, CheckFinds
    <3> QED
        BY <3>1, <2>1 DEF CanSign, Made
  <2>2. CASE ~Exists(Current(q))
    <3>1. /\ pc[q] = "check" /\ job[q] <= Len(Jobs(q)) /\ pc' = [pc EXCEPT ![q] = "mint"]
           /\ overlap' = overlap \cup {p \in {Current(q)} : \E r \in Program : Creating(r, p)}
           /\ job' = job /\ key' = key /\ crt' = crt /\ mine' = mine /\ apiUp' = apiUp
        BY <1>2, <2>2, CheckMints
    <3> QED
        BY <3>1, <2>2 DEF CanSign, Made
  <2> QED
      BY <2>1, <2>2
<1>3. ASSUME NEW q \in Program, OpenKey(q) PROVE MismatchNeedsOverlap'
  <2>1. CASE CanSign(q)
    <3>1. /\ pc[q] = "mint" /\ pc' = [pc EXCEPT ![q] = "write_key"] /\ mine' = [mine EXCEPT ![q] = Made(q)]
           /\ key' = [key EXCEPT ![Current(q)] = Torn]
           /\ job' = job /\ crt' = crt /\ apiUp' = apiUp /\ overlap' = overlap
        BY <1>3, <2>1, OpenKeySigns
    <3> QED
        BY <3>1, <2>1 DEF CanSign, Made
  <2>2. CASE ~CanSign(q)
    <3>1. /\ pc[q] = "mint" /\ pc' = [pc EXCEPT ![q] = "down"] /\ job' = [job EXCEPT ![q] = 1]
           /\ mine' = mine /\ key' = key /\ crt' = crt /\ apiUp' = apiUp /\ overlap' = overlap
        BY <1>3, <2>2, OpenKeyRaises
    <3> QED
        BY <3>1, <2>2 DEF CanSign, Made
  <2> QED
      BY <2>1, <2>2
<1>4. ASSUME NEW q \in Program, WriteKey(q) PROVE MismatchNeedsOverlap'
    BY <1>4 DEF WriteKey, Goto
<1>5. ASSUME NEW q \in Program, OpenCrt(q) PROVE MismatchNeedsOverlap'
    BY <1>5 DEF OpenCrt, Goto
<1>6. ASSUME NEW q \in Program, WriteCrt(q) PROVE MismatchNeedsOverlap'
    BY <1>6 DEF WriteCrt, Goto
<1>7. ASSUME NEW q \in Program, Serve(q) PROVE MismatchNeedsOverlap'
    BY <1>7 DEF Serve, Goto
<1>8. ASSUME NEW q \in Program, Crash(q) PROVE MismatchNeedsOverlap'
    BY <1>8 DEF Crash, Stop
<1>9. ASSUME NEW p \in {"server", "redis"}, NEW S \in {Program, Program \ {"init"}}, Reissue(p, S) PROVE MismatchNeedsOverlap'
    BY <1>9 DEF Reissue, Stop
<1>10. CASE UNCHANGED pkiVars
    BY <1>10 DEF pkiVars
<1> QED
    BY <1>1, <1>2, <1>3, <1>4, <1>5, <1>6, <1>7, <1>8, <1>9, <1>10
       DEF PkiNext, PkiStep

(* A root that is complete is there for good. *)
LEMMA RootKept ==
    ASSUME PkiTypeOK, JobsTyped, RootFirst, OneCreator, Readable("ca"),
           [PkiNext]_pkiVars
    PROVE  key'["ca"] = key["ca"] /\ crt'["ca"] = crt["ca"]
<1>1. \A q \in Program : Busy(q) => Current(q) # "ca"
    BY Names DEF OneCreator, RootFirst, Creating, Busy, Readable, Missing, Torn
<1>2. \A q \in Program : Busy(q) => Current(q) \in Pair
    BY CurrentFacts DEF JobsTyped
<1>3. ASSUME NEW q \in Program, Start(q) PROVE key'["ca"] = key["ca"] /\ crt'["ca"] = crt["ca"]
    BY <1>3, <1>1, Names DEF Start, Goto, Busy, PkiTypeOK
<1>4. ASSUME NEW q \in Program, Check(q) PROVE key'["ca"] = key["ca"] /\ crt'["ca"] = crt["ca"]
    BY <1>4, <1>1, Names DEF Check, Goto, Busy, PkiTypeOK
<1>5. ASSUME NEW q \in Program, OpenKey(q) PROVE key'["ca"] = key["ca"] /\ crt'["ca"] = crt["ca"]
  <2>1. CASE CanSign(q)
      BY <1>5, <2>1, <1>1, OpenKeySigns, Names DEF Busy, PkiTypeOK
  <2>2. CASE ~CanSign(q)
      BY <1>5, <2>2, OpenKeyRaises
  <2> QED
      BY <2>1, <2>2
<1>6. ASSUME NEW q \in Program, WriteKey(q) PROVE key'["ca"] = key["ca"] /\ crt'["ca"] = crt["ca"]
    BY <1>6, <1>1, Names DEF WriteKey, Goto, Busy, PkiTypeOK
<1>7. ASSUME NEW q \in Program, OpenCrt(q) PROVE key'["ca"] = key["ca"] /\ crt'["ca"] = crt["ca"]
    BY <1>7, <1>1, Names DEF OpenCrt, Goto, Busy, PkiTypeOK
<1>8. ASSUME NEW q \in Program, WriteCrt(q) PROVE key'["ca"] = key["ca"] /\ crt'["ca"] = crt["ca"]
    BY <1>8, <1>1, Names DEF WriteCrt, Goto, Busy, PkiTypeOK
<1>9. ASSUME NEW q \in Program, Serve(q) PROVE key'["ca"] = key["ca"] /\ crt'["ca"] = crt["ca"]
    BY <1>9, <1>1, Names DEF Serve, Goto, Busy, PkiTypeOK
<1>10. ASSUME NEW q \in Program, Crash(q) PROVE key'["ca"] = key["ca"] /\ crt'["ca"] = crt["ca"]
    BY <1>10, <1>1, Names DEF Crash, Stop, Busy, PkiTypeOK
<1>11. ASSUME NEW p \in {"server", "redis"}, NEW S \in {Program, Program \ {"init"}}, Reissue(p, S) PROVE key'["ca"] = key["ca"] /\ crt'["ca"] = crt["ca"]
    BY <1>11, <1>1, Names DEF Reissue, Stop, Busy, PkiTypeOK
<1>12. CASE UNCHANGED pkiVars
    BY <1>12, <1>1, Names DEF pkiVars, Busy, PkiTypeOK
<1> QED
    BY <1>3, <1>4, <1>5, <1>6, <1>7, <1>8, <1>9, <1>10, <1>11, <1>12
       DEF PkiNext, PkiStep

(* What is about to be written stays signed by the root that is there. *)
LEMMA SignedStep ==
    ASSUME PkiTypeOK, JobsTyped, RootFirst, OneCreator, SignedByRoot,
           Readable("ca") => key'["ca"] = key["ca"] /\ crt'["ca"] = crt["ca"],
           [PkiNext]_pkiVars
    PROVE  SignedByRoot'
<1>a. \A r \in Program : Busy(r)' => Current(r)' = Current(r)
    BY CurrentStep
<1>b. \A r \in Program : job[r] <= Len(Jobs(r)) => Current(r) \in Pair /\ (Current(r) = "ca" <=> job[r] = 1)
    BY CurrentFacts
<1>c. \A r \in Program : Len(Jobs(r)) \in Nat /\ Len(Jobs(r)) > 1
    BY CurrentFacts
<1> USE Names, <1>a, <1>b DEF PkiTypeOK, JobsTyped, SignedByRoot, Readable, Busy, Holds, Missing, Torn, Cert, pkiVars
<1>1. ASSUME NEW q \in Program, Start(q) PROVE SignedByRoot'
    BY <1>1 DEF Start, Goto
<1>2. ASSUME NEW q \in Program, Check(q) PROVE SignedByRoot'
  <2>1. CASE Exists(Current(q))
    <3>1. /\ pc[q] = "check" /\ job[q] <= Len(Jobs(q)) /\ job' = [job EXCEPT ![q] = job[q] + 1]
           /\ pc' = pc /\ key' = key /\ crt' = crt /\ mine' = mine /\ apiUp' = apiUp /\ overlap' = overlap
        BY <1>2, <2>1, CheckFinds
    <3> QED
        BY <3>1, <2>1 DEF CanSign, Made
  <2>2. CASE ~Exists(Current(q))
    <3>1. /\ pc[q] = "check" /\ job[q] <= Len(Jobs(q)) /\ pc' = [pc EXCEPT ![q] = "mint"]
           /\ overlap' = overlap \cup {p \in {Current(q)} : \E r \in Program : Creating(r, p)}
           /\ job' = job /\ key' = key /\ crt' = crt /\ mine' = mine /\ apiUp' = apiUp
        BY <1>2, <2>2, CheckMints
    <3> QED
        BY <3>1, <2>2 DEF CanSign, Made
  <2> QED
      BY <2>1, <2>2
<1>3. ASSUME NEW q \in Program, OpenKey(q) PROVE SignedByRoot'
  <2>1. CASE CanSign(q)
    <3>1. /\ pc[q] = "mint" /\ pc' = [pc EXCEPT ![q] = "write_key"] /\ mine' = [mine EXCEPT ![q] = Made(q)]
           /\ key' = [key EXCEPT ![Current(q)] = Torn]
           /\ job' = job /\ crt' = crt /\ apiUp' = apiUp /\ overlap' = overlap
        BY <1>3, <2>1, OpenKeySigns
    <3> QED
        BY <3>1, <2>1 DEF CanSign, Made
  <2>2. CASE ~CanSign(q)
    <3>1. /\ pc[q] = "mint" /\ pc' = [pc EXCEPT ![q] = "down"] /\ job' = [job EXCEPT ![q] = 1]
           /\ mine' = mine /\ key' = key /\ crt' = crt /\ apiUp' = apiUp /\ overlap' = overlap
        BY <1>3, <2>2, OpenKeyRaises
    <3> QED
        BY <3>1, <2>2 DEF CanSign, Made
  <2> QED
      BY <2>1, <2>2
<1>4. ASSUME NEW q \in Program, WriteKey(q) PROVE SignedByRoot'
    BY <1>4 DEF WriteKey, Goto
<1>5. ASSUME NEW q \in Program, OpenCrt(q) PROVE SignedByRoot'
    BY <1>5, SMTT(60) DEF OpenCrt, Goto
<1>6. ASSUME NEW q \in Program, WriteCrt(q) PROVE SignedByRoot'
    BY <1>6 DEF WriteCrt, Goto
<1>7. ASSUME NEW q \in Program, Serve(q) PROVE SignedByRoot'
    BY <1>7 DEF Serve, Goto
<1>8. ASSUME NEW q \in Program, Crash(q) PROVE SignedByRoot'
    BY <1>8 DEF Crash, Stop
<1>9. ASSUME NEW p \in {"server", "redis"}, NEW S \in {Program, Program \ {"init"}}, Reissue(p, S) PROVE SignedByRoot'
    BY <1>9 DEF Reissue, Stop
<1>10. CASE UNCHANGED pkiVars
    BY <1>10 DEF pkiVars
<1> QED
    BY <1>1, <1>2, <1>3, <1>4, <1>5, <1>6, <1>7, <1>8, <1>9, <1>10
       DEF PkiNext, PkiStep

(* A certificate is written under the root that is there. *)
LEMMA IssuerStep ==
    ASSUME PkiTypeOK, JobsTyped, RootFirst, OneCreator, SignedByRoot, OneIssuer,
           Readable("ca") => key'["ca"] = key["ca"] /\ crt'["ca"] = crt["ca"],
           [PkiNext]_pkiVars
    PROVE  OneIssuer'
<1>a. \A r \in Program : Busy(r)' => Current(r)' = Current(r)
    BY CurrentStep
<1>b. \A r \in Program : job[r] <= Len(Jobs(r)) => Current(r) \in Pair /\ (Current(r) = "ca" <=> job[r] = 1)
    BY CurrentFacts
<1>c. \A r \in Program : Len(Jobs(r)) \in Nat /\ Len(Jobs(r)) > 1
    BY CurrentFacts
<1> USE Names, <1>a, <1>b DEF PkiTypeOK, JobsTyped, RootFirst, OneCreator, SignedByRoot, OneIssuer, Readable, Creating, Busy, Holds, Missing, Torn, Cert, pkiVars
<1>1. ASSUME NEW q \in Program, Start(q) PROVE OneIssuer'
    BY <1>1 DEF Start, Goto
<1>2. ASSUME NEW q \in Program, Check(q) PROVE OneIssuer'
  <2>1. CASE Exists(Current(q))
    <3>1. /\ pc[q] = "check" /\ job[q] <= Len(Jobs(q)) /\ job' = [job EXCEPT ![q] = job[q] + 1]
           /\ pc' = pc /\ key' = key /\ crt' = crt /\ mine' = mine /\ apiUp' = apiUp /\ overlap' = overlap
        BY <1>2, <2>1, CheckFinds
    <3> QED
        BY <3>1, <2>1 DEF CanSign, Made
  <2>2. CASE ~Exists(Current(q))
    <3>1. /\ pc[q] = "check" /\ job[q] <= Len(Jobs(q)) /\ pc' = [pc EXCEPT ![q] = "mint"]
           /\ overlap' = overlap \cup {p \in {Current(q)} : \E r \in Program : Creating(r, p)}
           /\ job' = job /\ key' = key /\ crt' = crt /\ mine' = mine /\ apiUp' = apiUp
        BY <1>2, <2>2, CheckMints
    <3> QED
        BY <3>1, <2>2 DEF CanSign, Made
  <2> QED
      BY <2>1, <2>2
<1>3. ASSUME NEW q \in Program, OpenKey(q) PROVE OneIssuer'
  <2>1. CASE CanSign(q)
    <3>1. /\ pc[q] = "mint" /\ pc' = [pc EXCEPT ![q] = "write_key"] /\ mine' = [mine EXCEPT ![q] = Made(q)]
           /\ key' = [key EXCEPT ![Current(q)] = Torn]
           /\ job' = job /\ crt' = crt /\ apiUp' = apiUp /\ overlap' = overlap
        BY <1>3, <2>1, OpenKeySigns
    <3> QED
        BY <3>1, <2>1 DEF CanSign, Made
  <2>2. CASE ~CanSign(q)
    <3>1. /\ pc[q] = "mint" /\ pc' = [pc EXCEPT ![q] = "down"] /\ job' = [job EXCEPT ![q] = 1]
           /\ mine' = mine /\ key' = key /\ crt' = crt /\ apiUp' = apiUp /\ overlap' = overlap
        BY <1>3, <2>2, OpenKeyRaises
    <3> QED
        BY <3>1, <2>2 DEF CanSign, Made
  <2> QED
      BY <2>1, <2>2
<1>4. ASSUME NEW q \in Program, WriteKey(q) PROVE OneIssuer'
    BY <1>4 DEF WriteKey, Goto
<1>5. ASSUME NEW q \in Program, OpenCrt(q) PROVE OneIssuer'
    BY <1>5 DEF OpenCrt, Goto
<1>6. ASSUME NEW q \in Program, WriteCrt(q) PROVE OneIssuer'
    BY <1>6 DEF WriteCrt, Goto
<1>7. ASSUME NEW q \in Program, Serve(q) PROVE OneIssuer'
    BY <1>7 DEF Serve, Goto
<1>8. ASSUME NEW q \in Program, Crash(q) PROVE OneIssuer'
    BY <1>8 DEF Crash, Stop
<1>9. ASSUME NEW p \in {"server", "redis"}, NEW S \in {Program, Program \ {"init"}}, Reissue(p, S) PROVE OneIssuer'
    BY <1>9 DEF Reissue, Stop
<1>10. CASE UNCHANGED pkiVars
    BY <1>10 DEF pkiVars
<1> QED
    BY <1>1, <1>2, <1>3, <1>4, <1>5, <1>6, <1>7, <1>8, <1>9, <1>10
       DEF PkiNext, PkiStep

(* Every step of the authority's programs keeps its invariant, given the types. *)
LEMMA PkiInvStep ==
    ASSUME PkiInv, PkiTypeOK', [PkiNext]_pkiVars
    PROVE  PkiInv'
<1>1. Readable("ca") => key'["ca"] = key["ca"] /\ crt'["ca"] = crt["ca"]
    BY RootKept DEF PkiInv
<1> QED
    BY <1>1, JobsStep, RootStep, CreatorStep, MatchStep, SignedStep, IssuerStep DEF PkiInv

(* The files hold keys and certificates only. *)
LEMMA PkiTypeStep ==
    ASSUME PkiTypeOK, JobsTyped, faults' \in 0 .. MaxFaults,
           [PkiNext]_pkiVars
    PROVE  PkiTypeOK'
<1>a. \A r \in Program : Busy(r)' => Current(r)' = Current(r)
    BY CurrentStep
<1>b. \A r \in Program : job[r] <= Len(Jobs(r)) => Current(r) \in Pair /\ (Current(r) = "ca" <=> job[r] = 1)
    BY CurrentFacts
<1>c. \A r \in Program : Len(Jobs(r)) \in Nat /\ Len(Jobs(r)) > 1
    BY CurrentFacts
<1> USE Names, <1>a, <1>b DEF PkiTypeOK, JobsTyped, Busy, Holds, Missing, Torn, Cert, pkiVars
<1>1. ASSUME NEW q \in Program, Start(q) PROVE PkiTypeOK'
    BY <1>1 DEF Start, Goto
<1>2. ASSUME NEW q \in Program, Check(q) PROVE PkiTypeOK'
  <2>1. CASE Exists(Current(q))
    <3>1. /\ pc[q] = "check" /\ job[q] <= Len(Jobs(q)) /\ job' = [job EXCEPT ![q] = job[q] + 1]
           /\ pc' = pc /\ key' = key /\ crt' = crt /\ mine' = mine /\ apiUp' = apiUp /\ overlap' = overlap
        BY <1>2, <2>1, CheckFinds
    <3> QED
        BY <1>2, <3>1 DEF Check
  <2>2. CASE ~Exists(Current(q))
    <3>1. /\ pc[q] = "check" /\ job[q] <= Len(Jobs(q)) /\ pc' = [pc EXCEPT ![q] = "mint"]
           /\ overlap' = overlap \cup {p \in {Current(q)} : \E r \in Program : Creating(r, p)}
           /\ job' = job /\ key' = key /\ crt' = crt /\ mine' = mine /\ apiUp' = apiUp
        BY <1>2, <2>2, CheckMints
    <3> QED
        BY <1>2, <3>1 DEF Check
  <2> QED
      BY <2>1, <2>2
<1>3. ASSUME NEW q \in Program, OpenKey(q) PROVE PkiTypeOK'
  <2>1. CASE CanSign(q)
    <3>1. /\ pc[q] = "mint" /\ pc' = [pc EXCEPT ![q] = "write_key"] /\ mine' = [mine EXCEPT ![q] = Made(q)]
           /\ key' = [key EXCEPT ![Current(q)] = Torn]
           /\ job' = job /\ crt' = crt /\ apiUp' = apiUp /\ overlap' = overlap
        BY <1>3, <2>1, OpenKeySigns
    <3> QED
        BY <1>3, <3>1 DEF OpenKey
  <2>2. CASE ~CanSign(q)
    <3>1. /\ pc[q] = "mint" /\ pc' = [pc EXCEPT ![q] = "down"] /\ job' = [job EXCEPT ![q] = 1]
           /\ mine' = mine /\ key' = key /\ crt' = crt /\ apiUp' = apiUp /\ overlap' = overlap
        BY <1>3, <2>2, OpenKeyRaises
    <3> QED
        BY <1>3, <3>1, <2>2 DEF OpenKey
  <2> QED
      BY <2>1, <2>2
<1>4. ASSUME NEW q \in Program, WriteKey(q) PROVE PkiTypeOK'
    BY <1>4 DEF WriteKey, Goto
<1>5. ASSUME NEW q \in Program, OpenCrt(q) PROVE PkiTypeOK'
    BY <1>5 DEF OpenCrt, Goto
<1>6. ASSUME NEW q \in Program, WriteCrt(q) PROVE PkiTypeOK'
    BY <1>6 DEF WriteCrt, Goto
<1>7. ASSUME NEW q \in Program, Serve(q) PROVE PkiTypeOK'
    BY <1>7 DEF Serve, Goto
<1>8. ASSUME NEW q \in Program, Crash(q) PROVE PkiTypeOK'
    BY <1>8 DEF Crash, Stop
<1>9. ASSUME NEW p \in {"server", "redis"}, NEW S \in {Program, Program \ {"init"}}, Reissue(p, S) PROVE PkiTypeOK'
    BY <1>9 DEF Reissue, Stop
<1>10. CASE UNCHANGED pkiVars
    BY <1>10 DEF pkiVars
<1> QED
    BY <1>1, <1>2, <1>3, <1>4, <1>5, <1>6, <1>7, <1>8, <1>9, <1>10
       DEF PkiNext, PkiStep

-----------------------------------------------------------------------------
(* The worker and agent_manager.                                           *)

(* A step of the authority's programs is at most one fault. *)
LEMMA PkiFaults ==
    ASSUME PkiNext
    PROVE  faults' = faults \/ (faults < MaxFaults /\ faults' = faults + 1)
<1>1. ASSUME NEW q \in Program, Start(q)
      PROVE  faults' = faults \/ (faults < MaxFaults /\ faults' = faults + 1)
    BY <1>1 DEF Start, Fault
<1>2. ASSUME NEW q \in Program, Check(q)
      PROVE  faults' = faults \/ (faults < MaxFaults /\ faults' = faults + 1)
    BY <1>2 DEF Check, Fault
<1>3. ASSUME NEW q \in Program, OpenKey(q)
      PROVE  faults' = faults \/ (faults < MaxFaults /\ faults' = faults + 1)
    BY <1>3 DEF OpenKey, Fault
<1>4. ASSUME NEW q \in Program, WriteKey(q)
      PROVE  faults' = faults \/ (faults < MaxFaults /\ faults' = faults + 1)
    BY <1>4 DEF WriteKey, Fault
<1>5. ASSUME NEW q \in Program, OpenCrt(q)
      PROVE  faults' = faults \/ (faults < MaxFaults /\ faults' = faults + 1)
    BY <1>5 DEF OpenCrt, Fault
<1>6. ASSUME NEW q \in Program, WriteCrt(q)
      PROVE  faults' = faults \/ (faults < MaxFaults /\ faults' = faults + 1)
    BY <1>6 DEF WriteCrt, Fault
<1>7. ASSUME NEW q \in Program, Serve(q)
      PROVE  faults' = faults \/ (faults < MaxFaults /\ faults' = faults + 1)
    BY <1>7 DEF Serve, Fault
<1>8. ASSUME NEW q \in Program, Crash(q)
      PROVE  faults' = faults \/ (faults < MaxFaults /\ faults' = faults + 1)
    BY <1>8 DEF Crash, Fault
<1>9. ASSUME NEW p \in {"server", "redis"}, NEW S \in {Program, Program \ {"init"}}, Reissue(p, S)
      PROVE  faults' = faults \/ (faults < MaxFaults /\ faults' = faults + 1)
    BY <1>9 DEF Reissue, Fault
<1> QED
    BY <1>1, <1>2, <1>3, <1>4, <1>5, <1>6, <1>7, <1>8, <1>9 DEF PkiNext, PkiStep

(* Faults stay within their bound. *)
LEMMA FaultsStep ==
    ASSUME faults \in 0 .. MaxFaults,
           [Next]_vars
    PROVE  faults' \in 0 .. MaxFaults
<1> USE DEF pkiVars, workerVars, agentVars
<1>1. CASE PkiNext /\ UNCHANGED <<workerVars, agentVars>>
    BY <1>1, PkiFaults
<1>2. CASE WorkerStart
    BY <1>2 DEF WorkerStart, Fault
<1>3. CASE Register
    BY <1>3 DEF Register, Fault
<1>4. CASE OpenFile
    BY <1>4 DEF OpenFile, Fault
<1>5. CASE WriteFile
    BY <1>5 DEF WriteFile, Fault
<1>6. CASE WorkerCrash
    BY <1>6 DEF WorkerCrash, Fault
<1>7. CASE RestartDelegate
    BY <1>7 DEF RestartDelegate, Fault
<1>8. CASE Wipe
    BY <1>8 DEF Wipe, Fault
<1>9. CASE AgentReads
    BY <1>9 DEF AgentReads, Fault
<1>10. CASE AgentLoads
    BY <1>10 DEF AgentLoads, Fault
<1>11. CASE AgentCrash
    BY <1>11 DEF AgentCrash, Fault
<1>12. CASE UNCHANGED vars
    BY <1>12 DEF vars
<1> QED
    BY <1>1, <1>2, <1>3, <1>4, <1>5, <1>6, <1>7, <1>8, <1>9, <1>10, <1>11, <1>12
       DEF Next, WorkerStep, AgentStep

(* More faults allow more registrations. *)
LEMMA Slack == \A r, f, g \in Nat : r <= 1 + f /\ f <= g => r <= 1 + g
OBVIOUS

(* A registration without an identity to show for it is owed to a failure. *)
LEMMA OwedStep ==
    ASSUME TypeOK, IdentityLast, Owed, faults' \in 0 .. MaxFaults,
           [Next]_vars
    PROVE  Owed'
<1> USE DEF TypeOK, PkiTypeOK, IdentityLast, Owed, Files, Num, Order, pkiVars, workerVars, agentVars, Missing, Torn, Cert
<1>1. CASE PkiNext /\ UNCHANGED <<workerVars, agentVars>>
  <2>1. wpc' = wpc /\ file' = file /\ registered' = registered /\ registered \in Nat /\ faults \in Nat
      BY <1>1
  <2>2. faults' \in Nat /\ faults <= faults'
      BY <1>1, <2>1, PkiFaults
  <2>3. registered' <= 1 + faults'
    <3> HIDE DEF TypeOK, PkiTypeOK, IdentityLast
    <3>1. registered <= 1 + faults
        OBVIOUS
    <3> HIDE DEF Owed
    <3>2. registered <= 1 + faults'
        BY <2>1, <2>2, <3>1, Slack
    <3> QED
        BY <2>1, <3>2
  <2>4. wpc' \in {"down", "register"} /\ file'.id = Missing => registered' <= faults'
    <3> HIDE DEF TypeOK, PkiTypeOK, IdentityLast
    <3>1. registered <= faults => registered' <= faults'
        BY <2>1, <2>2
    <3> QED
        BY <2>1, <3>1
  <2> QED
      BY <2>3, <2>4
<1>2. CASE WorkerStart
    BY <1>2 DEF WorkerStart, HasIdentity, Fault
<1>3. CASE Register
  <2>1. wpc = "register" /\ registered' = registered + 1 /\ file' = file /\ registered \in Nat /\ faults \in Nat
      BY <1>3 DEF Register
  <2>2. CASE wpc' = "opening" /\ faults' = faults
      BY <2>1, <2>2
  <2>3. CASE faults' = faults + 1
      BY <2>1, <2>3
  <2> QED
      BY <1>3, <2>2, <2>3 DEF Register, Fault
<1>4. CASE OpenFile
    BY <1>4 DEF OpenFile, Fault
<1>5. CASE WriteFile
    BY <1>5 DEF WriteFile, Fault
<1>6. CASE WorkerCrash
    BY <1>6 DEF WorkerCrash, WorkerDies, NoFile, Fault
<1>7. CASE RestartDelegate
    BY <1>7 DEF RestartDelegate, WorkerDies, NoFile, Fault
<1>8. CASE Wipe
    BY <1>8 DEF Wipe, WorkerDies, NoFile, Fault
<1>9. CASE AgentReads
    BY <1>9 DEF AgentReads, AllPresent, Fault
<1>10. CASE AgentLoads
    BY <1>10 DEF AgentLoads, Loadable, Fault
<1>11. CASE AgentCrash
    BY <1>11 DEF AgentCrash, Fault
<1>12. CASE UNCHANGED vars
    BY <1>12 DEF vars
<1> QED
    BY <1>1, <1>2, <1>3, <1>4, <1>5, <1>6, <1>7, <1>8, <1>9, <1>10, <1>11, <1>12
       DEF Next, WorkerStep, AgentStep

(* agent_manager holds what is there. *)
LEMMA AgentStepInv ==
    ASSUME TypeOK, IdentityLast, AgentCurrent,
           [Next]_vars
    PROVE  AgentCurrent'
<1> USE DEF TypeOK, IdentityLast, AgentCurrent, Files, Num, Whole, Order, pkiVars, workerVars, agentVars, Missing, Torn, Cert
<1>1. CASE PkiNext /\ UNCHANGED <<workerVars, agentVars>>
    BY <1>1 DEF workerVars, agentVars
<1>2. CASE WorkerStart
    BY <1>2 DEF WorkerStart, HasIdentity
<1>3. CASE Register
    BY <1>3 DEF Register, Signed, Reachable
<1>4. CASE OpenFile
    BY <1>4 DEF OpenFile
<1>5. CASE WriteFile
    BY <1>5 DEF WriteFile
<1>6. CASE WorkerCrash
    BY <1>6 DEF WorkerCrash, WorkerDies, NoFile
<1>7. CASE RestartDelegate
    BY <1>7 DEF RestartDelegate, WorkerDies, NoFile
<1>8. CASE Wipe
    BY <1>8 DEF Wipe, WorkerDies, NoFile
<1>9. CASE AgentReads
    BY <1>9 DEF AgentReads, AllPresent
<1>10. CASE AgentLoads
    BY <1>10 DEF AgentLoads, Loadable
<1>11. CASE AgentCrash
    BY <1>11 DEF AgentCrash
<1>12. CASE UNCHANGED vars
    BY <1>12 DEF vars
<1> QED
    BY <1>1, <1>2, <1>3, <1>4, <1>5, <1>6, <1>7, <1>8, <1>9, <1>10, <1>11, <1>12
       DEF Next, WorkerStep, AgentStep

(* identity.json is completed last, over a directory without one, and then left alone. *)
LEMMA IdentityStep ==
    ASSUME TypeOK, PkiInv, IdentityLast,
           [Next]_vars
    PROVE  IdentityLast'
<1>a. PkiNext => (Readable("ca") => key'["ca"] = key["ca"] /\ crt'["ca"] = crt["ca"])
    BY RootKept DEF PkiInv
<1>b. Readable("ca") => crt["ca"].of = key["ca"]
    BY Names DEF PkiInv, RootFirst, MismatchNeedsOverlap, Matching
<1> USE DEF TypeOK, PkiTypeOK, IdentityLast, Files, Num, Whole, Order, Readable, pkiVars, workerVars, agentVars, Missing, Torn, Cert
<1>1. CASE PkiNext /\ UNCHANGED <<workerVars, agentVars>>
    BY <1>1, <1>a
<1>2. CASE WorkerStart
    BY <1>2 DEF WorkerStart, HasIdentity
<1>3. CASE Register
  <2>1. /\ wpc = "register" /\ Readable("ca") /\ file.id = Missing /\ registered \in Nat
        /\ file' = file /\ registered' = registered + 1 /\ key' = key /\ crt' = crt
      BY <1>3 DEF Register
  <2>2. file' \in Files'
      BY <2>1
  <2>3. CASE wpc' = "opening" /\ step' = 1 /\ got' = Signed(registered + 1)
    <3>1. got' = [key |-> registered', crt |-> [of |-> registered', by |-> key["ca"]], ca |-> key["ca"], id |-> registered']
        BY <1>b, <2>1, <2>3 DEF Signed
    <3>2. got' \in Files'
        BY <2>1, <3>1, Names
    <3> QED
        BY <2>1, <2>2, <2>3, <3>1, <3>2
  <2>4. CASE wpc' = "down" /\ got' = got
    <3>1. got' \in Files'
        BY <2>1, <2>4
    <3> QED
        BY <2>1, <2>2, <2>4, <3>1
  <2> QED
      BY <1>3, <2>3, <2>4 DEF Register
<1>4. CASE OpenFile
  <2>1. CASE step = 1
    <3>1. file' = [file EXCEPT !.key = Torn]
        BY <1>4, <2>1 DEF OpenFile
    <3> QED
        BY <1>4, <2>1, <3>1 DEF OpenFile
  <2>2. CASE step = 2
    <3>1. file' = [file EXCEPT !.crt = Cert(Torn, Torn)]
        BY <1>4, <2>2 DEF OpenFile
    <3> QED
        BY <1>4, <2>2, <3>1 DEF OpenFile
  <2>3. CASE step = 3
    <3>1. file' = [file EXCEPT !.ca = Torn]
        BY <1>4, <2>3 DEF OpenFile
    <3> QED
        BY <1>4, <2>3, <3>1 DEF OpenFile
  <2>4. CASE step = 4
    <3>1. file' = [file EXCEPT !.id = Torn]
        BY <1>4, <2>4 DEF OpenFile
    <3> QED
        BY <1>4, <2>4, <3>1 DEF OpenFile
  <2> QED
      BY <2>1, <2>2, <2>3, <2>4
<1>5. CASE WriteFile
  <2>1. CASE step = 1
    <3>1. file' = [file EXCEPT !.key = got.key]
        BY <1>5, <2>1 DEF WriteFile
    <3>2. wpc' = "opening" /\ step' = 2 /\ got' = got
        BY <1>5, <2>1 DEF WriteFile
    <3>3. wpc = "writing" /\ registered' = registered /\ key' = key /\ crt' = crt
        BY <1>5 DEF WriteFile
    <3> QED
        BY <2>1, <3>1, <3>2, <3>3 DEF NoFile
  <2>2. CASE step = 2
    <3>1. file' = [file EXCEPT !.crt = got.crt]
        BY <1>5, <2>2 DEF WriteFile
    <3>2. wpc' = "opening" /\ step' = 3 /\ got' = got
        BY <1>5, <2>2 DEF WriteFile
    <3>3. wpc = "writing" /\ registered' = registered /\ key' = key /\ crt' = crt
        BY <1>5 DEF WriteFile
    <3> QED
        BY <2>2, <3>1, <3>2, <3>3 DEF NoFile
  <2>3. CASE step = 3
    <3>1. file' = [file EXCEPT !.ca = got.ca]
        BY <1>5, <2>3 DEF WriteFile
    <3>2. wpc' = "opening" /\ step' = 4 /\ got' = got
        BY <1>5, <2>3 DEF WriteFile
    <3>3. wpc = "writing" /\ registered' = registered /\ key' = key /\ crt' = crt
        BY <1>5 DEF WriteFile
    <3> QED
        BY <2>3, <3>1, <3>2, <3>3 DEF NoFile
  <2>4. CASE step = 4
    <3>1. file' = [file EXCEPT !.id = got.id]
        BY <1>5, <2>4 DEF WriteFile
    <3>2. wpc' = "running" /\ step' = 1 /\ got' = NoFile
        BY <1>5, <2>4 DEF WriteFile
    <3>3. wpc = "writing" /\ registered' = registered /\ key' = key /\ crt' = crt
        BY <1>5 DEF WriteFile
    <3> QED
        BY <2>4, <3>1, <3>2, <3>3 DEF NoFile
  <2> QED
      BY <2>1, <2>2, <2>3, <2>4
<1>6. CASE WorkerCrash
    BY <1>6 DEF WorkerCrash, WorkerDies, NoFile
<1>7. CASE RestartDelegate
    BY <1>7 DEF RestartDelegate, WorkerDies, NoFile
<1>8. CASE Wipe
    BY <1>8 DEF Wipe, WorkerDies, NoFile
<1>9. CASE AgentReads
    BY <1>9 DEF AgentReads, AllPresent
<1>10. CASE AgentLoads
    BY <1>10 DEF AgentLoads, Loadable
<1>11. CASE AgentCrash
    BY <1>11 DEF AgentCrash
<1>12. CASE UNCHANGED vars
    BY <1>12 DEF vars
<1> QED
    BY <1>1, <1>2, <1>3, <1>4, <1>5, <1>6, <1>7, <1>8, <1>9, <1>10, <1>11, <1>12
       DEF Next, WorkerStep, AgentStep

(* Every step keeps the types. *)
LEMMA TypeStep ==
    ASSUME TypeOK, PkiInv, IdentityLast,
           [Next]_vars
    PROVE  TypeOK'
<1>a. PkiTypeOK'
  <2>1. faults' \in 0 .. MaxFaults
      BY FaultsStep DEF TypeOK, PkiTypeOK
  <2>2. [PkiNext]_pkiVars
      BY DEF Next, vars, WorkerStep, WorkerStart, Register, OpenFile, WriteFile, WorkerCrash,
             RestartDelegate, Wipe, AgentStep, AgentReads, AgentLoads, AgentCrash
  <2> QED
      BY <2>1, <2>2, PkiTypeStep DEF PkiInv
<1> USE <1>a
<1> USE DEF TypeOK, IdentityLast, Files, Num, Order, MaxRegistered, pkiVars, workerVars, agentVars, Missing, Torn, Cert
<1>1. CASE PkiNext /\ UNCHANGED <<workerVars, agentVars>>
    BY <1>1 DEF workerVars, agentVars
<1>2. CASE WorkerStart
    BY <1>2 DEF WorkerStart, HasIdentity
<1>3. CASE Register
    BY <1>3 DEF Register, Signed, Reachable
<1>4. CASE OpenFile
    BY <1>4 DEF OpenFile
<1>5. CASE WriteFile
    BY <1>5 DEF WriteFile
<1>6. CASE WorkerCrash
    BY <1>6 DEF WorkerCrash, WorkerDies, NoFile
<1>7. CASE RestartDelegate
    BY <1>7 DEF RestartDelegate, WorkerDies, NoFile
<1>8. CASE Wipe
    BY <1>8 DEF Wipe, WorkerDies, NoFile
<1>9. CASE AgentReads
  <2>1. file.id \in 0 .. MaxRegistered
      BY <1>9 DEF AgentReads
  <2> QED
      BY <1>9, <2>1 DEF AgentReads
<1>10. CASE AgentLoads
  <2>1. Loadable => file.crt.of \in 0 .. MaxRegistered
    <3>1. file.crt.of \in {Torn} \cup 0 .. registered
        OBVIOUS
    <3>2. Loadable => file.crt.of # Torn
        BY Zenon DEF Loadable
    <3>3. registered \in Nat /\ registered <= MaxRegistered /\ MaxRegistered \in Nat
        OBVIOUS
    <3> QED
        BY <3>1, <3>2, <3>3
  <2>2. 0 \in 0 .. MaxRegistered
      OBVIOUS
  <2>3. apc' \in {"waiting", "up"} /\ agentId' \in 0 .. MaxRegistered /\ agentCrt' \in 0 .. MaxRegistered
      BY <1>10, <2>1, <2>2 DEF AgentLoads
  <2> QED
      BY <1>10, <2>3 DEF AgentLoads
<1>11. CASE AgentCrash
  <2>1. 0 \in 0 .. MaxRegistered
      OBVIOUS
  <2> QED
      BY <1>11, <2>1 DEF AgentCrash
<1>12. CASE UNCHANGED vars
    BY <1>12 DEF vars
<1> QED
    BY <1>1, <1>2, <1>3, <1>4, <1>5, <1>6, <1>7, <1>8, <1>9, <1>10, <1>11, <1>12
       DEF Next, WorkerStep, AgentStep

-----------------------------------------------------------------------------
(* The invariant holds with CA_DIR and CERT_DIR empty. *)
LEMMA InitInv == Init => IInv
<1> SUFFICES ASSUME Init PROVE IInv
    OBVIOUS
<1> USE DEF Init, PkiInit, Missing, Torn, Cert
<1>1. PkiTypeOK
  <2>1. apiUp \in BOOLEAN
      OBVIOUS
  <2>2. faults \in 0 .. MaxFaults
      OBVIOUS
  <2>3. key \in [Pair -> Nat \cup {Torn}] /\ crt \in [Pair -> [of : Nat \cup {Torn}, by : Nat \cup {Torn}]]
      OBVIOUS
  <2> QED
      BY <2>1, <2>2, <2>3 DEF PkiTypeOK
<1>2. JobsTyped /\ RootFirst /\ OneCreator
    BY Names DEF JobsTyped, Busy, Holds, RootFirst, InitServes, RootDone, RootOfInit, OneCreator, Creating
<1>3. MismatchNeedsOverlap /\ SignedByRoot /\ OneIssuer
    BY DEF MismatchNeedsOverlap, Readable, SignedByRoot, Holds, OneIssuer
<1>4. TypeOK
  <2>1. stale \in BOOLEAN
      OBVIOUS
  <2>2. 0 \in 0 .. MaxRegistered /\ 1 \in 1 .. Len(Order)
      BY DEF MaxRegistered, Order
  <2> HIDE DEF MaxRegistered, Order
  <2> QED
      BY <1>1, <2>1, <2>2 DEF TypeOK
<1>5. IdentityLast /\ Owed /\ AgentCurrent
    BY DEF IdentityLast, Files, Num, NoFile, Owed, AgentCurrent
<1> QED
    BY <1>1, <1>2, <1>3, <1>4, <1>5 DEF IInv, PkiInv

(* It is inductive. *)
LEMMA InvStep == IInv /\ [Next]_vars => IInv'
<1> SUFFICES ASSUME IInv, [Next]_vars PROVE IInv'
    OBVIOUS
<1> USE DEF IInv
<1>1. TypeOK'
    BY TypeStep
<1>2. [PkiNext]_pkiVars
    BY DEF Next, vars, WorkerStep, WorkerStart, Register, OpenFile, WriteFile, WorkerCrash,
           RestartDelegate, Wipe, AgentStep, AgentReads, AgentLoads, AgentCrash
<1>3. PkiInv'
    BY <1>1, <1>2, PkiInvStep DEF TypeOK
<1>4. IdentityLast' /\ AgentCurrent'
    BY IdentityStep, AgentStepInv
<1>5. Owed'
    BY <1>1, OwedStep DEF TypeOK, PkiTypeOK
<1> QED
    BY <1>1, <1>3, <1>4, <1>5

(* It holds throughout. *)
LEMMA Invariant == Spec => []IInv
BY InitInv, InvStep, PTL DEF Spec

-----------------------------------------------------------------------------
(* The state of the authority, the worker and agent_manager is well typed:  *)
(* in particular agent_manager never takes a half-written file for an id. *)
THEOREM TypeCorrect == Spec => []TypeOK
<1>1. IInv => TypeOK
    BY DEF IInv
<1> QED
    BY <1>1, Invariant, PTL

(* ensure_root_ca never replaces the CA under a certificate that it issued, *)
(* however often the programs that call it are killed and started again. *)
THEOREM RootIsForever == Spec => []OneIssuer
<1>1. IInv => OneIssuer
    BY DEF IInv, PkiInv
<1> QED
    BY <1>1, Invariant, PTL

(* _issue_leaf_cert leaves behind a key and a certificate that do not belong *)
(* together only when two programs were at the pair at the same time. *)
THEOREM MixedOnlyByOverlap == Spec => []MismatchNeedsOverlap
<1>1. IInv => MismatchNeedsOverlap
    BY DEF IInv, PkiInv
<1> QED
    BY <1>1, Invariant, PTL

(* register lets a worker run only with the four files of one registration,  *)
(* under the CA that is there, whatever was interrupted before. *)
THEOREM RunsWithIdentity == Spec => []IdentityUsable
<1>1. IInv => IdentityUsable
    BY DEF IInv, IdentityLast, Whole, IdentityUsable
<1> QED
    BY <1>1, Invariant, PTL

(* agent_manager presents the id and the certificate of the worker beside   *)
(* it, unless CERT_DIR was wiped since it read them. *)
THEOREM SpeaksForWorker == Spec => []AgentSpeaksForWorker
<1>1. IInv => AgentSpeaksForWorker
    BY DEF IInv, AgentCurrent, IdentityLast, Whole, Cert, AgentSpeaksForWorker
<1> QED
    BY <1>1, Invariant, PTL

(* register registers again only after a failure: no number of restarts     *)
(* leaves an orphaned delegate behind.                                      *)
THEOREM NoOrphans == Spec => []RestartsRegisterNothing
<1>1. IInv => RestartsRegisterNothing
    BY DEF IInv, Owed, RestartsRegisterNothing
<1> QED
    BY <1>1, Invariant, PTL
=============================================================================
