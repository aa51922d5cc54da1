----------------------- MODULE DelegateRegistryProofs -----------------------
(***************************************************************************)
(* Theorems about DelegateRegistry, for any delegates, tokens and number   *)
(* of faults.                                                              *)
(***************************************************************************)
EXTENDS DelegateRegistry, TLAPS

USE RegistryAssumption

-----------------------------------------------------------------------------
(* The inductive invariant.                                                *)

(* How far a delegate's requests are says what its row is; an outage takes *)
(* all users.                                                              *)
RowFollowsRequests ==
    /\ \A d \in Delegate :
          /\ reg[d] \in {"new", "signed", "provisioned", "saved", "rejected"} => row[d] = "none"
          /\ reg[d] \in {"created", "registered"} => row[d] # "none"
          /\ row[d] = "none" => rev[d] = "new"
          /\ rev[d] \in {"row", "user"} => row[d] = "REVOKED"
    /\ ~up => users = {}

(* While a reconcile is under way, every request that overlaps with it is  *)
(* known to.                                                               *)
OverlapsKnown == Reconciling => Busy \subseteq touched /\ touched \subseteq disturbed

(* What Redis and its aclfile hold of a delegate nothing went wrong with,  *)
(* in the middle of its requests and outside of them.                      *)
Undisturbed ==
    \A d \in Delegate \ disturbed :
        /\ reg[d] \in {"provisioned", "saved"} => up /\ d \in users
        /\ reg[d] = "saved" => d \in aclfile
        /\ rev[d] \in {"row", "user"} => up
        /\ rev[d] = "user" => d \notin users
        /\ reg[d] \notin {"provisioned", "saved"} /\ rev[d] \notin {"row", "user"} =>
              /\ d \in aclfile <=> row[d] = "ACTIVE"
              /\ up => (d \in users <=> row[d] = "ACTIVE")

(* How far a reconcile has come with the delegates whose requests do not   *)
(* overlap with it.  After an outage it still does them no harm.           *)
ReconcileProgress ==
    /\ dpc \in {"delete", "set", "save"} /\ ~broken => up
    /\ \A d \in Delegate \ touched :
          /\ dpc \in {"users", "delete"} => (d \in active <=> row[d] = "ACTIVE")
          /\ dpc = "delete" => (d \in stale => row[d] # "ACTIVE")
          /\ dpc = "set" => (d \in active => row[d] = "ACTIVE")
          /\ dpc = "delete" /\ ~broken /\ d \in users /\ row[d] # "ACTIVE" => d \in stale
          /\ dpc = "set" /\ ~broken =>
                /\ d \in users \cup active => row[d] = "ACTIVE"
                /\ row[d] = "ACTIVE" => d \in users \cup active
          /\ dpc = "save" /\ ~broken => (d \in users <=> row[d] = "ACTIVE")

(* A token is spent by the registration that is answered, and two that are *)
(* past the look at their token with the same one overlapped.              *)
PastCheck == {"signed", "provisioned", "saved", "created", "registered"}

TokensSpent ==
    /\ \A d \in Delegate : reg[d] = "registered" => token[tok[d]] = "used"
    /\ \A d, e \in Delegate :
          d # e /\ tok[d] = tok[e] /\ reg[d] \in PastCheck /\ reg[e] \in PastCheck
              => {d, e} \in overlapped

IInv ==
    /\ TypeOK /\ RowFollowsRequests /\ OverlapsKnown /\ Undisturbed
    /\ ReconcileProgress /\ TokensSpent

-----------------------------------------------------------------------------
(* It holds before the first request, when Redis knows nobody. *)
LEMMA InitInv == Init => IInv
<1> SUFFICES ASSUME Init PROVE IInv
    OBVIOUS
<1>1. TypeOK
  <2>1. up \in BOOLEAN /\ broken \in BOOLEAN
      BY DEF Init
  <2>2. faults \in 0 .. MaxFaults
      BY DEF Init
  <2> QED
      BY <2>1, <2>2 DEF Init, TypeOK
<1>2. RowFollowsRequests /\ OverlapsKnown /\ Undisturbed
    BY DEF Init, RowFollowsRequests, OverlapsKnown, Reconciling, Undisturbed
<1>3. ReconcileProgress /\ TokensSpent
    BY DEF Init, ReconcileProgress, TokensSpent, PastCheck
<1> QED
    BY <1>1, <1>2, <1>3 DEF IInv

(* Every step keeps the types. *)
LEMMA TypeStep ==
    ASSUME TypeOK, [Next]_vars
    PROVE  TypeOK'
<1> USE DEF TypeOK, Busy, Registering, Revoking, Reconciling, dbVars, redisVars, apiVars, dispVars, histVars
<1>1. ASSUME NEW d \in Delegate, CheckToken(d) PROVE TypeOK'
    BY <1>1 DEF CheckToken, Begin
<1>2. ASSUME NEW d \in Delegate, Provision(d) PROVE TypeOK'
    BY <1>2 DEF Provision, Fault
<1>3. ASSUME NEW d \in Delegate, ProvisionSave(d) PROVE TypeOK'
    BY <1>3 DEF ProvisionSave, AclSave, Fault
<1>4. ASSUME NEW d \in Delegate, CreateRow(d) PROVE TypeOK'
    BY <1>4 DEF CreateRow
<1>5. ASSUME NEW d \in Delegate, MarkUsed(d) PROVE TypeOK'
    BY <1>5 DEF MarkUsed
<1>6. ASSUME NEW d \in Delegate, RevokeRow(d) PROVE TypeOK'
    BY <1>6 DEF RevokeRow, Begin
<1>7. ASSUME NEW d \in Delegate, RevokeUser(d) PROVE TypeOK'
    BY <1>7 DEF RevokeUser, Fault
<1>8. ASSUME NEW d \in Delegate, RevokeSave(d) PROVE TypeOK'
    BY <1>8 DEF RevokeSave, AclSave, Fault
<1>9. ASSUME NEW t \in Token, IssueToken(t) PROVE TypeOK'
    BY <1>9 DEF IssueToken
<1>10. ASSUME NEW t \in Token, ExpireToken(t) PROVE TypeOK'
    BY <1>10 DEF ExpireToken
<1>11. CASE ApiCrash
    BY <1>11 DEF ApiCrash, Fault
<1>12. CASE RedisDown
  <2>1. faults' \in 0 .. MaxFaults
      BY <1>12 DEF RedisDown, Fault
  <2>2. up' \in BOOLEAN /\ broken' \in BOOLEAN
      BY <1>12 DEF RedisDown
  <2>3. users' \subseteq Delegate /\ active' \subseteq Delegate /\ stale' \subseteq Delegate /\ disturbed' \subseteq Delegate
      BY <1>12 DEF RedisDown
  <2> QED
      BY <1>12, <2>1, <2>2, <2>3 DEF RedisDown
<1>13. CASE RedisUp
    BY <1>13 DEF RedisUp, Fault
<1>14. CASE XReadFails
    BY <1>14 DEF XReadFails
<1>15. CASE ReadActive
    BY <1>15 DEF ReadActive, Active
<1>16. CASE ReadUsers
    BY <1>16 DEF ReadUsers
<1>17. CASE DeleteStale
    BY <1>17 DEF DeleteStale
<1>18. CASE SetActive
    BY <1>18 DEF SetActive
<1>19. CASE ReconcileSave
    BY <1>19 DEF ReconcileSave
<1>20. CASE ReconcileFails
    BY <1>20 DEF ReconcileFails
<1>21. CASE DispatcherCrash
  <2>1. faults' \in 0 .. MaxFaults
      BY <1>21 DEF DispatcherCrash, Fault
  <2>2. up' \in BOOLEAN /\ broken' \in BOOLEAN
      BY <1>21 DEF DispatcherCrash
  <2>3. users' \subseteq Delegate /\ active' \subseteq Delegate /\ stale' \subseteq Delegate /\ disturbed' \subseteq Delegate
      BY <1>21 DEF DispatcherCrash
  <2> QED
      BY <1>21, <2>1, <2>2, <2>3 DEF DispatcherCrash
<1>22. CASE XReadReconnects
    BY <1>22 DEF XReadReconnects
<1>23. CASE UNCHANGED vars
    BY <1>23 DEF vars
<1> QED
    BY <1>1, <1>2, <1>3, <1>4, <1>5, <1>6, <1>7, <1>8, <1>9, <1>10,
       <1>11, <1>12, <1>13, <1>14, <1>15, <1>16, <1>17, <1>18, <1>19, <1>20,
       <1>21, <1>22, <1>23
       DEF Next, ReconcileStep

(* The row keeps step with the requests. *)
LEMMA RowStep ==
    ASSUME TypeOK, RowFollowsRequests, ReconcileProgress, [Next]_vars
    PROVE  RowFollowsRequests'
<1> USE DEF TypeOK, RowFollowsRequests, ReconcileProgress, Busy, Registering, Revoking, Reconciling, dbVars, redisVars, apiVars, dispVars, histVars
<1>1. ASSUME NEW d \in Delegate, CheckToken(d) PROVE RowFollowsRequests'
    BY <1>1 DEF CheckToken, Begin
<1>2. ASSUME NEW d \in Delegate, Provision(d) PROVE RowFollowsRequests'
    BY <1>2 DEF Provision, Fault
<1>3. ASSUME NEW d \in Delegate, ProvisionSave(d) PROVE RowFollowsRequests'
    BY <1>3 DEF ProvisionSave, AclSave, Fault
<1>4. ASSUME NEW d \in Delegate, CreateRow(d) PROVE RowFollowsRequests'
    BY <1>4 DEF CreateRow
<1>5. ASSUME NEW d \in Delegate, MarkUsed(d) PROVE RowFollowsRequests'
    BY <1>5 DEF MarkUsed
<1>6. ASSUME NEW d \in Delegate, RevokeRow(d) PROVE RowFollowsRequests'
    BY <1>6 DEF RevokeRow, Begin
<1>7. ASSUME NEW d \in Delegate, RevokeUser(d) PROVE RowFollowsRequests'
    BY <1>7 DEF RevokeUser, Fault
<1>8. ASSUME NEW d \in Delegate, RevokeSave(d) PROVE RowFollowsRequests'
    BY <1>8 DEF RevokeSave, AclSave, Fault
<1>9. ASSUME NEW t \in Token, IssueToken(t) PROVE RowFollowsRequests'
    BY <1>9 DEF IssueToken
<1>10. ASSUME NEW t \in Token, ExpireToken(t) PROVE RowFollowsRequests'
    BY <1>10 DEF ExpireToken
<1>11. CASE ApiCrash
    BY <1>11 DEF ApiCrash, Fault
<1>12. CASE RedisDown
    BY <1>12 DEF RedisDown, Fault
<1>13. CASE RedisUp
    BY <1>13 DEF RedisUp, Fault
<1>14. CASE XReadFails
    BY <1>14 DEF XReadFails
<1>15. CASE ReadActive
    BY <1>15 DEF ReadActive, Active
<1>16. CASE ReadUsers
    BY <1>16 DEF ReadUsers
<1>17. CASE DeleteStale
    BY <1>17 DEF DeleteStale
<1>18. CASE SetActive
    BY <1>18 DEF SetActive
<1>19. CASE ReconcileSave
    BY <1>19 DEF ReconcileSave
<1>20. CASE ReconcileFails
    BY <1>20 DEF ReconcileFails
<1>21. CASE DispatcherCrash
    BY <1>21 DEF DispatcherCrash, Fault
<1>22. CASE XReadReconnects
    BY <1>22 DEF XReadReconnects
<1>23. CASE UNCHANGED vars
    BY <1>23 DEF vars
<1> QED
    BY <1>1, <1>2, <1>3, <1>4, <1>5, <1>6, <1>7, <1>8, <1>9, <1>10,
       <1>11, <1>12, <1>13, <1>14, <1>15, <1>16, <1>17, <1>18, <1>19, <1>20,
       <1>21, <1>22, <1>23
       DEF Next, ReconcileStep

(* A request that overlaps with a reconcile is noted when either begins. *)
LEMMA OverlapStep ==
    ASSUME TypeOK, OverlapsKnown, [Next]_vars
    PROVE  OverlapsKnown'
<1> USE DEF TypeOK, OverlapsKnown, Busy, Registering, Revoking, Reconciling, dbVars, redisVars, apiVars, dispVars, histVars
<1>1. ASSUME NEW d \in Delegate, CheckToken(d) PROVE OverlapsKnown'
    BY <1>1 DEF CheckToken, Begin
<1>2. ASSUME NEW d \in Delegate, Provision(d) PROVE OverlapsKnown'
    BY <1>2 DEF Provision, Fault
<1>3. ASSUME NEW d \in Delegate, ProvisionSave(d) PROVE OverlapsKnown'
    BY <1>3 DEF ProvisionSave, AclSave, Fault
<1>4. ASSUME NEW d \in Delegate, CreateRow(d) PROVE OverlapsKnown'
    BY <1>4 DEF CreateRow
<1>5. ASSUME NEW d \in Delegate, MarkUsed(d) PROVE OverlapsKnown'
    BY <1>5 DEF MarkUsed
<1>6. ASSUME NEW d \in Delegate, RevokeRow(d) PROVE OverlapsKnown'
    BY <1>6 DEF RevokeRow, Begin
<1>7. ASSUME NEW d \in Delegate, RevokeUser(d) PROVE OverlapsKnown'
    BY <1>7 DEF RevokeUser, Fault
<1>8. ASSUME NEW d \in Delegate, RevokeSave(d) PROVE OverlapsKnown'
    BY <1>8 DEF RevokeSave, AclSave, Fault
<1>9. ASSUME NEW t \in Token, IssueToken(t) PROVE OverlapsKnown'
    BY <1>9 DEF IssueToken
<1>10. ASSUME NEW t \in Token, ExpireToken(t) PROVE OverlapsKnown'
    BY <1>10 DEF ExpireToken
<1>11. CASE ApiCrash
    BY <1>11 DEF ApiCrash, Fault
<1>12. CASE RedisDown
    BY <1>12 DEF RedisDown, Fault
<1>13. CASE RedisUp
    BY <1>13 DEF RedisUp, Fault
<1>14. CASE XReadFails
    BY <1>14 DEF XReadFails
<1>15. CASE ReadActive
    BY <1>15 DEF ReadActive, Active
<1>16. CASE ReadUsers
    BY <1>16 DEF ReadUsers
<1>17. CASE DeleteStale
    BY <1>17 DEF DeleteStale
<1>18. CASE SetActive
    BY <1>18 DEF SetActive
<1>19. CASE ReconcileSave
    BY <1>19 DEF ReconcileSave
<1>20. CASE ReconcileFails
    BY <1>20 DEF ReconcileFails
<1>21. CASE DispatcherCrash
    BY <1>21 DEF DispatcherCrash, Fault
<1>22. CASE XReadReconnects
    BY <1>22 DEF XReadReconnects
<1>23. CASE UNCHANGED vars
    BY <1>23 DEF vars
<1> QED
    BY <1>1, <1>2, <1>3, <1>4, <1>5, <1>6, <1>7, <1>8, <1>9, <1>10,
       <1>11, <1>12, <1>13, <1>14, <1>15, <1>16, <1>17, <1>18, <1>19, <1>20,
       <1>21, <1>22, <1>23
       DEF Next, ReconcileStep

(* What goes wrong for a delegate disturbs it. *)
LEMMA UndisturbedStep ==
    ASSUME TypeOK, RowFollowsRequests, OverlapsKnown, ReconcileProgress, Undisturbed, [Next]_vars
    PROVE  Undisturbed'
<1> USE DEF TypeOK, RowFollowsRequests, OverlapsKnown, ReconcileProgress, Undisturbed, Busy, Registering, Revoking, Reconciling, dbVars, redisVars, apiVars, dispVars, histVars
<1>1. ASSUME NEW d \in Delegate, CheckToken(d) PROVE Undisturbed'
    BY <1>1 DEF CheckToken, Begin
<1>2. ASSUME NEW d \in Delegate, Provision(d) PROVE Undisturbed'
    BY <1>2 DEF Provision, Fault
<1>3. ASSUME NEW d \in Delegate, ProvisionSave(d) PROVE Undisturbed'
    BY <1>3 DEF ProvisionSave, AclSave, Fault
<1>4. ASSUME NEW d \in Delegate, CreateRow(d) PROVE Undisturbed'
    BY <1>4 DEF CreateRow
<1>5. ASSUME NEW d \in Delegate, MarkUsed(d) PROVE Undisturbed'
    BY <1>5 DEF MarkUsed
<1>6. ASSUME NEW d \in Delegate, RevokeRow(d) PROVE Undisturbed'
    BY <1>6 DEF RevokeRow, Begin
<1>7. ASSUME NEW d \in Delegate, RevokeUser(d) PROVE Undisturbed'
    BY <1>7 DEF RevokeUser, Fault
<1>8. ASSUME NEW d \in Delegate, RevokeSave(d) PROVE Undisturbed'
    BY <1>8 DEF RevokeSave, AclSave, Fault
<1>9. ASSUME NEW t \in Token, IssueToken(t) PROVE Undisturbed'
    BY <1>9 DEF IssueToken
<1>10. ASSUME NEW t \in Token, ExpireToken(t) PROVE Undisturbed'
    BY <1>10 DEF ExpireToken
<1>11. CASE ApiCrash
    BY <1>11 DEF ApiCrash, Fault
<1>12. CASE RedisDown
    BY <1>12 DEF RedisDown, Fault
<1>13. CASE RedisUp
    BY <1>13 DEF RedisUp, Fault
<1>14. CASE XReadFails
    BY <1>14 DEF XReadFails
<1>15. CASE ReadActive
    BY <1>15 DEF ReadActive, Active
<1>16. CASE ReadUsers
    BY <1>16 DEF ReadUsers
<1>17. CASE DeleteStale
    BY <1>17 DEF DeleteStale
<1>18. CASE SetActive
    BY <1>18 DEF SetActive
<1>19. CASE ReconcileSave
    BY <1>19 DEF ReconcileSave
<1>20. CASE ReconcileFails
    BY <1>20 DEF ReconcileFails
<1>21. CASE DispatcherCrash
    BY <1>21 DEF DispatcherCrash, Fault
<1>22. CASE XReadReconnects
    BY <1>22 DEF XReadReconnects
<1>23. CASE UNCHANGED vars
    BY <1>23 DEF vars
<1> QED
    BY <1>1, <1>2, <1>3, <1>4, <1>5, <1>6, <1>7, <1>8, <1>9, <1>10,
       <1>11, <1>12, <1>13, <1>14, <1>15, <1>16, <1>17, <1>18, <1>19, <1>20,
       <1>21, <1>22, <1>23
       DEF Next, ReconcileStep

(* A reconcile comes closer to the rows, one id at a time. *)
LEMMA ProgressStep ==
    ASSUME TypeOK, RowFollowsRequests, OverlapsKnown, ReconcileProgress, [Next]_vars
    PROVE  ReconcileProgress'
<1> USE DEF TypeOK, RowFollowsRequests, OverlapsKnown, ReconcileProgress, Busy, Registering, Revoking, Reconciling, dbVars, redisVars, apiVars, dispVars, histVars
<1>1. ASSUME NEW d \in Delegate, CheckToken(d) PROVE ReconcileProgress'
    BY <1>1 DEF CheckToken, Begin
<1>2. ASSUME NEW d \in Delegate, Provision(d) PROVE ReconcileProgress'
    BY <1>2 DEF Provision, Fault
<1>3. ASSUME NEW d \in Delegate, ProvisionSave(d) PROVE ReconcileProgress'
    BY <1>3 DEF ProvisionSave, AclSave, Fault
<1>4. ASSUME NEW d \in Delegate, CreateRow(d) PROVE ReconcileProgress'
    BY <1>4 DEF CreateRow
<1>5. ASSUME NEW d \in Delegate, MarkUsed(d) PROVE ReconcileProgress'
    BY <1>5 DEF MarkUsed
<1>6. ASSUME NEW d \in Delegate, RevokeRow(d) PROVE ReconcileProgress'
    BY <1>6 DEF RevokeRow, Begin
<1>7. ASSUME NEW d \in Delegate, RevokeUser(d) PROVE ReconcileProgress'
    BY <1>7 DEF RevokeUser, Fault
<1>8. ASSUME NEW d \in Delegate, RevokeSave(d) PROVE ReconcileProgress'
    BY <1>8 DEF RevokeSave, AclSave, Fault
<1>9. ASSUME NEW t \in Token, IssueToken(t) PROVE ReconcileProgress'
    BY <1>9 DEF IssueToken
<1>10. ASSUME NEW t \in Token, ExpireToken(t) PROVE ReconcileProgress'
    BY <1>10 DEF ExpireToken
<1>11. CASE ApiCrash
    BY <1>11 DEF ApiCrash, Fault
<1>12. CASE RedisDown
    BY <1>12 DEF RedisDown, Fault
<1>13. CASE RedisUp
    BY <1>13 DEF RedisUp, Fault
<1>14. CASE XReadFails
    BY <1>14 DEF XReadFails
<1>15. CASE ReadActive
    BY <1>15 DEF ReadActive, Active
<1>16. CASE ReadUsers
    BY <1>16 DEF ReadUsers
<1>17. CASE DeleteStale
    BY <1>17 DEF DeleteStale
<1>18. CASE SetActive
    BY <1>18 DEF SetActive
<1>19. CASE ReconcileSave
    BY <1>19 DEF ReconcileSave
<1>20. CASE ReconcileFails
    BY <1>20 DEF ReconcileFails
<1>21. CASE DispatcherCrash
    BY <1>21 DEF DispatcherCrash, Fault
<1>22. CASE XReadReconnects
    BY <1>22 DEF XReadReconnects
<1>23. CASE UNCHANGED vars
    BY <1>23 DEF vars
<1> QED
    BY <1>1, <1>2, <1>3, <1>4, <1>5, <1>6, <1>7, <1>8, <1>9, <1>10,
       <1>11, <1>12, <1>13, <1>14, <1>15, <1>16, <1>17, <1>18, <1>19, <1>20,
       <1>21, <1>22, <1>23
       DEF Next, ReconcileStep

(* A token that was spent stays spent. *)
LEMMA TokenStep ==
    ASSUME TypeOK, TokensSpent, [Next]_vars
    PROVE  TokensSpent'
<1> USE DEF TypeOK, TokensSpent, PastCheck, Registering, dbVars, redisVars, apiVars, dispVars, histVars
<1>1. ASSUME NEW d \in Delegate, CheckToken(d) PROVE TokensSpent'
    BY <1>1 DEF CheckToken, Begin
<1>2. ASSUME NEW d \in Delegate, Provision(d) PROVE TokensSpent'
    BY <1>2 DEF Provision, Fault
<1>3. ASSUME NEW d \in Delegate, ProvisionSave(d) PROVE TokensSpent'
    BY <1>3 DEF ProvisionSave, AclSave, Fault
<1>4. ASSUME NEW d \in Delegate, CreateRow(d) PROVE TokensSpent'
    BY <1>4 DEF CreateRow
<1>5. ASSUME NEW d \in Delegate, MarkUsed(d) PROVE TokensSpent'
    BY <1>5 DEF MarkUsed
<1>6. ASSUME NEW d \in Delegate, RevokeRow(d) PROVE TokensSpent'
    BY <1>6 DEF RevokeRow, Begin
<1>7. ASSUME NEW d \in Delegate, RevokeUser(d) PROVE TokensSpent'
    BY <1>7 DEF RevokeUser, Fault
<1>8. ASSUME NEW d \in Delegate, RevokeSave(d) PROVE TokensSpent'
    BY <1>8 DEF RevokeSave, AclSave, Fault
<1>9. ASSUME NEW t \in Token, IssueToken(t) PROVE TokensSpent'
    BY <1>9 DEF IssueToken
<1>10. ASSUME NEW t \in Token, ExpireToken(t) PROVE TokensSpent'
    BY <1>10 DEF ExpireToken
<1>11. CASE ApiCrash
    BY <1>11 DEF ApiCrash, Fault
<1>12. CASE RedisDown
    BY <1>12 DEF RedisDown, Fault
<1>13. CASE RedisUp
    BY <1>13 DEF RedisUp, Fault
<1>14. CASE XReadFails
    BY <1>14 DEF XReadFails
<1>15. CASE ReadActive
    BY <1>15 DEF ReadActive, Active
<1>16. CASE ReadUsers
    BY <1>16 DEF ReadUsers
<1>17. CASE DeleteStale
    BY <1>17 DEF DeleteStale
<1>18. CASE SetActive
    BY <1>18 DEF SetActive
<1>19. CASE ReconcileSave
    BY <1>19 DEF ReconcileSave
<1>20. CASE ReconcileFails
    BY <1>20 DEF ReconcileFails
<1>21. CASE DispatcherCrash
    BY <1>21 DEF DispatcherCrash, Fault
<1>22. CASE XReadReconnects
    BY <1>22 DEF XReadReconnects
<1>23. CASE UNCHANGED vars
    BY <1>23 DEF vars
<1> QED
    BY <1>1, <1>2, <1>3, <1>4, <1>5, <1>6, <1>7, <1>8, <1>9, <1>10,
       <1>11, <1>12, <1>13, <1>14, <1>15, <1>16, <1>17, <1>18, <1>19, <1>20,
       <1>21, <1>22, <1>23
       DEF Next, ReconcileStep

(* The invariant is inductive. *)
LEMMA InvStep == IInv /\ [Next]_vars => IInv'
BY TypeStep, RowStep, OverlapStep, UndisturbedStep, ProgressStep, TokenStep DEF IInv

(* It holds throughout. *)
LEMMA Invariant == Spec => []IInv
BY InitInv, InvStep, PTL DEF Spec

-----------------------------------------------------------------------------
(* The registry's state is well typed: in particular no request stores a   *)
(* status but ACTIVE and REVOKED, and reconcile works on delegates only.   *)
THEOREM TypeCorrect == Spec => []TypeOK
<1>1. IInv => TypeOK
    BY DEF IInv
<1> QED
    BY <1>1, Invariant, PTL

(* Redis and its aclfile know exactly the active delegates, whatever       *)
(* registrations, revocations, outages and reconciles interleave, except   *)
(* for those whose own request was disturbed: register_delegate,           *)
(* revoke_delegate and reconcile keep the two stores in step.              *)
THEOREM AccessFollowsRegistry == Spec => []AccessMatchesRegistry
<1>1. IInv => AccessMatchesRegistry
    BY DEF IInv, TypeOK, Undisturbed, AccessMatchesRegistry, Busy, Registering, Revoking
<1> QED
    BY <1>1, Invariant, PTL

(* register_delegate accepts one token twice only for requests that        *)
(* overlap: the token's row is read before the first Redis call and        *)
(* written after the last.                                                 *)
THEOREM TokenSpentOnce == Spec => []TokenReuseNeedsOverlap
<1>1. IInv => TokenReuseNeedsOverlap
    BY DEF IInv, TokensSpent, PastCheck, TokenReuseNeedsOverlap
<1> QED
    BY <1>1, Invariant, PTL
=============================================================================
