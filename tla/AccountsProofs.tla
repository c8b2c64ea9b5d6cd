--------------------------- MODULE AccountsProofs ---------------------------
(***************************************************************************)
(* Proofs about Accounts, for any number of requests, devices and hashes   *)
(* and any cap on e-mail tokens.                                           *)
(***************************************************************************)
EXTENDS Accounts, FiniteSetTheorems, TLAPS

(* Requests and devices remember only hashes that have been stored. *)
HashesKnown ==
  /\ \A r \in Request : seen[r] <= hashes
  /\ \A d \in Device : cred[d] <= hashes

(* The stored hash is the last one that was made. *)
NewestHash == hash # 0 => hash = hashes

(* A login left by an account is not older than the account. *)
LoginsCurrent ==
  \A d \in Device : owner[d] # 0 /\ via[d] = "login" => cred[d] >= owner[d]

(* A reset whose account has been replaced wrote its hash before that. *)
RevokersOld ==
  \A r \in Request :
     pc[r] = "revoking" /\ userId # 0 /\ who[r] # userId => seen[r] < userId

LoginInv == NewestHash /\ LoginsCurrent /\ RevokersOld /\ ResetEndsOldLogins

(* A request about to mark the account has consumed its token. *)
ConfirmersMailed ==
  \A r \in Request : pc[r] = "verifying" /\ UserExists(who[r]) => confirmed

MailInv == VerifiedByMail /\ ConfirmersMailed

(* A step of a handler keeps the types. *)
LEMMA HandleType ==
  ASSUME AccountsTypeOK, HashesKnown, NEW r \in Request, Handle(r)
  PROVE  AccountsTypeOK' /\ HashesKnown'
<1> USE AccountAssumption DEF AccountsTypeOK, HashesKnown, Steps, Kind, Authenticated, Goto, For, Sees, Done, UserExists,
        userVars, deviceVars, tokenVars, reqVars, accountHistory
<1>1. CASE \E d \in Device, step \in Authenticated : Authenticate(r, d, step)
  BY <1>1 DEF Authenticate
<1>2. CASE \E d \in Device : DeleteDevice(r, d)
  BY <1>2 DEF DeleteDevice, DeleteDevices
<1>3. CASE \E k \in Kind : VerifyConfirm(r, k)
  BY <1>3 DEF VerifyConfirm, ConsumeEmailToken, Accepts
<1>4. CASE \E k \in Kind : ResetConfirm(r, k)
  BY <1>4 DEF ResetConfirm, ConsumeEmailToken, Accepts
<1>5. CASE Register(r)
  <2>1. hashes' = hashes + 1 /\ hash' = hashes + 1 /\ userId' = hashes + 1 /\ hashes' <= MaxHashes
    BY <1>5 DEF Register, StoreHash
  <2>2. who' \in [Request -> 0 .. hashes'] /\ pc' \in [Request -> Steps] /\ asked' \in [Request -> Kind]
    BY <2>1, <1>5 DEF Register
  <2>3. UNCHANGED <<seen, owner, cred, via, unsent, sent, cut, confirmed>> /\ verified' = FALSE
    BY <1>5 DEF Register
  <2>4. owner' \in [Device -> 0 .. hashes'] /\ cut' \in 0 .. hashes'
    BY <2>1, <2>3
  <2>5. HashesKnown'
    BY <2>1, <2>3
  <2>6. verified' \in BOOLEAN /\ confirmed' \in BOOLEAN
    BY <2>3, Zenon
  <2> QED BY <2>1, <2>2, <2>3, <2>4, <2>5, <2>6
<1>6. CASE LoginRead(r)
  BY <1>6 DEF LoginRead
<1>7. CASE LoginCommit(r)
  BY <1>7 DEF LoginCommit, CreateDeviceOn, StillVerified
<1>8. CASE CreateDevice(r)
  BY <1>8 DEF CreateDevice, CreateDeviceOn
<1>9. CASE DeleteAllDevices(r)
  BY <1>9 DEF DeleteAllDevices, DeleteDevices, DevicesOf
<1>10. CASE ChangeRead(r)
  BY <1>10 DEF ChangeRead
<1>11. CASE ChangeWrite(r)
  BY <1>11 DEF ChangeWrite, StoreHash
<1>12. CASE RemoveRead(r)
  BY <1>12 DEF RemoveRead
<1>13. CASE RemoveCommit(r)
  <2>1. userId' = 0 /\ hash' = 0 /\ verified' = FALSE /\ confirmed' = FALSE
        /\ UNCHANGED <<hashes, cut>>
    BY <1>13 DEF RemoveCommit
  <2>2. owner' \in [Device -> 0 .. hashes'] /\ cred' \in [Device -> Nat]
        /\ via' \in [Device -> {"login", "create_device"}]
        /\ \A d \in Device : cred'[d] <= hashes'
    BY <2>1, <1>13 DEF RemoveCommit, DeleteDevices, DevicesOf
  <2>3. unsent' \in [Kind -> Nat] /\ sent' \in [Kind -> Nat]
    BY <1>13 DEF RemoveCommit
  <2>4. pc' \in [Request -> Steps] /\ who' \in [Request -> 0 .. hashes']
        /\ seen' \in [Request -> Nat] /\ asked' \in [Request -> Kind]
        /\ \A q \in Request : seen'[q] <= hashes'
    BY <2>1, <1>13 DEF RemoveCommit
  <2>5. verified' \in BOOLEAN /\ confirmed' \in BOOLEAN
    BY <2>1, Zenon
  <2> QED BY <2>1, <2>2, <2>3, <2>4, <2>5
<1>14. CASE VerifyRequest(r)
  BY <1>14 DEF VerifyRequest
<1>15. CASE ResetRequest(r)
  BY <1>15 DEF ResetRequest
<1>16. CASE CountTokens(r)
  BY <1>16 DEF CountTokens, BelowCap, LiveTokens
<1>17. CASE InsertToken(r)
  BY <1>17 DEF InsertToken
<1>18. CASE SendMail(r)
  BY <1>18 DEF SendMail
<1>19. CASE MarkEmailVerified(r)
  BY <1>19 DEF MarkEmailVerified
<1>20. CASE ResetWrite(r)
  BY <1>20 DEF ResetWrite, StoreHash
<1>21. CASE ResetRevoke(r)
  BY <1>21 DEF ResetRevoke, DeleteDevices, DevicesOf
<1>22. CASE Abandon(r)
  BY <1>22 DEF Abandon
<1> QED BY <1>1, <1>2, <1>3, <1>4, <1>5, <1>6, <1>7, <1>8, <1>9, <1>10, <1>11,
           <1>12, <1>13, <1>14, <1>15, <1>16, <1>17, <1>18, <1>19, <1>20, <1>21, <1>22 DEF Handle

(* A device is created for the account there is, and the account does not  *)
(* go without its devices.                                                 *)
LEMMA HandleDevices ==
  ASSUME AccountsTypeOK, DevicesHaveAccounts, NEW r \in Request, Handle(r)
  PROVE  DevicesHaveAccounts'
<1> USE DEF AccountsTypeOK, DevicesHaveAccounts, Steps, Kind, Authenticated, Goto, For, Sees, Done, UserExists,
        userVars, deviceVars, tokenVars, reqVars, accountHistory
<1>1. CASE \E d \in Device, step \in Authenticated : Authenticate(r, d, step)
  BY <1>1 DEF Authenticate
<1>2. CASE \E d \in Device : DeleteDevice(r, d)
  BY <1>2 DEF DeleteDevice, DeleteDevices
<1>3. CASE \E k \in Kind : VerifyConfirm(r, k)
  BY <1>3 DEF VerifyConfirm, ConsumeEmailToken, Accepts
<1>4. CASE \E k \in Kind : ResetConfirm(r, k)
  BY <1>4 DEF ResetConfirm, ConsumeEmailToken, Accepts
<1>5. CASE Register(r)
  BY <1>5 DEF Register, StoreHash
<1>6. CASE LoginRead(r)
  BY <1>6 DEF LoginRead
<1>7. CASE LoginCommit(r)
  BY <1>7 DEF LoginCommit, CreateDeviceOn, StillVerified
<1>8. CASE CreateDevice(r)
  BY <1>8 DEF CreateDevice, CreateDeviceOn
<1>9. CASE DeleteAllDevices(r)
  BY <1>9 DEF DeleteAllDevices, DeleteDevices, DevicesOf
<1>10. CASE ChangeRead(r)
  BY <1>10 DEF ChangeRead
<1>11. CASE ChangeWrite(r)
  BY <1>11 DEF ChangeWrite, StoreHash
<1>12. CASE RemoveRead(r)
  BY <1>12 DEF RemoveRead
<1>13. CASE RemoveCommit(r)
  BY <1>13 DEF RemoveCommit, DeleteDevices, DevicesOf, StillVerified
<1>14. CASE VerifyRequest(r)
  BY <1>14 DEF VerifyRequest
<1>15. CASE ResetRequest(r)
  BY <1>15 DEF ResetRequest
<1>16. CASE CountTokens(r)
  BY <1>16 DEF CountTokens, BelowCap, LiveTokens
<1>17. CASE InsertToken(r)
  BY <1>17 DEF InsertToken
<1>18. CASE SendMail(r)
  BY <1>18 DEF SendMail
<1>19. CASE MarkEmailVerified(r)
  BY <1>19 DEF MarkEmailVerified
<1>20. CASE ResetWrite(r)
  BY <1>20 DEF ResetWrite, StoreHash
<1>21. CASE ResetRevoke(r)
  BY <1>21 DEF ResetRevoke, DeleteDevices, DevicesOf
<1>22. CASE Abandon(r)
  BY <1>22 DEF Abandon
<1> QED BY <1>1, <1>2, <1>3, <1>4, <1>5, <1>6, <1>7, <1>8, <1>9, <1>10, <1>11,
           <1>12, <1>13, <1>14, <1>15, <1>16, <1>17, <1>18, <1>19, <1>20, <1>21, <1>22 DEF Handle

(* A step of a handler keeps what logins, resets and devices know of each other. *)
LEMMA HandleLogins ==
  ASSUME AccountsTypeOK, HashesKnown, DevicesHaveAccounts, LoginInv, NEW r \in Request, Handle(r)
  PROVE  LoginInv'
<1> USE DEF AccountsTypeOK, HashesKnown, DevicesHaveAccounts,
        LoginInv, NewestHash, LoginsCurrent, RevokersOld, ResetEndsOldLogins,
        Steps, Kind, Authenticated, Goto, For, Sees, Done, UserExists,
        userVars, deviceVars, tokenVars, reqVars, accountHistory
<1>1. CASE \E d \in Device, step \in Authenticated : Authenticate(r, d, step)
  BY <1>1 DEF Authenticate
<1>2. CASE \E d \in Device : DeleteDevice(r, d)
  BY <1>2 DEF DeleteDevice, DeleteDevices
<1>3. CASE \E k \in Kind : VerifyConfirm(r, k)
  BY <1>3 DEF VerifyConfirm, ConsumeEmailToken, Accepts
<1>4. CASE \E k \in Kind : ResetConfirm(r, k)
  BY <1>4 DEF ResetConfirm, ConsumeEmailToken, Accepts
<1>5. CASE Register(r)
  BY <1>5 DEF Register, StoreHash
<1>6. CASE LoginRead(r)
  BY <1>6 DEF LoginRead
<1>7. CASE LoginCommit(r)
  BY <1>7 DEF LoginCommit, CreateDeviceOn, StillVerified
<1>8. CASE CreateDevice(r)
  BY <1>8 DEF CreateDevice, CreateDeviceOn
<1>9. CASE DeleteAllDevices(r)
  BY <1>9 DEF DeleteAllDevices, DeleteDevices, DevicesOf
<1>10. CASE ChangeRead(r)
  BY <1>10 DEF ChangeRead
<1>11. CASE ChangeWrite(r)
  BY <1>11 DEF ChangeWrite, StoreHash
<1>12. CASE RemoveRead(r)
  BY <1>12 DEF RemoveRead
<1>13. CASE RemoveCommit(r)
  BY <1>13 DEF RemoveCommit, DeleteDevices, DevicesOf, StillVerified
<1>14. CASE VerifyRequest(r)
  BY <1>14 DEF VerifyRequest
<1>15. CASE ResetRequest(r)
  BY <1>15 DEF ResetRequest
<1>16. CASE CountTokens(r)
  BY <1>16 DEF CountTokens, BelowCap, LiveTokens
<1>17. CASE InsertToken(r)
  BY <1>17 DEF InsertToken
<1>18. CASE SendMail(r)
  BY <1>18 DEF SendMail
<1>19. CASE MarkEmailVerified(r)
  BY <1>19 DEF MarkEmailVerified
<1>20. CASE ResetWrite(r)
  BY <1>20 DEF ResetWrite, StoreHash
<1>21. CASE ResetRevoke(r)
  BY <1>21 DEF ResetRevoke, DeleteDevices, DevicesOf
<1>22. CASE Abandon(r)
  BY <1>22 DEF Abandon
<1> QED BY <1>1, <1>2, <1>3, <1>4, <1>5, <1>6, <1>7, <1>8, <1>9, <1>10, <1>11,
           <1>12, <1>13, <1>14, <1>15, <1>16, <1>17, <1>18, <1>19, <1>20, <1>21, <1>22 DEF Handle

(* Only a request that consumed a verify_email token marks the account. *)
LEMMA HandleMail ==
  ASSUME AccountsTypeOK, MailInv, NEW r \in Request, Handle(r)
  PROVE  MailInv'
<1> USE DEF AccountsTypeOK, MailInv, VerifiedByMail, ConfirmersMailed,
        Steps, Kind, Authenticated, Goto, For, Sees, Done, UserExists,
        userVars, deviceVars, tokenVars, reqVars, accountHistory
<1>1. CASE \E d \in Device, step \in Authenticated : Authenticate(r, d, step)
  BY <1>1 DEF Authenticate
<1>2. CASE \E d \in Device : DeleteDevice(r, d)
  BY <1>2 DEF DeleteDevice, DeleteDevices
<1>3. CASE \E k \in Kind : VerifyConfirm(r, k)
  BY <1>3 DEF VerifyConfirm, ConsumeEmailToken, Accepts
<1>4. CASE \E k \in Kind : ResetConfirm(r, k)
  BY <1>4 DEF ResetConfirm, ConsumeEmailToken, Accepts
<1>5. CASE Register(r)
  BY <1>5 DEF Register, StoreHash
<1>6. CASE LoginRead(r)
  BY <1>6 DEF LoginRead
<1>7. CASE LoginCommit(r)
  BY <1>7 DEF LoginCommit, CreateDeviceOn, StillVerified
<1>8. CASE CreateDevice(r)
  BY <1>8 DEF CreateDevice, CreateDeviceOn
<1>9. CASE DeleteAllDevices(r)
  BY <1>9 DEF DeleteAllDevices, DeleteDevices, DevicesOf
<1>10. CASE ChangeRead(r)
  BY <1>10 DEF ChangeRead
<1>11. CASE ChangeWrite(r)
  BY <1>11 DEF ChangeWrite, StoreHash
<1>12. CASE RemoveRead(r)
  BY <1>12 DEF RemoveRead
<1>13. CASE RemoveCommit(r)
  BY <1>13 DEF RemoveCommit, DeleteDevices, DevicesOf, StillVerified
<1>14. CASE VerifyRequest(r)
  BY <1>14 DEF VerifyRequest
<1>15. CASE ResetRequest(r)
  BY <1>15 DEF ResetRequest
<1>16. CASE CountTokens(r)
  BY <1>16 DEF CountTokens, BelowCap, LiveTokens
<1>17. CASE InsertToken(r)
  BY <1>17 DEF InsertToken
<1>18. CASE SendMail(r)
  BY <1>18 DEF SendMail
<1>19. CASE MarkEmailVerified(r)
  BY <1>19 DEF MarkEmailVerified
<1>20. CASE ResetWrite(r)
  BY <1>20 DEF ResetWrite, StoreHash
<1>21. CASE ResetRevoke(r)
  BY <1>21 DEF ResetRevoke, DeleteDevices, DevicesOf
<1>22. CASE Abandon(r)
  BY <1>22 DEF Abandon
<1> QED BY <1>1, <1>2, <1>3, <1>4, <1>5, <1>6, <1>7, <1>8, <1>9, <1>10, <1>11,
           <1>12, <1>13, <1>14, <1>15, <1>16, <1>17, <1>18, <1>19, <1>20, <1>21, <1>22 DEF Handle

-----------------------------------------------------------------------------
(* The requests that have counted the tokens of kind k and not inserted. *)
Inserting(k) == {r \in Request : pc[r] = "insert" /\ asked[r] = k}

(* The tokens there are and the ones about to be inserted. *)
TokensAhead ==
  \A k \in Kind : LiveTokens(k) + Cardinality(Inserting(k))
                    <= MaxLiveEmailTokens + Cardinality(Request) - 1

LEMMA InsertingFinite ==
  ASSUME NEW k
  PROVE  /\ IsFiniteSet(Inserting(k)) /\ IsFiniteSet(Inserting(k)')
         /\ Cardinality(Inserting(k)) \in Nat /\ Cardinality(Inserting(k)') \in Nat
         /\ Cardinality(Inserting(k)) <= Cardinality(Request)
         /\ Cardinality(Inserting(k)') <= Cardinality(Request)
         /\ Cardinality(Request) \in Nat /\ Cardinality(Request) >= 1
<1>1. IsFiniteSet(Request) /\ Request # {}
  BY AccountAssumption
<1>2. Inserting(k) \subseteq Request /\ Inserting(k)' \subseteq Request
  BY DEF Inserting
<1>3. Cardinality(Request) \in Nat /\ Cardinality(Request) # 0
  BY <1>1, FS_CardinalityType, FS_EmptySet
<1> QED BY <1>1, <1>2, <1>3, FS_Subset, FS_CardinalityType

(* The step of a request that inserts nothing and counts nothing. *)
LEMMA FewerAhead ==
  ASSUME AccountsTypeOK, AccountsTypeOK', TokensAhead,
         \A k \in Kind : LiveTokens(k)' <= LiveTokens(k) /\ Inserting(k)' \subseteq Inserting(k)
  PROVE  TokensAhead'
<1> SUFFICES ASSUME NEW k \in Kind
             PROVE  LiveTokens(k)' + Cardinality(Inserting(k)')
                      <= MaxLiveEmailTokens + Cardinality(Request) - 1
  BY DEF TokensAhead, Inserting
<1>1. Cardinality(Inserting(k)') <= Cardinality(Inserting(k))
  BY InsertingFinite, FS_Subset
<1>2. LiveTokens(k) \in Nat /\ LiveTokens(k)' \in Nat /\ MaxLiveEmailTokens \in Nat
  BY AccountAssumption DEF LiveTokens, AccountsTypeOK
<1>3. /\ LiveTokens(k) + Cardinality(Inserting(k))
           <= MaxLiveEmailTokens + Cardinality(Request) - 1
      /\ LiveTokens(k)' <= LiveTokens(k)
  BY DEF TokensAhead
<1> QED BY <1>1, <1>2, <1>3, InsertingFinite

(* Counting happens below the cap, however many others have counted. *)
LEMMA CountAhead ==
  ASSUME AccountsTypeOK, TokensAhead, NEW r \in Request, CountTokens(r)
  PROVE  TokensAhead'
<1> SUFFICES ASSUME NEW k \in Kind
             PROVE  LiveTokens(k)' + Cardinality(Inserting(k)')
                      <= MaxLiveEmailTokens + Cardinality(Request) - 1
  BY DEF TokensAhead, Inserting
<1>1. LiveTokens(k)' = LiveTokens(k) /\ LiveTokens(k) \in Nat /\ MaxLiveEmailTokens \in Nat
  BY AccountAssumption DEF CountTokens, tokenVars, LiveTokens, AccountsTypeOK
<1>2. CASE k = asked[r]
  <2>1. LiveTokens(k) < MaxLiveEmailTokens
    BY <1>2 DEF CountTokens, BelowCap
  <2> QED BY <1>1, <2>1, InsertingFinite
<1>3. CASE k # asked[r]
  <2>1. Inserting(k)' = Inserting(k)
    BY <1>3 DEF CountTokens, Goto, Inserting, AccountsTypeOK
  <2> QED BY <1>1, <2>1 DEF TokensAhead
<1> QED BY <1>2, <1>3

(* Inserting turns a request that has counted into a token. *)
LEMMA InsertAhead ==
  ASSUME AccountsTypeOK, TokensAhead, NEW r \in Request, InsertToken(r)
  PROVE  TokensAhead'
<1> SUFFICES ASSUME NEW k \in Kind
             PROVE  LiveTokens(k)' + Cardinality(Inserting(k)')
                      <= MaxLiveEmailTokens + Cardinality(Request) - 1
  BY DEF TokensAhead, Inserting
<1>1. LiveTokens(k) \in Nat /\ MaxLiveEmailTokens \in Nat
  BY AccountAssumption DEF LiveTokens, AccountsTypeOK
<1>2. CASE k = asked[r]
  <2>1. r \in Inserting(k) /\ Inserting(k)' = Inserting(k) \ {r}
    BY <1>2 DEF InsertToken, Goto, Inserting, AccountsTypeOK
  <2>2. Cardinality(Inserting(k)') = Cardinality(Inserting(k)) - 1
    BY <2>1, InsertingFinite, FS_RemoveElement
  <2>3. LiveTokens(k)' = LiveTokens(k) + 1
    BY <1>2 DEF InsertToken, LiveTokens, AccountsTypeOK
  <2> QED BY <1>1, <2>2, <2>3, InsertingFinite DEF TokensAhead
<1>3. CASE k # asked[r]
  <2>1. Inserting(k)' = Inserting(k) /\ LiveTokens(k)' = LiveTokens(k)
    BY <1>3 DEF InsertToken, Goto, Inserting, LiveTokens, AccountsTypeOK
  <2> QED BY <1>1, <2>1 DEF TokensAhead
<1> QED BY <1>2, <1>3

-----------------------------------------------------------------------------
(* The inductive invariant. *)
AccountsInv ==
  /\ AccountsTypeOK /\ HashesKnown /\ DevicesHaveAccounts
  /\ LoginInv /\ MailInv /\ TokensAhead

LEMMA InitInv ==
  ASSUME AccountsInit
  PROVE  AccountsInv
<1>1. AccountsTypeOK /\ HashesKnown
  <2>1. verified \in BOOLEAN /\ confirmed \in BOOLEAN
    BY Zenon DEF AccountsInit
  <2> QED BY <2>1, AccountAssumption
          DEF AccountsInit, AccountsTypeOK, HashesKnown, Steps, Kind
<1>2. DevicesHaveAccounts /\ LoginInv /\ MailInv
  BY DEF AccountsInit, DevicesHaveAccounts, LoginInv, NewestHash, LoginsCurrent, RevokersOld,
         ResetEndsOldLogins, MailInv, VerifiedByMail, ConfirmersMailed
<1>3. ASSUME NEW k \in Kind
      PROVE  LiveTokens(k) + Cardinality(Inserting(k))
               <= MaxLiveEmailTokens + Cardinality(Request) - 1
  <2>1. Inserting(k) = {} /\ LiveTokens(k) = 0
    BY DEF AccountsInit, Inserting, LiveTokens
  <2> QED BY <2>1, FS_EmptySet, InsertingFinite, AccountAssumption
<1> QED BY <1>1, <1>2, <1>3 DEF AccountsInv, TokensAhead

(* The clock removes a token and touches nothing else. *)
LEMMA ExpireInv ==
  ASSUME AccountsInv, NEW k \in Kind, Expire(k)
  PROVE  AccountsInv'
<1>1. /\ UNCHANGED <<userVars, deviceVars, reqVars, accountHistory>>
      /\ unsent' \in [Kind -> Nat] /\ sent' \in [Kind -> Nat]
      /\ \A j \in Kind : LiveTokens(j)' <= LiveTokens(j)
  BY DEF AccountsInv, AccountsTypeOK, Expire, LiveTokens
<1> USE <1>1 DEF userVars, deviceVars, reqVars, accountHistory
<1>2. AccountsTypeOK' /\ HashesKnown' /\ DevicesHaveAccounts' /\ LoginInv' /\ MailInv'
  BY DEF AccountsInv, AccountsTypeOK, HashesKnown, DevicesHaveAccounts, LoginInv, NewestHash,
         LoginsCurrent, RevokersOld, ResetEndsOldLogins, MailInv, VerifiedByMail,
         ConfirmersMailed, UserExists
<1>3. \A j \in Kind : Inserting(j)' \subseteq Inserting(j)
  BY DEF Inserting
<1> QED BY <1>1, <1>2, <1>3, FewerAhead DEF AccountsInv


LEMMA HandleAhead ==
  ASSUME AccountsTypeOK, AccountsTypeOK', TokensAhead, NEW r \in Request, Handle(r)
  PROVE  TokensAhead'
<1>1. CASE CountTokens(r)
  BY <1>1, CountAhead
<1>2. CASE InsertToken(r)
  BY <1>2, InsertAhead
<1>3. CASE ~CountTokens(r) /\ ~InsertToken(r)
  <2>1. \A k \in Kind : LiveTokens(k)' <= LiveTokens(k)
    <3> USE DEF AccountsTypeOK, LiveTokens, Kind, tokenVars
    <3>1. CASE \E k \in Kind : VerifyConfirm(r, k) \/ ResetConfirm(r, k)
      BY <3>1 DEF VerifyConfirm, ResetConfirm, ConsumeEmailToken, Accepts
    <3>2. CASE RemoveCommit(r)
      BY <3>2 DEF RemoveCommit
    <3>3. CASE SendMail(r)
      BY <3>3 DEF SendMail
    <3>4. CASE UNCHANGED tokenVars
      BY <3>4
    <3> QED BY <1>3, <3>1, <3>2, <3>3, <3>4
            DEF Handle, Authenticate, DeleteDevice, Register, LoginRead, LoginCommit, CreateDevice,
                DeleteAllDevices, ChangeRead, ChangeWrite, RemoveRead, VerifyRequest, ResetRequest,
                MarkEmailVerified, ResetWrite, ResetRevoke, Abandon
  <2>2. PICK step \in Steps \ {"insert"} : pc' = [pc EXCEPT ![r] = step]
    BY <1>3 DEF Handle, Authenticate, DeleteDevice, Register, LoginRead, LoginCommit, CreateDevice,
                DeleteAllDevices, ChangeRead, ChangeWrite, RemoveRead, VerifyRequest, ResetRequest,
                MarkEmailVerified, ResetWrite, ResetRevoke, Abandon, VerifyConfirm, ResetConfirm,
                RemoveCommit, SendMail, Done, Goto, Steps, Authenticated
  <2>3. \A q \in Request \ {r} : asked'[q] = asked[q]
    BY <1>3 DEF Handle, Authenticate, DeleteDevice, Register, LoginRead, LoginCommit, CreateDevice,
                DeleteAllDevices, ChangeRead, ChangeWrite, RemoveRead, VerifyRequest, ResetRequest,
                MarkEmailVerified, ResetWrite, ResetRevoke, Abandon, VerifyConfirm, ResetConfirm,
                RemoveCommit, SendMail, Done, AccountsTypeOK
  <2>4. \A k \in Kind : Inserting(k)' \subseteq Inserting(k)
    BY <2>2, <2>3 DEF Inserting, AccountsTypeOK
  <2> QED BY <2>1, <2>4, FewerAhead
<1> QED BY <1>1, <1>2, <1>3

(* Every step keeps the invariant. *)
LEMMA StepInv ==
  ASSUME AccountsInv, [AccountsNext]_accountVars
  PROVE  AccountsInv'
<1>1. CASE \E r \in Request : Handle(r)
  <2>1. PICK r \in Request : Handle(r)
    BY <1>1
  <2>2. AccountsTypeOK' /\ HashesKnown'
    BY <2>1, HandleType DEF AccountsInv
  <2>3. DevicesHaveAccounts' /\ LoginInv' /\ MailInv'
    BY <2>1, HandleDevices, HandleLogins, HandleMail DEF AccountsInv
  <2>4. TokensAhead'
    BY <2>1, <2>2, HandleAhead DEF AccountsInv
  <2> QED BY <2>2, <2>3, <2>4 DEF AccountsInv
<1>2. CASE \E k \in Kind : Expire(k)
  BY <1>2, ExpireInv
<1>3. CASE UNCHANGED accountVars
  <2> USE <1>3 DEF accountVars, userVars, deviceVars, tokenVars, reqVars, accountHistory
  <2>1. AccountsTypeOK' /\ HashesKnown' /\ DevicesHaveAccounts' /\ LoginInv' /\ MailInv'
    BY DEF AccountsInv, AccountsTypeOK, HashesKnown, DevicesHaveAccounts, LoginInv, NewestHash,
           LoginsCurrent, RevokersOld, ResetEndsOldLogins, MailInv, VerifiedByMail,
           ConfirmersMailed, UserExists
  <2>2. TokensAhead'
    BY DEF AccountsInv, TokensAhead, LiveTokens, Inserting
  <2> QED BY <2>1, <2>2 DEF AccountsInv
<1> QED BY <1>1, <1>2, <1>3 DEF AccountsNext

LEMMA AlwaysInv == AccountsSpec => []AccountsInv
BY InitInv, StepInv, PTL DEF AccountsSpec

-----------------------------------------------------------------------------
(* The handlers of accounts keep the types of the tables and of their own state. *)
THEOREM AccountsTyped == AccountsSpec => []AccountsTypeOK
BY AlwaysInv, PTL DEF AccountsInv

(***************************************************************************)
(* After reset_confirm has revoked the devices no login that verified an   *)
(* older password has a device, whatever the interleaving: the transaction *)
(* of login compares the hash, and a stored hash is never an old one.      *)
(***************************************************************************)
THEOREM ResetsEndLogins == AccountsSpec => []ResetEndsOldLogins
BY AlwaysInv, PTL DEF AccountsInv, LoginInv

(* No device survives delete_account or is created after it. *)
THEOREM NoOrphanDevices == AccountsSpec => []DevicesHaveAccounts
BY AlwaysInv, PTL DEF AccountsInv

(***************************************************************************)
(* Only the token mailed to the account verifies it: consume_email_token   *)
(* looks at the kind and mark_email_verified names a user id that a later  *)
(* account with the same address does not have.                            *)
(***************************************************************************)
THEOREM VerifiedThroughMail == AccountsSpec => []VerifiedByMail
BY AlwaysInv, PTL DEF AccountsInv, MailInv

(***************************************************************************)
(* The race in create_email_token is bounded by the number of requests:    *)
(* a request that has counted and not inserted is one the cap has allowed  *)
(* for, so the tokens and these requests together stay under the bound.    *)
(***************************************************************************)
THEOREM TokensStayNearCap == AccountsSpec => []TokensNearCap
<1>1. AccountsInv => TokensNearCap
  <2> SUFFICES ASSUME AccountsInv, NEW k \in Kind
               PROVE  LiveTokens(k) <= MaxLiveEmailTokens + Cardinality(Request) - 1
    BY DEF TokensNearCap
  <2>1. LiveTokens(k) \in Nat
    BY DEF AccountsInv, AccountsTypeOK, LiveTokens
  <2> QED BY <2>1, InsertingFinite, AccountAssumption DEF AccountsInv, TokensAhead
<1> QED BY <1>1, AlwaysInv, PTL
=============================================================================
