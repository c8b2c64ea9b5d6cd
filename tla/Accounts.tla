------------------------------ MODULE Accounts ------------------------------
(***************************************************************************)
(* The account of one e-mail address: its row in users, its devices (the   *)
(* anchors of the JWTs) and its e-mail tokens, under requests that are     *)
(* handled at the same time (http.rs, auth.rs, the account part of         *)
(* store.rs).                                                              *)
(*                                                                         *)
(* A handler is a sequence of SQL statements, each its own transaction     *)
(* unless it says otherwise, and other requests run between them; pc is    *)
(* the statement a request is about to execute.  login and delete_account  *)
(* end in a serializable transaction that reads the user row FOR UPDATE    *)
(* and holds it until the commit, so it is one step.  A handler may end    *)
(* anywhere before its last statement (Abandon): the statement fails, the  *)
(* transaction gives up after its attempts, or the client goes away and    *)
(* the server drops the handler.                                           *)
(*                                                                         *)
(* A stored hash is the number of its hash_password call: salts make every *)
(* hash distinct.  Whether the password of a request verifies is the       *)
(* client's choice; a request that is refused does nothing.  Rows of       *)
(* email_tokens that can still be accepted are counted: they differ in     *)
(* nothing but their text.  Abstracted: passwords, e-mail syntax, JWT      *)
(* expiry, and the lockout, which is module LoginLockout.                  *)
(***************************************************************************)
EXTENDS Naturals, FiniteSets

CONSTANTS
  Request,                \* requests handled at the same time
  Device,                 \* bound: devices that exist at the same time
  VerificationRequired,   \* EMAIL_VERIFICATION_REQUIRED
  MaxLiveEmailTokens,     \* MAX_LIVE_EMAIL_TOKENS
  MaxHashes               \* bound: password hashes stored

ASSUME AccountAssumption ==
  /\ IsFiniteSet(Request) /\ Request # {} /\ VerificationRequired \in BOOLEAN
  /\ MaxLiveEmailTokens \in Nat /\ MaxHashes \in Nat

Kind == {"verify_email", "password_reset"}   \* mail::MailKind

VARIABLES
  userId,     \* users.id, 0 when the e-mail has no account
  hash,       \* users.password_hash
  verified,   \* users.email_verified_at is set
  hashes,     \* hashes stored so far
  owner,      \* user_devices.user_id; 0 when the row is not there
  cred,       \* history: the hash the device's credential was checked against
  via,        \* history: the handler that created the device
  unsent,     \* per kind: live e-mail tokens of the account not mailed (yet)
  sent,       \* per kind: live e-mail tokens of the account that were mailed
  pc,         \* per request: the statement it is about to execute
  who,        \* the user id the request works for
  seen,       \* the hash it has read, written or (create_device) relies on
  asked,      \* the kind of mail it wants
  cut,        \* history: the newest hash whose reset has revoked the devices
  confirmed   \* history: a verify_email token of this account was accepted

userVars == <<userId, hash, verified, hashes>>
deviceVars == <<owner, cred, via>>
tokenVars == <<unsent, sent>>
reqVars == <<pc, who, seen, asked>>
accountHistory == <<cut, confirmed>>
accountVars == <<userVars, deviceVars, tokenVars, reqVars, accountHistory>>

Authenticated == {"create", "delete", "signout", "change", "remove", "verify"}
Steps == Authenticated \cup
  {"idle", "login", "changing", "removing", "count", "insert", "mail",
   "verifying", "resetting", "revoking"}

AccountsInit ==
  /\ userId = 0 /\ hash = 0 /\ verified = FALSE /\ hashes = 0
  /\ owner = [d \in Device |-> 0]
  /\ cred = [d \in Device |-> 0]
  /\ via = [d \in Device |-> "login"]
  /\ unsent = [k \in Kind |-> 0]
  /\ sent = [k \in Kind |-> 0]
  /\ pc = [r \in Request |-> "idle"]
  /\ who = [r \in Request |-> 0]
  /\ seen = [r \in Request |-> 0]
  /\ asked = [r \in Request |-> "verify_email"]
  /\ cut = 0
  /\ confirmed = FALSE

(***************************************************************************)
(* What a request remembers.                                               *)
(***************************************************************************)
Goto(r, step) == pc' = [pc EXCEPT ![r] = step]
For(r, id) == who' = [who EXCEPT ![r] = id]
Sees(r, h) == seen' = [seen EXCEPT ![r] = h]
Done(r) ==
  /\ Goto(r, "idle") /\ For(r, 0) /\ Sees(r, 0)
  /\ asked' = [asked EXCEPT ![r] = "verify_email"]

(* hash_password and the write of the result. *)
(* Mutant: the row keeps the hash it had. *)
StoreHashLate ==
  /\ hashes < MaxHashes
  /\ hashes' = hashes + 1
  /\ hash' = hashes
StoreHash ==
  /\ hashes < MaxHashes
  /\ hashes' = hashes + 1
  /\ hash' = hashes + 1

(* The foreign key to users of user_devices and email_tokens. *)
(* Mutant: nothing ties the row to an account that still exists. *)
UserExistsOnce(id) == id # 0
UserExists(id) == id # 0 /\ id = userId

(* create_device_on: the row the JWT names. *)
CreateDeviceOn(id, h, handler) ==
  \E d \in Device :
     /\ owner[d] = 0
     /\ owner' = [owner EXCEPT ![d] = id]
     /\ cred' = [cred EXCEPT ![d] = h]
     /\ via' = [via EXCEPT ![d] = handler]

(* DELETE FROM user_devices. *)
DeleteDevices(gone) ==
  /\ owner' = [d \in Device |-> IF d \in gone THEN 0 ELSE owner[d]]
  /\ cred' = [d \in Device |-> IF d \in gone THEN 0 ELSE cred[d]]
  /\ via' = [d \in Device |-> IF d \in gone THEN "login" ELSE via[d]]
DevicesOf(id) == {d \in Device : owner[d] = id}

(***************************************************************************)
(* register, and the verification mail it sends.                           *)
(***************************************************************************)
Register(r) ==
  /\ pc[r] = "idle" /\ userId = 0
  /\ StoreHash
  /\ userId' = hashes + 1
  /\ verified' = FALSE
  /\ For(r, hashes + 1)
  /\ asked' = [asked EXCEPT ![r] = "verify_email"]
  /\ Goto(r, "count")
  /\ UNCHANGED <<seen, deviceVars, tokenVars, accountHistory>>

(***************************************************************************)
(* login: the password is checked against the hash just read; the device   *)
(* is created in a transaction that compares that hash with the stored one.*)
(***************************************************************************)
LoginRead(r) ==
  /\ pc[r] = "idle" /\ userId # 0
  /\ VerificationRequired => verified
  /\ For(r, userId) /\ Sees(r, hash) /\ Goto(r, "login")
  /\ UNCHANGED <<asked, userVars, deviceVars, tokenVars, accountHistory>>

(* Mutant: the transaction looks for the user, not for the hash. *)
StillVerifiedById(r) == UserExists(who[r])
StillVerified(r) == UserExists(who[r]) /\ hash = seen[r]

LoginCommit(r) ==
  /\ pc[r] = "login" /\ StillVerified(r)
  /\ CreateDeviceOn(who[r], seen[r], "login")
  /\ Done(r)
  /\ UNCHANGED <<userVars, tokenVars, accountHistory>>

(***************************************************************************)
(* auth_mw: the JWT names a device and a user, and the device must still   *)
(* be there.  The handler behind it runs later.                            *)
(***************************************************************************)
Authenticate(r, d, step) ==
  /\ pc[r] = "idle" /\ owner[d] # 0
  /\ For(r, owner[d]) /\ Sees(r, cred[d]) /\ Goto(r, step)
  /\ UNCHANGED <<asked, userVars, deviceVars, tokenVars, accountHistory>>

CreateDevice(r) ==
  /\ pc[r] = "create" /\ UserExists(who[r])
  /\ CreateDeviceOn(who[r], seen[r], "create_device")
  /\ Done(r)
  /\ UNCHANGED <<userVars, tokenVars, accountHistory>>

DeleteDevice(r, d) ==
  /\ pc[r] = "delete" /\ owner[d] = who[r]
  /\ DeleteDevices({d})
  /\ Done(r)
  /\ UNCHANGED <<userVars, tokenVars, accountHistory>>

DeleteAllDevices(r) ==
  /\ pc[r] = "signout"
  /\ DeleteDevices(DevicesOf(who[r]))
  /\ Done(r)
  /\ UNCHANGED <<userVars, tokenVars, accountHistory>>

(***************************************************************************)
(* change_password: reads and verifies, then updates without another look. *)
(***************************************************************************)
ChangeRead(r) ==
  /\ pc[r] = "change" /\ UserExists(who[r])
  /\ Sees(r, hash) /\ Goto(r, "changing")
  /\ UNCHANGED <<who, asked, userVars, deviceVars, tokenVars, accountHistory>>

ChangeWrite(r) ==
  /\ pc[r] = "changing" /\ UserExists(who[r])
  /\ StoreHash
  /\ Done(r)
  /\ UNCHANGED <<userId, verified, deviceVars, tokenVars, accountHistory>>

(***************************************************************************)
(* delete_account: reads and verifies, then a transaction that compares    *)
(* the hash and deletes the user; devices and tokens cascade.              *)
(***************************************************************************)
RemoveRead(r) ==
  /\ pc[r] = "remove" /\ UserExists(who[r])
  /\ Sees(r, hash) /\ Goto(r, "removing")
  /\ UNCHANGED <<who, asked, userVars, deviceVars, tokenVars, accountHistory>>

RemoveCommit(r) ==
  /\ pc[r] = "removing" /\ StillVerified(r)
  /\ userId' = 0 /\ hash' = 0 /\ verified' = FALSE
  /\ DeleteDevices(DevicesOf(who[r]))
  /\ unsent' = [k \in Kind |-> 0] /\ sent' = [k \in Kind |-> 0]
  /\ Done(r)
  /\ confirmed' = FALSE
  /\ UNCHANGED <<hashes, cut>>

(***************************************************************************)
(* verify_request and reset_request, up to send_flow_mail.                 *)
(***************************************************************************)
VerifyRequest(r) ==
  /\ pc[r] = "verify" /\ UserExists(who[r]) /\ ~verified
  /\ asked' = [asked EXCEPT ![r] = "verify_email"]
  /\ Goto(r, "count")
  /\ UNCHANGED <<who, seen, userVars, deviceVars, tokenVars, accountHistory>>

ResetRequest(r) ==
  /\ pc[r] = "idle" /\ userId # 0
  /\ For(r, userId)
  /\ asked' = [asked EXCEPT ![r] = "password_reset"]
  /\ Goto(r, "count")
  /\ UNCHANGED <<seen, userVars, deviceVars, tokenVars, accountHistory>>

(***************************************************************************)
(* send_flow_mail: create_email_token counts the live tokens, then inserts *)
(* one; then the webhook is called.                                        *)
(***************************************************************************)
LiveTokens(k) == unsent[k] + sent[k]

(* Mutant: one token too many passes. *)
BelowCapOrEqual(k) == LiveTokens(k) <= MaxLiveEmailTokens
BelowCap(k) == LiveTokens(k) < MaxLiveEmailTokens

CountTokens(r) ==
  /\ pc[r] = "count" /\ UserExists(who[r]) /\ BelowCap(asked[r])
  /\ Goto(r, "insert")
  /\ UNCHANGED <<who, seen, asked, userVars, deviceVars, tokenVars, accountHistory>>

InsertToken(r) ==
  /\ pc[r] = "insert" /\ UserExists(who[r])
  /\ unsent' = [unsent EXCEPT ![asked[r]] = @ + 1]
  /\ Goto(r, "mail")
  /\ UNCHANGED <<who, seen, asked, sent, userVars, deviceVars, accountHistory>>

SendMail(r) ==
  /\ pc[r] = "mail" /\ UserExists(who[r]) /\ unsent[asked[r]] > 0
  /\ unsent' = [unsent EXCEPT ![asked[r]] = @ - 1]
  /\ sent' = [sent EXCEPT ![asked[r]] = @ + 1]
  /\ Done(r)
  /\ UNCHANGED <<userVars, deviceVars, accountHistory>>

(***************************************************************************)
(* consume_email_token: one UPDATE that accepts a token of the right kind  *)
(* that is neither used nor expired.  Only what was mailed is presented.   *)
(***************************************************************************)
(* Mutant: the statement does not look at the kind. *)
AcceptsAnyKind(k, wanted) == sent[k] > 0
Accepts(k, wanted) == k = wanted /\ sent[k] > 0

ConsumeEmailToken(r, k, wanted) ==
  /\ Accepts(k, wanted)
  /\ sent' = [sent EXCEPT ![k] = @ - 1]
  /\ confirmed' = (confirmed \/ k = "verify_email")
  /\ For(r, userId)
  /\ UNCHANGED unsent

VerifyConfirm(r, k) ==
  /\ pc[r] = "idle"
  /\ ConsumeEmailToken(r, k, "verify_email")
  /\ Goto(r, "verifying")
  /\ UNCHANGED <<seen, asked, userVars, deviceVars, cut>>

MarkEmailVerified(r) ==
  /\ pc[r] = "verifying" /\ UserExists(who[r])
  /\ verified' = TRUE
  /\ Done(r)
  /\ UNCHANGED <<userId, hash, hashes, deviceVars, tokenVars, accountHistory>>

(***************************************************************************)
(* reset_confirm: consume, update_password, delete_all_devices; the login  *)
(* failures it clears at the end are those of LoginLockout.                *)
(***************************************************************************)
ResetConfirm(r, k) ==
  /\ pc[r] = "idle"
  /\ ConsumeEmailToken(r, k, "password_reset")
  /\ Goto(r, "resetting")
  /\ UNCHANGED <<seen, asked, userVars, deviceVars, cut>>

ResetWrite(r) ==
  /\ pc[r] = "resetting" /\ UserExists(who[r])
  /\ StoreHash
  /\ Sees(r, hashes + 1)
  /\ Goto(r, "revoking")
  /\ UNCHANGED <<who, asked, userId, verified, deviceVars, tokenVars, accountHistory>>

ResetRevoke(r) ==
  /\ pc[r] = "revoking"
  /\ DeleteDevices(DevicesOf(who[r]))
  /\ cut' = IF seen[r] > cut THEN seen[r] ELSE cut
  /\ Done(r)
  /\ UNCHANGED <<userVars, tokenVars, confirmed>>

(***************************************************************************)
(* A handler that ends early: refused, failed, given up or dropped.  And   *)
(* the clock passing the expires_at of a token, after which no statement   *)
(* accepts or counts it and prune_email_tokens may remove the row.         *)
(***************************************************************************)
Abandon(r) ==
  /\ pc[r] # "idle"
  /\ Done(r)
  /\ UNCHANGED <<userVars, deviceVars, tokenVars, accountHistory>>

Expire(k) ==
  /\ \/ /\ unsent[k] > 0 /\ unsent' = [unsent EXCEPT ![k] = @ - 1]
        /\ UNCHANGED sent
     \/ /\ sent[k] > 0 /\ sent' = [sent EXCEPT ![k] = @ - 1]
        /\ UNCHANGED unsent
  /\ UNCHANGED <<userVars, deviceVars, reqVars, accountHistory>>

Handle(r) ==
  \/ \E d \in Device, step \in Authenticated : Authenticate(r, d, step)
  \/ \E d \in Device : DeleteDevice(r, d)
  \/ \E k \in Kind : VerifyConfirm(r, k) \/ ResetConfirm(r, k)
  \/ Register(r) \/ LoginRead(r) \/ LoginCommit(r)
  \/ CreateDevice(r) \/ DeleteAllDevices(r)
  \/ ChangeRead(r) \/ ChangeWrite(r) \/ RemoveRead(r) \/ RemoveCommit(r)
  \/ VerifyRequest(r) \/ ResetRequest(r)
  \/ CountTokens(r) \/ InsertToken(r) \/ SendMail(r)
  \/ MarkEmailVerified(r) \/ ResetWrite(r) \/ ResetRevoke(r)
  \/ Abandon(r)

AccountsNext ==
  \/ \E r \in Request : Handle(r)
  \/ \E k \in Kind : Expire(k)

AccountsSpec == AccountsInit /\ [][AccountsNext]_accountVars
-----------------------------------------------------------------------------
(* Types; the account has an id and a stored hash together. *)
AccountsTypeOK ==
  /\ hashes \in 0 .. MaxHashes
  /\ userId \in 0 .. hashes /\ hash \in 0 .. hashes
  /\ verified \in BOOLEAN /\ (userId = 0 <=> hash = 0)
  /\ owner \in [Device -> 0 .. hashes] /\ cred \in [Device -> Nat]
  /\ via \in [Device -> {"login", "create_device"}]
  /\ unsent \in [Kind -> Nat] /\ sent \in [Kind -> Nat]
  /\ pc \in [Request -> Steps] /\ who \in [Request -> 0 .. hashes]
  /\ seen \in [Request -> Nat] /\ asked \in [Request -> Kind]
  /\ cut \in 0 .. hashes /\ confirmed \in BOOLEAN

(***************************************************************************)
(* reset_confirm signs out: once it has revoked the devices, no login that *)
(* verified an older password leaves a device behind, however its steps    *)
(* interleave with the reset.  (A create_device that auth_mw let in before *)
(* the reset may still insert its row.)                                    *)
(***************************************************************************)
ResetEndsOldLogins ==
  \A d \in Device : owner[d] # 0 /\ via[d] = "login" => cred[d] >= cut

(***************************************************************************)
(* delete_account leaves nothing usable: no device belongs to an account   *)
(* that is gone, although create_device and login may be under way.        *)
(***************************************************************************)
DevicesHaveAccounts ==
  \A d \in Device : owner[d] # 0 => owner[d] = userId

(***************************************************************************)
(* An account is verified only by a verify_email token mailed to this very *)
(* account: not by a reset token, not by one of a deleted account with the *)
(* same address.                                                           *)
(***************************************************************************)
VerifiedByMail == verified => confirmed

(***************************************************************************)
(* create_email_token counts and inserts in two statements: concurrent     *)
(* requests may pass MAX_LIVE_EMAIL_TOKENS, by one each and no more.       *)
(***************************************************************************)
TokensNearCap ==
  \A k \in Kind : LiveTokens(k) <= MaxLiveEmailTokens + Cardinality(Request) - 1
=============================================================================
