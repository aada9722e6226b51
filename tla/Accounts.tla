------------------------------ MODULE Accounts ------------------------------
(***************************************************************************)
(* Who a caller is: accounts of devices, sign-in with Apple, and refresh   *)
(* tokens.  A request is a database transaction whose statements run one   *)
(* by one between those of the others, at READ COMMITTED: a SELECT sees    *)
(* what is committed (and the request's own writes), an INSERT or UPDATE   *)
(* waits for the row, and what was read before may be stale.               *)
(* (auth/service.py, auth/apple.py, auth/issuer.py, api_gateway/auth.py)   *)
(***************************************************************************)
EXTENDS Integers

CONSTANTS
    Handlers,       \* requests being served at the same time
    Users,          \* the userIds that uuid4 can return
    Devices,        \* deviceIds
    Tokens,         \* refresh tokens that token_urlsafe can return
    Subjects,       \* Apple accounts
    AppleTokens,    \* identity tokens presented: records with sub, alg, nonce...
    AuthConfig,     \* settings
    None            \* NULL

(* Rows of refresh_tokens.  parent, again and subject remember, for the    *)
(* properties, which token was exchanged, whether it had been exchanged    *)
(* when the request came, and which Apple account signed in.               *)
TokenRows ==
    [user: Users, device: Devices, used: BOOLEAN, revoked: BOOLEAN,
     parent: Tokens \union {None}, again: BOOLEAN, subject: Subjects \union {None}]

ASSUME AccountsAssumption ==
    /\ None \notin Users \union Devices \union Tokens \union Subjects \union TokenRows
    /\ \A token \in AppleTokens : token.sub \in Subjects \union {None}

VARIABLES
    users,          \* rows of users
    devices,        \* auth_devices: devices[d] is the user of d, or None
    identities,     \* auth_identities: identities[s] is the user of s, or None
    refresh_tokens, \* refresh_tokens[t]: the row, or None
    expired,        \* tokens whose time has run out
    auth            \* auth[h]: what the request that h serves is doing

authTables == <<users, devices, identities, refresh_tokens>>
authVars == <<authTables, expired, auth>>

-----------------------------------------------------------------------------
(* AppleIdentityVerifier.verify: by the alg of its header a token goes to  *)
(* the test branch or to the real one.                                     *)
SignedBy(token, signer) ==
    /\ token.signer = signer /\ ~token.late
    /\ token.iss = "apple" /\ token.aud = AuthConfig.appleAudience
NonceMatches(token, nonce) ==
    token.nonce # None /\ nonce # None => token.nonce = nonce
VerifyApple(token, nonce) ==
    /\ AuthConfig.appleAudience # None
    /\ IF token.alg = "HS256"
       THEN AuthConfig.appleTestMode /\ SignedBy(token, "secret")
       ELSE SignedBy(token, "apple")
    /\ NonceMatches(token, nonce)
    /\ token.sub # None

(* TokenIssuer and JwtVerifier read the same settings: an access token is  *)
(* accepted when it was signed with the key of the configured pair.        *)
issue_access_token(u, d) ==
    [sub |-> u, device_id |-> d, iss |-> AuthConfig.iss, aud |-> AuthConfig.aud,
     key |-> AuthConfig.privateKey]
verify(token) ==
    /\ AuthConfig.publicKey # None /\ token.key = AuthConfig.publicKey
    /\ AuthConfig.iss # None => token.iss = AuthConfig.iss
    /\ AuthConfig.aud # None => token.aud = AuthConfig.aud
    /\ token.sub # None

-----------------------------------------------------------------------------
(* A request: where it is, whom it found and what it has written so far.   *)
AuthIdle ==
    [pc |-> "idle", device |-> None, subject |-> None, token |-> None,
     again |-> FALSE,    \* the token was exchanged before (observation only)
     user |-> None,      \* the account found or made
     made |-> {},        \* inserted into users
     binds |-> None,     \* written to auth_devices: the user; device row locked
     touches |-> FALSE,  \* last_seen_at written: device row locked
     links |-> None,     \* written to auth_identities; identity row locked
     chain |-> {},       \* rows the revocation has found
     uses |-> {},        \* tokens marked used
     revokes |-> {},     \* tokens marked revoked
     issues |-> None]    \* the refresh token inserted

HoldsDevice(j, d) == j.device = d /\ (j.touches \/ j.binds # None)
HoldsIdentity(j, s) == j.subject = s /\ j.links # None
HoldsToken(j, t) == t \in j.uses \union j.revokes

Unheld(h, Holds(_)) == \A g \in Handlers \ {h} : ~Holds(auth[g])
DeviceFree(h) == Unheld(h, LAMBDA j : HoldsDevice(j, auth[h].device))
IdentityFree(h) == Unheld(h, LAMBDA j : HoldsIdentity(j, auth[h].subject))
TokensFree(h, T) == \A t \in T : Unheld(h, LAMBDA j : HoldsToken(j, t))

(* uuid4 and token_urlsafe never return a value twice; Users and Tokens    *)
(* bound how many are asked for.                                           *)
FreshUsers == {u \in Users : u \notin users /\ \A g \in Handlers : u \notin auth[g].made}
FreshUser == CHOOSE u \in FreshUsers : TRUE
FreshTokens ==
    {t \in Tokens : refresh_tokens[t] = None /\ \A g \in Handlers : auth[g].issues # t}
FreshToken == CHOOSE t \in FreshTokens : TRUE

Goes(h, j) ==
    /\ auth' = [auth EXCEPT ![h] = j]
    /\ UNCHANGED <<authTables, expired>>
At(h, pc) == auth[h].pc = pc

Issued == {t \in Tokens : refresh_tokens[t] # None}

(* A pair was issued for t, and committed.                                 *)
Exchanged(t) == \E s \in Issued : refresh_tokens[s].parent = t

(* What the request itself sees of a row.                                  *)
DeviceSeen(h) ==
    IF auth[h].binds # None THEN auth[h].binds ELSE devices[auth[h].device]
IdentitySeen(h) ==
    IF auth[h].links # None THEN auth[h].links ELSE identities[auth[h].subject]

-----------------------------------------------------------------------------
AccountsInit ==
    /\ users = {}
    /\ devices = [d \in Devices |-> None]
    /\ identities = [s \in Subjects |-> None]
    /\ refresh_tokens = [t \in Tokens |-> None]
    /\ expired = {}
    /\ auth = [h \in Handlers |-> AuthIdle]

(* POST /v1/auth/register and /token: 503 without a private key.           *)
Register(h, d) ==
    /\ At(h, "idle") /\ AuthConfig.privateKey # None
    /\ Goes(h, [AuthIdle EXCEPT !.pc = "device", !.device = d])

(* POST /v1/auth/apple.                                                    *)
AppleSignIn(h, token, nonce, d) ==
    /\ At(h, "idle") /\ AuthConfig.privateKey # None
    /\ VerifyApple(token, nonce)
    /\ Goes(h, [AuthIdle EXCEPT !.pc = "identity", !.device = d, !.subject = token.sub])

(* POST /v1/auth/refresh: any token that was ever given out.               *)
Refresh(h, t) ==
    /\ At(h, "idle") /\ AuthConfig.privateKey # None
    /\ refresh_tokens[t] # None
    /\ Goes(h, [AuthIdle EXCEPT !.pc = "token", !.token = t, !.again = Exchanged(t)])

-----------------------------------------------------------------------------
(* _resolve_apple_user: the account of a known identity, else that of the  *)
(* device.                                                                 *)
LookupIdentity(h) ==
    /\ At(h, "identity")
    /\ IF IdentitySeen(h) # None
       THEN Goes(h, [auth[h] EXCEPT !.pc = "bind", !.user = IdentitySeen(h)])
       ELSE Goes(h, [auth[h] EXCEPT !.pc = "device"])

AfterDevice(j) == IF j.subject = None THEN "issue" ELSE "has_apple"

(* _find_or_create_identity: SELECT, then either an UPDATE of last_seen_at *)
(* or an INSERT ON CONFLICT DO NOTHING and a second SELECT.                *)
LookupDevice(h) ==
    /\ At(h, "device")
    /\ IF DeviceSeen(h) # None
       THEN Goes(h, [auth[h] EXCEPT !.pc = "touch", !.user = DeviceSeen(h)])
       ELSE /\ FreshUsers # {}
            /\ Goes(h, [auth[h] EXCEPT !.pc = "insert_device", !.made = {FreshUser}])

TouchDevice(h) ==
    /\ At(h, "touch") /\ DeviceFree(h)
    /\ Goes(h, [auth[h] EXCEPT !.pc = AfterDevice(auth[h]), !.touches = TRUE])

(* The account made for the device, if it is the first one there.          *)
NewUser(j) == CHOOSE u \in j.made : TRUE

InsertDevice(h) ==
    /\ At(h, "insert_device") /\ DeviceFree(h)
    /\ IF devices[auth[h].device] = None
       THEN Goes(h, [auth[h] EXCEPT !.pc = "reread_device", !.binds = NewUser(auth[h])])
       ELSE Goes(h, [auth[h] EXCEPT !.pc = "reread_device"])

(* Mutant: the account made here is taken, whoever won the insert.         *)
FaultyRereadDevice(h) ==
    /\ At(h, "reread_device")
    /\ Goes(h, [auth[h] EXCEPT !.pc = AfterDevice(auth[h]), !.user = NewUser(auth[h])])
RereadDevice(h) ==
    /\ At(h, "reread_device")
    /\ Goes(h, [auth[h] EXCEPT !.pc = AfterDevice(auth[h]), !.user = DeviceSeen(h)])

(* The account of the device is linked when it has no Apple identity, else *)
(* a new one.                                                              *)
(* Mutants: the new account is not inserted; every Apple account gets a    *)
(* new one.                                                                *)
FaultyNotInserted(h) ==
    /\ At(h, "has_apple")
    /\ IF \E s \in Subjects : identities[s] = auth[h].user
       THEN Goes(h, [auth[h] EXCEPT !.pc = "link", !.user = FreshUser])
       ELSE Goes(h, [auth[h] EXCEPT !.pc = "link"])
FaultyAlwaysNew(h) ==
    /\ At(h, "has_apple")
    /\ Goes(h, [auth[h] EXCEPT !.pc = "link", !.user = FreshUser,
                               !.made = @ \union {FreshUser}])
HasApple(h) ==
    /\ At(h, "has_apple")
    /\ IF \E s \in Subjects : identities[s] = auth[h].user
       THEN /\ FreshUsers # {}
            /\ Goes(h, [auth[h] EXCEPT !.pc = "link", !.user = FreshUser,
                                       !.made = @ \union {FreshUser}])
       ELSE Goes(h, [auth[h] EXCEPT !.pc = "link"])

(* INSERT ... ON CONFLICT (provider, subject) DO NOTHING.                  *)
LinkIdentity(h) ==
    /\ At(h, "link") /\ IdentityFree(h)
    /\ IF identities[auth[h].subject] = None
       THEN Goes(h, [auth[h] EXCEPT !.pc = "reread_identity", !.links = auth[h].user])
       ELSE Goes(h, [auth[h] EXCEPT !.pc = "reread_identity"])

(* Mutant: the account chosen before the insert is kept.                   *)
FaultyRereadIdentity(h) ==
    /\ At(h, "reread_identity")
    /\ Goes(h, [auth[h] EXCEPT !.pc = "bind"])
RereadIdentity(h) ==
    /\ At(h, "reread_identity")
    /\ Goes(h, [auth[h] EXCEPT !.pc = "bind", !.user = IdentitySeen(h)])

(* _upsert_device: the device now belongs to the account.                  *)
BindDevice(h) ==
    /\ At(h, "bind") /\ DeviceFree(h)
    /\ Goes(h, [auth[h] EXCEPT !.pc = "issue", !.binds = auth[h].user])

-----------------------------------------------------------------------------
(* refresh: SELECT of the presented token.                                 *)
LookupToken(h) ==
    LET row == refresh_tokens[auth[h].token]
        found == [auth[h] EXCEPT !.user = row.user, !.device = row.device]
    IN  /\ At(h, "token")
        /\ \/ /\ row.used
              /\ Goes(h, [found EXCEPT !.pc = "chain"])
           \/ /\ ~row.used
              /\ row.revoked \/ auth[h].token \in expired
              /\ Goes(h, AuthIdle)
           \/ /\ ~row.used /\ ~row.revoked /\ auth[h].token \notin expired
              /\ Goes(h, [found EXCEPT !.pc = "use"])

(* UPDATE ... SET used_at = now(), whatever it is by now.                  *)
UseToken(h) ==
    /\ At(h, "use") /\ TokensFree(h, {auth[h].token})
    /\ Goes(h, [auth[h] EXCEPT !.pc = "issue", !.uses = {auth[h].token}])

(* _revoke_chain: the rows the UPDATE finds, then, when nobody holds them, *)
(* those among them that are still not revoked.                            *)
Chain(u, d) ==
    {t \in Tokens : /\ refresh_tokens[t] # None
                    /\ refresh_tokens[t].user = u /\ refresh_tokens[t].device = d
                    /\ ~refresh_tokens[t].revoked}
FindChain(h) ==
    /\ At(h, "chain")
    /\ Goes(h, [auth[h] EXCEPT !.pc = "revoke",
                               !.chain = Chain(auth[h].user, auth[h].device)])
RevokeChain(h) ==
    /\ At(h, "revoke") /\ TokensFree(h, auth[h].chain)
    /\ Goes(h, [auth[h] EXCEPT !.pc = "commit",
                   !.revokes = auth[h].chain \intersect Chain(auth[h].user, auth[h].device)])

-----------------------------------------------------------------------------
(* _issue_pair: the row of a new refresh token; the access token holds no  *)
(* state.                                                                  *)
IssuePair(h) ==
    /\ At(h, "issue") /\ FreshTokens # {}
    /\ Goes(h, [auth[h] EXCEPT !.pc = "commit", !.issues = FreshToken])

(* The row of the new token.                                               *)
RowOf(j) ==
    [user |-> j.user, device |-> j.device, used |-> FALSE, revoked |-> FALSE,
     parent |-> j.token, again |-> j.again, subject |-> j.subject]

(* Mutant: the presented token is not marked.                              *)
FaultyMarked(j, t) ==
    [refresh_tokens[t] EXCEPT !.revoked = @ \/ t \in j.revokes]
Marked(j, t) ==
    [refresh_tokens[t] EXCEPT !.used = @ \/ t \in j.uses,
                              !.revoked = @ \/ t \in j.revokes]

CommitAuth(h) ==
    LET j == auth[h] IN
    /\ At(h, "commit")
    /\ users' = users \union j.made
    /\ devices' = IF j.binds = None THEN devices ELSE [devices EXCEPT ![j.device] = j.binds]
    /\ identities' = IF j.links = None THEN identities
                     ELSE [identities EXCEPT ![j.subject] = j.links]
    /\ refresh_tokens' =
          [t \in Tokens |-> IF t = j.issues THEN RowOf(j)
                            ELSE IF refresh_tokens[t] = None THEN None
                            ELSE Marked(j, t)]
    /\ auth' = [auth EXCEPT ![h] = AuthIdle]
    /\ UNCHANGED expired

(* Any failure or crash before the commit.                                 *)
FailAuth(h) ==
    /\ ~At(h, "idle")
    /\ Goes(h, AuthIdle)

Expire(t) ==
    /\ refresh_tokens[t] # None /\ t \notin expired
    /\ expired' = expired \union {t}
    /\ UNCHANGED <<authTables, auth>>

-----------------------------------------------------------------------------
StepAuth(h) ==
    \/ LookupIdentity(h) \/ LookupDevice(h) \/ TouchDevice(h) \/ InsertDevice(h)
    \/ RereadDevice(h) \/ HasApple(h) \/ LinkIdentity(h) \/ RereadIdentity(h)
    \/ BindDevice(h) \/ LookupToken(h) \/ UseToken(h) \/ FindChain(h) \/ RevokeChain(h)
    \/ IssuePair(h) \/ CommitAuth(h)

(* GET with an access token: the subject of a token that was issued and    *)
(* that the verifier accepts.                                              *)
Authenticated(u) ==
    \E t \in Issued : /\ refresh_tokens[t].user = u
                      /\ verify(issue_access_token(u, refresh_tokens[t].device))

-----------------------------------------------------------------------------
(* The accounts have their types, and no row refers to a user that does    *)
(* not exist.                                                              *)
AccountsTypeOK ==
    /\ users \subseteq Users
    /\ \A d \in Devices : devices[d] \in users \union {None}
    /\ \A s \in Subjects : identities[s] \in users \union {None}
    /\ \A t \in Issued : /\ refresh_tokens[t] \in TokenRows
                         /\ refresh_tokens[t].user \in users
                         /\ devices[refresh_tokens[t].device] # None
    /\ expired \subseteq Tokens

(* A device that never signed in with Apple has one account, which all its *)
(* registrations and refreshes name, however many raced to create it.      *)
(* (AuthService._find_or_create_identity)                                  *)
DeviceConverges ==
    \A t \in Issued :
        \/ refresh_tokens[t].user = devices[refresh_tokens[t].device]
        \/ \E s \in Issued : /\ refresh_tokens[s].subject # None
                             /\ refresh_tokens[s].device = refresh_tokens[t].device

(* An Apple account leads to one user on every device, for good, also when *)
(* its first sign-ins race.  (AuthService._resolve_apple_user)             *)
IdentityConverges ==
    \A t \in Issued :
        refresh_tokens[t].subject # None =>
            refresh_tokens[t].user = identities[refresh_tokens[t].subject]

(* A request that comes after an exchange of its refresh token was         *)
(* committed gets no pair: a token is exchanged twice only by requests     *)
(* that overlap.  (AuthService.refresh, used_at and _revoke_chain)         *)
RotatedWhileOverlapping ==
    \A s \in Issued :
        refresh_tokens[s].parent # None => ~refresh_tokens[s].again

(* "Rotate a refresh token into a new pair (single-use)."                  *)
(* (AuthService.refresh, its docstring; ADR-018)                           *)
SingleUse ==
    \A r, s \in Issued :
        r # s /\ refresh_tokens[r].parent # None
          => refresh_tokens[r].parent # refresh_tokens[s].parent

(* The account of a device is kept when its owner first signs in with      *)
(* Apple: the device moves to another account only when its own has an     *)
(* Apple identity by then, or after the sign-in of an Apple account that   *)
(* is also at home on another device.  (AuthService._resolve_apple_user)   *)
Roams(s, d) ==
    \E p, q \in Issued :
        /\ refresh_tokens[p].subject = s /\ refresh_tokens[q].subject = s
        /\ refresh_tokens[p].device = d /\ refresh_tokens[q].device # d
FirstSignInKeepsAccount ==
    \A r, t \in Issued :
        LET before == refresh_tokens[r]  after == refresh_tokens[t] IN
        before.device = after.device /\ before.subject = None /\ after.subject # None =>
            \/ before.user = after.user
            \/ \E s \in Subjects : identities[s] = before.user \/ Roams(s, after.device)

(* A user has at most one Apple account: "if that user has NO Apple        *)
(* identity yet, LINK to it; otherwise create a NEW user".                 *)
(* (AuthService.sign_in_with_apple, ADR-043)                               *)
OneAppleIdentity ==
    \A r, s \in Subjects :
        r # s /\ identities[r] # None => identities[r] # identities[s]
=============================================================================
