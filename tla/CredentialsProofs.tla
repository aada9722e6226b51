------------------------- MODULE CredentialsProofs -------------------------
(***************************************************************************)
(* Theorems about Credentials, for every number of handlers, users,        *)
(* devices and tokens: the rows of the accounts refer to users that exist, *)
(* a device leads to one account, and so does an Apple account, whatever   *)
(* sign-ins race.  What is proved is an invariant of the tables and of     *)
(* each open transaction: what it has found, and what it has written but   *)
(* not committed and therefore locks.                                      *)
(***************************************************************************)
EXTENDS Credentials, TLAPS

Places ==
    {"idle", "identity", "device", "touch", "insert_device", "reread_device",
     "has_apple", "link", "reread_identity", "bind", "token", "use", "chain",
     "revoke", "issue", "commit"}

Jobs ==
    [pc: Places, device: Devices \union {None}, subject: Subjects \union {None},
     token: Tokens \union {None}, again: BOOLEAN, user: Users \union {None},
     made: SUBSET Users, binds: Users \union {None}, touches: BOOLEAN,
     links: Users \union {None}, chain: SUBSET Tokens, uses: SUBSET Tokens,
     revokes: SUBSET Tokens, issues: Tokens \union {None}]

TypesOK ==
    /\ users \subseteq Users
    /\ devices \in [Devices -> users \union {None}]
    /\ identities \in [Subjects -> users \union {None}]
    /\ refresh_tokens \in [Tokens -> TokenRows \union {None}]
    /\ expired \subseteq Tokens
    /\ auth \in [Handlers -> Jobs]

(* Somebody has signed in with Apple on the device.                        *)
AppleSeen(d) ==
    \E s \in Issued : /\ refresh_tokens[s].subject # None
                      /\ refresh_tokens[s].device = d

(* What a committed refresh token says.                                    *)
RowSound(t) ==
    LET row == refresh_tokens[t] IN
    /\ row.user \in users
    /\ devices[row.device] # None
    /\ row.user = devices[row.device] \/ AppleSeen(row.device)
    /\ row.subject # None => row.user = identities[row.subject]

-----------------------------------------------------------------------------
(* What a transaction j knows and holds.                                   *)
SeenDevice(j) == IF j.binds # None THEN j.binds ELSE devices[j.device]
SeenIdentity(j) == IF j.links # None THEN j.links ELSE identities[j.subject]

(* It is going to add a refresh token.                                     *)
Issuing(j) == j.pc = "issue" \/ (j.pc = "commit" /\ j.issues # None)

(* The device and the Apple account it works on.                           *)
PlaceSound(j) ==
    /\ j.pc = "idle" => j = AuthIdle
    /\ j.pc \notin {"idle", "token"} => j.device \in Devices
    /\ j.pc \in {"identity", "has_apple", "link", "reread_identity", "bind"}
         => j.subject # None
    /\ j.pc \in {"token", "use", "chain", "revoke"} => j.subject = None
    /\ j.pc \in {"token", "use"} => j.token \in Issued
    /\ j.pc = "insert_device" => j.made # {}

(* The account it has chosen exists, or will when it commits.              *)
UserSound(j) ==
    /\ j.pc \in {"touch", "has_apple", "link", "bind", "use"} \/ Issuing(j)
         => j.user \in users \union j.made
    /\ j.binds # None => j.binds \in users \union j.made
    /\ j.links # None => j.links \in users \union j.made

(* A device row that was inserted is locked and was not there before.      *)
DeviceSound(j) ==
    /\ j.binds # None => j.device \in Devices
    /\ j.pc \in {"idle", "identity", "device", "touch", "insert_device", "token", "use",
                 "chain", "revoke"} => j.binds = None
    /\ j.binds # None => devices[j.device] = None \/ (Issuing(j) /\ j.subject # None)
    /\ j.pc = "reread_device" => SeenDevice(j) # None
    /\ j.subject = None /\ (j.pc \in {"touch", "use"} \/ Issuing(j)) =>
          /\ SeenDevice(j) # None
          /\ j.user = SeenDevice(j) \/ AppleSeen(j.device)
    /\ j.subject # None /\ Issuing(j) => j.binds = j.user
    /\ j.pc = "commit" /\ j.issues = None => j.binds = None

(* So is an identity that was inserted.                                    *)
IdentitySound(j) ==
    /\ j.links # None => j.subject # None /\ identities[j.subject] = None
    /\ j.pc \in {"identity", "device", "touch", "insert_device", "reread_device",
                 "has_apple", "link"} => j.links = None
    /\ j.pc = "reread_identity" => SeenIdentity(j) # None
    /\ j.subject # None /\ (j.pc = "bind" \/ Issuing(j)) => j.user = SeenIdentity(j)

(* The refresh token it inserts is new; the one it exchanges is marked.    *)
TokenSound(j) ==
    /\ j.issues # None => j.pc = "commit" /\ refresh_tokens[j.issues] = None
    /\ j.pc \in {"idle", "identity", "device", "touch", "insert_device", "reread_device",
                 "has_apple", "link", "reread_identity", "bind"} => j.token = None
    /\ Issuing(j) /\ j.token # None => j.uses = {j.token} /\ j.token \in Issued

JobSound(j) ==
    PlaceSound(j) /\ UserSound(j) /\ DeviceSound(j) /\ IdentitySound(j) /\ TokenSound(j)

(* Two transactions never hold the same row.                               *)
Apart(j, k) ==
    /\ j.binds # None /\ k.binds # None => j.device # k.device
    /\ j.links # None /\ k.links # None => j.subject # k.subject
    /\ j.issues # None => j.issues # k.issues

IInv ==
    /\ TypesOK
    /\ \A t \in Issued : RowSound(t)
    /\ \A h \in Handlers : JobSound(auth[h])
    /\ \A g, h \in Handlers : g # h => Apart(auth[g], auth[h])

-----------------------------------------------------------------------------
(* No transaction is open at first.                                        *)
LEMMA IdleSound ==
  /\ AuthIdle \in Jobs /\ JobSound(AuthIdle)
  /\ \A k \in Jobs : Apart(AuthIdle, k) /\ Apart(k, AuthIdle)
  BY DEF AuthIdle, Jobs, Places, JobSound, PlaceSound, UserSound, DeviceSound,
     IdentitySound, TokenSound, Issuing, Apart

LEMMA InitSound == AccountsInit => IInv
  <1> SUFFICES ASSUME AccountsInit PROVE IInv
    OBVIOUS
  <1>1. TypesOK
    BY IdleSound DEF AccountsInit, TypesOK
  <1>2. Issued = {}
    BY DEF AccountsInit, Issued
  <1>3. \A h \in Handlers : auth[h] = AuthIdle
    BY DEF AccountsInit
  <1> QED
    BY <1>1, <1>2, <1>3, IdleSound DEF IInv

(* A step that only moves one transaction on.                              *)
LEMMA MoveKeeps ==
  ASSUME IInv, NEW h \in Handlers, NEW j \in Jobs, JobSound(j),
         \A g \in Handlers \ {h} : Apart(j, auth[g]) /\ Apart(auth[g], j),
         Goes(h, j)
  PROVE  IInv'
  <1>1. TypesOK'
    BY DEF IInv, TypesOK, Goes, authTables
  <1>2. \A t \in Issued' : RowSound(t)'
    BY DEF IInv, Goes, authTables, RowSound, Issued, AppleSeen
  <1>3. \A k : JobSound(k)' <=> JobSound(k)
    BY DEF Goes, authTables, JobSound, PlaceSound, UserSound, DeviceSound,
       IdentitySound, TokenSound, Issuing, SeenDevice, SeenIdentity, AppleSeen,
       Issued
  <1>4. \A g \in Handlers : auth'[g] = IF g = h THEN j ELSE auth[g]
    BY DEF IInv, TypesOK, Goes
  <1>5. \A g \in Handlers : JobSound(auth[g])'
    <2> TAKE g \in Handlers
    <2>1. JobSound(auth'[g])
      BY <1>4 DEF IInv
    <2>2. JobSound(auth[g])' <=> JobSound(auth'[g])
      BY DEF Goes, authTables, JobSound, PlaceSound, UserSound, DeviceSound,
         IdentitySound, TokenSound, Issuing, SeenDevice, SeenIdentity, AppleSeen,
         Issued
    <2> QED
      BY <2>1, <2>2
  <1>6. \A f, g \in Handlers : f # g => Apart(auth[f], auth[g])'
    BY <1>4 DEF IInv, Apart
  <1> QED
    BY <1>1, <1>2, <1>5, <1>6 DEF IInv

(* What is known of a transaction before it moves.                         *)
LEMMA Known ==
  ASSUME IInv, NEW h \in Handlers
  PROVE  /\ auth[h] \in Jobs /\ JobSound(auth[h])
         /\ users \subseteq Users
         /\ devices \in [Devices -> Users \union {None}]
         /\ \A d \in Devices : devices[d] \in users \union {None}
         /\ identities \in [Subjects -> Users \union {None}]
         /\ \A s \in Subjects : identities[s] \in users \union {None}
         /\ \A t \in Tokens : refresh_tokens[t] \in TokenRows \union {None}
         /\ None \notin Users /\ None \notin Devices
         /\ None \notin Subjects /\ None \notin Tokens
         /\ \A g \in Handlers \ {h} : /\ auth[g] \in Jobs
                                      /\ Apart(auth[h], auth[g]) /\ Apart(auth[g], auth[h])
  BY AccountsAssumption DEF IInv, TypesOK

(* Every step but a commit is such a move: one lemma for each, with the    *)
(* record it moves to.                                                     *)
LEMMA RegisterSound ==
  ASSUME IInv, NEW h \in Handlers, NEW d \in Devices, Register(h, d)
  PROVE  IInv'
  <1>1. auth[h] \in Jobs /\ users \subseteq Users
    BY Known
  <1> DEFINE j == [AuthIdle EXCEPT !.pc = "device", !.device = d]
  <1>2. j \in Jobs
    BY <1>1 DEF Jobs, Places, AuthIdle
  <1>3. JobSound(j)
    BY Known, <1>2 DEF Register, At, Jobs, JobSound, PlaceSound, UserSound,
       DeviceSound, IdentitySound, TokenSound, Issuing, SeenDevice, SeenIdentity,
       AuthIdle
  <1>4. \A g \in Handlers \ {h} : Apart(j, auth[g]) /\ Apart(auth[g], j)
    BY Known DEF Apart, Jobs, AuthIdle
  <1> QED
    BY <1>2, <1>3, <1>4, MoveKeeps DEF Register

LEMMA AppleSignInSound ==
  ASSUME IInv, NEW h \in Handlers, NEW token \in AppleTokens, NEW nonce,
         NEW d \in Devices, AppleSignIn(h, token, nonce, d)
  PROVE  IInv'
  <1>1. auth[h] \in Jobs /\ users \subseteq Users
    BY Known
  <1>2. token.sub \in Subjects
    BY Known, AccountsAssumption DEF AppleSignIn, At, Jobs, JobSound, PlaceSound,
       VerifyApple
  <1> DEFINE j == [AuthIdle EXCEPT !.pc = "identity", !.device = d, !.subject = token.sub]
  <1>3. j \in Jobs
    BY <1>1, <1>2 DEF Jobs, Places, AuthIdle
  <1>4. JobSound(j)
    BY Known, <1>2, <1>3 DEF AppleSignIn, At, Jobs, JobSound, PlaceSound, UserSound,
       DeviceSound, IdentitySound, TokenSound, Issuing, SeenDevice, SeenIdentity,
       AuthIdle
  <1>5. \A g \in Handlers \ {h} : Apart(j, auth[g]) /\ Apart(auth[g], j)
    BY Known, <1>2 DEF Apart, Jobs, AuthIdle
  <1> QED
    BY <1>3, <1>2, <1>4, <1>5, MoveKeeps DEF AppleSignIn

LEMMA RefreshSound ==
  ASSUME IInv, NEW h \in Handlers, NEW t \in Tokens, Refresh(h, t)
  PROVE  IInv'
  <1>1. auth[h] \in Jobs /\ users \subseteq Users
    BY Known
  <1> DEFINE j == [AuthIdle EXCEPT !.pc = "token", !.token = t, !.again = Exchanged(t)]
  <1>0. Exchanged(t) \in BOOLEAN
    BY DEF Exchanged
  <1>2. j \in Jobs
    BY <1>0, <1>1 DEF Jobs, Places, AuthIdle
  <1>3. JobSound(j)
    BY Known, <1>2 DEF Refresh, At, Jobs, JobSound, PlaceSound, UserSound,
       DeviceSound, IdentitySound, TokenSound, Issuing, SeenDevice, SeenIdentity,
       AuthIdle, Issued
  <1>4. \A g \in Handlers \ {h} : Apart(j, auth[g]) /\ Apart(auth[g], j)
    BY Known DEF Apart, Jobs, AuthIdle
  <1> QED
    BY <1>2, <1>3, <1>4, MoveKeeps DEF Refresh

LEMMA LookupIdentitySound ==
  ASSUME IInv, NEW h \in Handlers, LookupIdentity(h)
  PROVE  IInv'
  <1>1. auth[h] \in Jobs /\ users \subseteq Users
    BY Known
  <1>2. auth[h].subject \in Subjects
    BY Known DEF LookupIdentity, At, Jobs, JobSound, PlaceSound
  <1>3. CASE IdentitySeen(h) # None
    <2> DEFINE j == [auth[h] EXCEPT !.pc = "bind", !.user = IdentitySeen(h)]
    <2>1. IdentitySeen(h) \in users \union auth[h].made
      BY Known, <1>2, <1>3 DEF LookupIdentity, At, Jobs, IdentitySeen, JobSound,
         UserSound
    <2>2. j \in Jobs
      BY <1>1, <1>2, <1>3, <2>1 DEF Jobs, Places
    <2>3. JobSound(j)
      BY Known, <1>2, <1>3, <2>1, <2>2 DEF LookupIdentity, At, Jobs, JobSound,
         PlaceSound, UserSound, DeviceSound, IdentitySound, TokenSound, Issuing,
         SeenDevice, SeenIdentity, IdentitySeen
    <2>4. \A g \in Handlers \ {h} : Apart(j, auth[g]) /\ Apart(auth[g], j)
      BY Known, <1>2, <1>3, <2>1 DEF Apart, Jobs
    <2> QED
      BY <2>2, <1>2, <1>3, <2>1, <2>3, <2>4, MoveKeeps DEF LookupIdentity
  <1>4. CASE IdentitySeen(h) = None
    <2> DEFINE j == [auth[h] EXCEPT !.pc = "device"]
    <2>1. j \in Jobs
      BY <1>1, <1>2, <1>4 DEF Jobs, Places
    <2>2. JobSound(j)
      BY Known, <1>2, <1>4, <2>1 DEF LookupIdentity, At, Jobs, JobSound, PlaceSound,
         UserSound, DeviceSound, IdentitySound, TokenSound, Issuing, SeenDevice,
         SeenIdentity, IdentitySeen
    <2>3. \A g \in Handlers \ {h} : Apart(j, auth[g]) /\ Apart(auth[g], j)
      BY Known, <1>2, <1>4 DEF Apart, Jobs
    <2> QED
      BY <2>1, <1>2, <1>4, <2>2, <2>3, MoveKeeps DEF LookupIdentity
  <1> QED
    BY <1>3, <1>4 DEF LookupIdentity

LEMMA LookupDeviceSound ==
  ASSUME IInv, NEW h \in Handlers, LookupDevice(h)
  PROVE  IInv'
  <1>1. auth[h] \in Jobs /\ users \subseteq Users
    BY Known
  <1>2. auth[h].device \in Devices
    BY Known DEF LookupDevice, At, Jobs, JobSound, PlaceSound
  <1>3. CASE DeviceSeen(h) # None
    <2> DEFINE j == [auth[h] EXCEPT !.pc = "touch", !.user = DeviceSeen(h)]
    <2>1. DeviceSeen(h) \in users \union auth[h].made
      BY Known, <1>2, <1>3 DEF LookupDevice, At, Jobs, DeviceSeen, JobSound,
         UserSound
    <2>2. j \in Jobs
      BY <1>1, <1>2, <1>3, <2>1 DEF Jobs, Places
    <2>3. JobSound(j)
      BY Known, <1>2, <1>3, <2>1, <2>2 DEF LookupDevice, At, Jobs, JobSound,
         PlaceSound, UserSound, DeviceSound, IdentitySound, TokenSound, Issuing,
         SeenDevice, SeenIdentity, DeviceSeen
    <2>4. \A g \in Handlers \ {h} : Apart(j, auth[g]) /\ Apart(auth[g], j)
      BY Known, <1>2, <1>3, <2>1 DEF Apart, Jobs
    <2> QED
      BY <2>2, <1>2, <1>3, <2>1, <2>3, <2>4, MoveKeeps DEF LookupDevice
  <1>4. CASE DeviceSeen(h) = None
    <2> DEFINE j == [auth[h] EXCEPT !.pc = "insert_device", !.made = {FreshUser}]
    <2>1. FreshUser \in Users
      BY Known, <1>2, <1>4 DEF LookupDevice, At, Jobs, FreshUser, FreshUsers
    <2>2. j \in Jobs
      <3>1. "insert_device" \in Places /\ {FreshUser} \in SUBSET Users
        BY <2>1 DEF Places
      <3> QED
        BY <1>1, <3>1 DEF Jobs
    <2>3. JobSound(j)
      BY Known, <1>2, <1>4, <2>1, <2>2 DEF LookupDevice, At, Jobs, JobSound,
         PlaceSound, UserSound, DeviceSound, IdentitySound, TokenSound, Issuing,
         SeenDevice, SeenIdentity, DeviceSeen
    <2>4. \A g \in Handlers \ {h} : Apart(j, auth[g]) /\ Apart(auth[g], j)
      BY Known, <1>2, <1>4, <2>1 DEF Apart, Jobs
    <2> QED
      BY <2>2, <1>2, <1>4, <2>1, <2>3, <2>4, MoveKeeps DEF LookupDevice
  <1> QED
    BY <1>3, <1>4 DEF LookupDevice

LEMMA TouchDeviceSound ==
  ASSUME IInv, NEW h \in Handlers, TouchDevice(h)
  PROVE  IInv'
  <1>1. auth[h] \in Jobs /\ users \subseteq Users
    BY Known
  <1> DEFINE j == [auth[h] EXCEPT !.pc = AfterDevice(auth[h]), !.touches = TRUE]
  <1>2. AfterDevice(auth[h]) \in Places
    BY Known DEF TouchDevice, At, Jobs, AfterDevice, Places
  <1>3. j \in Jobs
    BY <1>1, <1>2 DEF Jobs
  <1>4. JobSound(j)
    BY Known, <1>2, <1>3 DEF TouchDevice, At, Jobs, JobSound, PlaceSound, UserSound,
       DeviceSound, IdentitySound, TokenSound, Issuing, SeenDevice, SeenIdentity,
       AfterDevice
  <1>5. \A g \in Handlers \ {h} : Apart(j, auth[g]) /\ Apart(auth[g], j)
    BY Known, <1>2 DEF Apart, Jobs
  <1> QED
    BY <1>3, <1>2, <1>4, <1>5, MoveKeeps DEF TouchDevice

LEMMA InsertDeviceSound ==
  ASSUME IInv, NEW h \in Handlers, InsertDevice(h)
  PROVE  IInv'
  <1>1. auth[h] \in Jobs /\ users \subseteq Users
    BY Known
  <1>2. auth[h].device \in Devices
    BY Known DEF InsertDevice, At, Jobs, JobSound, PlaceSound
  <1>3. CASE devices[auth[h].device] = None
    <2> DEFINE j == [auth[h] EXCEPT !.pc = "reread_device", !.binds = NewUser(auth[h])]
    <2>1. NewUser(auth[h]) \in auth[h].made /\ NewUser(auth[h]) \in Users
      BY Known, <1>2, <1>3 DEF InsertDevice, At, Jobs, NewUser, JobSound, PlaceSound
    <2>2. j \in Jobs
      BY <1>1, <2>1 DEF Jobs, Places
    <2>3. \A g \in Handlers \ {h} : auth[g].binds # None => auth[g].device # auth[h].device
      BY Known, <1>2, <1>3, <2>1 DEF InsertDevice, At, Jobs, DeviceFree, Unheld,
         HoldsDevice
    <2>4. JobSound(j)
      BY Known, <1>2, <1>3, <2>1, <2>3, <2>2 DEF InsertDevice, At, Jobs, JobSound,
         PlaceSound, UserSound, DeviceSound, IdentitySound, TokenSound, Issuing,
         SeenDevice, SeenIdentity
    <2>5. ASSUME NEW g \in Handlers \ {h}
         PROVE  Apart(j, auth[g]) /\ Apart(auth[g], j)
      <3>1. /\ auth[g] \in Jobs
            /\ Apart(auth[h], auth[g]) /\ Apart(auth[g], auth[h])
        BY Known
      <3>2. /\ j.device = auth[h].device /\ j.subject = auth[h].subject
            /\ j.binds = NewUser(auth[h]) /\ j.links = auth[h].links /\ j.issues = auth[h].issues
        BY <1>1 DEF Jobs
      <3> HIDE DEF j
      <3> QED
        BY <2>3, <3>1, <3>2 DEF Apart
    <2> QED
      BY <2>2, <1>2, <1>3, <2>1, <2>3, <2>4, <2>5, MoveKeeps DEF InsertDevice
  <1>4. CASE devices[auth[h].device] # None
    <2> DEFINE j == [auth[h] EXCEPT !.pc = "reread_device"]
    <2>1. j \in Jobs
      BY <1>1, <1>2, <1>4 DEF Jobs, Places
    <2>2. JobSound(j)
      BY Known, <1>2, <1>4, <2>1 DEF InsertDevice, At, Jobs, JobSound, PlaceSound,
         UserSound, DeviceSound, IdentitySound, TokenSound, Issuing, SeenDevice,
         SeenIdentity
    <2>3. \A g \in Handlers \ {h} : Apart(j, auth[g]) /\ Apart(auth[g], j)
      BY Known, <1>2, <1>4 DEF Apart, Jobs
    <2> QED
      BY <2>1, <1>2, <1>4, <2>2, <2>3, MoveKeeps DEF InsertDevice
  <1> QED
    BY <1>3, <1>4 DEF InsertDevice

LEMMA RereadDeviceSound ==
  ASSUME IInv, NEW h \in Handlers, RereadDevice(h)
  PROVE  IInv'
  <1>1. auth[h] \in Jobs /\ users \subseteq Users
    BY Known
  <1>2. auth[h].device \in Devices
    BY Known DEF RereadDevice, At, Jobs, JobSound, PlaceSound
  <1> DEFINE j == [auth[h] EXCEPT !.pc = AfterDevice(auth[h]), !.user = DeviceSeen(h)]
  <1>3. AfterDevice(auth[h]) \in Places /\ DeviceSeen(h) \in users \union auth[h].made
    BY Known, <1>2 DEF RereadDevice, At, Jobs, AfterDevice, Places, DeviceSeen,
       JobSound, DeviceSound, SeenDevice, UserSound
  <1>4. j \in Jobs
    <2>1. DeviceSeen(h) \in Users \union {None}
      BY <1>1, <1>3 DEF Jobs
    <2> QED
      BY <1>1, <1>3, <2>1 DEF Jobs
  <1>5. JobSound(j)
    BY Known, <1>2, <1>3, <1>4 DEF RereadDevice, At, Jobs, JobSound, PlaceSound,
       UserSound, DeviceSound, IdentitySound, TokenSound, Issuing, SeenDevice,
       SeenIdentity, AfterDevice, DeviceSeen
  <1>6. \A g \in Handlers \ {h} : Apart(j, auth[g]) /\ Apart(auth[g], j)
    BY Known, <1>2, <1>3 DEF Apart, Jobs
  <1> QED
    BY <1>4, <1>2, <1>3, <1>5, <1>6, MoveKeeps DEF RereadDevice

LEMMA HasAppleSound ==
  ASSUME IInv, NEW h \in Handlers, HasApple(h)
  PROVE  IInv'
  <1>1. auth[h] \in Jobs /\ users \subseteq Users
    BY Known
  <1>2. CASE \E s \in Subjects : identities[s] = auth[h].user
    <2> DEFINE j == [auth[h] EXCEPT !.pc = "link", !.user = FreshUser,
                                !.made = @ \union {FreshUser}]
    <2>1. FreshUser \in Users
      BY Known, <1>2 DEF HasApple, At, Jobs, FreshUser, FreshUsers
    <2>2. j \in Jobs
      BY <1>1, <1>2, <2>1 DEF Jobs, Places
    <2>3. JobSound(j)
      BY Known, <1>2, <2>1, <2>2 DEF HasApple, At, Jobs, JobSound, PlaceSound,
         UserSound, DeviceSound, IdentitySound, TokenSound, Issuing, SeenDevice,
         SeenIdentity
    <2>4. \A g \in Handlers \ {h} : Apart(j, auth[g]) /\ Apart(auth[g], j)
      BY Known, <1>2, <2>1 DEF Apart, Jobs
    <2> QED
      BY <2>2, <1>2, <2>1, <2>3, <2>4, MoveKeeps DEF HasApple
  <1>3. CASE ~(\E s \in Subjects : identities[s] = auth[h].user)
    <2> DEFINE j == [auth[h] EXCEPT !.pc = "link"]
    <2>1. j \in Jobs
      BY <1>1, <1>3 DEF Jobs, Places
    <2>2. JobSound(j)
      BY Known, <1>3, <2>1 DEF HasApple, At, Jobs, JobSound, PlaceSound, UserSound,
         DeviceSound, IdentitySound, TokenSound, Issuing, SeenDevice, SeenIdentity
    <2>3. \A g \in Handlers \ {h} : Apart(j, auth[g]) /\ Apart(auth[g], j)
      BY Known, <1>3 DEF Apart, Jobs
    <2> QED
      BY <2>1, <1>3, <2>2, <2>3, MoveKeeps DEF HasApple
  <1> QED
    BY <1>2, <1>3 DEF HasApple

LEMMA LinkIdentitySound ==
  ASSUME IInv, NEW h \in Handlers, LinkIdentity(h)
  PROVE  IInv'
  <1>1. auth[h] \in Jobs /\ users \subseteq Users
    BY Known
  <1>2. auth[h].subject \in Subjects
    BY Known DEF LinkIdentity, At, Jobs, JobSound, PlaceSound
  <1>3. CASE identities[auth[h].subject] = None
    <2> DEFINE j == [auth[h] EXCEPT !.pc = "reread_identity", !.links = auth[h].user]
    <2>1. /\ auth[h].user \in users \union auth[h].made
         /\ \A g \in Handlers \ {h} : auth[g].links # None => auth[g].subject # auth[h].subject
      BY Known, <1>2, <1>3 DEF LinkIdentity, At, Jobs, JobSound, UserSound,
         IdentityFree, Unheld, HoldsIdentity
    <2>2. j \in Jobs
      <3>1. "reread_identity" \in Places /\ auth[h].user \in Users \union {None}
        BY <1>1, <2>1 DEF Jobs, Places
      <3> QED
        BY <1>1, <3>1 DEF Jobs
    <2>3. JobSound(j)
      BY Known, <1>2, <1>3, <2>1, <2>2 DEF LinkIdentity, At, Jobs, JobSound,
         PlaceSound, UserSound, DeviceSound, IdentitySound, TokenSound, Issuing,
         SeenDevice, SeenIdentity
    <2>4. ASSUME NEW g \in Handlers \ {h}
         PROVE  Apart(j, auth[g]) /\ Apart(auth[g], j)
      <3>1. /\ auth[g] \in Jobs
            /\ Apart(auth[h], auth[g]) /\ Apart(auth[g], auth[h])
        BY Known
      <3>2. /\ j.device = auth[h].device /\ j.subject = auth[h].subject
            /\ j.links = auth[h].user /\ j.binds = auth[h].binds /\ j.issues = auth[h].issues
        BY <1>1 DEF Jobs
      <3> HIDE DEF j
      <3> QED
        BY <2>1, <3>1, <3>2 DEF Apart
    <2> QED
      BY <2>2, <1>2, <1>3, <2>1, <2>3, <2>4, MoveKeeps DEF LinkIdentity
  <1>4. CASE identities[auth[h].subject] # None
    <2> DEFINE j == [auth[h] EXCEPT !.pc = "reread_identity"]
    <2>1. j \in Jobs
      BY <1>1, <1>2, <1>4 DEF Jobs, Places
    <2>2. JobSound(j)
      BY Known, <1>2, <1>4, <2>1 DEF LinkIdentity, At, Jobs, JobSound, PlaceSound,
         UserSound, DeviceSound, IdentitySound, TokenSound, Issuing, SeenDevice,
         SeenIdentity
    <2>3. \A g \in Handlers \ {h} : Apart(j, auth[g]) /\ Apart(auth[g], j)
      BY Known, <1>2, <1>4 DEF Apart, Jobs
    <2> QED
      BY <2>1, <1>2, <1>4, <2>2, <2>3, MoveKeeps DEF LinkIdentity
  <1> QED
    BY <1>3, <1>4 DEF LinkIdentity

LEMMA RereadIdentitySound ==
  ASSUME IInv, NEW h \in Handlers, RereadIdentity(h)
  PROVE  IInv'
  <1>1. auth[h] \in Jobs /\ users \subseteq Users
    BY Known
  <1>2. auth[h].subject \in Subjects
    BY Known DEF RereadIdentity, At, Jobs, JobSound, PlaceSound
  <1> DEFINE j == [auth[h] EXCEPT !.pc = "bind", !.user = IdentitySeen(h)]
  <1>3. IdentitySeen(h) \in users \union auth[h].made
    BY Known, <1>2 DEF RereadIdentity, At, Jobs, IdentitySeen, JobSound,
       IdentitySound, SeenIdentity, UserSound
  <1>4. j \in Jobs
    BY <1>1, <1>2, <1>3 DEF Jobs, Places
  <1>5. JobSound(j)
    BY Known, <1>2, <1>3, <1>4 DEF RereadIdentity, At, Jobs, JobSound, PlaceSound,
       UserSound, DeviceSound, IdentitySound, TokenSound, Issuing, SeenDevice,
       SeenIdentity, IdentitySeen
  <1>6. \A g \in Handlers \ {h} : Apart(j, auth[g]) /\ Apart(auth[g], j)
    BY Known, <1>2, <1>3 DEF Apart, Jobs
  <1> QED
    BY <1>4, <1>2, <1>3, <1>5, <1>6, MoveKeeps DEF RereadIdentity

LEMMA BindDeviceSound ==
  ASSUME IInv, NEW h \in Handlers, BindDevice(h)
  PROVE  IInv'
  <1>1. auth[h] \in Jobs /\ users \subseteq Users
    BY Known
  <1>2. auth[h].user \in users \union auth[h].made /\ auth[h].device \in Devices
    BY Known DEF BindDevice, At, Jobs, JobSound, PlaceSound, UserSound
  <1> DEFINE j == [auth[h] EXCEPT !.pc = "issue", !.binds = auth[h].user]
  <1>3. \A g \in Handlers \ {h} : auth[g].binds # None => auth[g].device # auth[h].device
    BY Known, <1>2 DEF BindDevice, At, Jobs, DeviceFree, Unheld, HoldsDevice
  <1>4. j \in Jobs
    BY <1>1, <1>2, <1>3 DEF Jobs, Places
  <1>5. JobSound(j)
    BY Known, <1>2, <1>3, <1>4 DEF BindDevice, At, Jobs, JobSound, PlaceSound,
       UserSound, DeviceSound, IdentitySound, TokenSound, Issuing, SeenDevice,
       SeenIdentity
  <1>6. ASSUME NEW g \in Handlers \ {h}
       PROVE  Apart(j, auth[g]) /\ Apart(auth[g], j)
    <2>1. /\ auth[g] \in Jobs
          /\ Apart(auth[h], auth[g]) /\ Apart(auth[g], auth[h])
      BY Known
    <2>2. /\ j.device = auth[h].device /\ j.subject = auth[h].subject
          /\ j.binds = auth[h].user /\ j.links = auth[h].links /\ j.issues = auth[h].issues
      BY <1>1 DEF Jobs
    <2> HIDE DEF j
    <2> QED
      BY <1>3, <2>1, <2>2 DEF Apart
  <1> QED
    BY <1>4, <1>2, <1>3, <1>5, <1>6, MoveKeeps DEF BindDevice

LEMMA UseTokenSound ==
  ASSUME IInv, NEW h \in Handlers, UseToken(h)
  PROVE  IInv'
  <1>1. auth[h] \in Jobs /\ users \subseteq Users
    BY Known
  <1>2. auth[h].token \in Tokens
    BY Known DEF UseToken, At, Jobs, JobSound, PlaceSound, Issued
  <1> DEFINE j == [auth[h] EXCEPT !.pc = "issue", !.uses = {auth[h].token}]
  <1>3. j \in Jobs
    BY <1>1, <1>2 DEF Jobs, Places
  <1>4. JobSound(j)
    BY Known, <1>2, <1>3 DEF UseToken, At, Jobs, JobSound, PlaceSound, UserSound,
       DeviceSound, IdentitySound, TokenSound, Issuing, SeenDevice, SeenIdentity
  <1>5. \A g \in Handlers \ {h} : Apart(j, auth[g]) /\ Apart(auth[g], j)
    BY Known, <1>2 DEF Apart, Jobs
  <1> QED
    BY <1>3, <1>2, <1>4, <1>5, MoveKeeps DEF UseToken

LEMMA FindChainSound ==
  ASSUME IInv, NEW h \in Handlers, FindChain(h)
  PROVE  IInv'
  <1>1. auth[h] \in Jobs /\ users \subseteq Users
    BY Known
  <1> DEFINE j == [auth[h] EXCEPT !.pc = "revoke",
                              !.chain = Chain(auth[h].user, auth[h].device)]
  <1>2. j \in Jobs
    BY <1>1 DEF Jobs, Places, Chain
  <1>3. JobSound(j)
    BY Known, <1>2 DEF FindChain, At, Jobs, JobSound, PlaceSound, UserSound,
       DeviceSound, IdentitySound, TokenSound, Issuing, SeenDevice, SeenIdentity
  <1>4. \A g \in Handlers \ {h} : Apart(j, auth[g]) /\ Apart(auth[g], j)
    BY Known DEF Apart, Jobs
  <1> QED
    BY <1>2, <1>3, <1>4, MoveKeeps DEF FindChain

LEMMA RevokeChainSound ==
  ASSUME IInv, NEW h \in Handlers, RevokeChain(h)
  PROVE  IInv'
  <1>1. auth[h] \in Jobs /\ users \subseteq Users
    BY Known
  <1> DEFINE j == [auth[h] EXCEPT !.pc = "commit",
                              !.revokes = auth[h].chain \intersect Chain(auth[h].user, auth[h].device)]
  <1>2. j \in Jobs
    BY <1>1 DEF Jobs, Places, Chain
  <1>3. JobSound(j)
    BY Known, <1>2 DEF RevokeChain, At, Jobs, JobSound, PlaceSound, UserSound,
       DeviceSound, IdentitySound, TokenSound, Issuing, SeenDevice, SeenIdentity
  <1>4. \A g \in Handlers \ {h} : Apart(j, auth[g]) /\ Apart(auth[g], j)
    BY Known DEF Apart, Jobs
  <1> QED
    BY <1>2, <1>3, <1>4, MoveKeeps DEF RevokeChain

LEMMA IssuePairSound ==
  ASSUME IInv, NEW h \in Handlers, IssuePair(h)
  PROVE  IInv'
  <1>1. auth[h] \in Jobs /\ users \subseteq Users
    BY Known
  <1>2. FreshToken \in Tokens
    BY Known DEF IssuePair, At, Jobs, JobSound, PlaceSound, FreshToken, FreshTokens
  <1> DEFINE j == [auth[h] EXCEPT !.pc = "commit", !.issues = FreshToken]
  <1>3. j \in Jobs
    BY <1>1, <1>2 DEF Jobs, Places
  <1>4. refresh_tokens[FreshToken] = None
    BY Known, <1>2 DEF IssuePair, At, Jobs, FreshToken, FreshTokens
  <1>4a. \A g \in Handlers : auth[g].issues # FreshToken
    <2>1. FreshToken \in FreshTokens
      BY <1>2 DEF IssuePair, FreshToken
    <2> QED
      BY <2>1 DEF FreshTokens
  <1>5. JobSound(j)
    BY Known, <1>2, <1>4, <1>3 DEF IssuePair, At, Jobs, JobSound, PlaceSound,
       UserSound, DeviceSound, IdentitySound, TokenSound, Issuing, SeenDevice,
       SeenIdentity
  <1>6. ASSUME NEW g \in Handlers \ {h}
       PROVE  Apart(j, auth[g]) /\ Apart(auth[g], j)
    <2>1. /\ auth[g] \in Jobs
          /\ Apart(auth[h], auth[g]) /\ Apart(auth[g], auth[h])
      BY Known
    <2>2. /\ j.device = auth[h].device /\ j.subject = auth[h].subject
          /\ j.issues = FreshToken /\ j.binds = auth[h].binds /\ j.links = auth[h].links
      BY <1>1 DEF Jobs
    <2> HIDE DEF j
    <2> QED
      BY <1>4a, <2>1, <2>2 DEF Apart
  <1> QED
    BY <1>3, <1>2, <1>4, <1>5, <1>6, MoveKeeps DEF IssuePair

(* A transaction that ends without a commit.                               *)
LEMMA EndSound ==
  ASSUME IInv, NEW h \in Handlers, Goes(h, AuthIdle)
  PROVE  IInv'
  <1>1. \A g \in Handlers : auth[g] \in Jobs
    BY DEF IInv, TypesOK
  <1> QED
    BY <1>1, IdleSound, MoveKeeps

LEMMA LookupTokenSound ==
  ASSUME IInv, NEW h \in Handlers, LookupToken(h)
  PROVE  IInv'
  <1> DEFINE row == refresh_tokens[auth[h].token]
             found == [auth[h] EXCEPT !.user = row.user, !.device = row.device]
  <1>1. /\ auth[h] \in Jobs /\ JobSound(auth[h])
        /\ auth[h].pc = "token" /\ auth[h].token \in Issued
    BY Known DEF LookupToken, At, JobSound, PlaceSound
  <1>2. row \in TokenRows /\ RowSound(auth[h].token)
    BY <1>1 DEF IInv, TypesOK, Issued
  <1>3. row.user \in Users /\ row.device \in Devices
    BY <1>2 DEF TokenRows
  <1>4. \A g \in Handlers \ {h} : Apart(auth[h], auth[g]) /\ Apart(auth[g], auth[h])
    BY Known
  <1>5. CASE Goes(h, [found EXCEPT !.pc = "chain"])
    <2> DEFINE j == [found EXCEPT !.pc = "chain"]
    <2>1. j \in Jobs
      BY <1>1, <1>3 DEF Jobs, Places
    <2>2. JobSound(j)
      BY <1>1, <1>2, <1>3, <2>1, AccountsAssumption DEF Jobs, RowSound, JobSound,
         PlaceSound, UserSound, DeviceSound, IdentitySound, TokenSound, Issuing,
         SeenDevice, SeenIdentity
    <2>3. j.binds = None /\ j.links = None /\ j.issues = None
      BY <1>1 DEF Jobs, JobSound, PlaceSound, DeviceSound, IdentitySound, TokenSound
    <2>4. \A g \in Handlers \ {h} : Apart(j, auth[g]) /\ Apart(auth[g], j)
      BY <2>3 DEF Apart
    <2> QED
      BY <1>5, <2>1, <2>2, <2>4, MoveKeeps
  <1>6. CASE Goes(h, [found EXCEPT !.pc = "use"])
    <2> DEFINE j == [found EXCEPT !.pc = "use"]
    <2>1. j \in Jobs
      BY <1>1, <1>3 DEF Jobs, Places
    <2>2. JobSound(j)
      BY <1>1, <1>2, <1>3, <2>1, AccountsAssumption DEF Jobs, RowSound, JobSound,
         PlaceSound, UserSound, DeviceSound, IdentitySound, TokenSound, Issuing,
         SeenDevice, SeenIdentity
    <2>3. j.binds = None /\ j.links = None /\ j.issues = None
      BY <1>1 DEF Jobs, JobSound, PlaceSound, DeviceSound, IdentitySound, TokenSound
    <2>4. \A g \in Handlers \ {h} : Apart(j, auth[g]) /\ Apart(auth[g], j)
      BY <2>3 DEF Apart
    <2> QED
      BY <1>6, <2>1, <2>2, <2>4, MoveKeeps
  <1> QED
    BY <1>5, <1>6, EndSound DEF LookupToken

-----------------------------------------------------------------------------
(* A commit publishes what one transaction has written.                    *)
LEMMA CommitSound ==
  ASSUME IInv, NEW h \in Handlers, CommitAuth(h)
  PROVE  IInv'
  <1> DEFINE j == auth[h]
  <1>1. j \in Jobs /\ JobSound(j) /\ j.pc = "commit"
    BY Known DEF CommitAuth, At
  <1>2. /\ users' = users \union j.made
        /\ users' \subseteq Users
    BY <1>1, Known DEF CommitAuth, Jobs
  <1>3. \A d \in Devices :
          devices'[d] = IF j.binds # None /\ d = j.device THEN j.binds ELSE devices[d]
    BY Known DEF CommitAuth
  <1>4. \A s \in Subjects :
          identities'[s] = IF j.links # None /\ s = j.subject THEN j.links ELSE identities[s]
    BY Known DEF CommitAuth
  <1>5. ASSUME j.issues # None
        PROVE  /\ j.issues \in Tokens /\ refresh_tokens[j.issues] = None
               /\ Issuing(j) /\ RowOf(j) \in TokenRows /\ RowOf(j) # None
               /\ refresh_tokens'[j.issues] = RowOf(j)
    <2>1. j.issues \in Tokens /\ refresh_tokens[j.issues] = None /\ Issuing(j)
      BY <1>1, <1>5 DEF Jobs, JobSound, TokenSound, Issuing
    <2>2. j.user \in Users /\ j.device \in Devices
      BY <1>1, <2>1, <1>2 DEF Issuing, JobSound, UserSound, PlaceSound
    <2>3. RowOf(j) \in TokenRows
      BY <1>1, <2>2 DEF RowOf, TokenRows, Jobs
    <2>4. refresh_tokens'[j.issues] = RowOf(j)
      BY <2>1 DEF CommitAuth
    <2> QED
      BY <2>1, <2>3, <2>4, AccountsAssumption
  <1>6. \A t \in Issued :
          /\ t # j.issues
          /\ t \in Issued'
          /\ refresh_tokens'[t] = Marked(j, t)
          /\ refresh_tokens[t] \in TokenRows
          /\ refresh_tokens'[t] \in TokenRows
          /\ refresh_tokens'[t].user = refresh_tokens[t].user
          /\ refresh_tokens'[t].device = refresh_tokens[t].device
          /\ refresh_tokens'[t].subject = refresh_tokens[t].subject
    <2> SUFFICES ASSUME NEW t \in Issued
                 PROVE  /\ t # j.issues
                        /\ t \in Issued'
                        /\ refresh_tokens'[t] = Marked(j, t)
                        /\ refresh_tokens[t] \in TokenRows
                        /\ refresh_tokens'[t] \in TokenRows
                        /\ refresh_tokens'[t].user = refresh_tokens[t].user
                        /\ refresh_tokens'[t].device = refresh_tokens[t].device
                        /\ refresh_tokens'[t].subject = refresh_tokens[t].subject
      OBVIOUS
    <2>1. t \in Tokens /\ refresh_tokens[t] # None /\ refresh_tokens[t] \in TokenRows
      BY Known DEF Issued
    <2>2. t # j.issues
      BY <1>5, <2>1, AccountsAssumption
    <2>3. refresh_tokens'[t] = Marked(j, t)
      BY <2>1, <2>2 DEF CommitAuth
    <2>4. /\ Marked(j, t) \in TokenRows
          /\ Marked(j, t).user = refresh_tokens[t].user
          /\ Marked(j, t).device = refresh_tokens[t].device
          /\ Marked(j, t).subject = refresh_tokens[t].subject
      BY <2>1, <1>1 DEF Marked, TokenRows, Jobs
    <2>5. t \in Issued'
      BY <2>1, <2>3, <2>4, AccountsAssumption DEF Issued
    <2> QED
      BY <2>1, <2>2, <2>3, <2>4, <2>5
  <1>7. \A t \in Issued' : t \in Issued \/ (t = j.issues /\ j.issues # None)
    BY AccountsAssumption DEF CommitAuth, Issued
  <1>8. \A d \in Devices : AppleSeen(d) => AppleSeen(d)'
    BY <1>6 DEF AppleSeen
  <1>9. \A d \in Devices :
          j.issues # None /\ j.subject # None /\ d = j.device => AppleSeen(d)'
    <2> SUFFICES ASSUME NEW d \in Devices, j.issues # None, j.subject # None, d = j.device
                 PROVE  AppleSeen(d)'
      OBVIOUS
    <2>1. /\ refresh_tokens'[j.issues] # None /\ j.issues \in Tokens
          /\ refresh_tokens'[j.issues].subject # None
          /\ refresh_tokens'[j.issues].device = d
      BY <1>5 DEF RowOf
    <2>2. j.issues \in Issued'
      BY <2>1 DEF Issued
    <2> QED
      BY <2>1, <2>2 DEF AppleSeen
  <1>10. j.binds # None => j.device \in Devices /\ j.binds \in users'
    BY <1>1, <1>2 DEF JobSound, DeviceSound, UserSound
  <1>11. j.links # None => /\ j.subject # None /\ identities[j.subject] = None
                           /\ j.links \in users'
    BY <1>1, <1>2 DEF JobSound, IdentitySound, UserSound
  (* An account a device once had stays, unless Apple gave it another.     *)
  <1>12. \A d \in Devices : devices[d] # None =>
            /\ devices'[d] # None
            /\ devices'[d] = devices[d] \/ AppleSeen(d)'
    <2> SUFFICES ASSUME NEW d \in Devices, devices[d] # None,
                        j.binds # None, d = j.device
                 PROVE  devices'[d] # None /\ AppleSeen(d)'
      BY <1>3
    <2>1. Issuing(j) /\ j.subject # None
      BY <1>1 DEF JobSound, DeviceSound
    <2>2. j.issues # None
      BY <1>1, <2>1 DEF Issuing
    <2> QED
      BY <1>3, <1>9, <2>1, <2>2
  <1>13. \A s \in Subjects : identities[s] # None => identities'[s] = identities[s]
    BY <1>4, <1>11
  <1>14. TypesOK'
    <2>1. devices' \in [Devices -> users' \union {None}]
      <3>1. \A d \in Devices : devices'[d] \in users' \union {None}
        BY <1>2, <1>3, <1>10, Known
      <3>2. devices' = [d \in Devices |-> devices'[d]]
        BY DEF CommitAuth, IInv, TypesOK
      <3> QED
        BY <3>1, <3>2
    <2>2. identities' \in [Subjects -> users' \union {None}]
      <3>1. \A s \in Subjects : identities'[s] \in users' \union {None}
        BY <1>2, <1>4, <1>11, Known
      <3>2. identities' = [s \in Subjects |-> identities'[s]]
        BY DEF CommitAuth, IInv, TypesOK
      <3> QED
        BY <3>1, <3>2
    <2>3. refresh_tokens' \in [Tokens -> TokenRows \union {None}]
      <3>1. \A t \in Tokens : refresh_tokens'[t] \in TokenRows \union {None}
        BY <1>5, <1>6, <1>7 DEF Issued
      <3>2. refresh_tokens' = [t \in Tokens |-> refresh_tokens'[t]]
        BY DEF CommitAuth
      <3> QED
        BY <3>1, <3>2
    <2>4. auth' \in [Handlers -> Jobs]
      BY IdleSound DEF CommitAuth, IInv, TypesOK
    <2>5. expired' \subseteq Tokens
      BY DEF CommitAuth, IInv, TypesOK
    <2> QED
      BY <1>2, <2>1, <2>2, <2>3, <2>4, <2>5 DEF TypesOK
  <1>15. \A t \in Issued' : RowSound(t)'
    <2> SUFFICES ASSUME NEW t \in Issued'
                 PROVE  RowSound(t)'
      OBVIOUS
    <2>1. CASE t \in Issued
      <3> DEFINE row == refresh_tokens[t]
      <3>1. row \in TokenRows /\ RowSound(t)
        BY <1>6, <2>1 DEF IInv
      <3>2. /\ row.user \in users /\ row.device \in Devices
            /\ row.subject \in Subjects \union {None}
            /\ row.user # None
        BY <3>1, Known DEF TokenRows, RowSound
      <3>3. row.subject # None => identities'[row.subject] = row.user
        BY <1>13, <3>1, <3>2 DEF RowSound
      <3>4. \A d \in Devices : d = row.device =>
              /\ devices'[d] # None
              /\ row.user = devices'[d] \/ AppleSeen(d)'
        BY <1>8, <1>12, <3>1 DEF RowSound
      <3> QED
        BY <1>2, <1>6, <2>1, <3>2, <3>3, <3>4 DEF RowSound
    <2>2. CASE t = j.issues /\ j.issues # None
      <3>1. /\ refresh_tokens'[t] = RowOf(j) /\ Issuing(j)
            /\ j.user \in users' /\ j.user # None
        BY <1>1, <1>2, <1>5, <2>2, Known DEF JobSound, UserSound
      <3>2. j.device \in Devices /\ j.subject \in Subjects \union {None}
        BY <1>1 DEF JobSound, PlaceSound, Jobs
      <3>3. CASE j.subject = None
        <4>1. \A d \in Devices : d = j.device =>
                /\ devices'[d] = SeenDevice(j) /\ devices'[d] # None
                /\ j.user = devices'[d] \/ AppleSeen(d)'
          BY <1>1, <1>3, <1>8, <3>1, <3>2, <3>3 DEF JobSound, DeviceSound,
             SeenDevice
        <4> QED
          BY <3>1, <3>2, <3>3, <4>1 DEF RowSound, RowOf
      <3>4. CASE j.subject # None
        <4>1. \A d \in Devices : d = j.device => devices'[d] = j.user
          BY <1>1, <1>3, <3>1, <3>4 DEF JobSound, DeviceSound
        <4>2. identities'[j.subject] = j.user
          BY <1>1, <1>4, <3>1, <3>2, <3>4 DEF JobSound, IdentitySound, SeenIdentity
        <4> QED
          BY <3>1, <3>2, <4>1, <4>2 DEF RowSound, RowOf
      <3> QED
        BY <3>3, <3>4
    <2> QED
      BY <1>7, <2>1, <2>2
  (* What another transaction knows stays true.                            *)
  <1>16. ASSUME NEW k \in Jobs, JobSound(k), Apart(k, j), Apart(j, k)
         PROVE  JobSound(k)'
    <2>1. PlaceSound(k)'
      BY <1>6, <1>16 DEF JobSound, PlaceSound
    <2>2. UserSound(k)'
      BY <1>2, <1>16 DEF JobSound, UserSound, Issuing
    <2>3. DeviceSound(k)'
      <3>1. k.binds # None => k.device \in Devices /\ devices'[k.device] = devices[k.device]
        BY <1>3, <1>16 DEF JobSound, DeviceSound, Apart
      <3>2. k.pc # "idle" /\ k.pc # "token" => k.device \in Devices
        BY <1>16 DEF JobSound, PlaceSound
      <3>3. k.device \in Devices /\ SeenDevice(k) # None =>
              /\ SeenDevice(k)' # None
              /\ SeenDevice(k)' = SeenDevice(k) \/ AppleSeen(k.device)'
        BY <1>12 DEF SeenDevice
      <3>4. k.device \in Devices /\ AppleSeen(k.device) => AppleSeen(k.device)'
        BY <1>8
      <3> QED
        BY <1>16, <3>1, <3>2, <3>3, <3>4 DEF JobSound, DeviceSound, Issuing
    <2>4. IdentitySound(k)'
      <3>1. k.links # None => identities'[k.subject] = identities[k.subject]
        BY <1>4, <1>16 DEF JobSound, IdentitySound, Apart, Jobs
      <3>2. k.subject \in Subjects /\ SeenIdentity(k) # None => SeenIdentity(k)' = SeenIdentity(k)
        BY <1>13 DEF SeenIdentity
      <3>3. k.subject \in Subjects \union {None}
        BY <1>16 DEF Jobs
      <3>4. k.subject # None /\ (k.pc = "bind" \/ Issuing(k)) => k.user # None
        BY <1>16, Known DEF JobSound, UserSound, Jobs
      <3> QED
        BY <1>16, <3>1, <3>2, <3>3, <3>4 DEF JobSound, IdentitySound, PlaceSound,
           Issuing
    <2>5. TokenSound(k)'
      <3>1. k.issues # None => /\ k.issues \in Tokens /\ refresh_tokens[k.issues] = None
                               /\ k.issues # j.issues /\ k.pc = "commit"
        BY <1>16 DEF JobSound, TokenSound, Jobs, Apart
      <3>2. k.issues # None => refresh_tokens'[k.issues] = None
        BY <3>1 DEF CommitAuth
      <3> QED
        BY <1>6, <1>16, <3>1, <3>2 DEF JobSound, TokenSound, Issuing
    <2> QED
      BY <2>1, <2>2, <2>3, <2>4, <2>5 DEF JobSound
  <1>17. \A g \in Handlers : auth'[g] = IF g = h THEN AuthIdle ELSE auth[g]
    BY DEF CommitAuth, IInv, TypesOK
  <1>18. \A g \in Handlers : JobSound(auth[g])'
    <2> SUFFICES ASSUME NEW g \in Handlers
                 PROVE  JobSound(auth[g])'
      OBVIOUS
    <2>1. CASE g = h
      <3>1. \A l : l = AuthIdle => JobSound(l)'
        BY DEF AuthIdle, JobSound, PlaceSound, UserSound, DeviceSound,
           IdentitySound, TokenSound, Issuing
      <3> QED
        BY <1>17, <2>1, <3>1
    <2>2. CASE g # h
      <3> DEFINE k == auth[g]
      <3>1. k \in Jobs /\ JobSound(k) /\ Apart(k, j) /\ Apart(j, k)
        BY <2>2 DEF IInv, TypesOK
      <3>2. \A l : l = k => JobSound(l)'
        BY <1>16, <3>1
      <3>3. auth'[g] = k
        BY <1>17, <2>2
      <3> QED
        BY <3>2, <3>3
    <2> QED
      BY <2>1, <2>2
  <1>19. \A f, g \in Handlers : f # g => Apart(auth[f], auth[g])'
    <2>1. \A g \in Handlers : auth[g] \in Jobs
      BY DEF IInv, TypesOK
    <2> QED
      BY <1>17, <2>1, IdleSound DEF IInv, Apart
  <1> QED
    BY <1>14, <1>15, <1>18, <1>19 DEF IInv

-----------------------------------------------------------------------------
(* The rest of the world leaves the accounts alone.                        *)
LEMMA ExpireSound ==
  ASSUME IInv, NEW t \in Tokens, Expire(t)
  PROVE  IInv'
  <1>1. UNCHANGED <<users, devices, identities, refresh_tokens, auth>> /\ expired' \subseteq Tokens
    BY DEF Expire, authTables, IInv, TypesOK
  <1> QED
    BY <1>1 DEF IInv, TypesOK, RowSound, Issued, AppleSeen, JobSound, PlaceSound,
       UserSound, DeviceSound, IdentitySound, TokenSound, Issuing, SeenDevice,
       SeenIdentity, Apart

LEMMA ElsewhereSound ==
  ASSUME IInv, UNCHANGED authVars
  PROVE  IInv'
  BY DEF authVars, authTables, IInv, TypesOK, RowSound, Issued, AppleSeen, JobSound,
     PlaceSound, UserSound, DeviceSound, IdentitySound, TokenSound, Issuing,
     SeenDevice, SeenIdentity, Apart

LEMMA NextSound == IInv /\ [Next]_vars => IInv'
  <1> SUFFICES ASSUME IInv, [Next]_vars
               PROVE  IInv'
    OBVIOUS
  <1>1. ASSUME NEW h \in Handlers, SignIn(h)
        PROVE  IInv'
    BY <1>1, RegisterSound, AppleSignInSound, RefreshSound DEF SignIn
  <1>2. ASSUME NEW h \in Handlers, UseKeys(h)
        PROVE  IInv'
    BY <1>2, ElsewhereSound DEF UseKeys
  <1>3. CASE AuthSide
    <2>1. ASSUME NEW h \in Handlers, StepAuth(h)
          PROVE  IInv'
      BY <2>1, LookupIdentitySound, LookupDeviceSound, TouchDeviceSound,
         InsertDeviceSound, RereadDeviceSound, HasAppleSound, LinkIdentitySound,
         RereadIdentitySound, BindDeviceSound, LookupTokenSound, UseTokenSound,
         FindChainSound, RevokeChainSound, IssuePairSound, CommitSound DEF StepAuth
    <2>2. ASSUME NEW h \in Handlers, FailAuth(h)
          PROVE  IInv'
      BY <2>2, EndSound DEF FailAuth
    <2> QED
      BY <1>3, <2>1, <2>2, ExpireSound DEF AuthSide
  <1>4. CASE KeySide
    BY <1>4, ElsewhereSound DEF KeySide
  <1>5. CASE UNCHANGED vars
    BY <1>5, ElsewhereSound DEF vars
  <1> QED
    BY <1>1, <1>2, <1>3, <1>4, <1>5 DEF Next

(* The invariant holds: every row is sound, every open transaction knows   *)
(* only what is so, and no two hold the same row.  (AuthService)           *)
THEOREM AccountsSound == Spec => []IInv
  <1>1. Init => IInv
    BY InitSound DEF Init
  <1> QED
    BY <1>1, NextSound, PTL DEF Spec

-----------------------------------------------------------------------------
(* No row of the accounts refers to a user or device that does not exist,  *)
(* although accounts are made by several transactions at once and some of  *)
(* them fail.  (AuthService, the foreign keys of models/tables.py)         *)
THEOREM AccountsAreTyped == Spec => []AccountsTypeOK
  <1>1. IInv => AccountsTypeOK
    <2> SUFFICES ASSUME IInv
                 PROVE  AccountsTypeOK
      OBVIOUS
    <2>1. \A t \in Issued : refresh_tokens[t] \in TokenRows
      BY DEF IInv, TypesOK, Issued
    <2> QED
      BY <2>1 DEF IInv, TypesOK, RowSound, AccountsTypeOK
  <1> QED
    BY <1>1, AccountsSound, PTL

(* All tokens of a device that never signed in with Apple name the account *)
(* of the device, for any number of racing registrations and refreshes.    *)
(* (AuthService._find_or_create_identity, refresh)                         *)
THEOREM DevicesConverge == Spec => []DeviceConverges
  <1>1. IInv => DeviceConverges
    BY DEF IInv, RowSound, AppleSeen, DeviceConverges
  <1> QED
    BY <1>1, AccountsSound, PTL

(* All sign-ins of an Apple account name one user, on every device and for *)
(* good, for any number of racing first sign-ins.                          *)
(* (AuthService._resolve_apple_user)                                       *)
THEOREM IdentitiesConverge == Spec => []IdentityConverges
  <1>1. IInv => IdentityConverges
    BY DEF IInv, RowSound, IdentityConverges
  <1> QED
    BY <1>1, AccountsSound, PTL

-----------------------------------------------------------------------------
(* A refresh token is exchanged only by requests that overlap: once an     *)
(* exchange is committed the token is marked, a request that comes later   *)
(* still has to read the mark, and never gets past that read.              *)
Spent(t) == t \in Issued /\ refresh_tokens[t].used

LateSound(j) ==
    j.again => \/ j.pc = "token" /\ Spent(j.token)
               \/ j.pc \in {"chain", "revoke"}
               \/ j.pc = "commit" /\ j.issues = None

RInv ==
    /\ \A s \in Issued : refresh_tokens[s].parent # None => ~refresh_tokens[s].again
    /\ \A t \in Tokens : Exchanged(t) => Spent(t)
    /\ \A h \in Handlers : LateSound(auth[h])

(* A step that only moves a transaction which is not late.                 *)
LEMMA EarlyMove ==
  ASSUME IInv, RInv, NEW h \in Handlers, NEW j, Goes(h, j), LateSound(j)
  PROVE  RInv'
  <1>1. \A g \in Handlers : auth'[g] = IF g = h THEN j ELSE auth[g]
    BY DEF IInv, TypesOK, Goes
  <1>2. UNCHANGED refresh_tokens
    BY DEF Goes, authTables
  <1>3. LateSound(j)'
    BY <1>2 DEF LateSound, Spent, Issued
  <1>4. \A g \in Handlers : LateSound(auth[g])'
    BY <1>1, <1>2, <1>3 DEF RInv, LateSound, Spent, Issued
  <1> QED
    BY <1>2, <1>4 DEF RInv, Exchanged, Spent, Issued

(* Every step but a commit is such a move.                                 *)
LEMMA StepsRotate ==
  ASSUME IInv, RInv, NEW h \in Handlers,
         \/ StepAuth(h) /\ ~CommitAuth(h)
         \/ FailAuth(h)
         \/ \E d \in Devices : Register(h, d)
         \/ \E token \in AppleTokens, d \in Devices : AppleSignIn(h, token, token.presented, d)
         \/ \E t \in Tokens : Refresh(h, t)
  PROVE  RInv'
  <1>1. /\ auth[h] \in Jobs /\ JobSound(auth[h]) /\ LateSound(auth[h])
    BY Known DEF RInv
  <1>2. CASE LookupIdentity(h)
    BY <1>1, <1>2, EarlyMove DEF LookupIdentity, Jobs, LateSound, At
  <1>3. CASE LookupDevice(h)
    BY <1>1, <1>3, EarlyMove DEF LookupDevice, Jobs, LateSound, At
  <1>4. CASE InsertDevice(h)
    BY <1>1, <1>4, EarlyMove DEF InsertDevice, Jobs, LateSound, At
  <1>5. CASE HasApple(h)
    BY <1>1, <1>5, EarlyMove DEF HasApple, Jobs, LateSound, At
  <1>6. CASE LinkIdentity(h)
    BY <1>1, <1>6, EarlyMove DEF LinkIdentity, Jobs, LateSound, At
  <1>7. CASE RereadIdentity(h)
    BY <1>1, <1>7, EarlyMove DEF RereadIdentity, Jobs, LateSound, At
  <1>8. CASE FindChain(h)
    BY <1>1, <1>8, EarlyMove DEF FindChain, Jobs, LateSound, At
  <1>9. CASE TouchDevice(h)
    BY <1>1, <1>9, EarlyMove DEF TouchDevice, Jobs, LateSound, At
  <1>10. CASE RereadDevice(h)
    BY <1>1, <1>10, EarlyMove DEF RereadDevice, Jobs, LateSound, At
  <1>11. CASE BindDevice(h)
    BY <1>1, <1>11, EarlyMove DEF BindDevice, Jobs, LateSound, At
  <1>12. CASE UseToken(h)
    BY <1>1, <1>12, EarlyMove DEF UseToken, Jobs, LateSound, At
  <1>13. CASE IssuePair(h)
    BY <1>1, <1>13, EarlyMove DEF IssuePair, Jobs, LateSound, At
  <1>14. CASE RevokeChain(h)
    <2>1. auth[h].issues = None
      BY <1>1, <1>14 DEF RevokeChain, At, JobSound, TokenSound
    <2> QED
      BY <1>1, <1>14, <2>1, EarlyMove DEF RevokeChain, Jobs, LateSound, At
  <1>15. CASE LookupToken(h)
    <2> DEFINE row == refresh_tokens[auth[h].token]
               found == [auth[h] EXCEPT !.user = row.user, !.device = row.device]
    <2>1. CASE Goes(h, [found EXCEPT !.pc = "chain"])
      BY <1>1, <2>1, EarlyMove DEF Jobs, LateSound
    <2>2. CASE Goes(h, AuthIdle)
      BY <2>2, EarlyMove DEF AuthIdle, LateSound
    <2>3. CASE ~row.used /\ Goes(h, [found EXCEPT !.pc = "use"])
      <3>1. ~auth[h].again
        BY <1>1, <1>15, <2>3 DEF LookupToken, At, LateSound, Spent
      <3> QED
        BY <1>1, <2>3, <3>1, EarlyMove DEF Jobs, LateSound
    <2> QED
      BY <1>15, <2>1, <2>2, <2>3 DEF LookupToken
  <1>16. CASE FailAuth(h)
    BY <1>16, EarlyMove DEF FailAuth, AuthIdle, LateSound
  <1>17. CASE \E d \in Devices : Register(h, d)
    BY <1>17, EarlyMove DEF Register, AuthIdle, LateSound
  <1>18. CASE \E token \in AppleTokens, d \in Devices :
                AppleSignIn(h, token, token.presented, d)
    BY <1>18, EarlyMove DEF AppleSignIn, AuthIdle, LateSound
  <1>19. CASE \E t \in Tokens : Refresh(h, t)
    <2>1. PICK t \in Tokens : Refresh(h, t)
      BY <1>19
    <2>2. PICK j : j = [AuthIdle EXCEPT !.pc = "token", !.token = t, !.again = Exchanged(t)]
      OBVIOUS
    <2>3. Goes(h, j) /\ j.pc = "token" /\ j.token = t /\ (j.again <=> Exchanged(t))
      BY <2>1, <2>2 DEF Refresh, AuthIdle
    <2>4. LateSound(j)
      BY <2>3 DEF RInv, LateSound
    <2> QED
      BY <2>3, <2>4, EarlyMove
  <1> QED
    BY <1>2, <1>3, <1>4, <1>5, <1>6, <1>7, <1>8, <1>9, <1>10, <1>11, <1>12, <1>13,
       <1>14, <1>15, <1>16, <1>17, <1>18, <1>19 DEF StepAuth

(* A commit marks the token for which it issues a pair.                    *)
LEMMA CommitRotates ==
  ASSUME IInv, RInv, NEW h \in Handlers, CommitAuth(h)
  PROVE  RInv'
  <1> DEFINE j == auth[h]
  <1>1. /\ j \in Jobs /\ JobSound(j) /\ j.pc = "commit" /\ LateSound(j)
        /\ \A s \in Tokens : refresh_tokens[s] \in TokenRows \union {None}
        /\ None \notin Tokens /\ None \notin TokenRows
    BY Known, AccountsAssumption DEF CommitAuth, At, RInv
  <1>3. j.issues # None => /\ j.issues \in Tokens \ Issued
                           /\ refresh_tokens'[j.issues] = RowOf(j)
                           /\ Issuing(j)
    BY <1>1 DEF JobSound, TokenSound, Jobs, Issued, Issuing, CommitAuth
  <1>4. \A s \in Issued : /\ refresh_tokens'[s] = Marked(j, s)
                          /\ refresh_tokens[s] \in TokenRows
    BY <1>1, <1>3 DEF CommitAuth, Issued
  <1>5. \A s \in Issued : /\ refresh_tokens'[s].parent = refresh_tokens[s].parent
                          /\ refresh_tokens'[s].again = refresh_tokens[s].again
                          /\ refresh_tokens[s].used \/ s \in j.uses => refresh_tokens'[s].used
                          /\ s \in Issued'
    <2> SUFFICES ASSUME NEW s \in Issued
                 PROVE  /\ refresh_tokens'[s].parent = refresh_tokens[s].parent
                        /\ refresh_tokens'[s].again = refresh_tokens[s].again
                        /\ refresh_tokens[s].used \/ s \in j.uses => refresh_tokens'[s].used
                        /\ s \in Issued'
      OBVIOUS
    <2>1. refresh_tokens'[s] = Marked(j, s) /\ refresh_tokens[s] \in TokenRows
      BY <1>4
    <2>2. /\ Marked(j, s).parent = refresh_tokens[s].parent
          /\ Marked(j, s).again = refresh_tokens[s].again
          /\ refresh_tokens[s].used \/ s \in j.uses => Marked(j, s).used
          /\ Marked(j, s) \in TokenRows
      <3>1. PICK r \in TokenRows : r = refresh_tokens[s]
        BY <2>1
      <3>2. /\ r.used \in BOOLEAN /\ r.revoked \in BOOLEAN
            /\ r = [user |-> r.user, device |-> r.device, used |-> r.used,
                    revoked |-> r.revoked, parent |-> r.parent, again |-> r.again,
                    subject |-> r.subject]
        BY DEF TokenRows
      <3>3. PICK m : m = Marked(j, s)
        OBVIOUS
      <3>4. /\ DOMAIN m = DOMAIN r
            /\ m = [user |-> r.user, device |-> r.device, used |-> m.used,
                    revoked |-> m.revoked, parent |-> r.parent, again |-> r.again,
                    subject |-> r.subject]
            /\ r.used \/ s \in j.uses => m.used
            /\ m.used \in BOOLEAN /\ m.revoked \in BOOLEAN
        BY <3>1, <3>2, <3>3 DEF Marked
      <3> QED
        BY <3>1, <3>3, <3>4 DEF TokenRows
    <2> QED
      BY <1>1, <2>1, <2>2 DEF Issued
  <1>6. \A s \in Issued' : s \in Issued \/ (s = j.issues /\ j.issues # None)
    BY <1>1 DEF CommitAuth, Issued
  <1>7. \A g \in Handlers : auth'[g] = IF g = h THEN AuthIdle ELSE auth[g]
    BY DEF CommitAuth, IInv, TypesOK
  <1>8. \A t : Spent(t) => Spent(t)'
    BY <1>5 DEF Spent
  <1>9. \A g \in Handlers : LateSound(auth[g])'
    <2> SUFFICES ASSUME NEW g \in Handlers
                 PROVE  LateSound(auth[g])'
      OBVIOUS
    <2>1. CASE g = h
      BY <1>7, <2>1 DEF LateSound, AuthIdle
    <2>2. CASE g # h
      <3>1. PICK k : k = auth[g]
        OBVIOUS
      <3>2. auth'[g] = k /\ LateSound(k)
        BY <1>7, <2>2, <3>1 DEF RInv
      <3>3. Spent(k.token) => Spent(k.token)'
        BY <1>8
      <3>4. LateSound(k)'
        BY <3>2, <3>3 DEF LateSound
      <3> QED
        BY <3>2, <3>4 DEF LateSound, Spent
    <2> QED
      BY <2>1, <2>2
  <1>10. \A s \in Issued' : refresh_tokens'[s].parent # None => ~refresh_tokens'[s].again
    <2> SUFFICES ASSUME NEW s \in Issued'
                 PROVE  refresh_tokens'[s].parent # None => ~refresh_tokens'[s].again
      OBVIOUS
    <2>1. CASE s \in Issued
      BY <1>5, <2>1 DEF RInv
    <2>2. CASE s = j.issues /\ j.issues # None
      BY <1>1, <1>3, <2>2 DEF LateSound, RowOf
    <2> QED
      BY <1>6, <2>1, <2>2
  <1>11. \A t \in Tokens : Exchanged(t)' => Spent(t)'
    <2> SUFFICES ASSUME NEW t \in Tokens, NEW s \in Issued', refresh_tokens'[s].parent = t
                 PROVE  Spent(t)'
      BY DEF Exchanged
    <2>1. CASE s \in Issued
      BY <1>5, <1>8, <2>1 DEF RInv, Exchanged
    <2>2. CASE s = j.issues /\ j.issues # None
      <3>1. j.token = t
        BY <1>3, <2>2 DEF RowOf
      <3>2. t \in j.uses /\ t \in Issued
        BY <1>1, <1>3, <2>2, <3>1 DEF JobSound, TokenSound
      <3> QED
        BY <1>5, <3>2 DEF Spent
    <2> QED
      BY <1>6, <2>1, <2>2
  <1> QED
    BY <1>9, <1>10, <1>11 DEF RInv

LEMMA RotationStep == IInv /\ RInv /\ [Next]_vars => RInv'
  <1> SUFFICES ASSUME IInv, RInv, [Next]_vars
               PROVE  RInv'
    OBVIOUS
  <1>1. ASSUME NEW h \in Handlers, SignIn(h)
        PROVE  RInv'
    BY <1>1, StepsRotate DEF SignIn
  <1>2. CASE UNCHANGED authTables /\ UNCHANGED auth
    BY <1>2 DEF RInv, Exchanged, Spent, LateSound, Issued, authTables
  <1>3. CASE AuthSide
    <2>1. ASSUME NEW h \in Handlers, StepAuth(h) \/ FailAuth(h)
          PROVE  RInv'
      <3>1. CASE CommitAuth(h)
        BY <3>1, CommitRotates
      <3>2. CASE ~CommitAuth(h)
        BY <2>1, <3>2, StepsRotate
      <3> QED
        BY <3>1, <3>2
    <2>2. ASSUME NEW t \in Tokens, Expire(t)
          PROVE  RInv'
      BY <1>2, <2>2 DEF Expire
    <2> QED
      BY <1>3, <2>1, <2>2 DEF AuthSide
  <1>4. CASE UNCHANGED authVars
    BY <1>2, <1>4 DEF authVars
  <1> QED
    BY <1>1, <1>3, <1>4 DEF Next, UseKeys, KeySide, vars

(* A request that comes after an exchange of its refresh token was         *)
(* committed gets no pair, for any number of handlers, tokens and          *)
(* repetitions: what the read of used_at and its update, two statements,   *)
(* leave open is only the request that was there before the commit.        *)
(* (AuthService.refresh)                                                   *)
THEOREM RotationsOverlap == Spec => []RotatedWhileOverlapping
  <1>1. Init => RInv
    BY DEF Init, AccountsInit, RInv, Exchanged, Issued, LateSound, AuthIdle
  <1>2. Spec => []RInv
    BY <1>1, AccountsSound, RotationStep, PTL DEF Spec
  <1>3. RInv => RotatedWhileOverlapping
    BY DEF RInv, RotatedWhileOverlapping
  <1> QED
    BY <1>2, <1>3, PTL

-----------------------------------------------------------------------------
(* The first sign-in with Apple on a device: whose account it was before.  *)
HasId(u) == \E s \in Subjects : identities[s] = u
Roaming(d) == \E s \in Subjects : Roams(s, d)

(* Device d may lead from account u to account v.                          *)
MayMove(d, u, v) == u = v \/ HasId(u) \/ Roaming(d)

(* Every account that the device had may move to the one it has, which may *)
(* move to every account of Apple that signed in there.                    *)
RowKept(t) ==
    LET row == refresh_tokens[t] IN
    IF row.subject = None
    THEN MayMove(row.device, row.user, devices[row.device])
    ELSE MayMove(row.device, devices[row.device], row.user)

SignedIn(s) == \E t \in Issued : refresh_tokens[t].subject = s

(* So will it be when transaction j commits: without an Apple account it   *)
(* adds a token of the device; with one it has read the account of the     *)
(* device, which stays unless an Apple account takes the device, until it  *)
(* links the account it chose.                                             *)
JobKept(j) ==
    /\ j.subject = None /\ (j.pc \in {"touch", "use"} \/ Issuing(j)) =>
          MayMove(j.device, j.user, SeenDevice(j))
    /\ j.subject # None /\ j.pc \in {"touch", "has_apple", "link"} =>
          SeenDevice(j) # None /\ MayMove(j.device, SeenDevice(j), j.user)
    /\ j.links # None =>
          /\ SeenDevice(j) # None
          /\ devices[j.device] = None \/ MayMove(j.device, devices[j.device], j.links)
    /\ j.pc = "commit" /\ j.issues = None => j.links = None

FInv ==
    /\ \A t \in Issued : RowKept(t)
    /\ \A s \in Subjects : identities[s] # None => SignedIn(s)
    /\ \A h \in Handlers : JobKept(auth[h])

(* A step that only moves one transaction on.                              *)
LEMMA MoveKept ==
  ASSUME IInv, FInv, NEW h \in Handlers, NEW j, Goes(h, j), JobKept(j)
  PROVE  FInv'
  <1>1. \A t \in Issued' : RowKept(t)'
    BY DEF FInv, Goes, authTables, Issued, RowKept, MayMove, HasId, Roaming, Roams
  <1>2. \A s \in Subjects : (identities[s] # None => SignedIn(s))'
    BY DEF FInv, Goes, authTables, Issued, SignedIn
  <1>3. \A k : JobKept(k)' <=> JobKept(k)
    BY DEF Goes, authTables, JobKept, Issuing, SeenDevice, Issued, MayMove, HasId,
       Roaming, Roams
  <1>4. \A g \in Handlers : auth'[g] = IF g = h THEN j ELSE auth[g]
    BY DEF IInv, TypesOK, Goes
  <1>5. \A g \in Handlers : JobKept(auth[g])'
    <2> TAKE g \in Handlers
    <2>1. JobKept(auth'[g])
      BY <1>4 DEF FInv
    <2>2. JobKept(auth[g])' <=> JobKept(auth'[g])
      BY DEF Goes, authTables, JobKept, Issuing, SeenDevice, Issued, MayMove, HasId,
         Roaming, Roams
    <2> QED
      BY <2>1, <2>2
  <1> QED
    BY <1>1, <1>2, <1>5 DEF FInv

(* A transaction that is over, or that has not read an account yet.        *)
LEMMA BlankKept ==
  ASSUME NEW j, j.subject = None => j.pc \notin {"touch", "use"} /\ ~Issuing(j),
         j.subject # None => j.pc \notin {"touch", "has_apple", "link"},
         j.links = None
  PROVE  JobKept(j)
  BY DEF JobKept

(* A request begins, or ends without a commit.                             *)
LEMMA BeginKept ==
  ASSUME IInv, FInv, NEW h \in Handlers,
         \/ \E d \in Devices : Register(h, d)
         \/ \E token \in AppleTokens, d \in Devices : \E nonce : AppleSignIn(h, token, nonce, d)
         \/ \E t \in Tokens : Refresh(h, t)
         \/ FailAuth(h)
  PROVE  FInv'
  <1>1. CASE \E d \in Devices : Register(h, d)
    <2>1. PICK d \in Devices : Register(h, d)
      BY <1>1
    <2> DEFINE j == [AuthIdle EXCEPT !.pc = "device", !.device = d]
    <2>2. JobKept(j)
      BY BlankKept DEF AuthIdle, Issuing
    <2> QED
      BY <2>1, <2>2, MoveKept DEF Register
  <1>2. CASE \E token \in AppleTokens, d \in Devices : \E nonce : AppleSignIn(h, token, nonce, d)
    <2>1. PICK token \in AppleTokens, d \in Devices : \E nonce : AppleSignIn(h, token, nonce, d)
      BY <1>2
    <2> DEFINE j == [AuthIdle EXCEPT !.pc = "identity", !.device = d, !.subject = token.sub]
    <2>2. JobKept(j)
      BY BlankKept DEF AuthIdle, Issuing
    <2> QED
      BY <2>1, <2>2, MoveKept DEF AppleSignIn
  <1>3. CASE \E t \in Tokens : Refresh(h, t)
    <2>1. PICK t \in Tokens : Refresh(h, t)
      BY <1>3
    <2> DEFINE j == [AuthIdle EXCEPT !.pc = "token", !.token = t, !.again = Exchanged(t)]
    <2>2. JobKept(j)
      BY BlankKept DEF AuthIdle, Issuing
    <2> QED
      BY <2>1, <2>2, MoveKept DEF Refresh
  <1>4. CASE FailAuth(h)
    <2>1. JobKept(AuthIdle)
      BY BlankKept DEF AuthIdle, Issuing
    <2> QED
      BY <1>4, <2>1, MoveKept DEF FailAuth
  <1> QED
    BY <1>1, <1>2, <1>3, <1>4

(* The steps of _find_or_create_identity: the account is read from the     *)
(* device, or made for it while its row is locked.                         *)
LEMMA DeviceKept ==
  ASSUME IInv, FInv, NEW h \in Handlers,
         LookupDevice(h) \/ TouchDevice(h) \/ InsertDevice(h) \/ RereadDevice(h)
  PROVE  FInv'
  <1> DEFINE j == auth[h]
  <1>1. /\ j \in Jobs /\ JobSound(j) /\ JobKept(j)
        /\ j.device \in Devices /\ j.links = None
    BY Known DEF FInv, JobSound, PlaceSound, IdentitySound, LookupDevice, TouchDevice,
       InsertDevice, RereadDevice, At
  <1>2. CASE LookupDevice(h)
    <2>1. CASE DeviceSeen(h) # None
      <3> DEFINE k == [j EXCEPT !.pc = "touch", !.user = DeviceSeen(h)]
      <3>1. /\ k.pc = "touch" /\ k.device = j.device /\ k.links = None
            /\ k.user = SeenDevice(k) /\ SeenDevice(k) # None
        BY <1>1, <2>1 DEF Jobs, DeviceSeen, SeenDevice
      <3>2. JobKept(k)
        BY <3>1 DEF JobKept, MayMove
      <3> QED
        BY <1>2, <2>1, <3>2, MoveKept DEF LookupDevice
    <2>2. CASE DeviceSeen(h) = None
      <3> DEFINE k == [j EXCEPT !.pc = "insert_device", !.made = {FreshUser}]
      <3>1. k.pc = "insert_device" /\ k.links = None
        BY <1>1 DEF Jobs
      <3>2. JobKept(k)
        BY <3>1, BlankKept DEF Issuing
      <3> QED
        BY <1>2, <2>2, <3>2, MoveKept DEF LookupDevice
    <2> QED
      BY <2>1, <2>2
  <1>3. CASE TouchDevice(h)
    <2> DEFINE k == [j EXCEPT !.pc = AfterDevice(j), !.touches = TRUE]
    <2>1. /\ k.subject = j.subject /\ k.device = j.device /\ k.links = None
          /\ k.user = j.user /\ SeenDevice(k) = SeenDevice(j) /\ j.pc = "touch"
      BY <1>1, <1>3 DEF Jobs, SeenDevice, TouchDevice, At
    <2>2. JobKept(k)
      BY <1>1, <2>1 DEF JobKept
    <2> QED
      BY <1>3, <2>2, MoveKept DEF TouchDevice
  <1>4. CASE InsertDevice(h)
    <2>1. CASE devices[j.device] = None
      <3> DEFINE k == [j EXCEPT !.pc = "reread_device", !.binds = NewUser(j)]
      <3>1. k.pc = "reread_device" /\ k.links = None
        BY <1>1 DEF Jobs
      <3>2. JobKept(k)
        BY <3>1, BlankKept DEF Issuing
      <3> QED
        BY <1>4, <2>1, <3>2, MoveKept DEF InsertDevice
    <2>2. CASE devices[j.device] # None
      <3> DEFINE k == [j EXCEPT !.pc = "reread_device"]
      <3>1. k.pc = "reread_device" /\ k.links = None
        BY <1>1 DEF Jobs
      <3>2. JobKept(k)
        BY <3>1, BlankKept DEF Issuing
      <3> QED
        BY <1>4, <2>2, <3>2, MoveKept DEF InsertDevice
    <2> QED
      BY <2>1, <2>2
  <1>5. CASE RereadDevice(h)
    <2> DEFINE k == [j EXCEPT !.pc = AfterDevice(j), !.user = DeviceSeen(h)]
    <2>1. /\ k.device = j.device /\ k.links = None
          /\ k.user = SeenDevice(k) /\ SeenDevice(k) # None
      BY <1>1, <1>5 DEF Jobs, DeviceSeen, SeenDevice, RereadDevice, At, JobSound,
         DeviceSound
    <2>2. JobKept(k)
      BY <2>1 DEF JobKept, MayMove
    <2> QED
      BY <1>5, <2>2, MoveKept DEF RereadDevice
  <1> QED
    BY <1>2, <1>3, <1>4, <1>5

(* The steps of _resolve_apple_user: the account of the device is linked   *)
(* unless it has an Apple identity.                                        *)
LEMMA AppleKept ==
  ASSUME IInv, FInv, NEW h \in Handlers,
         \/ LookupIdentity(h) \/ HasApple(h) \/ LinkIdentity(h) \/ RereadIdentity(h)
         \/ BindDevice(h)
  PROVE  FInv'
  <1> DEFINE j == auth[h]
  <1>1. /\ j \in Jobs /\ JobSound(j) /\ JobKept(j)
        /\ j.device \in Devices /\ j.subject # None
    BY Known DEF FInv, JobSound, PlaceSound, LookupIdentity, HasApple, LinkIdentity,
       RereadIdentity, BindDevice, At
  <1>2. CASE LookupIdentity(h)
    <2>1. j.links = None
      BY <1>1, <1>2 DEF LookupIdentity, At, JobSound, IdentitySound
    <2>2. CASE IdentitySeen(h) # None
      <3> DEFINE k == [j EXCEPT !.pc = "bind", !.user = IdentitySeen(h)]
      <3>1. k.pc = "bind" /\ k.links = None
        BY <1>1, <2>1 DEF Jobs
      <3>2. JobKept(k)
        BY <3>1, BlankKept DEF Issuing
      <3> QED
        BY <1>2, <2>2, <3>2, MoveKept DEF LookupIdentity
    <2>3. CASE IdentitySeen(h) = None
      <3> DEFINE k == [j EXCEPT !.pc = "device"]
      <3>1. k.pc = "device" /\ k.links = None
        BY <1>1, <2>1 DEF Jobs
      <3>2. JobKept(k)
        BY <3>1, BlankKept DEF Issuing
      <3> QED
        BY <1>2, <2>3, <3>2, MoveKept DEF LookupIdentity
    <2> QED
      BY <2>2, <2>3
  <1>3. CASE HasApple(h)
    <2>1. /\ j.links = None /\ SeenDevice(j) # None
          /\ MayMove(j.device, SeenDevice(j), j.user)
      BY <1>1, <1>3 DEF HasApple, At, JobSound, IdentitySound, JobKept
    <2>2. CASE \E s \in Subjects : identities[s] = j.user
      <3> DEFINE k == [j EXCEPT !.pc = "link", !.user = FreshUser,
                                !.made = @ \union {FreshUser}]
      <3>1. /\ k.pc = "link" /\ k.links = None /\ SeenDevice(k) = SeenDevice(j)
            /\ k.device = j.device /\ k.subject = j.subject
        BY <1>1, <2>1 DEF Jobs, SeenDevice
      <3>2. HasId(SeenDevice(j)) \/ Roaming(j.device)
        BY <2>1, <2>2 DEF MayMove, HasId
      <3>3. JobKept(k)
        BY <1>1, <2>1, <3>1, <3>2 DEF JobKept, Issuing, MayMove
      <3> QED
        BY <1>3, <2>2, <3>3, MoveKept DEF HasApple
    <2>3. CASE ~(\E s \in Subjects : identities[s] = j.user)
      <3> DEFINE k == [j EXCEPT !.pc = "link"]
      <3>1. /\ k.pc = "link" /\ k.links = None /\ SeenDevice(k) = SeenDevice(j)
            /\ k.device = j.device /\ k.subject = j.subject /\ k.user = j.user
        BY <1>1, <2>1 DEF Jobs, SeenDevice
      <3>2. JobKept(k)
        BY <1>1, <2>1, <3>1 DEF JobKept, Issuing
      <3> QED
        BY <1>3, <2>3, <3>2, MoveKept DEF HasApple
    <2> QED
      BY <2>2, <2>3
  <1>4. CASE LinkIdentity(h)
    <2>1. /\ j.links = None /\ SeenDevice(j) # None
          /\ MayMove(j.device, SeenDevice(j), j.user)
      BY <1>1, <1>4 DEF LinkIdentity, At, JobSound, IdentitySound, JobKept
    <2>2. j.binds # None => devices[j.device] = None
      BY <1>1, <1>4 DEF LinkIdentity, At, JobSound, DeviceSound, Issuing
    <2>3. CASE identities[j.subject] = None
      <3> DEFINE k == [j EXCEPT !.pc = "reread_identity", !.links = j.user]
      <3>1. /\ k.pc = "reread_identity" /\ k.links = j.user
            /\ SeenDevice(k) = SeenDevice(j)
            /\ k.device = j.device /\ k.subject = j.subject
        BY <1>1 DEF Jobs, SeenDevice
      <3>2. devices[j.device] = None \/ MayMove(j.device, devices[j.device], j.user)
        BY <2>1, <2>2 DEF SeenDevice
      <3>3. JobKept(k)
        BY <1>1, <2>1, <3>1, <3>2 DEF JobKept
      <3> QED
        BY <1>4, <2>3, <3>3, MoveKept DEF LinkIdentity
    <2>4. CASE identities[j.subject] # None
      <3> DEFINE k == [j EXCEPT !.pc = "reread_identity"]
      <3>1. k.pc = "reread_identity" /\ k.links = None
        BY <1>1, <2>1 DEF Jobs
      <3>2. JobKept(k)
        BY <3>1, BlankKept DEF Issuing
      <3> QED
        BY <1>4, <2>4, <3>2, MoveKept DEF LinkIdentity
    <2> QED
      BY <2>3, <2>4
  <1>5. CASE RereadIdentity(h)
    <2> DEFINE k == [j EXCEPT !.pc = "bind", !.user = IdentitySeen(h)]
    <2>1. /\ k.pc = "bind" /\ k.links = j.links /\ SeenDevice(k) = SeenDevice(j)
          /\ k.device = j.device /\ k.subject = j.subject
      BY <1>1 DEF Jobs, SeenDevice
    <2>2. JobKept(k)
      BY <1>1, <2>1 DEF JobKept
    <2> QED
      BY <1>5, <2>2, MoveKept DEF RereadIdentity
  <1>6. CASE BindDevice(h)
    <2> DEFINE k == [j EXCEPT !.pc = "issue", !.binds = j.user]
    <2>1. /\ k.pc = "issue" /\ k.links = j.links /\ k.binds = j.user
          /\ k.device = j.device /\ k.subject = j.subject
      BY <1>1 DEF Jobs
    <2>2. j.user # None
      BY <1>1, <1>6, Known DEF BindDevice, At, JobSound, UserSound, Jobs
    <2>3. SeenDevice(k) # None
      BY <2>1, <2>2 DEF SeenDevice
    <2>4. JobKept(k)
      BY <1>1, <2>1, <2>3 DEF JobKept
    <2> QED
      BY <1>6, <2>4, MoveKept DEF BindDevice
  <1> QED
    BY <1>2, <1>3, <1>4, <1>5, <1>6

(* The steps of refresh, and the new token.                                *)
LEMMA TokenKept ==
  ASSUME IInv, FInv, NEW h \in Handlers,
         \/ LookupToken(h) \/ UseToken(h) \/ FindChain(h) \/ RevokeChain(h)
         \/ IssuePair(h)
  PROVE  FInv'
  <1> DEFINE j == auth[h]
  <1>1. j \in Jobs /\ JobSound(j) /\ JobKept(j)
    BY Known DEF FInv
  <1>2. CASE LookupToken(h)
    <2> DEFINE row == refresh_tokens[j.token]
               found == [j EXCEPT !.user = row.user, !.device = row.device]
    <2>1. /\ j.subject = None /\ j.token \in Issued /\ j.links = None /\ j.binds = None
          /\ row \in TokenRows
      <3>1. j.subject = None /\ j.token \in Issued /\ j.links = None /\ j.binds = None
        BY <1>1, <1>2 DEF LookupToken, At, JobSound, PlaceSound, IdentitySound, DeviceSound
      <3> QED
        BY <3>1, Known DEF Issued
    <2>2. CASE row.used
      <3> DEFINE k == [found EXCEPT !.pc = "chain"]
      <3>1. k.pc = "chain" /\ k.links = None
        BY <1>1, <2>1 DEF Jobs
      <3>2. JobKept(k)
        BY <3>1, BlankKept DEF Issuing
      <3> QED
        BY <1>2, <2>2, <3>2, MoveKept DEF LookupToken
    <2>3. CASE ~row.used /\ (row.revoked \/ j.token \in expired)
      <3>1. JobKept(AuthIdle)
        BY BlankKept DEF AuthIdle, Issuing
      <3> QED
        BY <1>2, <2>3, <3>1, MoveKept DEF LookupToken
    <2>4. CASE ~row.used /\ ~row.revoked /\ j.token \notin expired
      <3> DEFINE k == [found EXCEPT !.pc = "use"]
      <3>1. /\ k.pc = "use" /\ k.links = None /\ k.user = row.user
            /\ k.device = row.device /\ k.subject = None /\ k.binds = None
        BY <1>1, <2>1 DEF Jobs
      <3>2. MayMove(row.device, row.user, devices[row.device])
        <4>1. RowKept(j.token) /\ RowSound(j.token)
          BY <2>1 DEF FInv, IInv
        <4>2. CASE row.subject = None
          BY <4>1, <4>2 DEF RowKept
        <4>3. CASE row.subject # None
          BY <2>1, <4>1, <4>3 DEF RowSound, TokenRows, MayMove, HasId
        <4> QED
          BY <4>2, <4>3
      <3>3. JobKept(k)
        BY <3>1, <3>2 DEF JobKept, SeenDevice
      <3> QED
        BY <1>2, <2>4, <3>3, MoveKept DEF LookupToken
    <2> QED
      BY <2>2, <2>3, <2>4
  <1>3. CASE UseToken(h)
    <2> DEFINE k == [j EXCEPT !.pc = "issue", !.uses = {j.token}]
    <2>1. /\ k.pc = "issue" /\ k.links = j.links /\ SeenDevice(k) = SeenDevice(j)
          /\ k.device = j.device /\ k.subject = j.subject /\ k.user = j.user
          /\ j.pc = "use"
      BY <1>1, <1>3 DEF Jobs, SeenDevice, UseToken, At
    <2>2. JobKept(k)
      BY <1>1, <2>1 DEF JobKept
    <2> QED
      BY <1>3, <2>2, MoveKept DEF UseToken
  <1>4. CASE FindChain(h)
    <2> DEFINE k == [j EXCEPT !.pc = "revoke", !.chain = Chain(j.user, j.device)]
    <2>1. /\ k.pc = "revoke" /\ k.links = j.links /\ SeenDevice(k) = SeenDevice(j)
          /\ k.device = j.device
      BY <1>1 DEF Jobs, SeenDevice
    <2>2. JobKept(k)
      BY <1>1, <2>1 DEF JobKept, Issuing
    <2> QED
      BY <1>4, <2>2, MoveKept DEF FindChain
  <1>5. CASE RevokeChain(h)
    <2> DEFINE k == [j EXCEPT !.pc = "commit",
                              !.revokes = j.chain \intersect Chain(j.user, j.device)]
    <2>1. /\ k.pc = "commit" /\ k.links = j.links /\ SeenDevice(k) = SeenDevice(j)
          /\ k.device = j.device /\ k.issues = None /\ k.links = None
      BY <1>1, <1>5 DEF Jobs, SeenDevice, RevokeChain, At, JobSound, PlaceSound,
         IdentitySound, TokenSound
    <2>2. JobKept(k)
      BY <1>1, <2>1 DEF JobKept, Issuing
    <2> QED
      BY <1>5, <2>2, MoveKept DEF RevokeChain
  <1>6. CASE IssuePair(h)
    <2> DEFINE k == [j EXCEPT !.pc = "commit", !.issues = FreshToken]
    <2>1. /\ k.pc = "commit" /\ k.links = j.links /\ SeenDevice(k) = SeenDevice(j)
          /\ k.device = j.device /\ k.subject = j.subject /\ k.user = j.user
          /\ j.pc = "issue" /\ k.issues # None
      BY <1>1, <1>6, Known DEF Jobs, SeenDevice, IssuePair, At, FreshToken, FreshTokens
    <2>2. JobKept(k)
      BY <1>1, <2>1 DEF JobKept, Issuing
    <2> QED
      BY <1>6, <2>2, MoveKept DEF IssuePair
  <1> QED
    BY <1>2, <1>3, <1>4, <1>5, <1>6

(* What a commit does to the tables.                                       *)
LEMMA CommitEffect ==
  ASSUME IInv, NEW h \in Handlers, CommitAuth(h)
  PROVE  /\ \A d \in Devices :
              devices'[d] = IF auth[h].binds # None /\ d = auth[h].device
                            THEN auth[h].binds ELSE devices[d]
         /\ \A s \in Subjects :
              identities'[s] = IF auth[h].links # None /\ s = auth[h].subject
                               THEN auth[h].links ELSE identities[s]
         /\ auth[h].issues # None =>
              /\ auth[h].issues \in Issued'
              /\ refresh_tokens'[auth[h].issues] = RowOf(auth[h])
              /\ auth[h].device \in Devices
         /\ \A t \in Issued :
              /\ t \in Issued' /\ refresh_tokens[t] \in TokenRows
              /\ refresh_tokens'[t].user = refresh_tokens[t].user
              /\ refresh_tokens'[t].device = refresh_tokens[t].device
              /\ refresh_tokens'[t].subject = refresh_tokens[t].subject
         /\ \A t \in Issued' : t \in Issued \/ (t = auth[h].issues /\ auth[h].issues # None)
  <1> DEFINE j == auth[h]
  <1>1. j \in Jobs /\ JobSound(j) /\ j.pc = "commit"
    BY Known DEF CommitAuth, At
  <1>2. \A d \in Devices :
          devices'[d] = IF j.binds # None /\ d = j.device THEN j.binds ELSE devices[d]
    BY Known DEF CommitAuth
  <1>3. \A s \in Subjects :
          identities'[s] = IF j.links # None /\ s = j.subject THEN j.links ELSE identities[s]
    BY Known DEF CommitAuth
  <1>4. ASSUME j.issues # None
        PROVE  /\ j.issues \in Tokens /\ refresh_tokens[j.issues] = None
               /\ j.issues \in Issued' /\ refresh_tokens'[j.issues] = RowOf(j)
               /\ j.device \in Devices
    <2>1. j.issues \in Tokens /\ refresh_tokens[j.issues] = None /\ Issuing(j)
      BY <1>1, <1>4 DEF Jobs, JobSound, TokenSound, Issuing
    <2>2. j.user \in Users /\ j.device \in Devices
      BY <1>1, <2>1, Known DEF Issuing, JobSound, UserSound, PlaceSound, Jobs
    <2>3. RowOf(j) \in TokenRows
      BY <1>1, <2>2 DEF RowOf, TokenRows, Jobs
    <2>4. refresh_tokens'[j.issues] = RowOf(j)
      BY <2>1 DEF CommitAuth
    <2> QED
      BY <2>1, <2>2, <2>3, <2>4, AccountsAssumption DEF Issued
  <1>5. ASSUME NEW t \in Issued
        PROVE  /\ t \in Issued' /\ refresh_tokens[t] \in TokenRows
               /\ refresh_tokens'[t].user = refresh_tokens[t].user
               /\ refresh_tokens'[t].device = refresh_tokens[t].device
               /\ refresh_tokens'[t].subject = refresh_tokens[t].subject
    <2>1. t \in Tokens /\ refresh_tokens[t] # None /\ refresh_tokens[t] \in TokenRows
      BY Known DEF Issued
    <2>2. t # j.issues
      BY <1>4, <2>1, AccountsAssumption
    <2>3. refresh_tokens'[t] = Marked(j, t)
      BY <2>1, <2>2 DEF CommitAuth
    <2>4. /\ Marked(j, t) \in TokenRows
          /\ Marked(j, t).user = refresh_tokens[t].user
          /\ Marked(j, t).device = refresh_tokens[t].device
          /\ Marked(j, t).subject = refresh_tokens[t].subject
      BY <2>1, <1>1 DEF Marked, TokenRows, Jobs
    <2>5. t \in Issued'
      BY <2>1, <2>3, <2>4, AccountsAssumption DEF Issued
    <2> QED
      BY <2>1, <2>3, <2>4, <2>5
  <1>6. \A t \in Issued' : t \in Issued \/ (t = j.issues /\ j.issues # None)
    BY AccountsAssumption DEF CommitAuth, Issued
  <1> QED
    BY <1>2, <1>3, <1>4, <1>5, <1>6

(* A commit adds the token and may move the device.                        *)
LEMMA CommitKept ==
  ASSUME IInv, FInv, NEW h \in Handlers, CommitAuth(h)
  PROVE  FInv'
  <1>0. PICK j \in Jobs : j = auth[h]
    BY Known
  <1> DEFINE d0 == j.device
  <1>1. /\ j \in Jobs /\ JobSound(j) /\ JobKept(j) /\ j.pc = "commit"
        /\ Issuing(j) <=> j.issues # None
    BY <1>0, Known DEF FInv, CommitAuth, At, Issuing
  <1>2. \A d \in Devices :
          devices'[d] = IF j.binds # None /\ d = d0 THEN j.binds ELSE devices[d]
    BY <1>0, CommitEffect
  <1>3. \A s \in Subjects :
          identities'[s] = IF j.links # None /\ s = j.subject THEN j.links ELSE identities[s]
    BY <1>0, CommitEffect
  <1>4. j.issues # None => /\ j.issues \in Issued' /\ d0 \in Devices
                           /\ refresh_tokens'[j.issues] = RowOf(j)
    BY <1>0, CommitEffect
  <1>5. \A t \in Issued :
          /\ t \in Issued' /\ refresh_tokens[t] \in TokenRows
          /\ refresh_tokens'[t].user = refresh_tokens[t].user
          /\ refresh_tokens'[t].device = refresh_tokens[t].device
          /\ refresh_tokens'[t].subject = refresh_tokens[t].subject
    BY <1>0, CommitEffect
  <1>6. \A t \in Issued' : t \in Issued \/ (t = j.issues /\ j.issues # None)
    BY <1>0, CommitEffect
  (* What is known of accounts and devices stays so.                       *)
  <1>7. \A s \in Subjects : identities[s] # None => identities'[s] = identities[s]
    BY <1>1, <1>3 DEF JobSound, IdentitySound
  <1>8. \A u : u # None /\ HasId(u) => HasId(u)'
    BY <1>7 DEF HasId
  <1>9. \A d : Roaming(d) => Roaming(d)'
    BY <1>5 DEF Roaming, Roams
  <1>10. \A d, u, v : u # None /\ MayMove(d, u, v) => MayMove(d, u, v)'
    BY <1>8, <1>9 DEF MayMove
  <1>11. \A s \in Subjects : SignedIn(s) => SignedIn(s)'
    BY <1>5 DEF SignedIn
  <1>12. j.issues # None /\ j.subject # None => SignedIn(j.subject)'
    BY <1>4 DEF SignedIn, RowOf
  (* The device moves only to an account of Apple, and only if it may.     *)
  <1>13. ASSUME NEW u, u = devices[d0], u # None, j.binds # None
         PROVE  MayMove(d0, u, j.binds)' /\ HasId(j.binds)'
    <2>1. /\ j.issues # None /\ j.subject \in Subjects /\ j.binds = j.user
          /\ j.user = SeenIdentity(j) /\ d0 \in Devices
      BY <1>1, <1>13 DEF JobSound, DeviceSound, IdentitySound, Jobs
    <2>2. CASE j.links # None
      <3>1. j.binds = j.links /\ MayMove(d0, u, j.binds)
        BY <1>1, <1>13, <2>1, <2>2 DEF SeenIdentity, JobKept
      <3>2. identities'[j.subject] = j.binds
        BY <1>3, <2>1, <2>2, <3>1
      <3>3. MayMove(d0, u, j.binds)'
        BY <1>10, <1>13, <3>1
      <3> QED
        BY <2>1, <3>2, <3>3 DEF HasId
    <2>3. CASE j.links = None
      <3>1. identities[j.subject] = j.binds /\ identities'[j.subject] = j.binds
        BY <1>3, <2>1, <2>3 DEF SeenIdentity
      <3>2. PICK q \in Issued : refresh_tokens[q].subject = j.subject
        BY <1>13, <2>1, <3>1 DEF FInv, SignedIn
      <3>3. CASE refresh_tokens[q].device = d0
        <4>1. RowKept(q) /\ RowSound(q) /\ j.subject # None
          BY <2>1, Known DEF FInv, IInv
        <4>2. MayMove(d0, u, j.binds)
          BY <1>13, <3>1, <3>2, <3>3, <4>1 DEF RowKept, RowSound
        <4>3. MayMove(d0, u, j.binds)'
          BY <1>10, <1>13, <4>2
        <4> QED
          BY <2>1, <3>1, <4>3 DEF HasId
      <3>4. CASE refresh_tokens[q].device # d0
        <4>1. /\ q \in Issued' /\ j.issues \in Issued'
              /\ refresh_tokens'[q].subject = j.subject
              /\ refresh_tokens'[j.issues].subject = j.subject
              /\ refresh_tokens'[j.issues].device = d0
              /\ refresh_tokens'[q].device # d0
          BY <1>4, <1>5, <2>1, <3>2, <3>4 DEF RowOf
        <4>2. Roaming(d0)'
          BY <2>1, <4>1 DEF Roaming, Roams
        <4> QED
          BY <2>1, <3>1, <4>2 DEF MayMove, HasId
      <3> QED
        BY <3>3, <3>4
    <2> QED
      BY <2>2, <2>3
  <1>14. ASSUME NEW d \in Devices, NEW u, u = devices[d], u # None,
                NEW v, v = devices'[d]
         PROVE  v # None /\ (v = u \/ HasId(v)') /\ MayMove(d, u, v)'
    <2>1. CASE j.binds # None /\ d = d0
      <3>1. v = j.binds
        BY <1>2, <1>14, <2>1
      <3> QED
        BY <1>13, <1>14, <2>1, <3>1
    <2>2. CASE ~(j.binds # None /\ d = d0)
      BY <1>2, <1>14, <2>2 DEF MayMove
    <2> QED
      BY <2>1, <2>2
  <1>15. ASSUME NEW d \in Devices, NEW u, u # None, NEW v, v = devices'[d],
                MayMove(d, u, devices[d]), devices[d] # None
         PROVE  MayMove(d, u, v)'
    <2>1. PICK old : old = devices[d]
      OBVIOUS
    <2>2. MayMove(d, u, old)' /\ MayMove(d, old, v)'
      BY <1>10, <1>14, <1>15, <2>1
    <2> QED
      BY <2>2 DEF MayMove
  <1>16. ASSUME NEW d \in Devices, NEW u, NEW v, v = devices'[d],
                devices[d] # None, MayMove(d, devices[d], u)
         PROVE  MayMove(d, v, u)'
    <2>1. PICK old : old = devices[d]
      OBVIOUS
    <2>2. MayMove(d, old, u)' /\ (v = old \/ HasId(v)')
      BY <1>10, <1>14, <1>16, <2>1
    <2> QED
      BY <2>2 DEF MayMove
  <1>17. \A t \in Issued' : RowKept(t)'
    <2> SUFFICES ASSUME NEW t \in Issued'
                 PROVE  RowKept(t)'
      OBVIOUS
    <2>1. CASE t \in Issued
      <3>1. PICK row \in TokenRows : row = refresh_tokens[t]
        BY <1>5, <2>1
      <3>2. /\ RowKept(t) /\ RowSound(t) /\ row.device \in Devices
            /\ row.user # None /\ devices[row.device] # None
        BY <2>1, <3>1, Known DEF FInv, IInv, TokenRows, RowSound
      <3>3. PICK v : v = devices'[row.device]
        OBVIOUS
      <3>4. CASE row.subject = None
        <4>1. MayMove(row.device, row.user, v)'
          BY <1>15, <3>1, <3>2, <3>3, <3>4 DEF RowKept
        <4> QED
          BY <1>5, <2>1, <3>1, <3>3, <3>4, <4>1 DEF RowKept
      <3>5. CASE row.subject # None
        <4>1. MayMove(row.device, v, row.user)'
          BY <1>16, <3>1, <3>2, <3>3, <3>5 DEF RowKept
        <4> QED
          BY <1>5, <2>1, <3>1, <3>3, <3>5, <4>1 DEF RowKept
      <3> QED
        BY <3>4, <3>5
    <2>2. CASE t = j.issues /\ j.issues # None
      <3>1. refresh_tokens'[t] = RowOf(j) /\ d0 \in Devices /\ Issuing(j)
        BY <1>1, <1>4, <2>2
      <3>2. PICK v : v = devices'[d0]
        OBVIOUS
      <3>3. CASE j.subject = None
        <4>1. /\ v = SeenDevice(j) /\ MayMove(d0, j.user, v) /\ j.user # None
          BY <1>1, <1>2, <3>1, <3>2, <3>3, Known DEF JobKept, SeenDevice, JobSound,
             UserSound, Jobs
        <4>2. MayMove(d0, j.user, v)'
          BY <1>10, <4>1
        <4> QED
          BY <3>1, <3>2, <3>3, <4>2 DEF RowKept, RowOf
      <3>4. CASE j.subject # None
        <4>1. v = j.user
          BY <1>1, <1>2, <3>1, <3>2, <3>4, Known DEF JobSound, DeviceSound, UserSound,
             Jobs
        <4>2. /\ refresh_tokens'[t].subject # None /\ refresh_tokens'[t].device = d0
              /\ refresh_tokens'[t].user = v
          BY <3>1, <3>4, <4>1 DEF RowOf
        <4>3. MayMove(d0, v, v)'
          BY DEF MayMove
        <4> QED
          BY <3>2, <4>2, <4>3 DEF RowKept
      <3> QED
        BY <3>3, <3>4
    <2> QED
      BY <1>6, <2>1, <2>2
  <1>18. \A s \in Subjects : (identities[s] # None => SignedIn(s))'
    <2> SUFFICES ASSUME NEW s \in Subjects, identities'[s] # None
                 PROVE  SignedIn(s)'
      OBVIOUS
    <2>1. CASE j.links # None /\ s = j.subject
      BY <1>1, <1>12, <2>1, Known DEF JobKept
    <2>2. CASE ~(j.links # None /\ s = j.subject)
      BY <1>3, <1>11, <2>2 DEF FInv
    <2> QED
      BY <2>1, <2>2
  <1>19. ASSUME NEW k \in Jobs, JobSound(k), JobKept(k), Apart(k, j), Apart(j, k)
         PROVE  JobKept(k)'
    <2>1. PICK v : v = devices'[k.device]
      OBVIOUS
    <2>2. k.pc # "idle" /\ k.pc # "token" => k.device \in Devices
      BY <1>19 DEF JobSound, PlaceSound
    <2>3. k.binds # None /\ devices[k.device] = None => v = None
      BY <1>2, <1>19, <2>1 DEF Apart, JobSound, DeviceSound
    <2>4. PICK w : w = SeenDevice(k)'
      OBVIOUS
    <2>5. w = IF k.binds # None THEN k.binds ELSE v
      BY <2>1, <2>4 DEF SeenDevice
    <2>6. ASSUME k.subject = None, k.pc \in {"touch", "use"} \/ Issuing(k)
          PROVE  MayMove(k.device, k.user, w)'
      <3>1. /\ k.device \in Devices /\ k.user # None /\ SeenDevice(k) # None
            /\ MayMove(k.device, k.user, SeenDevice(k))
        BY <1>19, <2>2, <2>6, Known DEF JobSound, UserSound, DeviceSound, JobKept,
           Issuing, Jobs
      <3>2. CASE k.binds # None
        BY <1>10, <2>5, <3>1, <3>2 DEF SeenDevice
      <3>3. CASE k.binds = None
        BY <1>15, <2>1, <2>5, <3>1, <3>3 DEF SeenDevice
      <3> QED
        BY <3>2, <3>3
    <2>7. ASSUME SeenDevice(k) # None, k.device \in Devices
          PROVE  /\ w # None
                 /\ \A u : MayMove(k.device, SeenDevice(k), u) => MayMove(k.device, w, u)'
      <3>1. CASE k.binds # None
        BY <1>10, <2>5, <3>1 DEF SeenDevice
      <3>2. CASE k.binds = None
        BY <1>14, <1>16, <2>1, <2>5, <2>7, <3>2 DEF SeenDevice
      <3> QED
        BY <3>1, <3>2
    <2>8. ASSUME k.subject # None, k.pc \in {"touch", "has_apple", "link"}
          PROVE  w # None /\ MayMove(k.device, w, k.user)'
      BY <1>19, <2>2, <2>7, <2>8 DEF JobKept
    <2>9. ASSUME k.links # None
          PROVE  w # None /\ (v = None \/ MayMove(k.device, v, k.links)')
      <3>1. /\ SeenDevice(k) # None /\ k.device \in Devices
            /\ devices[k.device] = None \/ MayMove(k.device, devices[k.device], k.links)
        BY <1>19, <2>2, <2>9 DEF JobKept, JobSound, PlaceSound, IdentitySound, AuthIdle
      <3>2. CASE devices[k.device] = None
        BY <2>3, <2>7, <3>1, <3>2 DEF SeenDevice
      <3>3. CASE devices[k.device] # None
        BY <1>16, <2>1, <2>7, <3>1, <3>3
      <3> QED
        BY <3>2, <3>3
    <2> QED
      BY <1>19, <2>1, <2>4, <2>6, <2>8, <2>9 DEF JobKept, Issuing
  <1>20. \A g \in Handlers : JobKept(auth[g])'
    <2> SUFFICES ASSUME NEW g \in Handlers
                 PROVE  JobKept(auth[g])'
      OBVIOUS
    <2>1. CASE g = h
      <3>1. auth'[g] = AuthIdle
        BY <2>1 DEF CommitAuth, IInv, TypesOK
      <3>2. \A l : l = AuthIdle => JobKept(l)'
        BY DEF AuthIdle, JobKept, Issuing
      <3> QED
        BY <3>1, <3>2
    <2>2. CASE g # h
      <3>1. PICK k : k = auth[g]
        OBVIOUS
      <3>2. k \in Jobs /\ JobSound(k) /\ JobKept(k) /\ Apart(k, j) /\ Apart(j, k)
        BY <1>0, <2>2, <3>1 DEF FInv, IInv, TypesOK
      <3>3. auth'[g] = k
        BY <2>2, <3>1 DEF CommitAuth, IInv, TypesOK
      <3> QED
        BY <1>19, <3>2, <3>3
    <2> QED
      BY <2>1, <2>2
  <1> QED
    BY <1>17, <1>18, <1>20 DEF FInv

(* Every step of the server keeps the invariant.                           *)
LEMMA KeptStep == IInv /\ FInv /\ [Next]_vars => FInv'
  <1> SUFFICES ASSUME IInv, FInv, [Next]_vars
               PROVE  FInv'
    OBVIOUS
  <1>1. ASSUME NEW h \in Handlers, SignIn(h)
        PROVE  FInv'
    <2>1. ASSUME NEW token \in AppleTokens, NEW d \in Devices,
                 AppleSignIn(h, token, token.presented, d)
          PROVE  FInv'
      <3>1. \E nonce : AppleSignIn(h, token, nonce, d)
        BY <2>1
      <3> QED
        BY <3>1, BeginKept
    <2> QED
      BY <1>1, <2>1, BeginKept DEF SignIn
  <1>2. CASE UNCHANGED authTables /\ UNCHANGED auth
    BY <1>2 DEF FInv, authTables, Issued, RowKept, MayMove, HasId, Roaming, Roams,
       SignedIn, JobKept, Issuing, SeenDevice
  <1>3. CASE AuthSide
    <2>1. ASSUME NEW h \in Handlers, StepAuth(h) \/ FailAuth(h)
          PROVE  FInv'
      BY <2>1, BeginKept, DeviceKept, AppleKept, TokenKept, CommitKept DEF StepAuth
    <2>2. ASSUME NEW t \in Tokens, Expire(t)
          PROVE  FInv'
      BY <1>2, <2>2 DEF Expire
    <2> QED
      BY <1>3, <2>1, <2>2 DEF AuthSide
  <1>4. CASE UNCHANGED authVars
    BY <1>2, <1>4 DEF authVars
  <1> QED
    BY <1>1, <1>3, <1>4 DEF Next, UseKeys, KeySide, vars

(* The account of a device is kept at the first sign-in with Apple there,  *)
(* for any number of racing sign-ins: it is another one afterwards only    *)
(* when the old one has an Apple identity, or when the Apple account is    *)
(* also at home on another device.  (AuthService._resolve_apple_user)      *)
THEOREM FirstSignInsKeepAccounts == Spec => []FirstSignInKeepsAccount
  <1>1. Init => FInv
    <2> SUFFICES ASSUME Init
                 PROVE  FInv
      OBVIOUS
    <2>1. Issued = {} /\ \A s \in Subjects : identities[s] = None
      BY DEF Init, AccountsInit, Issued
    <2>2. \A h \in Handlers : auth[h] = AuthIdle
      BY DEF Init, AccountsInit
    <2>3. JobKept(AuthIdle)
      BY DEF AuthIdle, JobKept, Issuing
    <2> QED
      BY <2>1, <2>2, <2>3 DEF FInv
  <1>2. Spec => []FInv
    BY <1>1, AccountsSound, KeptStep, PTL DEF Spec
  <1>3. IInv /\ FInv => FirstSignInKeepsAccount
    <2> SUFFICES ASSUME IInv, FInv, NEW r \in Issued, NEW t \in Issued,
                        refresh_tokens[r].device = refresh_tokens[t].device,
                        refresh_tokens[r].subject = None,
                        refresh_tokens[t].subject # None
                 PROVE  \/ refresh_tokens[r].user = refresh_tokens[t].user
                        \/ \E s \in Subjects :
                              \/ identities[s] = refresh_tokens[r].user
                              \/ Roams(s, refresh_tokens[t].device)
      BY DEF FirstSignInKeepsAccount
    <2>1. RowKept(r) /\ RowKept(t)
      BY DEF FInv
    <2> QED
      BY <2>1 DEF RowKept, MayMove, HasId, Roaming
  <1> QED
    BY <1>2, <1>3, AccountsSound, PTL
=============================================================================
