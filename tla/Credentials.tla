---------------------------- MODULE Credentials ----------------------------
(***************************************************************************)
(* Accounts and Byok together, as one server runs them: a request of       *)
(* either kind takes a handler, and only the bearer of an access token may *)
(* touch the key of a user.  (api_gateway/routers/auth.py, byok.py,        *)
(* deps.py)                                                                *)
(***************************************************************************)
EXTENDS Byok

CONSTANTS
    MaxSignIns,     \* bound of the requests to Accounts in a behaviour
    MaxCalls        \* bound of all requests

VARIABLES
    signIns,        \* requests to Accounts so far
    keyCalls        \* requests to Byok so far

vars == <<authVars, byokVars, signIns, keyCalls>>

Init == AccountsInit /\ ByokInit /\ signIns = 0 /\ keyCalls = 0

Idle(h) == auth[h].pc = "idle" /\ byok[h].pc = "idle"

SignIn(h) ==
    /\ Idle(h) /\ signIns < MaxSignIns /\ signIns + keyCalls < MaxCalls
    /\ \/ \E d \in Devices : Register(h, d)
       \/ \E token \in AppleTokens, d \in Devices : AppleSignIn(h, token, token.presented, d)
       \/ \E t \in Tokens : Refresh(h, t)
    /\ signIns' = signIns + 1
    /\ UNCHANGED <<byokVars, keyCalls>>

UseKeys(h) ==
    /\ Idle(h) /\ signIns + keyCalls < MaxCalls
    /\ \E u \in users :
          /\ Authenticated(u)
          /\ \/ \E k \in ApiKeys : SetKey(h, u, k)
             \/ \E enabled \in BOOLEAN : Toggle(h, u, enabled)
             \/ DeleteKey(h, u)
             \/ Generate(h, u)
    /\ keyCalls' = keyCalls + 1
    /\ UNCHANGED <<authVars, signIns>>

AuthSide ==
    /\ \/ \E h \in Handlers : StepAuth(h) \/ FailAuth(h)
       \/ \E t \in Tokens : Expire(t)
    /\ UNCHANGED <<byokVars, signIns, keyCalls>>

KeySide ==
    /\ \/ \E h \in Handlers : StepByok(h) \/ FailByok(h)
       \/ \E k \in ApiKeys : RevokeKey(k)
    /\ UNCHANGED <<authVars, signIns, keyCalls>>

Next == (\E h \in Handlers : SignIn(h) \/ UseKeys(h)) \/ AuthSide \/ KeySide

Spec == Init /\ [][Next]_vars
=============================================================================
