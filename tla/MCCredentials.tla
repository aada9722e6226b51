---------------------------- MODULE MCCredentials ----------------------------
(***************************************************************************)
(* A small instance of Credentials: two Apple accounts and two devices, an *)
(* identity token that is late, and two keys, one without a known prefix.  *)
(***************************************************************************)
EXTENDS Credentials, TLC

CONSTANTS h1, h2, d1, d2, a, b, k1, k3, Null

Identity(sub, late) ==
    [sub |-> sub, alg |-> "RS256", signer |-> "apple", late |-> late, iss |-> "apple",
     aud |-> "app", nonce |-> "n", presented |-> "n"]
Presented == {Identity(a, FALSE), Identity(b, FALSE), Identity(b, TRUE)}

Settings ==
    [appleAudience |-> "app", appleTestMode |-> FALSE, iss |-> "us", aud |-> Null,
     privateKey |-> "pair", publicKey |-> "pair"]

KeyPrefixes == k1 :> "sk-ant-" @@ k3 :> "other"

Symmetry == Permutations({h1, h2}) \union Permutations({d1, d2})
            \union Permutations({a, b})
==============================================================================
