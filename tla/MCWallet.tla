------------------------------ MODULE MCWallet ------------------------------
(***************************************************************************)
(* Instances of Wallet for TLC.  Two calls run at a time and each may      *)
(* repeat any call of the set without end: same key with the same payload, *)
(* with another amount, with another type, and two debits of different     *)
(* keys that the balance does not cover together.                          *)
(***************************************************************************)
EXTENDS Wallet, TLC

CONSTANTS alice, nobody, mine, foreign, gone, nosession, k1, k2, k3, m1

Call(op, key, amount, session) ==
    [op |-> op, user |-> alice, key |-> key, amount |-> amount, meta |-> m1,
     session |-> session]

MCOwner == (mine :> alice) @@ (foreign :> nobody) @@ (gone :> NoUser)

MCRequests ==
    {Call("grant", k1, 3, nosession),      \* the only credit
     Call("consume", k2, 1, mine),         \* a chat debit
     Call("consume", k3, 2, nosession),    \* not covered after the other one
     Call("consume", k1, 3, nosession),    \* the key of the grant, other type
     Call("consume", k2, 2, nosession),    \* the key of the debit, other amount
     Call("view", k1, 0, nosession)}

RefusedRequests ==
    {Call("consume", k2, 0, nosession),
     Call("consume", k2, 1, foreign),
     Call("consume", k2, 1, gone),
     Call("grant", k1, 0, nosession)}

MCAllRequests == MCRequests \union RefusedRequests
=============================================================================
