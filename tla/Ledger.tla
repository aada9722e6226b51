------------------------------- MODULE Ledger -------------------------------
(***************************************************************************)
(* What the wallet promises to the rest of the program: a credit ledger.   *)
(* A user has a balance; the ledger is a growing set of entries, at most   *)
(* one per user and idempotency key; an entry and its effect on the        *)
(* balance appear together, and a debit is posted only when the balance    *)
(* covers it.  No transaction, lock or retry is visible at this level.     *)
(* (wallet/service.py: consume, grant; models/tables.py: wallets,          *)
(* ledger_transactions.)                                                   *)
(***************************************************************************)
EXTENDS Integers

CONSTANTS
    Users,      \* owners of a wallet
    Keys,       \* idempotency keys
    Metas,      \* the meta payloads stored with an entry
    Amounts     \* the amounts of an entry, positive integers

VARIABLES
    balance,    \* balance[u]: credits of user u; 0 when u has no wallet row yet
    ledger      \* the posted entries

Kinds == {"debit", "credit"}

Entries ==
    [user: Users, key: Keys, kind: Kinds, amount: Amounts, meta: Metas]

KeyPosted(u, k) == \E e \in ledger : e.user = u /\ e.key = k

Delta(e) == IF e.kind = "credit" THEN e.amount ELSE 0 - e.amount

(* The credits of a set of entries counted one by one: an entry of amount  *)
(* n stands for n units.  The cardinality of the units of a set of entries *)
(* is the sum of their amounts.                                            *)
Units(E) == UNION {{e} \X (1..e.amount) : e \in E}

Posted(u, kind) == {e \in ledger : e.user = u /\ e.kind = kind}

-----------------------------------------------------------------------------
Init ==
    /\ balance = [u \in Users |-> 0]
    /\ ledger = {}

(* One credit or one debit takes effect, once for its user and key.        *)
Post(e) ==
    /\ ~KeyPosted(e.user, e.key)
    /\ e.kind = "debit" => balance[e.user] >= e.amount
    /\ ledger' = ledger \union {e}
    /\ balance' = [balance EXCEPT ![e.user] = @ + Delta(e)]

Next == \E e \in Entries : Post(e)

Spec == Init /\ [][Next]_<<balance, ledger>>

-----------------------------------------------------------------------------
(* A user never owes credits (the CHECK of the wallets table).             *)
NeverOverdrawn == \A u \in Users : balance[u] >= 0

(* An idempotency key takes effect at most once for a user (the unique     *)
(* index of the ledger table).                                             *)
KeyPostedOnce ==
    \A e, f \in ledger : e.user = f.user /\ e.key = f.key => e = f
=============================================================================
