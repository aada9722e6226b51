------------------------------- MODULE Wallet -------------------------------
(***************************************************************************)
(* The wallet service statement by statement (wallet/service.py): every    *)
(* call of consume, grant or get_wallet_view runs in a database            *)
(* transaction of its own (db.py: session_scope) at READ COMMITTED, and    *)
(* other transactions run between any two of its statements.  A row a      *)
(* transaction wrote stays locked until it commits or rolls back, and its  *)
(* writes reach the tables only at the commit.                             *)
(***************************************************************************)
EXTENDS Integers, FiniteSets

CONSTANTS
    Users,          \* owners of a wallet
    Keys,           \* idempotency keys
    Metas,          \* the meta payloads
    Sessions,       \* chat sessions a consume call may name
    NoSession,      \* no chat session named
    Owner,          \* Owner[s]: the user of session s, or NoUser
    NoUser,         \* the session does not exist
    Txns,           \* the concurrent calls, one database transaction each
    Requests,       \* the calls a client may make
    LastN           \* how many entries a wallet view lists

Operations == {"consume", "grant", "view"}

Calls ==
    [op: Operations, user: Users, key: Keys, amount: Int, meta: Metas,
     session: Sessions \union {NoSession}]

ASSUME RequestsAssumption == Requests \subseteq Calls /\ Requests # {}
ASSUME OwnerAssumption == Owner \in [Sessions -> Users \union {NoUser}]
ASSUME NoSessionAssumption == NoSession \notin Sessions
ASSUME LastNAssumption == LastN \in Nat

VARIABLES
    \* committed tables
    provisioned,    \* the users that have a wallets row
    balance,        \* balance[u]: wallets.balance, 0 without a row
    ledger,         \* the rows of ledger_transactions
    audits,         \* the ledger rows an audit event was committed for
    \* transactions
    pc,             \* pc[t]: the next statement of transaction t
    req,            \* req[t]: the call it serves
    held,           \* held[t]: its uncommitted writes, each a row lock
    answer,         \* answer[t]: the result the caller gets when t is done
    view            \* view[t]: what the two reads of get_wallet_view returned

tables == <<provisioned, balance, ledger, audits>>
vars == <<provisioned, balance, ledger, audits, pc, req, held, answer, view>>

Statements ==
    {"idle", "check", "ensure", "insert", "replay", "update", "audit",
     "read_balance", "read_txs", "commit", "rollback", "done"}

Writes == {"wallet", "entry", "balance", "audit"}

Answers ==
    {"none", "applied", "replay", "view", "conflict", "insufficient",
     "not_found", "forbidden"}

(* The amounts that reach the ledger (CHECK amount > 0).                   *)
Amounts == {n \in {r.amount : r \in Requests} : n > 0}

Abstract == INSTANCE Ledger

NoView == [balance |-> 0, listed |-> {}]

(* The call record of a transaction that serves none.                      *)
IdleCall == CHOOSE r \in Requests : TRUE

-----------------------------------------------------------------------------
(* The row the call writes: type debit for consume, credit for grant.      *)
EntryOf(r) ==
    [user |-> r.user, key |-> r.key, amount |-> r.amount, meta |-> r.meta,
     kind |-> IF r.op = "consume" THEN "debit" ELSE "credit"]

RowsOf(u, k) == {e \in ledger : e.user = u /\ e.key = k}

(* Faulty: a schema without the unique index of the ledger.                *)
LockedIgnoresKey(t, write) ==
    \E o \in Txns \ {t} :
        write \in held[o] /\ req[o].user = req[t].user /\ write # "entry"

(* Faulty: an UPDATE that does not wait for the row lock.                  *)
LockedIgnoresRow(t, write) ==
    \E o \in Txns \ {t} :
        /\ write \in held[o] \ {"balance"}
        /\ req[o].user = req[t].user
        /\ write = "entry" => req[o].key = req[t].key

(* Some other transaction has the row locked: "wallet" is an uncommitted   *)
(* insert of the wallets row, "balance" an uncommitted update of it,       *)
(* "entry" an uncommitted ledger row of the same unique key.               *)
Locked(t, write) ==
    \E o \in Txns \ {t} :
        /\ write \in held[o]
        /\ req[o].user = req[t].user
        /\ write = "entry" => req[o].key = req[t].key

(* _validate_session: the answer to a bad session, checked before writes.  *)
SessionAnswer(r) ==
    IF r.op # "consume" \/ r.session = NoSession \/ Owner[r.session] = r.user
    THEN "none"
    ELSE IF Owner[r.session] = NoUser THEN "not_found" ELSE "forbidden"

(* Faulty: no check of the amount.                                         *)
CheckAnswerSessionOnly(r) == SessionAnswer(r)

(* What the guards at the top of consume and grant answer.                 *)
CheckAnswer(r) ==
    IF r.op # "view" /\ r.amount <= 0 THEN "conflict" ELSE SessionAnswer(r)

(* Faulty: the type of the entry is not compared.                          *)
SamePayloadAmountOnly(e, r) == e.amount = r.amount

(* The replay rule: a row under the key must have the type and amount of   *)
(* the call.                                                               *)
SamePayload(e, r) ==
    e.kind = EntryOf(r).kind /\ e.amount = r.amount

(* The WHERE clause of the conditional update of consume.                  *)
Covers(b, r) == r.op = "consume" => b >= r.amount

(* The wallets row the UPDATE is to find: committed, or the transaction's  *)
(* own.                                                                    *)
RowVisible(t) == req[t].user \in provisioned \/ "wallet" \in held[t]

Goto(t, from, to) == pc[t] = from /\ pc' = [pc EXCEPT ![t] = to]

Fail(t, from, why) ==
    /\ Goto(t, from, "rollback")
    /\ answer' = [answer EXCEPT ![t] = why]
    /\ UNCHANGED <<tables, req, held, view>>

-----------------------------------------------------------------------------
Init ==
    /\ provisioned = {}
    /\ balance = [u \in Users |-> 0]
    /\ ledger = {}
    /\ audits = {}
    /\ pc = [t \in Txns |-> "idle"]
    /\ req = [t \in Txns |-> IdleCall]
    /\ held = [t \in Txns |-> {}]
    /\ answer = [t \in Txns |-> "none"]
    /\ view = [t \in Txns |-> NoView]

(* A call arrives; a retry after a lost answer is the same call again.     *)
Begin(t, r) ==
    /\ Goto(t, "idle", "check")
    /\ req' = [req EXCEPT ![t] = r]
    /\ UNCHANGED <<tables, held, answer, view>>

(* amount <= 0, an unknown session or another user's: nothing is written.  *)
Refuse(t) ==
    /\ CheckAnswer(req[t]) # "none"
    /\ Fail(t, "check", CheckAnswer(req[t]))

Accept(t) ==
    /\ CheckAnswer(req[t]) = "none"
    /\ Goto(t, "check", "ensure")
    /\ UNCHANGED <<tables, req, held, answer, view>>

(* _ensure_wallet: INSERT ... ON CONFLICT DO NOTHING waits for another     *)
(* transaction that is inserting the same wallets row.                     *)
EnsureWallet(t) ==
    /\ Goto(t, "ensure", IF req[t].op = "view" THEN "read_balance" ELSE "insert")
    /\ ~Locked(t, "wallet")
    /\ held' = [held EXCEPT ![t] =
                    @ \union IF req[t].user \in provisioned THEN {} ELSE {"wallet"}]
    /\ UNCHANGED <<tables, req, answer, view>>

(* INSERT of the ledger row: it waits for an uncommitted row of the same   *)
(* user and key, and then inserts or, the row being committed, does        *)
(* nothing.                                                                *)
InsertEntry(t) ==
    /\ Goto(t, "insert", "update")
    /\ ~Locked(t, "entry")
    /\ RowsOf(req[t].user, req[t].key) = {}
    /\ held' = [held EXCEPT ![t] = @ \union {"entry"}]
    /\ UNCHANGED <<tables, req, answer, view>>

(* Faulty: a conflict of the insert is taken for success.                  *)
InsertConflictIgnored(t) ==
    /\ Goto(t, "insert", "update")
    /\ ~Locked(t, "entry")
    /\ RowsOf(req[t].user, req[t].key) # {}
    /\ UNCHANGED <<tables, req, held, answer, view>>

InsertConflicts(t) ==
    /\ Goto(t, "insert", "replay")
    /\ ~Locked(t, "entry")
    /\ RowsOf(req[t].user, req[t].key) # {}
    /\ UNCHANGED <<tables, req, held, answer, view>>

(* _existing_tx and the comparison of type and amount.                     *)
Replay(t) ==
    /\ Goto(t, "replay", "commit")
    /\ \E e \in RowsOf(req[t].user, req[t].key) : SamePayload(e, req[t])
    /\ answer' = [answer EXCEPT ![t] = "replay"]
    /\ UNCHANGED <<tables, req, held, view>>

ReplayMismatch(t) ==
    /\ ~\E e \in RowsOf(req[t].user, req[t].key) : SamePayload(e, req[t])
    /\ Fail(t, "replay", "conflict")

(* Faulty: the posting goes on to the commit without an audit event.       *)
UpdateBalanceUnaudited(t) ==
    /\ Goto(t, "update", "commit")
    /\ ~Locked(t, "balance")
    /\ RowVisible(t) /\ Covers(balance[req[t].user], req[t])
    /\ held' = [held EXCEPT ![t] = @ \union {"balance"}]
    /\ UNCHANGED <<tables, req, answer, view>>

(* UPDATE wallets SET balance ...: waits for the row lock, then evaluates  *)
(* its WHERE clause on the committed row.  (The CHECK balance >= 0 of the  *)
(* table is left out: NeverOverdrawn shows that it never fires.)           *)
UpdateBalance(t) ==
    /\ Goto(t, "update", "audit")
    /\ ~Locked(t, "balance")
    /\ RowVisible(t) /\ Covers(balance[req[t].user], req[t])
    /\ held' = [held EXCEPT ![t] = @ \union {"balance"}]
    /\ UNCHANGED <<tables, req, answer, view>>

(* Faulty: an uncovered debit does not raise, and its row is committed.    *)
InsufficientSwallowed(t) ==
    /\ ~Locked(t, "balance")
    /\ ~(RowVisible(t) /\ Covers(balance[req[t].user], req[t]))
    /\ Goto(t, "update", "commit")
    /\ UNCHANGED <<tables, req, held, answer, view>>

Insufficient(t) ==
    /\ ~Locked(t, "balance")
    /\ ~(RowVisible(t) /\ Covers(balance[req[t].user], req[t]))
    /\ Fail(t, "update", "insufficient")

(* audit.record of billing_debit or billing_credit, in the transaction.    *)
RecordAudit(t) ==
    /\ Goto(t, "audit", "commit")
    /\ held' = [held EXCEPT ![t] = @ \union {"audit"}]
    /\ answer' = [answer EXCEPT ![t] = "applied"]
    /\ UNCHANGED <<tables, req, view>>

(* get_wallet_view reads the balance and then, in a statement with a       *)
(* snapshot of its own, the last LastN entries of the user.  (The order    *)
(* key, created_at, is the start of the entry's transaction: which entries *)
(* a full list leaves out is not determined here.)                         *)
ReadBalance(t) ==
    /\ Goto(t, "read_balance", "read_txs")
    /\ view' = [view EXCEPT ![t] = [balance |-> balance[req[t].user], listed |-> {}]]
    /\ UNCHANGED <<tables, req, held, answer>>

(* Faulty: one entry less is listed than was asked for.                    *)
ReadEntriesShort(t) ==
    LET posted == {e \in ledger : e.user = req[t].user}
    IN  /\ Goto(t, "read_txs", "commit")
        /\ \E listed \in SUBSET posted :
              /\ Cardinality(listed) <= LastN - 1
              /\ Cardinality(listed) = LastN - 1 \/ listed = posted
              /\ view' = [view EXCEPT ![t] = [balance |-> @.balance, listed |-> listed]]
        /\ answer' = [answer EXCEPT ![t] = "view"]
        /\ UNCHANGED <<tables, req, held>>

ReadEntries(t) ==
    LET posted == {e \in ledger : e.user = req[t].user}
    IN  /\ Goto(t, "read_txs", "commit")
        /\ \E listed \in SUBSET posted :
              /\ Cardinality(listed) <= LastN
              /\ Cardinality(listed) = LastN \/ listed = posted
              /\ view' = [view EXCEPT ![t] = [balance |-> @.balance, listed |-> listed]]
        /\ answer' = [answer EXCEPT ![t] = "view"]
        /\ UNCHANGED <<tables, req, held>>

(* session_scope commits: the writes of the transaction become visible and *)
(* its locks are released together.                                        *)
Commit(t) ==
    LET u == req[t].user
        row == EntryOf(req[t])
    IN  /\ Goto(t, "commit", "done")
        /\ provisioned' = IF "wallet" \in held[t] THEN provisioned \union {u} ELSE provisioned
        /\ ledger' = IF "entry" \in held[t] THEN ledger \union {row} ELSE ledger
        /\ audits' = IF "audit" \in held[t] THEN audits \union {row} ELSE audits
        /\ balance' = IF "balance" \in held[t]
                      THEN [balance EXCEPT ![u] = @ + Abstract!Delta(row)]
                      ELSE balance
        /\ held' = [held EXCEPT ![t] = {}]
        /\ UNCHANGED <<req, answer, view>>

(* Faulty: an exception leaves the transaction open.                       *)
RollbackForgotten(t) ==
    /\ Goto(t, "rollback", "done")
    /\ UNCHANGED <<tables, req, held, answer, view>>

(* session_scope rolls back on an exception and the error is answered.     *)
Rollback(t) ==
    /\ Goto(t, "rollback", "done")
    /\ held' = [held EXCEPT ![t] = {}]
    /\ UNCHANGED <<tables, req, answer, view>>

(* The caller has its answer and the connection returns to the pool.       *)
Finish(t) ==
    /\ Goto(t, "done", "idle")
    /\ req' = [req EXCEPT ![t] = IdleCall]
    /\ answer' = [answer EXCEPT ![t] = "none"]
    /\ view' = [view EXCEPT ![t] = NoView]
    /\ UNCHANGED <<tables, held>>

(* The process dies or the connection is lost, before the commit or after  *)
(* it: nobody gets an answer, and the database drops the open transaction. *)
Crash(t) ==
    /\ pc[t] # "idle"
    /\ pc' = [pc EXCEPT ![t] = "idle"]
    /\ held' = [held EXCEPT ![t] = {}]
    /\ answer' = [answer EXCEPT ![t] = "none"]
    /\ view' = [view EXCEPT ![t] = NoView]
    /\ req' = [req EXCEPT ![t] = IdleCall]
    /\ UNCHANGED tables

Step(t) ==
    \/ Refuse(t) \/ Accept(t) \/ EnsureWallet(t)
    \/ InsertEntry(t) \/ InsertConflicts(t) \/ Replay(t) \/ ReplayMismatch(t)
    \/ UpdateBalance(t) \/ Insufficient(t) \/ RecordAudit(t)
    \/ ReadBalance(t) \/ ReadEntries(t)
    \/ Commit(t) \/ Rollback(t) \/ Finish(t)

Next ==
    \E t \in Txns :
        \/ \E r \in Requests : Begin(t, r)
        \/ Step(t)
        \/ Crash(t)

(* A running call keeps executing its statements.  A statement that waits  *)
(* for a row lock is served from the lock's queue, so one that can run     *)
(* again and again does run: strong fairness.  Nothing makes a call begin  *)
(* or a process crash.                                                     *)
Fairness == \A t \in Txns : SF_vars(Step(t))

Spec == Init /\ [][Next]_vars /\ Fairness

-----------------------------------------------------------------------------
(* Types; in particular only positive amounts reach the ledger (CHECK      *)
(* amount > 0), and a view lists rows of the ledger.                       *)
TypeOK ==
    /\ provisioned \subseteq Users
    /\ balance \in [Users -> Int]
    /\ ledger \subseteq Abstract!Entries
    /\ audits \subseteq Abstract!Entries
    /\ pc \in [Txns -> Statements]
    /\ req \in [Txns -> Requests]
    /\ held \in [Txns -> SUBSET Writes]
    /\ answer \in [Txns -> Answers]
    /\ view \in [Txns -> [balance: Int, listed: SUBSET ledger]]

Sum(u, kind) == Cardinality(Abstract!Units(Abstract!Posted(u, kind)))

(* Every balance is the sum of the committed credits less the committed    *)
(* debits, whatever interleaving, rollback or crash led there: the ledger  *)
(* row and the balance update of consume and grant take effect together.   *)
Conservation ==
    \A u \in Users : balance[u] + Sum(u, "debit") = Sum(u, "credit")

(* No interleaving of consume calls takes a balance below zero: the        *)
(* conditional UPDATE is enough at READ COMMITTED.                         *)
NeverOverdrawn == Abstract!NeverOverdrawn

(* A key is posted once per user, however often the call is repeated or    *)
(* runs concurrently with itself or with a grant of the same key.          *)
KeyPostedOnce == Abstract!KeyPostedOnce

(* A posting is whole: exactly the posted entries have their audit event   *)
(* (billing_debit, billing_credit), and their user has the wallets row     *)
(* whose balance they changed.                                             *)
PostingIsWhole ==
    /\ audits = ledger
    /\ \A e \in ledger : e.user \in provisioned

(* A caller told that its consume or grant succeeded, as a first post or   *)
(* as a replay, finds an entry of its type and amount in the ledger.       *)
AnswerHonest ==
    \A t \in Txns :
        pc[t] = "done" /\ answer[t] \in {"applied", "replay"} =>
            \E e \in RowsOf(req[t].user, req[t].key) :
                /\ e.kind = "debit" <=> req[t].op = "consume"
                /\ e.amount = req[t].amount

(* The balance of a wallet view is explained by the entries it lists: the  *)
(* second read of get_wallet_view may list an entry the balance does not   *)
(* include yet, but (the list not being cut at LastN) never misses one.    *)
ViewExplainsBalance ==
    \A t \in Txns :
        /\ pc[t] = "done"
        /\ answer[t] = "view"
        /\ Cardinality(view[t].listed) < LastN
        => \E S \in SUBSET view[t].listed :
               LET sum(kind) ==
                     Cardinality(Abstract!Units({e \in S : e.kind = kind}))
               IN  view[t].balance = sum("credit") - sum("debit")

(* The statements of concurrent transactions implement the abstract        *)
(* ledger: a commit is one Post or no change.                              *)
ImplementsLedger == Abstract!Spec

(* Every call that has begun ends: the order in which consume and grant    *)
(* take their locks (wallets row, ledger key, balance) lets no two calls   *)
(* wait for each other.                                                    *)
EveryCallEnds == \A t \in Txns : pc[t] # "idle" ~> pc[t] = "idle"
=============================================================================
