---------------------------- MODULE WalletProofs ----------------------------
(***************************************************************************)
(* The wallet keeps its promises for any number of users, keys, amounts    *)
(* and concurrent transactions.  The invariant that makes the proofs go    *)
(* through ties what a transaction holds (its uncommitted writes) to where *)
(* it is, to what the tables contain and to what the others hold.          *)
(***************************************************************************)
EXTENDS Wallet, FiniteSetTheorems, TLAPS

Us(t) == req[t].user

(* Which writes a transaction can hold at each statement.                  *)
HeldAt(t) ==
    /\ pc[t] \in {"idle", "check", "ensure", "done"} => held[t] = {}
    /\ pc[t] \in {"insert", "replay", "read_balance", "read_txs"}
            => held[t] \subseteq {"wallet"}
    /\ pc[t] = "update" => "entry" \in held[t] /\ held[t] \subseteq {"wallet", "entry"}
    /\ pc[t] = "audit" =>
            {"entry", "balance"} \subseteq held[t] /\ "audit" \notin held[t]
    /\ pc[t] = "commit" =>
            held[t] \subseteq {"wallet"} \/ {"entry", "balance", "audit"} \subseteq held[t]
    /\ pc[t] = "rollback" => held[t] \subseteq {"wallet", "entry"}

(* Two transactions never hold the same row.                               *)
Exclusive(t, o) ==
    Us(t) = Us(o) =>
        /\ ~("balance" \in held[t] /\ "balance" \in held[o])
        /\ "entry" \in held[t] /\ "entry" \in held[o] => req[t].key # req[o].key

(* What a held row says about the committed tables.                        *)
Grounded(t) ==
    /\ "entry" \in held[t] =>
            /\ RowsOf(Us(t), req[t].key) = {}
            /\ EntryOf(req[t]) \in Abstract!Entries
    /\ "balance" \in held[t] => Covers(balance[Us(t)], req[t])

(* A call past its checks has a positive amount, or is a view.             *)
Checked(t) ==
    pc[t] \in {"ensure", "insert", "replay", "update", "audit"} =>
        req[t].op = "view" \/ req[t].amount \in Amounts

(* A call knows its success only when the ledger or its lock backs it.     *)
Backed(t) ==
    /\ pc[t] \in {"update", "audit", "insert", "replay"} => req[t].op \in {"consume", "grant"}
    /\ pc[t] \in {"commit", "done"} /\ answer[t] = "replay" =>
            \E e \in RowsOf(Us(t), req[t].key) :
                e.kind = EntryOf(req[t]).kind /\ e.amount = req[t].amount
    /\ pc[t] = "commit" /\ answer[t] = "applied" => "entry" \in held[t]
    /\ pc[t] = "rollback" => answer[t] \notin {"applied", "replay"}
    /\ pc[t] = "done" /\ answer[t] = "applied" => EntryOf(req[t]) \in ledger

(* Past _ensure_wallet the wallets row is there for the transaction.       *)
RowReady(t) ==
    pc[t] \in {"insert", "replay", "update", "audit", "read_balance", "read_txs",
               "commit"} => RowVisible(t)

Discipline ==
    /\ \A t \in Txns : HeldAt(t) /\ RowReady(t) /\ Grounded(t) /\ Checked(t) /\ Backed(t)
    /\ \A t, o \in Txns : t # o => Exclusive(t, o)

FiniteUnits ==
    \A u \in Users : \A kind \in {"debit", "credit"} :
        IsFiniteSet(Abstract!Units(Abstract!Posted(u, kind)))

TableInv ==
    NeverOverdrawn /\ KeyPostedOnce /\ PostingIsWhole /\ FiniteUnits /\ Conservation

IInv == TypeOK /\ Discipline /\ TableInv

-----------------------------------------------------------------------------
(* Adding an entry of amount n to a set of entries adds n units.           *)
LEMMA UnitsOfOneMore ==
    ASSUME NEW E, NEW e, e \notin E, e.amount \in Nat,
           IsFiniteSet(Abstract!Units(E))
    PROVE  /\ IsFiniteSet(Abstract!Units(E \union {e}))
           /\ Cardinality(Abstract!Units(E \union {e}))
                = Cardinality(Abstract!Units(E)) + e.amount
<1> DEFINE new == {e} \X (1..e.amount)
<1>1. Abstract!Units(E \union {e}) = Abstract!Units(E) \union new
  BY DEF Abstract!Units
<1>2. Abstract!Units(E) \intersect new = {}
  BY DEF Abstract!Units
<1>3. IsFiniteSet(1..e.amount) /\ Cardinality(1..e.amount) = e.amount
  <2>1. 1 \in Int /\ e.amount \in Int
    OBVIOUS
  <2>2. /\ IsFiniteSet(1..e.amount)
        /\ Cardinality(1..e.amount) = IF 1 > e.amount THEN 0 ELSE e.amount - 1 + 1
    BY <2>1, FS_Interval, Zenon
  <2>3. QED
    BY <2>2
<1>4. IsFiniteSet({e}) /\ Cardinality({e}) = 1
  BY FS_Singleton
<1>5. IsFiniteSet(new) /\ Cardinality(new) = e.amount
  <2>1. /\ IsFiniteSet({e} \X (1..e.amount))
        /\ Cardinality({e} \X (1..e.amount)) = Cardinality({e}) * Cardinality(1..e.amount)
    <3> DEFINE one == {e}
               steps == 1..e.amount
    <3>1. IsFiniteSet(one) /\ IsFiniteSet(steps)
      BY <1>3, <1>4
    <3> HIDE DEF one, steps
    <3>2. /\ IsFiniteSet(one \X steps)
          /\ Cardinality(one \X steps) = Cardinality(one) * Cardinality(steps)
      BY <3>1, FS_Product, Zenon
    <3> USE DEF one, steps
    <3>3. QED
      BY <3>2, Zenon
  <2>2. Cardinality({e}) * Cardinality(1..e.amount) = 1 * e.amount
    BY <1>3, <1>4, Zenon
  <2>3. 1 * e.amount = e.amount
    OBVIOUS
  <2>4. QED
    BY <2>1, <2>2, <2>3, Zenon
<1>6. Cardinality(Abstract!Units(E)) \in Nat
  BY FS_CardinalityType
<1> HIDE DEF new
<1>7. /\ IsFiniteSet(Abstract!Units(E) \union new)
      /\ Cardinality(Abstract!Units(E) \union new)
            = Cardinality(Abstract!Units(E)) + Cardinality(new)
                - Cardinality(Abstract!Units(E) \intersect new)
  BY <1>5, FS_Union, Zenon
<1>8. Cardinality(Abstract!Units(E) \intersect new) = 0
  BY <1>2, FS_EmptySet
<1>9. IsFiniteSet(Abstract!Units(E \union {e}))
  BY <1>1, <1>7
<1>10. Cardinality(Abstract!Units(E \union {e}))
          = Cardinality(Abstract!Units(E)) + e.amount - 0
  BY <1>1, <1>5, <1>7, <1>8
<1>11. QED
  BY <1>6, <1>9, <1>10

-----------------------------------------------------------------------------
(* The call record of a transaction at rest is one of the calls.           *)
LEMMA IdleCallIsCall == IdleCall \in Requests /\ IdleCall \in Calls
  BY RequestsAssumption DEF IdleCall

(* The amounts of the ledger are positive integers.                        *)
LEMMA AmountsPositive == \A n \in Amounts : n \in Nat /\ n > 0
  BY RequestsAssumption DEF Amounts, Calls

(* A call that passed the check of its amount has an amount of the ledger.  *)
LEMMA CheckedAmount ==
    ASSUME NEW r \in Requests, CheckAnswer(r) = "none", r.op # "view"
    PROVE  r.amount \in Amounts
<1>1. r.amount \in Int
  BY RequestsAssumption DEF Calls
<1>2. ~(r.amount <= 0)
  BY DEF CheckAnswer
<1>3. QED
  BY <1>1, <1>2 DEF Amounts

(* The call a transaction serves is a well-formed call.                    *)
LEMMA ReqIsCall == ASSUME TypeOK, NEW t \in Txns
                   PROVE  req[t] \in Requests /\ req[t] \in Calls
  BY RequestsAssumption DEF TypeOK

(* A call that may be posted makes a well-formed row.                      *)
LEMMA RowIsEntry ==
    ASSUME NEW r \in Calls, r.amount \in Amounts
    PROVE  EntryOf(r) \in Abstract!Entries
  BY DEF Calls, EntryOf, Abstract!Entries, Abstract!Kinds

(* A posted row changes its user's balance by an integer.                  *)
LEMMA RowDelta ==
    ASSUME NEW e \in Abstract!Entries
    PROVE  /\ Abstract!Delta(e) \in Int /\ e.amount \in Nat /\ e.amount > 0
           /\ e.user \in Users /\ e.kind \in {"debit", "credit"}
           /\ e.kind = "credit" => Abstract!Delta(e) = e.amount
           /\ e.kind = "debit" => Abstract!Delta(e) = 0 - e.amount
<1>1. e.user \in Users /\ e.kind \in {"debit", "credit"} /\ e.amount \in Amounts
  BY DEF Abstract!Entries, Abstract!Kinds
<1>2. e.amount \in Nat /\ e.amount > 0
  BY <1>1, AmountsPositive
<1>3. QED
  BY <1>1, <1>2 DEF Abstract!Delta

(* What a commit does: it posts the row of the call, whole, or leaves the  *)
(* ledger alone.                                                           *)
CommitPosts(t) ==
    LET e == EntryOf(req[t])
    IN  /\ e \in Abstract!Entries
        /\ {"entry", "balance"} \subseteq held[t]
        /\ e.user \in provisioned'
        /\ provisioned \subseteq provisioned'
        /\ audits' = audits \union {e}
        /\ Abstract!Post(e)

CommitWritesNoEntry(t) ==
    /\ UNCHANGED <<balance, ledger, audits>>
    /\ provisioned \subseteq provisioned'

(* A commit has one of these two effects, never a part of the first.       *)
LEMMA CommitEffect ==
    ASSUME TypeOK, Discipline, NEW t \in Txns, Commit(t)
    PROVE  CommitPosts(t) \/ CommitWritesNoEntry(t)
<1> DEFINE e == EntryOf(req[t])
<1>1. /\ HeldAt(t) /\ RowReady(t) /\ Grounded(t)
      /\ pc[t] = "commit"
      /\ req[t] \in Calls /\ held[t] \in SUBSET Writes
  BY ReqIsCall DEF Discipline, TypeOK, Commit, Goto
<1>2. CASE held[t] \subseteq {"wallet"}
  BY <1>2 DEF Commit, CommitWritesNoEntry
<1>3. CASE {"entry", "balance", "audit"} \subseteq held[t]
  <2>1. e \in Abstract!Entries /\ RowsOf(e.user, e.key) = {}
    BY <1>1, <1>3 DEF Grounded, EntryOf, Us
  <2>2. ~Abstract!KeyPosted(e.user, e.key)
    BY <2>1 DEF RowsOf, Abstract!KeyPosted
  <2>3. e.kind = "debit" => balance[e.user] >= e.amount
    BY <1>1, <1>3 DEF Grounded, Covers, EntryOf, Us
  <2>4. e.user \in provisioned'
    BY <1>1 DEF Commit, RowReady, RowVisible, EntryOf
  <2>5. /\ ledger' = ledger \union {e} /\ audits' = audits \union {e}
        /\ balance' = [balance EXCEPT ![e.user] = @ + Abstract!Delta(e)]
        /\ provisioned \subseteq provisioned'
    BY <1>3 DEF Commit, EntryOf
  <2>6. QED
    BY <1>3, <2>1, <2>2, <2>3, <2>4, <2>5 DEF CommitPosts, Abstract!Post
<1>4. QED
  BY <1>1, <1>2, <1>3 DEF HeldAt

(* The types hold before the first call.                                   *)
LEMMA InitType == Init => TypeOK
  BY IdleCallIsCall DEF Init, TypeOK, NoView, Statements, Answers, Writes

(* Every statement keeps the types; Commit needs the locking discipline to *)
(* know that the amount was checked.                                       *)
LEMMA NextType == TypeOK /\ Discipline /\ [Next]_vars => TypeOK'
<1> SUFFICES ASSUME TypeOK, Discipline, [Next]_vars PROVE TypeOK'
  OBVIOUS
<1> USE DEF TypeOK, Goto, tables
<1>1. CASE UNCHANGED vars
  BY <1>1 DEF vars
<1>2. ASSUME NEW t \in Txns, NEW r \in Requests, Begin(t, r) PROVE TypeOK'
  BY <1>2, RequestsAssumption DEF Begin, Statements
<1>3. ASSUME NEW t \in Txns, Crash(t) PROVE TypeOK'
  BY <1>3, IdleCallIsCall DEF Crash, NoView, Statements, Answers
<1>4. ASSUME NEW t \in Txns, Step(t) PROVE TypeOK'
  <2>1. CASE Refuse(t)
    BY <2>1 DEF Refuse, Fail, CheckAnswer, SessionAnswer, Statements, Answers
  <2>2. CASE Accept(t)
    BY <2>2 DEF Accept, Statements
  <2>3. CASE EnsureWallet(t)
    BY <2>3 DEF EnsureWallet, Statements, Writes
  <2>4. CASE InsertEntry(t)
    BY <2>4 DEF InsertEntry, Statements, Writes
  <2>5. CASE InsertConflicts(t)
    BY <2>5 DEF InsertConflicts, Statements
  <2>6. CASE Replay(t)
    BY <2>6 DEF Replay, Statements, Answers
  <2>7. CASE ReplayMismatch(t)
    BY <2>7 DEF ReplayMismatch, Fail, Statements, Answers
  <2>8. CASE UpdateBalance(t)
    BY <2>8 DEF UpdateBalance, Statements, Writes
  <2>9. CASE Insufficient(t)
    BY <2>9 DEF Insufficient, Fail, Statements, Answers
  <2>10. CASE RecordAudit(t)
    BY <2>10 DEF RecordAudit, Statements, Answers, Writes
  <2>11. CASE ReadBalance(t)
    BY <2>11, ReqIsCall DEF ReadBalance, Statements, Calls
  <2>12. CASE ReadEntries(t)
    <3>1. PICK listed \in SUBSET ledger :
            view' = [view EXCEPT ![t] = [balance |-> @.balance, listed |-> listed]]
      BY <2>12 DEF ReadEntries
    <3>2. QED
      BY <2>12, <3>1 DEF ReadEntries, Statements, Answers
  <2>13. CASE Commit(t)
    <3>1. CommitPosts(t) \/ CommitWritesNoEntry(t)
      BY <2>13, CommitEffect
    <3>2. provisioned' \subseteq Users /\ ledger' \subseteq Abstract!Entries
          /\ audits' \subseteq Abstract!Entries /\ balance' \in [Users -> Int]
          /\ ledger \subseteq ledger'
      BY <2>13, <3>1, ReqIsCall, RowDelta DEF CommitPosts, CommitWritesNoEntry, Abstract!Post,
         Commit, Calls
    <3>3. view' \in [Txns -> [balance: Int, listed: SUBSET ledger']]
      BY <2>13, <3>2 DEF Commit
    <3>4. QED
      BY <2>13, <3>2, <3>3 DEF Commit, Statements
  <2>14. CASE Rollback(t)
    BY <2>14 DEF Rollback, Statements
  <2>15. CASE Finish(t)
    BY <2>15, IdleCallIsCall DEF Finish, NoView, Statements, Answers
  <2>16. QED
    BY <1>4, <2>1, <2>2, <2>3, <2>4, <2>5, <2>6, <2>7, <2>8, <2>9, <2>10,
       <2>11, <2>12, <2>13, <2>14, <2>15 DEF Step
<1>5. QED
  BY <1>1, <1>2, <1>3, <1>4 DEF Next

-----------------------------------------------------------------------------
(* The transaction that acts, and all others left alone.                   *)
Alone(t) ==
    \A o \in Txns \ {t} :
        /\ pc'[o] = pc[o] /\ req'[o] = req[o]
        /\ held'[o] = held[o] /\ answer'[o] = answer[o]

Local(t) == HeldAt(t) /\ RowReady(t) /\ Grounded(t) /\ Checked(t) /\ Backed(t)

(* Statements that leave the tables alone disturb only their transaction.  *)
LEMMA OthersKeepLocal ==
    ASSUME TypeOK, Discipline, UNCHANGED tables, NEW t \in Txns, Alone(t)
    PROVE  /\ \A o \in Txns \ {t} : Local(o)'
           /\ \A o, x \in Txns \ {t} : o # x => Exclusive(o, x)'
<1>1. \A o \in Txns \ {t} : Local(o)
  BY DEF Discipline, Local
<1>2. ASSUME NEW o \in Txns \ {t} PROVE Local(o)'
  BY <1>1, <1>2 DEF Alone, Local, HeldAt, RowReady, RowVisible, Grounded, Checked,
     Backed, Us, RowsOf, tables
<1>3. ASSUME NEW o \in Txns \ {t}, NEW x \in Txns \ {t}, o # x
      PROVE  Exclusive(o, x)'
  BY <1>3 DEF Discipline, Alone, Exclusive, Us
<1>4. QED
  BY <1>2, <1>3

(* A transaction that takes no new write stays exclusive.                  *)
LEMMA NoNewWrites ==
    ASSUME TypeOK, Discipline, NEW t \in Txns, Alone(t),
           held'[t] = {} \/ (held'[t] \subseteq held[t] \union {"wallet", "audit"} /\ req'[t] = req[t])
    PROVE  \A o \in Txns \ {t} : Exclusive(t, o)' /\ Exclusive(o, t)'
  BY DEF Discipline, Alone, Exclusive, Us

(* The three facts above together.                                         *)
LEMMA DisciplineFromParts ==
    ASSUME NEW t \in Txns, Local(t)',
           \A o \in Txns \ {t} : Local(o)',
           \A o, x \in Txns \ {t} : o # x => Exclusive(o, x)',
           \A o \in Txns \ {t} : Exclusive(t, o)' /\ Exclusive(o, t)'
    PROVE  Discipline'
  BY DEF Discipline, Local

(* A commit disturbs no other transaction: it could only change a balance  *)
(* or a key that another one has locked too.                               *)
LEMMA CommitKeepsOthers ==
    ASSUME TypeOK, Discipline, NEW t \in Txns, Commit(t), Alone(t)
    PROVE  /\ \A o \in Txns \ {t} : Local(o)'
           /\ \A o, x \in Txns \ {t} : o # x => Exclusive(o, x)'
<1>1. ASSUME NEW o \in Txns \ {t}, NEW x \in Txns \ {t}, o # x
      PROVE  Exclusive(o, x)'
  BY <1>1 DEF Discipline, Alone, Exclusive, Us
<1>2. ASSUME NEW o \in Txns \ {t} PROVE Local(o)'
  <2>1. Local(o) /\ Exclusive(t, o) /\ req[o] \in Calls
    BY ReqIsCall DEF Discipline, Local
  <2>2. CommitPosts(t) \/ CommitWritesNoEntry(t)
    BY CommitEffect
  <2>3. HeldAt(o)' /\ Checked(o)'
    BY <2>1 DEF Alone, Local, HeldAt, Checked
  <2>4. RowReady(o)'
    BY <2>1, <2>2 DEF Alone, Local, RowReady, RowVisible, CommitPosts, CommitWritesNoEntry
  <2>5. ledger \subseteq ledger'
    BY <2>2 DEF CommitPosts, CommitWritesNoEntry, Abstract!Post
  <2>6. Backed(o)'
    BY <2>1, <2>5 DEF Alone, Local, Backed, RowsOf, Us
  <2>7. ASSUME "entry" \in held[o] PROVE RowsOf(Us(o), req[o].key)' = {}
    BY <2>1, <2>2, <2>7 DEF Alone, Local, Grounded, RowsOf, Us, CommitPosts,
       CommitWritesNoEntry, Abstract!Post, Exclusive, EntryOf
  <2>8. ASSUME "balance" \in held[o] PROVE balance'[Us(o)] = balance[Us(o)]
    BY <2>1, <2>2, <2>8 DEF TypeOK, Calls, Us, CommitPosts, CommitWritesNoEntry,
       Abstract!Post, Exclusive, EntryOf
  <2>9. Grounded(o)'
    BY <2>1, <2>7, <2>8 DEF Alone, Local, Grounded, Us
  <2>10. QED
    BY <2>3, <2>4, <2>6, <2>9 DEF Local
<1>3. QED
  BY <1>1, <1>2

(* Every statement keeps the locking discipline: what a transaction holds  *)
(* fits its statement, its reads still hold, and no row is held twice.     *)
LEMMA NextDiscipline ==
    TypeOK /\ Discipline /\ [Next]_vars => Discipline'
<1> SUFFICES ASSUME TypeOK, Discipline, [Next]_vars PROVE Discipline'
  OBVIOUS
<1>1. CASE UNCHANGED vars
  BY <1>1 DEF vars, Discipline, HeldAt, RowReady, RowVisible, Grounded, Checked,
     Backed, Exclusive, Us, RowsOf
<1> USE DEF Goto, tables
<1>2. ASSUME NEW t \in Txns, NEW r \in Requests, Begin(t, r) PROVE Discipline'
  <2>1. Alone(t)
    BY <1>2 DEF Begin, Alone, TypeOK
  <2>2. Local(t)'
    BY <1>2 DEF Begin, TypeOK, Discipline, Local, HeldAt, RowReady, Grounded, Checked, Backed
  <2>3. held'[t] = {}
    BY <1>2 DEF Begin, Discipline, HeldAt
  <2>4. QED
    BY <1>2, <2>1, <2>2, <2>3, OthersKeepLocal, NoNewWrites, DisciplineFromParts DEF Begin
<1>3. ASSUME NEW t \in Txns, Crash(t) PROVE Discipline'
  <2>1. Alone(t)
    BY <1>3 DEF Crash, Alone, TypeOK
  <2>2. Local(t)'
    BY <1>3 DEF Crash, TypeOK, Discipline, Local, HeldAt, RowReady, Grounded, Checked, Backed
  <2>3. held'[t] = {}
    BY <1>3 DEF Crash, TypeOK
  <2>4. QED
    BY <1>3, <2>1, <2>2, <2>3, OthersKeepLocal, NoNewWrites, DisciplineFromParts DEF Crash
<1>4. ASSUME NEW t \in Txns, Step(t) PROVE Discipline'
  <2>1. Local(t)
    BY DEF Discipline, Local
  <2>2. CASE Refuse(t)
    <3>1. Alone(t) /\ Local(t)' /\ UNCHANGED tables /\ held'[t] = {}
      BY <2>1, <2>2 DEF Refuse, Fail, Alone, TypeOK, Local, HeldAt, RowReady,
         Grounded, Checked, Backed, CheckAnswer, SessionAnswer
    <3>2. QED
      BY <3>1, OthersKeepLocal, NoNewWrites, DisciplineFromParts
  <2>3. CASE Accept(t)
    <3>1. Alone(t) /\ UNCHANGED tables /\ held'[t] = {}
      BY <2>1, <2>3 DEF Accept, Alone, TypeOK, Local, HeldAt
    <3>2. req[t].op = "view" \/ req[t].amount \in Amounts
      BY <2>3, ReqIsCall, CheckedAmount DEF Accept
    <3>3. Local(t)'
      BY <2>1, <2>3, <3>1, <3>2 DEF Accept, TypeOK, Local, HeldAt, RowReady,
         Grounded, Checked, Backed
    <3>4. QED
      BY <3>1, <3>3, OthersKeepLocal, NoNewWrites, DisciplineFromParts
  <2>4. CASE EnsureWallet(t)
    <3>1. Alone(t) /\ UNCHANGED tables /\ held'[t] \subseteq {"wallet"} /\ req'[t] = req[t]
      BY <2>1, <2>4 DEF EnsureWallet, Alone, TypeOK, Local, HeldAt
    <3>3. Local(t)'
      BY <2>1, <2>4, <3>1, ReqIsCall DEF EnsureWallet, Calls, Operations,
         TypeOK, Local, HeldAt, RowReady, RowVisible, Grounded, Checked, Backed, Us,
         RowsOf, Covers
    <3>4. QED
      BY <3>1, <3>3, OthersKeepLocal, NoNewWrites, DisciplineFromParts
  <2>5. CASE InsertEntry(t)
    <3>1. Alone(t) /\ UNCHANGED tables /\ req'[t] = req[t]
          /\ held'[t] = held[t] \union {"entry"}
      BY <2>1, <2>5 DEF InsertEntry, Alone, TypeOK
    <3>2. EntryOf(req[t]) \in Abstract!Entries
      BY <2>1, <2>5, ReqIsCall, RowIsEntry DEF InsertEntry, Local, Checked, Backed
    <3>3. Local(t)'
      BY <2>1, <2>5, <3>1, <3>2 DEF InsertEntry, TypeOK, Local, HeldAt, RowReady,
         RowVisible, Grounded, Checked, Backed, Us, RowsOf
    <3>4. ASSUME NEW o \in Txns \ {t} PROVE Exclusive(t, o)' /\ Exclusive(o, t)'
      BY <2>5, <3>1 DEF InsertEntry, Locked, Discipline, Exclusive, Alone, Us
    <3>5. QED
      BY <3>1, <3>3, <3>4, OthersKeepLocal, DisciplineFromParts
  <2>6. CASE InsertConflicts(t)
    <3>1. Alone(t) /\ UNCHANGED tables /\ held'[t] = held[t] /\ req'[t] = req[t]
      BY <2>1, <2>6 DEF InsertConflicts, Alone, TypeOK, Local, HeldAt
    <3>3. Local(t)'
      BY <2>1, <2>6, <3>1 DEF InsertConflicts,
         TypeOK, Local, HeldAt, RowReady, RowVisible, Grounded, Checked, Backed, Us,
         RowsOf, Covers
    <3>4. QED
      BY <3>1, <3>3, OthersKeepLocal, NoNewWrites, DisciplineFromParts
  <2>7. CASE Replay(t)
    <3>1. Alone(t) /\ UNCHANGED tables /\ held'[t] = held[t] /\ req'[t] = req[t]
      BY <2>1, <2>7 DEF Replay, Alone, TypeOK, Local, HeldAt
    <3>3. Local(t)'
      BY <2>1, <2>7, <3>1 DEF Replay, SamePayload, EntryOf,
         TypeOK, Local, HeldAt, RowReady, RowVisible, Grounded, Checked, Backed, Us,
         RowsOf, Covers
    <3>4. QED
      BY <3>1, <3>3, OthersKeepLocal, NoNewWrites, DisciplineFromParts
  <2>8. CASE ReplayMismatch(t)
    <3>1. Alone(t) /\ UNCHANGED tables /\ held'[t] = held[t] /\ req'[t] = req[t]
      BY <2>1, <2>8 DEF ReplayMismatch, Fail, Alone, TypeOK, Local, HeldAt
    <3>3. Local(t)'
      BY <2>1, <2>8, <3>1 DEF ReplayMismatch, Fail,
         TypeOK, Local, HeldAt, RowReady, RowVisible, Grounded, Checked, Backed, Us,
         RowsOf, Covers
    <3>4. QED
      BY <3>1, <3>3, OthersKeepLocal, NoNewWrites, DisciplineFromParts
  <2>9. CASE UpdateBalance(t)
    <3>1. Alone(t) /\ UNCHANGED tables /\ req'[t] = req[t]
          /\ held'[t] = held[t] \union {"balance"}
      BY <2>1, <2>9 DEF UpdateBalance, Alone, TypeOK
    <3>2. Local(t)'
      BY <2>1, <2>9, <3>1 DEF UpdateBalance, TypeOK, Local, HeldAt, RowReady,
         RowVisible, Grounded, Checked, Backed, Us, RowsOf
    <3>3. ASSUME NEW o \in Txns \ {t} PROVE Exclusive(t, o)' /\ Exclusive(o, t)'
      BY <2>9, <3>1 DEF UpdateBalance, Locked, Discipline, Exclusive, Alone, Us
    <3>4. QED
      BY <3>1, <3>2, <3>3, OthersKeepLocal, DisciplineFromParts
  <2>10. CASE Insufficient(t)
    <3>1. Alone(t) /\ UNCHANGED tables /\ held'[t] = held[t] /\ req'[t] = req[t]
      BY <2>1, <2>10 DEF Insufficient, Fail, Alone, TypeOK, Local, HeldAt
    <3>3. Local(t)'
      BY <2>1, <2>10, <3>1 DEF Insufficient, Fail,
         TypeOK, Local, HeldAt, RowReady, RowVisible, Grounded, Checked, Backed, Us,
         RowsOf, Covers
    <3>4. QED
      BY <3>1, <3>3, OthersKeepLocal, NoNewWrites, DisciplineFromParts
  <2>11. CASE RecordAudit(t)
    <3>1. Alone(t) /\ UNCHANGED tables /\ req'[t] = req[t]
          /\ held'[t] = held[t] \union {"audit"}
      BY <2>1, <2>11 DEF RecordAudit, Alone, TypeOK
    <3>2. Local(t)'
      BY <2>1, <2>11, <3>1 DEF RecordAudit, TypeOK, Local, HeldAt, RowReady,
         RowVisible, Grounded, Checked, Backed, Us, RowsOf
    <3>3. QED
      BY <3>1, <3>2, OthersKeepLocal, NoNewWrites, DisciplineFromParts
  <2>12. CASE ReadBalance(t)
    <3>1. Alone(t) /\ UNCHANGED tables /\ held'[t] = held[t] /\ req'[t] = req[t]
      BY <2>1, <2>12 DEF ReadBalance, Alone, TypeOK, Local, HeldAt
    <3>3. Local(t)'
      BY <2>1, <2>12, <3>1 DEF ReadBalance,
         TypeOK, Local, HeldAt, RowReady, RowVisible, Grounded, Checked, Backed, Us,
         RowsOf, Covers
    <3>4. QED
      BY <3>1, <3>3, OthersKeepLocal, NoNewWrites, DisciplineFromParts
  <2>13. CASE ReadEntries(t)
    <3>1. Alone(t) /\ UNCHANGED tables /\ held'[t] = held[t] /\ req'[t] = req[t]
      BY <2>1, <2>13 DEF ReadEntries, Alone, TypeOK, Local, HeldAt
    <3>2. pc[t] = "read_txs" /\ pc'[t] = "commit" /\ answer'[t] = "view"
      BY <2>13 DEF ReadEntries, TypeOK
    <3>3. Local(t)'
      <4>1. HeldAt(t)' /\ Checked(t)' /\ held[t] \subseteq {"wallet"}
        BY <2>1, <3>1, <3>2 DEF Local, HeldAt, Checked
      <4>2. RowReady(t)'
        BY <2>1, <3>1, <3>2 DEF Local, RowReady, RowVisible
      <4>3. Grounded(t)'
        BY <3>1, <4>1 DEF Grounded
      <4>4. Backed(t)'
        BY <3>1, <3>2 DEF Backed
      <4>5. QED
        BY <4>1, <4>2, <4>3, <4>4 DEF Local
    <3>4. QED
      BY <3>1, <3>3, OthersKeepLocal, NoNewWrites, DisciplineFromParts
  <2>14. CASE Commit(t)
    <3>1. Alone(t) /\ held'[t] = {} /\ req'[t] = req[t]
      BY <2>14 DEF Commit, Alone, TypeOK
    <3>2. answer[t] = "applied" => "entry" \in held[t]
      BY <2>1, <2>14 DEF Commit, Local, Backed
    <3>3. ledger \subseteq ledger' /\ ("entry" \in held[t] => EntryOf(req[t]) \in ledger')
      BY <2>14 DEF Commit
    <3>4. Backed(t)'
      BY <2>1, <2>14, <3>1, <3>2, <3>3 DEF Commit, TypeOK, Local, Backed, RowsOf, Us
    <3>5. Local(t)'
      BY <2>1, <2>14, <3>1, <3>4 DEF Commit, TypeOK, Local, HeldAt, RowReady,
         Grounded, Checked
    <3>6. QED
      BY <2>14, <3>1, <3>5, CommitKeepsOthers, NoNewWrites, DisciplineFromParts
  <2>15. CASE Rollback(t)
    <3>1. Alone(t) /\ UNCHANGED tables /\ held'[t] = {}
      BY <2>1, <2>15 DEF Rollback, Alone, TypeOK, Local, HeldAt
    <3>3. Local(t)'
      BY <2>1, <2>15, <3>1 DEF Rollback,
         TypeOK, Local, HeldAt, RowReady, RowVisible, Grounded, Checked, Backed, Us,
         RowsOf, Covers
    <3>4. QED
      BY <3>1, <3>3, OthersKeepLocal, NoNewWrites, DisciplineFromParts
  <2>16. CASE Finish(t)
    <3>1. Alone(t) /\ UNCHANGED tables /\ held'[t] = {}
      BY <2>1, <2>16 DEF Finish, Alone, TypeOK, Local, HeldAt
    <3>3. Local(t)'
      BY <2>1, <2>16, <3>1 DEF Finish,
         TypeOK, Local, HeldAt, RowReady, RowVisible, Grounded, Checked, Backed, Us,
         RowsOf, Covers
    <3>4. QED
      BY <3>1, <3>3, OthersKeepLocal, NoNewWrites, DisciplineFromParts
  <2>17. QED
    BY <1>4, <2>2, <2>3, <2>4, <2>5, <2>6, <2>7, <2>8, <2>9, <2>10, <2>11, <2>12,
       <2>13, <2>14, <2>15, <2>16 DEF Step
<1>5. QED
  BY <1>1, <1>2, <1>3, <1>4 DEF Next

-----------------------------------------------------------------------------
(* Every step of the wallet is a Post of the abstract ledger or leaves it  *)
(* alone.                                                                  *)
LEMMA StepPosts ==
    ASSUME TypeOK, Discipline, [Next]_vars
    PROVE  \/ \E t \in Txns : CommitPosts(t)
           \/ UNCHANGED <<balance, ledger, audits>> /\ provisioned \subseteq provisioned'
<1> USE DEF tables
<1>1. CASE UNCHANGED vars
  BY <1>1 DEF vars
<1>2. ASSUME NEW t \in Txns, NEW r \in Requests, Begin(t, r) PROVE UNCHANGED tables
  BY <1>2 DEF Begin
<1>3. ASSUME NEW t \in Txns, Crash(t) PROVE UNCHANGED tables
  BY <1>3 DEF Crash
<1>4. ASSUME NEW t \in Txns, Step(t)
      PROVE  UNCHANGED tables \/ CommitPosts(t) \/ CommitWritesNoEntry(t)
  <2>1. CASE Commit(t)
    BY <2>1, CommitEffect
  <2>2. CASE ~Commit(t)
    BY <1>4, <2>2 DEF Step, Refuse, Accept, EnsureWallet, InsertEntry,
       InsertConflicts, Replay, ReplayMismatch, UpdateBalance, Insufficient,
       RecordAudit, ReadBalance, ReadEntries, Rollback, Finish, Fail
  <2>3. QED
    BY <2>1, <2>2
<1>5. QED
  BY <1>1, <1>2, <1>3, <1>4 DEF Next, CommitWritesNoEntry

(* No transaction holds a lock before the first call.                      *)
LEMMA InitDiscipline == Init => Discipline
  BY DEF Init, Discipline, HeldAt, RowReady, RowVisible, Grounded, Checked, Backed,
     Exclusive

(* The types and the locking discipline hold in every reachable state.     *)
THEOREM TypeCorrect == Spec => [](TypeOK /\ Discipline)
<1>1. Init => TypeOK /\ Discipline
  BY InitType, InitDiscipline
<1>2. TypeOK /\ Discipline /\ [Next]_vars => (TypeOK /\ Discipline)'
  BY NextType, NextDiscipline
<1>3. QED
  BY <1>1, <1>2, PTL DEF Spec

-----------------------------------------------------------------------------
(* The new entry joins the entries of its user and kind and no others.     *)
LEMMA PostedAfterPost ==
    ASSUME NEW e \in Abstract!Entries, ledger' = ledger \union {e},
           NEW u \in Users, NEW kind \in {"debit", "credit"}
    PROVE  Abstract!Posted(u, kind)' =
               IF e.user = u /\ e.kind = kind
               THEN Abstract!Posted(u, kind) \union {e}
               ELSE Abstract!Posted(u, kind)
  BY DEF Abstract!Posted

(* A post adds its amount to the one sum it belongs to.                    *)
LEMMA SumAfterPost ==
    ASSUME TypeOK, FiniteUnits, NEW e \in Abstract!Entries, Abstract!Post(e),
           NEW u \in Users, NEW kind \in {"debit", "credit"}
    PROVE  /\ IsFiniteSet(Abstract!Units(Abstract!Posted(u, kind)))'
           /\ Sum(u, kind)' = Sum(u, kind)
                 + (IF e.user = u /\ e.kind = kind THEN e.amount ELSE 0)
           /\ Sum(u, kind) \in Nat
<1>1. ledger' = ledger \union {e} /\ e \notin Abstract!Posted(u, kind)
  BY DEF Abstract!Post, Abstract!KeyPosted, Abstract!Posted
<1>2. IsFiniteSet(Abstract!Units(Abstract!Posted(u, kind)))
  BY DEF FiniteUnits
<1>3. Sum(u, kind) \in Nat
  BY <1>2, FS_CardinalityType DEF Sum
<1>4. CASE e.user = u /\ e.kind = kind
  <2>1. Abstract!Posted(u, kind)' = Abstract!Posted(u, kind) \union {e}
    BY <1>1, <1>4, PostedAfterPost
  <2>2. e.amount \in Nat
    BY RowDelta
  <2>3. /\ IsFiniteSet(Abstract!Units(Abstract!Posted(u, kind) \union {e}))
        /\ Cardinality(Abstract!Units(Abstract!Posted(u, kind) \union {e}))
             = Cardinality(Abstract!Units(Abstract!Posted(u, kind))) + e.amount
    BY <1>1, <1>2, <2>2, UnitsOfOneMore
  <2>4. Abstract!Units(Abstract!Posted(u, kind))'
            = Abstract!Units(Abstract!Posted(u, kind) \union {e})
    BY <2>1 DEF Abstract!Units
  <2>5. QED
    BY <1>3, <1>4, <2>3, <2>4 DEF Sum
<1>5. CASE ~(e.user = u /\ e.kind = kind)
  <2>1. Abstract!Posted(u, kind)' = Abstract!Posted(u, kind)
    BY <1>1, <1>5, PostedAfterPost
  <2>2. Abstract!Units(Abstract!Posted(u, kind))' = Abstract!Units(Abstract!Posted(u, kind))
    BY <2>1 DEF Abstract!Units
  <2>3. QED
    BY <1>2, <1>3, <1>5, <2>2 DEF Sum
<1>6. QED
  BY <1>4, <1>5

(* A Post of the ledger with its audit event keeps the invariant of the    *)
(* tables.                                                                 *)
LEMMA PostKeepsTables ==
    ASSUME TypeOK, TableInv, NEW t \in Txns, CommitPosts(t)
    PROVE  TableInv'
<1> DEFINE e == EntryOf(req[t])
<1>1. /\ e \in Abstract!Entries /\ Abstract!Post(e) /\ e.user \in provisioned'
      /\ audits' = audits \union {e} /\ provisioned \subseteq provisioned'
  BY DEF CommitPosts
<1>2. /\ e.amount \in Nat /\ e.user \in Users /\ e.kind \in {"debit", "credit"}
      /\ e.kind = "credit" => Abstract!Delta(e) = e.amount
      /\ e.kind = "debit" => Abstract!Delta(e) = 0 - e.amount
  BY <1>1, RowDelta
<1> HIDE DEF e
<1>3. /\ ledger' = ledger \union {e}
      /\ \A f \in ledger : ~(f.user = e.user /\ f.key = e.key)
      /\ e.kind = "debit" => balance[e.user] >= e.amount
      /\ balance' = [balance EXCEPT ![e.user] = @ + Abstract!Delta(e)]
  BY <1>1 DEF Abstract!Post, Abstract!KeyPosted
<1>4. NeverOverdrawn'
  BY <1>2, <1>3 DEF TypeOK, TableInv, NeverOverdrawn, Abstract!NeverOverdrawn
<1>5. KeyPostedOnce'
  BY <1>3 DEF TableInv, KeyPostedOnce, Abstract!KeyPostedOnce
<1>6. PostingIsWhole'
  BY <1>1, <1>3 DEF TableInv, PostingIsWhole
<1>7. FiniteUnits'
  BY <1>1, SumAfterPost DEF TableInv, FiniteUnits
<1>8. Conservation'
  <2> SUFFICES ASSUME NEW u \in Users
               PROVE  balance'[u] + Sum(u, "debit")' = Sum(u, "credit")'
    BY DEF Conservation
  <2>1. balance[u] + Sum(u, "debit") = Sum(u, "credit")
    BY DEF TableInv, Conservation
  <2>2. /\ Sum(u, "debit")' = Sum(u, "debit")
             + (IF e.user = u /\ e.kind = "debit" THEN e.amount ELSE 0)
        /\ Sum(u, "credit")' = Sum(u, "credit")
             + (IF e.user = u /\ e.kind = "credit" THEN e.amount ELSE 0)
        /\ Sum(u, "debit") \in Nat /\ Sum(u, "credit") \in Nat
    BY <1>1, SumAfterPost DEF TableInv
  <2>3. /\ balance'[u] = IF u = e.user THEN balance[u] + Abstract!Delta(e) ELSE balance[u]
        /\ balance[u] \in Int
    BY <1>2, <1>3 DEF TypeOK
  <2>4. QED
    BY <1>2, <2>1, <2>2, <2>3
<1>9. QED
  BY <1>4, <1>5, <1>6, <1>7, <1>8 DEF TableInv

(* The invariant of the tables depends on the tables only.                 *)
LEMMA SameTables ==
    ASSUME TableInv, UNCHANGED <<balance, ledger, audits>>, provisioned \subseteq provisioned'
    PROVE  TableInv'
  BY DEF TableInv, NeverOverdrawn, KeyPostedOnce, PostingIsWhole, FiniteUnits, Conservation,
     Abstract!NeverOverdrawn, Abstract!KeyPostedOnce, Sum,
     Abstract!Posted, Abstract!Units

(* Empty tables satisfy their invariant: all sums are zero.                *)
LEMMA InitTables == Init => TableInv
<1> SUFFICES ASSUME Init PROVE TableInv
  OBVIOUS
<1>1. \A u, kind : Abstract!Units(Abstract!Posted(u, kind)) = {}
  BY DEF Init, Abstract!Posted, Abstract!Units
<1>2. FiniteUnits
  BY <1>1, FS_EmptySet DEF FiniteUnits
<1>3. \A u \in Users : Sum(u, "debit") = 0 /\ Sum(u, "credit") = 0 /\ balance[u] = 0
  BY <1>1, FS_EmptySet DEF Init, Sum
<1>4. \A u \in Users : balance[u] + Sum(u, "debit") = Sum(u, "credit")
  BY <1>3
<1>5. Conservation
  BY <1>4 DEF Conservation
<1>6. QED
  BY <1>2, <1>5 DEF Init, TableInv, NeverOverdrawn, KeyPostedOnce, PostingIsWhole,
     Abstract!NeverOverdrawn, Abstract!KeyPostedOnce

(* The inductive invariant holds in every reachable state of the wallet.   *)
THEOREM Invariance == Spec => []IInv
<1>1. Init => IInv
  BY InitType, InitDiscipline, InitTables DEF IInv
<1>2. IInv /\ [Next]_vars => IInv'
  BY NextType, NextDiscipline, StepPosts, PostKeepsTables, SameTables DEF IInv
<1>3. QED
  BY <1>1, <1>2, PTL DEF Spec

(* The promises, for every number of users, keys and transactions.         *)
THEOREM TypesHold == Spec => []TypeOK
  BY Invariance, PTL DEF IInv

(* No interleaving of consume and grant creates or loses a credit.         *)
THEOREM CreditsConserved == Spec => []Conservation
  BY Invariance, PTL DEF IInv, TableInv

(* consume never overdraws, however many debits race.                      *)
THEOREM BalanceNeverNegative == Spec => []NeverOverdrawn
  BY Invariance, PTL DEF IInv, TableInv

(* An idempotency key is posted at most once per user.                     *)
THEOREM KeyTakesEffectOnce == Spec => []KeyPostedOnce
  BY Invariance, PTL DEF IInv, TableInv

(* Entry, balance, audit event and wallets row appear together.            *)
THEOREM PostingsAreWhole == Spec => []PostingIsWhole
  BY Invariance, PTL DEF IInv, TableInv

(* A success answer of consume or grant is backed by a committed entry.    *)
THEOREM AnswersAreHonest == Spec => []AnswerHonest
<1>1. IInv => AnswerHonest
  <2> SUFFICES ASSUME IInv, NEW t \in Txns, pc[t] = "done",
                      answer[t] \in {"applied", "replay"}
               PROVE  \E e \in RowsOf(req[t].user, req[t].key) :
                         /\ e.kind = "debit" <=> req[t].op = "consume"
                         /\ e.amount = req[t].amount
    BY DEF AnswerHonest
  <2>1. Backed(t)
    BY DEF IInv, Discipline
  <2>2. CASE answer[t] = "applied"
    BY <2>1, <2>2 DEF Backed, EntryOf, RowsOf
  <2>3. CASE answer[t] = "replay"
    BY <2>1, <2>3 DEF Backed, EntryOf, Us
  <2>4. QED
    BY <2>2, <2>3
<1>2. QED
  BY <1>1, Invariance, PTL

-----------------------------------------------------------------------------
(* The entries of S add up to b.                                           *)
Explains(S, b) ==
    b = Cardinality(Abstract!Units({e \in S : e.kind = "credit"}))
          - Cardinality(Abstract!Units({e \in S : e.kind = "debit"}))

Mine(t) == {e \in ledger : e.user = req[t].user}

(* A balance that was read is explained by entries of its user; they are   *)
(* still there when the list is read, and a list that is not full holds    *)
(* all there are.                                                          *)
ViewBacked(t) ==
    /\ pc[t] = "read_txs" =>
            \E S \in SUBSET Mine(t) : Explains(S, view[t].balance)
    /\ answer[t] = "view" =>
            /\ pc[t] \in {"commit", "done"}
            /\ Cardinality(view[t].listed) < LastN =>
                  \E S \in SUBSET view[t].listed : Explains(S, view[t].balance)

(* A step that does not touch the view, and leaves neither of the two      *)
(* places it matters at.                                                   *)
LEMMA SameView ==
    ASSUME NEW t \in Txns, ViewBacked(t), req'[t] = req[t], view'[t] = view[t],
           ledger \subseteq ledger',
           pc'[t] = "read_txs" => pc[t] = "read_txs",
           answer'[t] = "view" => answer[t] = "view" /\ pc'[t] \in {"commit", "done"}
    PROVE  ViewBacked(t)'
  BY DEF ViewBacked, Mine

(* The balance read is what the ledger of its user adds up to.             *)
LEMMA BalanceExplained ==
    ASSUME TypeOK, TableInv, NEW t \in Txns
    PROVE  Explains(Mine(t), balance[req[t].user])
<1>1. req[t].user \in Users /\ balance[req[t].user] \in Int
  BY ReqIsCall DEF TypeOK, Calls
<1>2. /\ {e \in Mine(t) : e.kind = "credit"} = Abstract!Posted(req[t].user, "credit")
      /\ {e \in Mine(t) : e.kind = "debit"} = Abstract!Posted(req[t].user, "debit")
  BY DEF Mine, Abstract!Posted
<1>3. balance[req[t].user] + Sum(req[t].user, "debit") = Sum(req[t].user, "credit")
  BY <1>1 DEF TableInv, Conservation
<1>4. Sum(req[t].user, "debit") \in Nat /\ Sum(req[t].user, "credit") \in Nat
  BY <1>1, FS_CardinalityType DEF TableInv, FiniteUnits, Sum
<1>5. /\ Cardinality(Abstract!Units({e \in Mine(t) : e.kind = "credit"}))
             = Sum(req[t].user, "credit")
      /\ Cardinality(Abstract!Units({e \in Mine(t) : e.kind = "debit"}))
             = Sum(req[t].user, "debit")
  BY <1>2, Zenon DEF Sum
<1>6. balance[req[t].user] = Sum(req[t].user, "credit") - Sum(req[t].user, "debit")
  BY <1>1, <1>3, <1>4
<1>7. QED
  BY <1>5, <1>6, Zenon DEF Explains

(* No statement, commit or crash takes the explanation from a view.        *)
LEMMA NextViews ==
    ASSUME IInv, \A t \in Txns : ViewBacked(t), [Next]_vars
    PROVE  \A t \in Txns : ViewBacked(t)'
<1> USE DEF Goto
<1>0. TypeOK /\ Discipline /\ TableInv
  BY DEF IInv
<1>1. ledger \subseteq ledger'
  BY <1>0, StepPosts DEF CommitPosts, Abstract!Post
<1>2. ASSUME NEW t \in Txns, NEW o \in Txns \ {t},
             \/ Step(t) \/ Crash(t) \/ \E r \in Requests : Begin(t, r)
      PROVE  ViewBacked(o)'
  <2>1. /\ pc'[o] = pc[o] /\ req'[o] = req[o]
        /\ answer'[o] = answer[o] /\ view'[o] = view[o]
    BY <1>0, <1>2 DEF TypeOK, Step, Refuse, Accept, EnsureWallet, InsertEntry,
       InsertConflicts, Replay, ReplayMismatch, UpdateBalance, Insufficient,
       RecordAudit, ReadBalance, ReadEntries, Commit, Rollback, Finish, Fail, Crash, Begin
  <2>2. QED
    BY <1>1, <2>1 DEF ViewBacked, Mine
<1>3. ASSUME NEW t \in Txns, NEW r \in Requests, Begin(t, r)
      PROVE  ViewBacked(t)'
  BY <1>0, <1>3 DEF Begin, TypeOK, ViewBacked
<1>4. ASSUME NEW t \in Txns, Crash(t) \/ Finish(t)
      PROVE  ViewBacked(t)'
  BY <1>0, <1>4 DEF Crash, Finish, TypeOK, ViewBacked
<1>5. ASSUME NEW t \in Txns, ReadBalance(t)
      PROVE  ViewBacked(t)'
  <2>1. /\ pc[t] = "read_balance" /\ pc'[t] = "read_txs" /\ req'[t] = req[t]
        /\ view'[t].balance = balance[req[t].user] /\ answer'[t] = answer[t]
        /\ ledger' = ledger
    BY <1>0, <1>5 DEF ReadBalance, TypeOK, tables
  <2>2. Explains(Mine(t), view'[t].balance)
    BY <1>0, <2>1, BalanceExplained
  <2>3. QED
    BY <2>1, <2>2 DEF ViewBacked, Mine
<1>6. ASSUME NEW t \in Txns, ReadEntries(t)
      PROVE  ViewBacked(t)'
  <2>1. PICK listed \in SUBSET Mine(t) :
           /\ Cardinality(listed) = LastN \/ listed = Mine(t)
           /\ view' = [view EXCEPT ![t] = [balance |-> @.balance, listed |-> listed]]
    BY <1>6 DEF ReadEntries, Mine
  <2>2. /\ pc[t] = "read_txs" /\ pc'[t] = "commit" /\ answer'[t] = "view"
        /\ view'[t].balance = view[t].balance /\ view'[t].listed = listed
    BY <1>0, <1>6, <2>1 DEF ReadEntries, TypeOK
  <2>3. Cardinality(listed) < LastN => listed = Mine(t)
    BY <2>1, LastNAssumption
  <2>4. \E S \in SUBSET Mine(t) : Explains(S, view[t].balance)
    BY <2>2 DEF ViewBacked
  <2>5. QED
    BY <2>2, <2>3, <2>4 DEF ViewBacked
<1>7. ASSUME NEW t \in Txns, Step(t), ~ Finish(t), ~ ReadBalance(t), ~ ReadEntries(t)
      PROVE  ViewBacked(t)'
  <2>1. req'[t] = req[t] /\ view'[t] = view[t] /\ pc'[t] # "read_txs"
    BY <1>0, <1>7 DEF Step, TypeOK, Refuse, Accept, EnsureWallet, InsertEntry,
       InsertConflicts, Replay, ReplayMismatch, UpdateBalance, Insufficient,
       RecordAudit, Commit, Rollback, Fail
  <2>2. answer'[t] = "view" => answer[t] = "view" /\ pc'[t] \in {"commit", "done"}
    <3>1. answer[t] = "view" => pc[t] \in {"commit", "done"}
      BY DEF ViewBacked
    <3>2. CheckAnswer(req[t]) # "view"
      BY DEF CheckAnswer, SessionAnswer
    <3>3. QED
      BY <1>0, <1>7, <3>1, <3>2 DEF Step, TypeOK, Refuse, Accept, EnsureWallet, InsertEntry,
         InsertConflicts, Replay, ReplayMismatch, UpdateBalance, Insufficient,
         RecordAudit, Commit, Rollback, Fail
  <2>3. QED
    BY <1>1, <2>1, <2>2, SameView
<1>8. CASE UNCHANGED vars
  BY <1>8 DEF vars, ViewBacked, Mine
<1>9. ASSUME NEW t \in Txns, \/ Step(t) \/ Crash(t) \/ \E r \in Requests : Begin(t, r)
      PROVE  \A o \in Txns : ViewBacked(o)'
  <2>1. ViewBacked(t)'
    BY <1>3, <1>4, <1>5, <1>6, <1>7, <1>9
  <2>2. QED
    BY <1>2, <1>9, <2>1
<1>10. QED
  BY <1>8, <1>9 DEF Next

(* get_wallet_view never shows a balance without the entries that led to   *)
(* it, but may show entries that came after it.                            *)
THEOREM ViewsAreExplained == Spec => []ViewExplainsBalance
<1> DEFINE Backing == IInv /\ \A t \in Txns : ViewBacked(t)
<1>1. Init => Backing
  <2>1. Init => IInv
    BY InitType, InitDiscipline, InitTables DEF IInv
  <2>2. Init => \A t \in Txns : ViewBacked(t)
    BY DEF Init, ViewBacked
  <2>3. QED
    BY <2>1, <2>2
<1>2. Backing /\ [Next]_vars => Backing'
  <2>1. IInv /\ [Next]_vars => IInv'
    BY NextType, NextDiscipline, StepPosts, PostKeepsTables, SameTables DEF IInv
  <2>2. QED
    BY <2>1, NextViews
<1>3. Backing => ViewExplainsBalance
  BY DEF ViewBacked, ViewExplainsBalance, Explains
<1>4. QED
  BY <1>1, <1>2, <1>3, PTL DEF Spec

(* The statements, locks, rollbacks and crashes of the wallet implement    *)
(* the abstract ledger.                                                    *)
THEOREM WalletImplementsLedger == Spec => ImplementsLedger
<1>1. Init => Abstract!Init
  BY DEF Init, Abstract!Init
<1>2. IInv /\ [Next]_vars => [Abstract!Next]_<<balance, ledger>>
  BY StepPosts DEF IInv, CommitPosts, Abstract!Next
<1>3. QED
  BY <1>1, <1>2, Invariance, PTL DEF Spec, ImplementsLedger, Abstract!Spec
=============================================================================
