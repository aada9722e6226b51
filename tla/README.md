# Formal models of the chat backend

This directory holds TLA+ models of the backend under `src/src/app` (a FastAPI
service over PostgreSQL, Redis and two LLM providers), the TLC configurations
that check them on small instances, and theorems about them that TLAPS checks.
Paths below are relative to `src/src/app` unless they start with `docs/` or
`tests/`.

* `PROJECT.json` lists the components, the runs, what each definition was
  translated from, the hazards of the code and the properties that watch them.
* Check a model with `tlc -config Wallet.cfg MCWallet`, a proof with
  `tlapm WalletProofs.tla`.

## 1. The system

### Components

| Component | State | Operations | What makes it correct | Modelled |
|---|---|---|---|---|
| **wallet-ledger** (`wallet/service.py`) | `wallets.balance`, `ledger_transactions` (unique user + key), audit rows | `consume`, `grant`, `get_wallet_view`, each in a database transaction | balance = credits - debits; never negative; a key posts once; a success answer is backed by an entry | yes, proved |
| **policy-engine** (`policy/`) | none of its own; reads user, subscription, wallet, byok key | `evaluate`, `effective`, lazy expiry | every allowed generation has a way to be paid for; what the client is told is what will happen | yes, proved |
| **chat-orchestrator** (`chat/orchestrator.py`, `repository.py`) | `chat_sessions`, `chat_steps` (ordered by `seq`), `tool_calls` | `run`, `tool_result`, the generate loop, edit and regenerate | a turn is answered once and paid once, never hangs, never sends a history without the results of its calls | control flow, proved |
| **temporary chats** (`chat/ephemeral_repository.py`) | memory of one request | as the chat repository | nothing outlives the request but its debits and images | yes |
| **images** (`chat/image_sweep.py`, `api_gateway/routers/images.py`, part of the orchestrator) | `generated_images`, a Redis key | generate, debit and insert, fetch, delete, sweep | an image is stored exactly when it is paid for and kept as long as promised | yes, proved |
| **chats**, **workspaces** | sessions, workspaces, `workspace_files` | delete, rename, rebind; upload under limits | deletion is complete, references are live, limits | without the views and the text extraction, proved |
| **website-builder** (`website/`) | `projects`, `site_files` | `site.*` tools inside the transaction of a round | limits, unique paths | the writing tools, proved |
| **auth** (`auth/service.py`) | users, devices, identities, refresh tokens | register, Apple sign-in, refresh, revoke chain | one user per device and per Apple account; a request that comes after the exchange of its token gets no pair | yes, proved |
| **byok** (`byok/service.py`) | one encrypted key per user, status, enabled | `set_key`, `toggle`, `delete_key`, `mark_invalid`, `mark_expired` | the columns of a key row belong together | yes, proved |
| **subscription**, **token-purchase**, **billing-adapty**, **billing-cloudpayments**, **admin** | one `subscriptions` row per user, delivery records; credits through the wallet | StoreKit sync and purchase, two webhooks, operator grants | each payment grants once, together with its access; no delivery is lost | yes, without checkout and HTTP, proved |
| **api-gateway** (`rate_limit.py`, `deps.py`) | sliding windows in Redis | `enforce_*_limits`, authentication | a window lets more through than its limit only by requests that were overtaken | the windows (proved), authentication |
| **audit** | audit rows | `record` | audit rows share the fate of what they record | for postings |
| **LLM clients, tools** | none | provider calls | | as the ways a call can end |
| **preferences, profile, catalogues, observability** | single rows; none | | | no |

Interaction. The routers open one database session per request
(`db.py: session_scope`: commit on return, rollback on an exception). The
orchestrator asks the policy whether a message may be generated, stores the
step, **commits before it calls the provider**, and opens a new transaction for
what comes back; the final answer is committed together with
`wallet.consume(key = message_step_id)` or the flip of `users.trial_used`. The
tools the server executes (images, websites) run in the transaction of their
round. All payment channels end in `wallet.grant` with a key derived from the
payment. There is no scheduler and no lock besides those of PostgreSQL at READ
COMMITTED: requests of one user or one session interleave at every `await`.

What is hard here: two requests deciding on data the other has not committed;
the provider call between the decision and the billing; retries by clients and
redeliveries of webhooks; crashes between the commits of one turn; deletions
under a running request; limits that are checked before the insert; an ORM that
sends only the columns it believes have changed; and the unique indexes,
conditional `UPDATE`s and one `populate_existing` on which everything rests.
`hazards` in `PROJECT.json` names each place.

### Module map

| Module | Models | Run by |
|---|---|---|
| `Ledger` | the abstract promise of the wallet: `Post(e)`, at most once per key, never overdrawn | refined by `Wallet` and by `Billing` |
| `Wallet` | the wallet service statement by statement | `MCWallet` |
| `Policy` | policy and billing plan, pure operators | used by `ChatTurn` and `Chats` |
| `ChatTurn` | the turns of one session: requests, barrier, continuation, provider call, billing | `MCChatTurn` |
| `BillingParsers` | recognition of Adapty events, of callbacks, payments and StoreKit transactions, pure operators | used by `Billing` |
| `Billing` | all ways credits and subscriptions come in, over one clock and one database | `MCBilling` |
| `Accounts` | devices, Apple accounts, refresh tokens | through `Credentials` |
| `Byok` | the key of a user; extends `Accounts` | through `Credentials` |
| `Credentials` | `Accounts` and `Byok` behind the same handlers | `MCCredentials` |
| `Throttle` | clock and request limits | through `Service` |
| `Files` | workspace files and website files, with their limits; extends `Throttle` | through `Service` |
| `Images` | debits, images, sweep; extends `Files` | through `Service` |
| `Chats` | all chats of a user; extends `Images`, `Policy` | through `Service` |
| `Service` | the composition: limits, then chats, with chats, images and workspaces managed meanwhile | `MCService` |
| `Totals` | laws of the sum `Total` of `Throttle` and of `Max` and `Min`, as theorems | used by `ServiceProofs` |
| `WalletProofs`, `PolicyProofs`, `ChatTurnProofs`, `BillingProofs`, `CredentialsProofs`, `ByokProofs`, `ServiceProofs` | theorems about the module of that name (`ByokProofs`: `Byok` as `Credentials` runs it) | TLAPS |

How they fit together. `Wallet` shows the wallet to be atomic; `ChatTurn`,
`Billing`, `Images` and `Chats` therefore use it as `Ledger` promises it (one
posting per key, never below zero, the row locked until the end of the
transaction), so that the interleavings inside a wallet call are explored once.
`Billing` in turn is checked to implement `Ledger` (`IsLedger`: `INSTANCE Ledger`
with the entries the billing calls can post): whatever the channels do together,
the books see one posting at a time and no key twice. `ChatTurn` looks at one
session through a magnifying glass (statements of `tool_result`, batches,
barrier); `Chats` is coarser inside a result and looks at what `ChatTurn`
leaves alone: several sessions and turns, truncation, deletion, expiry,
temporary chats, tools of the server.

## 2. The models

In every module a request is a record that says at which statement it is and
what it has written but not committed; what is written is locked, and the other
requests wait for it exactly where the statement of the code would. An action is
one statement, or several that no other request can tell apart. At any place a
request may fail (`Fail`, `FailAuth`, `FailByok`, `Abort`, `Crash`): that is an
exception, a lost connection or a crash of the process, and the transaction is
rolled back.

### Wallet

The database is split into what is committed (`provisioned`, `balance`,
`ledger`, `audits`) and what each transaction holds (`held[t]`), which is both
its uncommitted writes and its row locks. `pc[t]` is the next SQL statement of
the call `req[t]`. PostgreSQL is modelled by what the code relies on: an insert
with ON CONFLICT waits for an uncommitted row of the same key and then sees its
outcome; an UPDATE waits for the row lock and evaluates its WHERE clause on the
committed row; a commit publishes all writes and releases all locks. `Begin` may
start any call of `Requests` again and again, which is a retry after a lost
answer; `Crash` may strike before or after the commit.

The CHECK `balance >= 0` is not modelled; `NeverOverdrawn` shows that it never
fires. The two reads of `get_wallet_view` are two statements with a snapshot
each. The list is ordered by `created_at`, the start of the entry's transaction
and not its commit, so which entries a full list omits is left open.

### Policy

`evaluate`, `_billing_plan`, `effective` and the lazy expiry over every value of
`PolicyStates`. They are separate functions in three files of the code that must
agree; the theorems of `PolicyProofs` say on what.

### ChatTurn

One session, its turns and the requests that work on them. Requests are at one
of the places `apply` (results of the batch are being applied), `barrier`,
`open`/`closed` (what the read of the barrier found) and `llm` (the provider
call, no transaction open). The transaction of `tool_result` is split at every
point where another request can change what it sees. The short transactions
after a provider call are one action each, with all they write: the step, the
calls and their server-side results, the billing.

The provider answers with a final text (`Finalize`, `FinalizeUnpaid`), a
truncated one (`Truncate`), tool calls the client must execute, possibly with
some the backend executes (`HandOff`), server-side calls only (`NextRound`,
`RoundsExceeded`), a rejected own key (`KeyRejected`), or an error
(`ProviderFails`). `AccountChanges` is the rest of the world: another chat
spends a credit, the period ends, the key is switched off. Credits are not added
during the run: additions only enable more.

`excused` and `contested` are history variables: a turn is excused when one of
its requests failed or was blocked, contested when two requests worked on it at
once or a batch mixed answered and unanswered calls. They state for which
clients a promise holds.

The client-side protocol. Since ADR-063 no client-side tool is registered in the
production catalogue; the protocol, its endpoint and its barrier are kept in
code and contract and are exercised by tests with a registered tool
(`tests/fake_client_tool.py`). The models let the provider ask for both kinds.

### BillingParsers and Billing

`BillingParsers` has the shape of the inputs: an event or a callback is a
function from the places of its JSON body to tagged values (`<<"str", x>>`,
`<<"int", x>>`, ...), because the recognition depends on which of several
places is filled and with what type. A date is an instant, letter case and
Base64 are left out. `AcceptsSignature` and `AcceptsPayload` say which checks a signed transaction
passes.

`Billing` runs six kinds of calls (`Sync`, `Purchase`, `AdminGrant`,
`AdminGrantSubscription`, `Webhook`, `Callback`). Each has the same
skeleton: recognise, record the delivery (`RecordEvent`, `TakePayment`), read
the subscription row (`ReadRow`), write it (`WriteRow` for an ORM flush, which
sends the columns that differ from what was read and fails when the row has
appeared meanwhile; `UpsertRow` for `ON CONFLICT DO UPDATE`), `Grant`, `Commit`.
Each channel derives its idempotency keys in a namespace of its own; the key of
an operator grant is whatever the operator sends (`admin/service.py:96`) and is
given a namespace, too, so that a key that imitates one of another channel is
left out.
A callback closes its transaction, asks the aggregator for the payments of the
device (`Verify`) and credits them one after the other in a transaction each.
Between the calls the world moves: `Pay`, `Relogin` (a device goes to another
user), `Tick`. The sender of a webhook delivers again as often as it likes;
`answered` holds the events that were answered as applied or duplicate.

### Accounts, Byok and Credentials

`Accounts` has a statement for each of the `text(...)` statements of
`AuthService`: what was read (`user`, `made`) and what is held (`binds`,
`touches`, `links`, `uses`, `revokes`, `issues`). `INSERT ... ON CONFLICT DO
NOTHING` waits for the row, then writes it or leaves it, and the re-read takes
the winner. `FindChain` and `RevokeChain` are the two halves of the UPDATE of a
whole chain: which rows it finds, and then each of them when nobody holds it.
A row of `refresh_tokens` also remembers which token it was exchanged for
(`parent`), whether a pair had been issued and committed for that token before
the request arrived (`again`), and which Apple account signed in; the code stores
none of them, the properties need them. Which identity tokens a verifier accepts
is `VerifyApple`; signatures are
the name of the signer.

`Byok` loads the ORM row, validates the key over the network, and flushes:
`ChangedColumns` are the columns the UPDATE sends, `Delete` removes the row, and
a generation (`Generate`, `CallProvider`) marks the key that is stored *then*
when the provider rejects the one it was using. `RevokeKey` is the owner, at the
provider. `overlapped` remembers the users whose row two writers had loaded at
the same time.

`Credentials` gives both the same handlers; only the subject of an issued access
token can touch a key (`Authenticated`).

### Throttle, Files, Images, Chats and Service

`Throttle` is the sorted set of a window (`marks`), in which a request counts
before it is decided and also when it is refused. A request asks its keys one
after the other, and each time it reads the clock first (`Ask`, `AskNext`) and
waits for Redis then: `Execute` is the MULTI of one key, with the time that was
read, whatever has been executed since. `RedisFails` lets the request through,
whichever keys are left, with the commands executed or not. The set expires a
window after it was last written (`Lapsed`). `passed` counts what was let through
while Redis answered; `late` counts those among it that had been overtaken:
when they were executed, marks younger than their own cutoff were gone
(`trimmed`).

`Files`: an upload is three places (live workspace and count; total of bytes
after the extraction of the text; insert and commit), a website write is check
and write inside a round. A file is a row and a size, so that an empty file is a
file and `NoFile` is none; a write is for the row it has read, and fails when the
path has another row, or a new one, by then (`WriteFails`). `contended` marks the
stores for which a check and another check-to-commit overlapped.

`Images`: debits and image rows carry the handler of their open transaction
(`by`) until it commits. The sweep takes its Redis key first (without Redis, it
does not run), deletes a batch of expired rows and never those without an
expiry. `sold` is what was stored and charged, `erased` what the owner deleted.

`Chats`: `Resume`, `Open`, `RunTemporary`, `EditMessage` and `ToolResult` begin
a request. An edit anchors, deletes the calls (`FindCalls`, `CutCalls`), deletes
the steps and stores the new message (`FindSteps`, `CutSteps`): two statements,
each of which finds its rows in a snapshot of its own and may wait for them
afterwards. What is committed after the snapshot is not deleted. A round stores the
tool use, runs its tools one by one (`RunTool`, `ChargeImage` and `StoreImage`,
`CheckSite` and `WriteSite`, `DeleteSite`, `LeaveToClient`) and commits all of
it (`CommitRound`); a failure on the way undoes all of it. An answer is
`Finalize`, `FinalizeUnpaid` or `Truncate`. `DeleteChat` waits for transactions
that have rows of the chat and takes steps and calls along; those that come
later fail on the foreign key (`StoreFails`). `DeadlockVictim` is PostgreSQL
ending one request of a circle of waiting ones. `answered` remembers the answers
that were given and, for each, whether its request was admitted before the first
trial answer; `torn` the sessions where a round was committed between the
snapshots of the two DELETEs of a truncation.

`Service` lets requests arrive, sends the chat requests through the limits, and
manages chats, images, workspaces and files in between.

The observation variables (`torn`, `contended`, `sold`, `erased`, `answered`,
`passed`, `late`, `trimmed`, `overlapped`, `excused`, `contested`, the fields
`again` of a token and `first` of an answer) never occur in the guard of an
action of the code.

## 3. What the runs show

| Run | Shows | Distinct states |
|---|---|---|
| `wallet` | types, conservation, no overdraft, one posting per key, whole postings, honest answers, explained views, refinement of `Ledger`, every call ends | about 26 000 |
| `chat_turn` | results stored once, the barrier, billing and the two promises to a serial client | about 205 000 |
| `chat_ends` | every request ends, including the victim and the survivor of a deadlock | about 121 000 |
| `billing` | answered deliveries are in the books; a payment is credited once and to one user; a billing period is granted once; access and credits come together; a callback leaves no payment behind; locks are taken in one order; refinement of `Ledger` | about 200 000 |
| `credentials` | rows refer to users that exist; devices and Apple accounts lead to one user; a request that comes after an exchange of its token gets no pair; the first Apple sign-in keeps the account; a key row is of one piece | about 3 266 000 |
| `service` | windows, quotas, images paid and kept, history without orphans, calls with their uses, free answers, charges | about 1 310 000 |
| `chat_stuck` | **disagreement**: two partial results, nobody continues | |
| `chat_twice` | **disagreement**: a result repeated during the continuation starts another | |
| `chat_mixed` | **disagreement**: a mixed batch is answered with an old step | |
| `credentials_apple` | **disagreement**: one user with two Apple accounts | |
| `credentials_reuse` | **disagreement**: overlapping refreshes exchange one token twice | |
| `trial_twice` | **disagreement**: three free answers for one user | |

Bounds and why they are enough.

* Wallet: two transactions at a time. Every interaction in the service is
  between two transactions and one row (a key, a wallets row); the transactions
  repeat without end, so longer histories arise from the same two. The theorems
  have no such bound. Amounts are chosen so that either debit is covered and
  both are not, that a debit and the grant share a key, and that a key returns
  with another amount. `LastN = 3` is reached by exactly the three keys, and the
  guard of `ViewExplainsBalance` leaves lists of two open.
* ChatTurn: two request handlers, one turn, two tool calls, one server-side
  round beyond the first (`MaxRounds = 1`), batches of one or two calls in both
  orders. Two calls are the least for a barrier with two parties, a deadlock of
  two batches, a mixed batch and a second round; handlers are reused, so a turn
  sees any number of requests. A run with three calls brought nothing new
  (about 3 million states).
* `chat_turn` uses the symmetry of the handlers; `chat_ends`, a liveness run,
  does not, and takes the subscriber only, since who pays does not decide
  whether a request ends.
* Billing: two transactions at a time; eight calls, chosen to meet in one row or
  one key: three events of which two announce the same period under different
  products and one expires it, a StoreKit transaction for the same user, a token
  package, two operator grants that share a key, and a
  callback over three payments of one device that may change hands (one credits
  tokens, one a subscription, one was sold as a subscription and is listed as a
  single payment). Each call is started at most twice (`MaxStarts`), which is
  a delivery and its repetition; the clock moves once (`MaxTime`), past the end
  of the period.
* Credentials: two handlers, two devices, two Apple accounts, two keys (one
  without a known prefix), at most four requests (`MaxCalls`, `MaxSignIns`) in a
  behaviour. Four requests are what the longest hazard takes: a registration,
  two exchanges that overlap, a third that comes later and is refused. Users and tokens are
  numerous enough never to run out. Symmetric in handlers, devices and Apple
  accounts. The theorems about the accounts have none of these bounds.
* Service: eleven small worlds, each a group of requests that meet in the same
  rows (`MCService`): edits and results in one chat; its deletion; chats and
  workspaces; expiry; rounds; images as time passes; trials; two chats on one
  website; a page that comes and goes; uploads; a crowd at the limits with Redis
  failing. Two handlers, two sessions, a clock that stops at 2, windows of 2 and
  limits of 2 and 1, files of 0, 1 or 2 bytes, an image and a session that live for 1; the number of
  requests of a world is the least for its longest hazard plus one. Together
  they fire every action; separately they stay small. `trial_twice` is the world
  of the trials with three handlers, the least for a second extra answer.
* `CHECK_DEADLOCK FALSE` in the chat runs, `credentials` and `service`: requests
  and turns are bounded, and when they are used up nothing is left to happen.
  `billing` and `wallet` check for deadlock.

Fairness. `Wallet` and `ChatTurn` assume strong fairness of the steps of each
running request, and of nothing else: no call has to arrive, nothing has to
crash or change. A statement that waits for a row lock is in the lock's queue
and is granted it when the holder ends, which is more than weak fairness gives
since the lock is taken and released in between; a provider call ends by an
answer or by the client's timeout. The other modules have safety properties
only; that no transactions wait for each other for ever is the safety property
`NoWaitCycle` of `Billing`, and `DeadlockVictim` resolves the circles of `Chats`,
which do occur.

## 4. What is proved

Every safety invariant of every passing run, the action property of `Billing`
and both refinements of `Ledger` are theorems of the specification, for every
value of the constants that the named assumptions allow. `PROJECT.json` pairs
each theorem with the property it states. TLC stays in charge of what is beyond
the prover (liveness under fairness, `ENABLED`) and of the small instances that
show what a property says.

### The wallet

For every number of users, keys, amounts, sessions and transactions, under the
named assumptions on the constants (`RequestsAssumption`: the calls are
well-formed and there is one; `OwnerAssumption`, `NoSessionAssumption`,
`LastNAssumption`: the types of the constants).

`WalletProofs`: `TypesHold`, `CreditsConserved`, `BalanceNeverNegative`,
`KeyTakesEffectOnce`, `PostingsAreWhole`, `AnswersAreHonest`,
`ViewsAreExplained`, and `WalletImplementsLedger`. None of the properties is
inductive as it stands: that
a commit keeps the balance non-negative depends on what the transaction read
before. The inductive invariant `IInv` adds

* `HeldAt`: what a transaction holds at each statement (so that a commit writes
  entry, balance and audit together or none of them);
* `Grounded`: what it read still holds while it has the lock: the key is free
  while its entry is held, the balance covers the debit while the row is held;
* `Exclusive`: two transactions of one user never hold the same key or balance;
* `RowReady`, `Checked`, `Backed`: the wallets row is there after
  `_ensure_wallet`, amounts are checked before the insert, and an answer of
  success is backed by what is held or committed;
* `TableInv`: the table properties themselves and that sums are over finite
  sets.

`NextDiscipline` shows that every statement keeps the discipline,
`CommitKeepsOthers` that a commit does not disturb another transaction,
`CommitEffect` that a commit is a `Post` or no change; the table properties then
follow from `Post` alone (`PostKeepsTables`), as does the refinement
(`StepPosts`). `ViewsAreExplained` adds `ViewBacked`: once the balance is read,
entries of its user add up to it, and they are still there when the list is
read, because the ledger only grows. A sum of amounts is the cardinality of a set of units, so that
finite-set facts of the library do the arithmetic (`SumAfterPost`).

### The policy

`PolicyProofs`, for every policy state: `AllowedCreditsArePaid` (what the policy
allows, the billing plan pays for), `OwnKeyIsAnnounced`, `TrialIsAnnounced`
(what `/v1/policy/effective` says is what `/v1/chat/run` does).

### The accounts

`CredentialsProofs`, for every number of handlers, users, devices, Apple
accounts, tokens and requests, under `AccountsAssumption` (`None` is none of the
values, `sub` of an identity token names an Apple account or none, the handlers
are finitely many): `AccountsAreTyped`, `DevicesConverge`, `IdentitiesConverge`,
`RotationsOverlap`, `FirstSignInsKeepAccounts`.

The properties speak of committed refresh tokens; whether one of them is right
depends on what its transaction has read, several statements earlier, from rows
that others were writing. The inductive invariant `IInv` (theorem
`AccountsSound`) has four parts: types; `RowSound`, what a committed token says;
`JobSound`, for each open transaction, what it knows at each statement
(`PlaceSound`, `UserSound`), that a device or an identity it has inserted was
not there and still is not (`DeviceSound`, `IdentitySound`), and that the token
it inserts is new (`TokenSound`); and `Apart`, that no two transactions hold the
same row. `Apart` is what the unique indexes are for: with it a commit cannot
falsify what another transaction knows (`ElsewhereSound`, used for every
statement), and the winner of `ON CONFLICT` is the same for all.

`RotationsOverlap` says which requests can be issued a pair for a token that has
been exchanged: only those that had arrived before the exchange was committed. A
request that arrives later is marked in the model (`again`), and `RInv` follows it:
an exchanged token is marked used and stays so (`Spent`), and a late request has
yet to read that mark, or is on the path of the reuse, or has nothing to issue
(`LateSound`). That the overlapping ones do succeed is what `credentials_reuse`
shows.

`FirstSignInsKeepAccounts` follows a device through its accounts. `MayMove(d, u,
v)` says when device `d` may lead from account `u` to account `v`: they are the
same, or `u` has an Apple account already, or an Apple account has signed in both on
`d` and on another device. `FInv` says it of every committed token and the account its
device has now (`RowKept`), of every transaction and the account it has read
(`JobKept`), and that a linked Apple account has signed in. It is the composition
of two such moves that needs care: a transaction has read the account of the
device several statements before it links its own, and the device may have moved
meanwhile.

### The key of a user

`ByokProofs`: `SerialKeysAreWhole`, under `KeysAssumption` (`None` is no provider
and no row). Nothing in the code makes a key row whole: an UPDATE sends the
columns that differ from what was loaded, so that two writers can mix theirs. For
a user whose writers never overlapped, `KeyInv` says that at most one request is
between its load and its commit, that what it has loaded is what the table holds
(`seen = byok_keys`), and that the row and what it sends together make a whole
row (`Whole(Updated(...))`); `Informed` is what it knows before the load, above
all that a status `valid` comes with a provider.

### The turns of a chat

`ChatTurnProofs`, for every number of requests, turns, calls, rounds and batches:
`TurnsAreTyped`, `ResultsStoredOnce`, `ProviderSeesResults`, `EveryAnswerIsPaid`,
`TurnsChargedOnce`, and for a client that does not overlap its own requests
`SerialTurnsAnsweredOnce`, `SerialTurnsSettle`. Assumptions: the bounds are
natural numbers, a batch is not empty, the modes and accounts are those of the
policy, `NoTurn` and `NoRequest` are none.

`BaseInv` speaks of the rows and of what a request knows:

* `Numbered`, `OneResultPerCall`: `seq` counts the rows without gaps; a call has
  at most one result, written by anyone;
* `RowsLinked`, `CallsLinked`: an open row is a result its request applies now;
  done calls are those that have a committed result;
* `RequestOK`: the calls found done at a closed barrier are done or held by the
  request; while the provider is asked they are committed and in the history that
  was sent, and a plan without payment is one the mode allows.

`SerialInv` is what holds of a turn that two requests never worked on at once. A
turn may get any number of requests one after the other: repeats, retries after a
failure, a continuation. The one at work either repeats what was done before it
came (`Replays`) or brings results for calls that had none, with nothing but
results after the first of them (`Resumes`); that is what makes it find the right
step to answer with, and mixed batches are the case in between, in which the code
does answer with the wrong one. The answer of a turn follows all its results
(`AnswerIsLast`), and a turn at rest is settled unless a request failed.

### Billing

`BillingProofs`: `BillingIsTyped`, `AnsweredWebhooksAreCredited`,
`PaymentsCreditedOnce`, `PeriodsGrantedOnce`, `NobodyWaitsInACircle`,
`CallbacksReconcile`, `ActivationsAreGranted` (an action property) and
`BillingImplementsLedger`, for every number of handlers, users, calls, payments
and products. Assumptions about the requests: the caller of an authenticated
operation is a user (`RequestsAssumption`, which also types the fields of the
request); amounts, days and dates are integers (`AmountsAssumption`,
`PeriodsAssumption`); the listing of the aggregator gives a payment its own id or
none (`PaymentsAssumption`); `Absent` is a value of its own (`AbsentAssumption`,
`EntriesAssumption`). `EventIdsAssumption` is about the sender: two events with
one id are the same event. The code relies on it (the id is the primary key of
the deliveries), Adapty documents it, and without it a second event would be
dropped.

`BInv` says of every transaction, at every place, what it knows (`JobOK`):

* a callback has in hand a payment worth credits that is not recorded yet
  (`SaleOK`), and every payment it has verified is to do, in hand, or dealt with
  (`ListedOK`);
* a row that was read exists until it is written (`SeenOK`, `DraftOK`), which is
  why the columns that are sent are enough;
* an uncommitted entry is the grant of the call, and its key is free (`EntryOK`);
* a transaction that owes credits does not reach its commit without an entry or
  the knowledge that they were posted (`GrantedOK`). This is what an early return
  of the code would break, and what `ActivationsAreGranted` and
  `AnsweredWebhooksAreCredited` rest on.

`Apart` is the row locks: no two transactions hold one payment or one wallet.
`PaymentsOK` ties the recorded payments to the ledger in both directions;
`EventsOK` the recorded events. `NobodyWaitsInACircle` orders the places by how far
a transaction has come (`Rank`): what a place waits for is held only at places
further on (`WaitsGoForward`), so there is no circle of any length.

### The service

`ServiceProofs` is about the composition: requests, limits, several chats, images,
files, and everything that is managed meanwhile. Assumptions: the handlers and the
paths of a website are finitely many, the limits, costs and lifetimes are natural
numbers (`FilesAssumption`, `ImagesAssumption`, `ChatsAssumption`,
`ThrottleAssumption`), and a world (`WorldsAssumption`) asks for rounds made of
known tools with whole sizes. There is no bound on chats, turns, rounds, tools,
files or time.

* `WindowsAreBounded`: what was let through and is younger than the last time a
  window was trimmed for is still marked in it, so that the count covers it
  (`WindowInv`). Once marks of its time are gone, a window can only be passed by
  requests that had read the clock before; they are handlers that wait for Redis,
  each of which is counted once (`WaitingChecks`, `WindowKept`). Hence both bounds:
  the limit and the overtaken requests, the limit and the handlers.
* `ImagesArePaidAndKept`, `AnswersAreCharged`: an image and its debit belong to
  the same open transaction or are both committed; a stored image stays, even
  without its chat, until it expires or its owner erases it (`SalesInv`); a turn has a debit exactly
  when it has an answer on the paying plan (`ChargeInv`). `SalesStep` sorts all
  steps into the seven things that can happen to debits and images.
* `ChatsStayInOrder` is the invariant of the history, `RowsInv` (shapes) and
  `HistoryInv`; `NoResultIsOrphaned` and `CallsKeepTheirUses` are two of its
  consequences. A result stands after its use because the ids of a round are
  reserved when it starts (`RoundStarted`), no id is given twice (`IdsApart`),
  open rows belong to the round of their handler (`OpenRowsOfRound`), a truncation
  that has found its calls leaves only calls used before its anchor (`CutsWhole`),
  and the steps it has found are dropped with the results and calls that belong to
  them (`DropsWhole`). The last two fail for a chat in which a round was committed
  between the snapshots of the two DELETEs; those are the `torn` ones. `ChatEffect` sorts the steps.
* `FreeAnswersAreEarly`: the first answer on the trial sets `trial_used`, in every
  kind of chat, and whoever is on the trial plan was admitted before
  (`TrialInv`). How many requests that can be is not bounded (`trial_twice`).
* `ChatsAreTyped`: types, unique numbers and ids, chats bound to live workspaces
  only (`BindingsInv`), and a balance that is never negative. For the last the
  debits of open transactions are counted too (`FundsInv`): a debit is drawn
  under the row lock of the wallet, within what it shows.
* `QuotasAreKept`: limits that are read and not locked. A store is contended from
  the first time a check of it ran while another request was between its check
  and its commit; before, its limits hold exactly; afterwards, for ever, up to a
  slack for the other handlers, which does not grow however often they meet. For
  uploads, `Room` counts what has passed its check with what is stored. For a
  website the check sees the handler's own view of it, and which of the views
  becomes the site depends on the order of the commits. `SiteInv` therefore
  bounds every website that any choice of commits can lead to (`Mix`): it is one
  checked view and, file by file, changes of others, each of which would fit
  alone (`Own`). There a file takes one more than its bytes (`Space`), which tells
  an empty file from none. `FileSteps` sorts the steps.

Sums. `Total` is a fold over a finite set. `Totals` first shows that it satisfies
the recursive equation of a sum whatever the order of its elements (`TotalIsSum`,
`TotalRemove`), then what the proofs need: one element more, a part, a function
that is smaller everywhere, elements mapped together, a function put together
from others (`TotalComposed`), counting as a sum of ones; and that `Max` and `Min`
are greatest and least. The library states induction with an operator as parameter,
which none of its provers can instantiate, so each law is proved by its smallest
counterexample: a set of the least size for which it fails has an element without
which it holds. `WalletProofs` counts the units of the amounts instead.

### What stays with TLC

The liveness properties `EveryCallEnds` and `EveryRequestEnds`, which need
fairness and `ENABLED`. The six disagreements that have a run, which are counterexamples. And the
sizes of the models: that the guards can be satisfied, that every action fires,
and that a plausible mistake in the code breaks each property (`mutants`).

## 5. Disagreements with the documentation

1. `chat/orchestrator.py:884`: two requests that bring the last two results at
   once each see the other's call pending; both are told to wait and the turn
   stops, against `docs/modules/chat-orchestrator/02-api-contracts.md:220`. A
   client gets on by sending a result again.
2. `chat/orchestrator.py:909`: the stored continuation is found only once it is
   committed; a repeat before that generates again. The turn has two final
   answers and is charged once. `docs/adr/ADR-025...md:95` and
   `docs/modules/chat-orchestrator/03-architecture.md:383` say that the
   continuation runs once.
3. `chat/orchestrator.py:982`: the test for "already completed on entry" reads
   statuses that were refreshed after the batch was applied, so it is always
   true at a closed barrier; a batch that starts with an answered call of an
   earlier round and brings the last missing result is answered with the stored
   step of that round.
4. `auth/service.py:216` reads whether the account has an Apple identity and
   inserts the identity later; two Apple accounts that first sign in on one
   device, just registered by a third request, are both linked to its account.
   The docstring (`:169`) and `docs/adr/ADR-043...md:104` promise one
   race-safe flow.
5. `auth/service.py:307` marks a refresh token used by an UPDATE without a
   condition, after a SELECT without a lock. Refreshes of one token that overlap
   all get a pair and no reuse is detected. The docstring (`:271`),
   `docs/adr/ADR-018...md:60`, `docs/modules/auth/02-api-contracts.md:57` and
   `05-security.md:28,51` promise that a token is used once; no document accepts
   the race.
6. `chat/orchestrator.py:491` decides on the trial before the provider works, and
   line 1485 ends it with the answer: every request admitted before the first
   answer is free. `docs/100-known-tech-debt.md:16` (TD-006) and
   `docs/adr/ADR-002...md:72` accept one extra answer; three requests get two.

Two more are read in the code and have no run:

7. `wallet/service.py:133` compares type and amount of a replay, not `meta`, as
   `docs/modules/wallet-ledger/03-architecture.md:20` and
   `02-api-contracts.md:41` say it does. Harmless to the books, visible to a
   caller that reuses a key. The models leave `meta` out.
8. `billing_adapty/service.py:311` writes the expiry of an event without a
   condition; one that names none erases the stored expiry and the subscription
   never expires by time. The docstring (`:291`) and
   `docs/adr/ADR-029...md:68` say "expires_at (if present)".

What the passing runs say about the same code: none of the chat races charges
twice, stores a result twice or sends a history with a missing result of the
turn; a client that sends one request after the other, with repeats and retries
but without mixed batches, always gets exactly one answer
(`SerialTurnAnsweredOnce`, `SerialTurnNeverHangs`).

Where the code gives less than its documents say, or they say nothing, a property
states what the code does give, so that a change for the worse is noticed. That
is no claim that the rest is accepted:

* `FreeAnswersOverlap`: a trial answer goes only to a request admitted before the
  first one; TD-006 accepts one extra answer, not any number (6.).
* `RotatedWhileOverlapping`: a request that comes after an exchange gets no pair;
  overlapping ones do (5.).
* `WithinQuota`: overlapping uploads, and rounds of overlapping chats, pass a
  limit together, although `upload_file` and `write_file` say that they check it
  and nothing accepts the excess.
* `WindowBound`: `rate_limit.py:34` reads the clock before it waits for Redis, so
  that overtaken requests pass in addition to the limit.
* `SerialKeyIsWhole`: overlapping writers of a key may mix columns.
* `NoOrphanResult`, `CallsHaveUses`: a round committed between the two DELETEs of
  a truncation keeps its calls and loses its steps (`torn`).

StoreKit and Adapty credit the same purchase under keys of their own; TD-021
accepts that, and no property speaks of it.

## 6. Plan

Every module and every safety property of the plan is written, checked and
proved. What would say more:

1. Abstract specifications of the other promises, with the refinements checked
   and proved: a turn as asked, answered and charged (for `ChatTurn`, serial
   turns; for `Chats`, turns that are not torn), and a chain of refresh tokens as
   a token that moves.
2. Action properties: an answered turn stays answered until it is truncated or its
   chat deleted; a revoked token stays revoked; a window forgets only what is old.
3. The two hazards that no property covers because they lie at the border of two
   modules: history by time and by `seq`, and StoreKit and Adapty granting one
   purchase twice (TD-021).

## 7. Not modelled, and why

* `preferences`, `profile` and the catalogues: reads and writes of single rows
  of the caller; `observability`: nothing depends on it.
* Wire formats, prompts, tool schemas, attachments, dialog modes and the text of
  workspace context: they shape what the provider is sent, not which rows change.
* The views of chats and history, the rendering of previews, the texts extracted
  from uploaded files, the edit of a workspace's name: projections and text.
* Cryptography (certificate chains, JWKS, hashing, key encryption, signed URLs):
  a signature is the name of its signer, a stored key is the key.
* The checkout link and the HTTP clients of Adapty, CloudPayments and the
  providers: I/O; what they may answer is a choice of the model.
* The other rate limits: the same window under other keys.
* Audit rows other than those of the wallet, which are written in the
  transactions they describe; the check of payloads for secrets.
* The policy state is read as one state; the code reads it in four statements.
