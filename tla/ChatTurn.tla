------------------------------ MODULE ChatTurn ------------------------------
(***************************************************************************)
(* The turns of one chat session (chat/orchestrator.py over                *)
(* chat/repository.py).  A request is POST /v1/chat/run, which opens a     *)
(* turn, or POST /v1/chat/tool-result, which brings results for the        *)
(* client-side tool calls of a turn and resumes it when none is missing    *)
(* (the barrier of ADR-025).  Requests of the same session run             *)
(* concurrently and nothing serialises them but the row locks of the       *)
(* database: between a commit and the answer of the provider, and between  *)
(* two statements of a tool-result request, other requests run.            *)
(*                                                                         *)
(* A short transaction whose order with others cannot be told apart is one *)
(* action; the transaction of a tool-result request is split where it      *)
(* matters: each UPDATE of a call, the read of the barrier, the commit.    *)
(* The wallet is used as Ledger promises it: one posting per key, never    *)
(* below zero.                                                             *)
(***************************************************************************)
EXTENDS Policy, FiniteSets, Sequences

CONSTANTS
    Requests,       \* the request handlers that may run at the same time
    Turns,          \* message_step_id values, one for each turn
    MaxCalls,       \* bound: tool calls of the session
    MaxRounds,      \* max_server_tool_rounds
    Batches,        \* the lists of calls a tool-result request may name
    Sessions,       \* the modes of the session and the policy states of its
                    \* user to begin with
    NoTurn,         \* no turn
    NoRequest       \* no request: the row is committed

Calls == 1..MaxCalls
NoCall == 0

ASSUME ChatBoundsAssumption == MaxCalls \in Nat /\ MaxRounds \in Nat
ASSUME BatchesAssumption == Batches \subseteq Seq(Calls) \ {<<>>}
ASSUME SessionsAssumption == Sessions \subseteq [mode: Modes, account: PolicyStates]
ASSUME NullsAssumption == NoTurn \notin Turns /\ NoRequest \notin Requests

VARIABLES
    \* the database
    mode,           \* chat_sessions.mode, fixed when the session is created
    account,        \* what load_policy_state reads for the user
    charged,        \* charged[t]: credits debited under the key of turn t
    steps,          \* the rows of chat_steps
    turnOf,         \* turnOf[c]: tool_calls.message_step_id of call c
    serverSide,     \* the calls the backend executes itself
    completed,      \* the calls that are committed as completed or errored
    \* the requests
    pc,             \* pc[r]: where request r is
    turn,           \* turn[r]: the turn it works on
    todo,           \* todo[r]: the results of its batch still to apply
    anchor,         \* anchor[r]: the first call of its batch
    held,           \* held[r]: the calls it completed and has not committed
    plan,           \* plan[r]: how it will bill the final answer
    round,          \* round[r]: the provider calls it has made
    sent,           \* sent[r]: the calls whose result its provider call has
    known,          \* known[r]: the calls whose result it must have
    \* observation only
    excused,        \* the turns one of whose requests failed or was blocked
    contested       \* the turns two requests worked on at once, or whose
                    \* batch mixed answered and unanswered calls

rows == <<steps, turnOf, serverSide, completed>>
billing == <<account, charged>>
work == <<turn, todo, anchor, plan, round, sent, known>>
vars == <<mode, account, charged, steps, turnOf, serverSide, completed, pc,
          turn, todo, anchor, held, plan, round, sent, known, excused, contested>>

(* "llm" is the provider call, made without an open transaction.           *)
Places == {"idle", "apply", "barrier", "open", "closed", "llm"}

Plans == {"none", "debit", "trial", "free"}

StepKinds == {"user", "tool_use", "tool", "final", "truncated"}

(* A row of chat_steps.  kind splits role=assistant by what it holds; by   *)
(* is the request whose transaction wrote it and is still open; plan is    *)
(* how a final answer was billed (observation only).                       *)
StepRows ==
    [seq: Nat, turn: Turns, kind: StepKinds, call: Calls \union {NoCall},
     plan: Plans, by: Requests \union {NoRequest}]

-----------------------------------------------------------------------------
Row(s, t, kind) ==
    [seq |-> s, turn |-> t, kind |-> kind, call |-> NoCall, plan |-> "none",
     by |-> NoRequest]

(* The identity column seq: an insert takes the next number at once, long  *)
(* before its transaction commits.  Only the order of the numbers matters, *)
(* so the gaps a rollback leaves are closed.                               *)
NextSeq == Cardinality(steps) + 1

Renumbered(S) ==
    {[s EXCEPT !.seq = Cardinality({o \in S : o.seq <= s.seq})] : s \in S}

Visible(r) == {s \in steps : s.by \in {r, NoRequest}}

Existing == {c \in Calls : turnOf[c] # NoTurn}

(* The calls one answer of the provider may bring.                         *)
FreshCalls ==
    LET n == Cardinality(Existing) IN {(n + 1)..m : m \in (n + 1)..MaxCalls}

TurnCalls(t) == {c \in Calls : turnOf[c] = t}

ClientCalls(t) == TurnCalls(t) \ serverSide

IsAssistant(s) == s.kind \in {"tool_use", "final", "truncated"}

Busy(t) == {r \in Requests : pc[r] # "idle" /\ turn[r] = t}

BatchCalls(b) == {b[i] : i \in DOMAIN b}

(* Faulty: the UPDATE without its condition on the status.                 *)
CompletableAlways(r, c) == c \in Calls

(* complete_tool_call: UPDATE ... WHERE id = :id AND status = 'pending'.   *)
Completable(r, c) == c \notin completed \union held[r]

(* Another open transaction has updated the row of the call.               *)
RowLocked(r, c) == \E o \in Requests \ {r} : c \in held[o]

WaitsFor(r, o) ==
    /\ pc[r] = "apply" /\ todo[r] # <<>>
    /\ Head(todo[r]) \in held[o] /\ o # r

(* The requests of S wait for each other in cycles.                        *)
Cycle(S) ==
    \A r \in S : /\ \E o \in S : WaitsFor(r, o)
                 /\ \E o \in S : WaitsFor(o, r)

(* Faulty: its own UPDATE is hidden by the identity map.                   *)
PendingStale(r) == ClientCalls(turn[r]) \ completed

(* Faulty: only the calls of the batch are looked at.                      *)
PendingOfBatch(r) == {anchor[r]} \ (completed \union held[r])

(* The calls the barrier still waits for, read from the rows as the        *)
(* transaction sees them (populate_existing).                              *)
Pending(r) == ClientCalls(turn[r]) \ (completed \union held[r])

(* Faulty: no stored step is ever found.                                   *)
SavedNever(r) == {s \in Visible(r) : FALSE}

(* next_step_after: the assistant steps of the turn that follow the result *)
(* of the first call of the batch.                                         *)
Saved(r) ==
    {s \in Visible(r) :
        /\ s.turn = turn[r] /\ IsAssistant(s)
        /\ \E result \in Visible(r) :
              /\ result.kind = "tool" /\ result.call = anchor[r]
              /\ s.seq > result.seq}

(* The results in the history _build_messages reads.                       *)
ResultsIn(S) == {s.call : s \in {x \in S : x.kind = "tool"}}

-----------------------------------------------------------------------------
(* session_scope or an explicit commit: the rows of r become visible.      *)
CommitRows(r) ==
    /\ steps' = {[s EXCEPT !.by = IF @ = r THEN NoRequest ELSE @] : s \in steps}
    /\ completed' = completed \union held[r]
    /\ held' = [held EXCEPT ![r] = {}]

(* The request is answered, and a handler forgets everything about it.     *)
Return(r) ==
    /\ pc' = [pc EXCEPT ![r] = "idle"]
    /\ turn' = [turn EXCEPT ![r] = NoTurn]
    /\ todo' = [todo EXCEPT ![r] = <<>>]
    /\ anchor' = [anchor EXCEPT ![r] = NoCall]
    /\ plan' = [plan EXCEPT ![r] = "none"]
    /\ round' = [round EXCEPT ![r] = 0]
    /\ sent' = [sent EXCEPT ![r] = {}]
    /\ known' = [known EXCEPT ![r] = {}]

Excuse(r) == excused' = excused \union {turn[r]}

(* An exception, or the death of the process: the transaction is undone.   *)
RollbackAndReturn(r) ==
    /\ steps' = Renumbered({s \in steps : s.by # r})
    /\ held' = [held EXCEPT ![r] = {}]
    /\ Excuse(r)
    /\ Return(r)
    /\ UNCHANGED <<mode, billing, turnOf, serverSide, completed, contested>>

-----------------------------------------------------------------------------
Init ==
    /\ \E s \in Sessions : mode = s.mode /\ account = s.account
    /\ charged = [t \in Turns |-> 0]
    /\ steps = {}
    /\ turnOf = [c \in Calls |-> NoTurn]
    /\ serverSide = {}
    /\ completed = {}
    /\ pc = [r \in Requests |-> "idle"]
    /\ turn = [r \in Requests |-> NoTurn]
    /\ todo = [r \in Requests |-> <<>>]
    /\ anchor = [r \in Requests |-> NoCall]
    /\ held = [r \in Requests |-> {}]
    /\ plan = [r \in Requests |-> "none"]
    /\ round = [r \in Requests |-> 0]
    /\ sent = [r \in Requests |-> {}]
    /\ known = [r \in Requests |-> {}]
    /\ excused = {}
    /\ contested = {}

(* POST /v1/chat/run: a fresh turn; the message of the user is stored      *)
(* before access is decided, and stays when access is denied.              *)
Run(r, t) ==
    LET user == Row(NextSeq, t, "user")
    IN  /\ pc[r] = "idle"
        /\ \A s \in steps : s.turn # t
        /\ Evaluate(account, mode) = "allow"
        /\ steps' = steps \union {user}
        /\ pc' = [pc EXCEPT ![r] = "llm"]
        /\ turn' = [turn EXCEPT ![r] = t]
        /\ plan' = [plan EXCEPT ![r] = BillingPlan(account, mode)]
        /\ round' = [round EXCEPT ![r] = 1]
        /\ sent' = [sent EXCEPT ![r] = ResultsIn(Visible(r))]
        /\ UNCHANGED <<mode, billing, turnOf, serverSide, completed, todo, anchor,
                       held, known, excused, contested>>

RunBlocked(r, t) ==
    /\ pc[r] = "idle"
    /\ \A s \in steps : s.turn # t
    /\ Evaluate(account, mode) # "allow"
    /\ steps' = steps \union {Row(NextSeq, t, "user")}
    /\ excused' = excused \union {t}
    /\ UNCHANGED <<mode, billing, turnOf, serverSide, completed, pc, work, held, contested>>

(* POST /v1/chat/tool-result: the named calls exist, without repetition,   *)
(* and belong to one turn; a call the backend executed itself is accepted  *)
(* too and skipped as completed.  (Anything else is answered 404 or 422    *)
(* before the first write and changes nothing.)                            *)
ToolResult(r, batch) ==
    LET t == turnOf[batch[1]]
        named == BatchCalls(batch)
    IN  /\ pc[r] = "idle"
        /\ named \subseteq TurnCalls(t) /\ t # NoTurn
        /\ \A i, j \in DOMAIN batch : batch[i] = batch[j] => i = j
        /\ pc' = [pc EXCEPT ![r] = "apply"]
        /\ turn' = [turn EXCEPT ![r] = t]
        /\ todo' = [todo EXCEPT ![r] = batch]
        /\ anchor' = [anchor EXCEPT ![r] = batch[1]]
        /\ contested' = contested \union
              IF Busy(t) # {} \/ (named \ completed # {} /\ named \cap completed # {})
              THEN {t} ELSE {}
        /\ UNCHANGED <<mode, billing, rows, held, plan, round, sent, known, excused>>

(* _apply_tool_result: the call leaves status pending and its result       *)
(* becomes a tool step, in one transaction.  The UPDATE waits for the row. *)
ApplyResult(r) ==
    LET c == Head(todo[r])
        result == [Row(NextSeq, turn[r], "tool") EXCEPT !.call = c, !.by = r]
    IN  /\ pc[r] = "apply" /\ todo[r] # <<>>
        /\ ~RowLocked(r, c)
        /\ Completable(r, c)
        /\ held' = [held EXCEPT ![r] = @ \union {c}]
        /\ steps' = steps \union {result}
        /\ todo' = [todo EXCEPT ![r] = Tail(@)]
        /\ UNCHANGED <<mode, billing, turnOf, serverSide, completed, pc, turn, anchor,
                       plan, round, sent, known, excused, contested>>

(* The call is already completed, as read or as the UPDATE finds out.      *)
SkipResult(r) ==
    /\ pc[r] = "apply" /\ todo[r] # <<>>
    /\ ~RowLocked(r, Head(todo[r]))
    /\ ~Completable(r, Head(todo[r]))
    /\ todo' = [todo EXCEPT ![r] = Tail(@)]
    /\ UNCHANGED <<mode, billing, rows, pc, turn, anchor, held, plan, round, sent,
                   known, excused, contested>>

(* Two batches that name the same calls in another order: the database     *)
(* ends one of the transactions.                                           *)
DeadlockVictim(r) ==
    /\ \E S \in SUBSET Requests : r \in S /\ Cycle(S)
    /\ RollbackAndReturn(r)

(* list_tool_calls_for_step: is a client-side call of the turn missing?    *)
ReadBarrier(r) ==
    /\ pc[r] = "apply" /\ todo[r] = <<>>
    /\ pc' = [pc EXCEPT ![r] = IF Pending(r) = {} THEN "closed" ELSE "open"]
    /\ known' = [known EXCEPT ![r] = TurnCalls(turn[r])]
    /\ UNCHANGED <<mode, billing, rows, turn, todo, anchor, held, plan, round, sent,
                   excused, contested>>

(* Faulty: the results are left in the open transaction.                   *)
AnswerPendingOpen(r) ==
    /\ pc[r] = "open"
    /\ Return(r)
    /\ UNCHANGED <<mode, billing, rows, held, excused, contested>>

(* Still waiting: commit and answer tool_call with the remaining calls.    *)
AnswerPending(r) ==
    /\ pc[r] = "open"
    /\ CommitRows(r)
    /\ Return(r)
    /\ UNCHANGED <<mode, billing, turnOf, serverSide, excused, contested>>

(* A continuation is stored already: its step is answered again.  The      *)
(* condition that every call of the batch was completed on entry is read   *)
(* from the rows the barrier has just refreshed, so it holds whatever the  *)
(* batch did itself.                                                       *)
RenderSaved(r) ==
    /\ pc[r] = "closed"
    /\ Saved(r) # {}
    /\ CommitRows(r)
    /\ Return(r)
    /\ UNCHANGED <<mode, billing, turnOf, serverSide, excused, contested>>

(* Access is decided again, the history is read, and the results are       *)
(* committed before the provider is called.                                *)
Continue(r) ==
    /\ pc[r] = "closed"
    /\ Saved(r) = {}
    /\ Evaluate(account, mode) = "allow"
    /\ CommitRows(r)
    /\ pc' = [pc EXCEPT ![r] = "llm"]
    /\ plan' = [plan EXCEPT ![r] = BillingPlan(account, mode)]
    /\ round' = [round EXCEPT ![r] = 1]
    /\ sent' = [sent EXCEPT ![r] = ResultsIn(Visible(r))]
    /\ UNCHANGED <<mode, billing, turnOf, serverSide, turn, todo, anchor, known,
                   excused, contested>>

ContinueBlocked(r) ==
    /\ pc[r] = "closed"
    /\ Saved(r) = {}
    /\ Evaluate(account, mode) # "allow"
    /\ CommitRows(r)
    /\ Excuse(r)
    /\ Return(r)
    /\ UNCHANGED <<mode, billing, turnOf, serverSide, contested>>

-----------------------------------------------------------------------------
(* The ways a provider call ends.  Each is one short transaction.          *)

Answer(r, kind) ==
    steps' = steps \union {[Row(NextSeq, turn[r], kind) EXCEPT !.plan = plan[r]]}

(* Faulty: consume does not look up the idempotency key.                   *)
DebitAgain(t) ==
    /\ charged' = [charged EXCEPT ![t] = @ + 1]
    /\ account' = [account EXCEPT !.credits_balance = @ - 1]

(* wallet.consume of one credit, with the turn as idempotency key.         *)
Debit(t) ==
    IF charged[t] > 0
    THEN UNCHANGED billing
    ELSE /\ charged' = [charged EXCEPT ![t] = 1]
         /\ account' = [account EXCEPT !.credits_balance = @ - 1]

(* Faulty: consume does not look at the balance.                           *)
DebitableAlways(t) == t \in Turns

(* A debit posts, or repeats, only what is posted already or covered.      *)
Debitable(t) == charged[t] > 0 \/ account.credits_balance >= 1

(* _finalize_assistant: the answer, its billing and the audit record are   *)
(* committed together.                                                     *)
Finalize(r) ==
    /\ pc[r] = "llm"
    /\ Answer(r, "final")
    /\ \/ /\ plan[r] = "debit"
          /\ Debitable(turn[r])
          /\ Debit(turn[r])
       \/ /\ plan[r] = "trial"
          /\ account' = [account EXCEPT !.trial_used = TRUE]
          /\ UNCHANGED charged
       \/ /\ plan[r] = "free"
          /\ UNCHANGED billing
    /\ Return(r)
    /\ UNCHANGED <<mode, turnOf, serverSide, completed, held, excused, contested>>

(* InsufficientCreditsError: the answer is rolled back and the request is  *)
(* blocked with credits_empty.                                             *)
FinalizeUnpaid(r) ==
    /\ pc[r] = "llm"
    /\ plan[r] = "debit"
    /\ ~Debitable(turn[r])
    /\ RollbackAndReturn(r)

(* _handle_max_tokens: the partial answer is stored and nothing is billed. *)
Truncate(r) ==
    /\ pc[r] = "llm"
    /\ steps' = steps \union {Row(NextSeq, turn[r], "truncated")}
    /\ Return(r)
    /\ UNCHANGED <<mode, billing, turnOf, serverSide, completed, held, excused, contested>>

(* _handle_tool_use stores the tool_use step, a row for each call and, for *)
(* the calls the backend executes, their results.  (Images, which are      *)
(* billed here, are not part of this module.)                              *)
StoreCalls(r, new, server) ==
    LET first == NextSeq
        results ==
            {[Row(first + 1 + Cardinality({d \in server : d < c}), turn[r], "tool")
                EXCEPT !.call = c] : c \in server}
    IN  /\ turnOf' = [c \in Calls |-> IF c \in new THEN turn[r] ELSE turnOf[c]]
        /\ serverSide' = serverSide \union server
        /\ completed' = completed \union server
        /\ steps' = steps \union {Row(first, turn[r], "tool_use")} \union results

(* A client-side call among them: the request hands over to the client.    *)
HandOff(r) ==
    /\ pc[r] = "llm"
    /\ \E new \in FreshCalls : \E server \in SUBSET new :
          server # new /\ StoreCalls(r, new, server)
    /\ Return(r)
    /\ UNCHANGED <<mode, billing, held, excused, contested>>

(* Server-side calls only: the loop builds the next messages and calls the *)
(* provider again.                                                         *)
NextRound(r) ==
    /\ pc[r] = "llm"
    /\ round[r] <= MaxRounds
    /\ \E new \in FreshCalls :
          /\ StoreCalls(r, new, new)
          /\ known' = [known EXCEPT ![r] = @ \union new]
    /\ round' = [round EXCEPT ![r] = @ + 1]
    /\ sent' = [sent EXCEPT ![r] = ResultsIn({s \in steps' : s.by = NoRequest})]
    /\ UNCHANGED <<mode, billing, pc, turn, todo, anchor, held, plan, excused, contested>>

(* ... but not more than max_server_tool_rounds times.                     *)
RoundsExceeded(r) ==
    /\ pc[r] = "llm"
    /\ round[r] > MaxRounds
    /\ \E new \in FreshCalls : StoreCalls(r, new, new)
    /\ Excuse(r)
    /\ Return(r)
    /\ UNCHANGED <<mode, billing, held, contested>>

(* A 401 for the user's own key: mark_expired takes the key stored now out *)
(* of service, and the request is blocked with byok_invalid.               *)
KeyRejected(r) ==
    /\ pc[r] = "llm"
    /\ mode = "byok"
    /\ account' = [account EXCEPT !.byok_status = "expired", !.byok_enabled = FALSE]
    /\ Excuse(r)
    /\ Return(r)
    /\ UNCHANGED <<mode, charged, rows, held, contested>>

(* Timeout or error of the provider, or a tool call it should not make     *)
(* (bad arguments, a tool that was not offered).                           *)
ProviderFails(r) == pc[r] = "llm" /\ RollbackAndReturn(r)

(* The process dies or loses its connection to the database.               *)
Crash(r) == pc[r] # "idle" /\ RollbackAndReturn(r)

(* Meanwhile, outside this session: another chat spends a credit, the      *)
(* subscription period ends, the user switches the own key off.            *)
AccountChanges ==
    /\ \/ /\ account.credits_balance > 0
          /\ account' = [account EXCEPT !.credits_balance = @ - 1]
       \/ /\ account.subscription_status = "active"
          /\ account' = [account EXCEPT !.subscription_status =
                            EffectiveSubscriptionStatus(@, TRUE)]
       \/ /\ account.byok_enabled
          /\ account' = [account EXCEPT !.byok_enabled = FALSE]
    /\ UNCHANGED <<mode, charged, rows, pc, work, held, excused, contested>>

Step(r) ==
    \/ ApplyResult(r) \/ SkipResult(r) \/ DeadlockVictim(r)
    \/ ReadBarrier(r) \/ AnswerPending(r) \/ RenderSaved(r)
    \/ Continue(r) \/ ContinueBlocked(r)
    \/ Finalize(r) \/ FinalizeUnpaid(r) \/ Truncate(r)
    \/ HandOff(r) \/ NextRound(r) \/ RoundsExceeded(r)
    \/ KeyRejected(r) \/ ProviderFails(r)

Next ==
    \/ \E r \in Requests :
          \/ \E t \in Turns : Run(r, t) \/ RunBlocked(r, t)
          \/ \E batch \in Batches : ToolResult(r, batch)
          \/ Step(r)
          \/ Crash(r)
    \/ AccountChanges

(* A request that has begun goes on: row locks are granted in the order of *)
(* their queue, a provider call ends by an answer or by its timeout.       *)
Fairness == \A r \in Requests : SF_vars(Step(r))

Spec == Init /\ [][Next]_vars /\ Fairness
-----------------------------------------------------------------------------
(* Types; and a debit never takes the balance below zero.                  *)
TypeOK ==
    /\ mode \in Modes
    /\ account \in PolicyStates
    /\ charged \in [Turns -> Nat]
    /\ steps \subseteq StepRows
    /\ turnOf \in [Calls -> Turns \union {NoTurn}]
    /\ serverSide \subseteq Existing
    /\ completed \subseteq Existing
    /\ pc \in [Requests -> Places]
    /\ turn \in [Requests -> Turns \union {NoTurn}]
    /\ todo \in [Requests -> Seq(Calls)]
    /\ anchor \in [Requests -> Calls \union {NoCall}]
    /\ held \in [Requests -> SUBSET Calls]
    /\ plan \in [Requests -> Plans]
    /\ round \in [Requests -> 0..(MaxRounds + 1)]
    /\ sent \in [Requests -> SUBSET Calls]
    /\ known \in [Requests -> SUBSET Calls]
    /\ excused \subseteq Turns
    /\ contested \subseteq Turns

Committed == {s \in steps : s.by = NoRequest}

Finals(t) == {s \in Committed : s.turn = t /\ s.kind = "final"}

(* However many requests bring a result for a call, exactly one of them is *)
(* stored, and a call counts as completed exactly when its result is in    *)
(* the history: UPDATE and tool step are one transaction.                  *)
ToolResultOnce ==
    LET results == {s \in Committed : s.kind = "tool"}
    IN  /\ completed = {s.call : s \in results}
        /\ \A s1, s2 \in results : s1.call = s2.call => s1 = s2

(* The barrier holds: the provider is called only with a result for every  *)
(* tool call of the turn that was stored when the barrier was read, and    *)
(* for every call a server-side round has run since.                       *)
BarrierHolds ==
    \A r \in Requests : pc[r] = "llm" => known[r] \subseteq sent[r]

(* No answer in mode credits is given away: every stored final answer was  *)
(* debited under its turn or consumed the trial, even if the subscription, *)
(* the balance or the trial changed during generation.                     *)
AnswersArePaid ==
    \A s \in Committed : s.kind = "final" =>
        \/ s.plan = "debit" /\ charged[s.turn] = 1
        \/ s.plan = "trial" /\ account.trial_used
        \/ s.plan = "free" /\ mode = "byok"

(* A turn costs one credit however often it is continued or answered, and  *)
(* only if an answer is stored: no charge for blocked, truncated or failed *)
(* turns, nor for tool rounds.                                             *)
ChargedForAnswer ==
    \A t \in Turns :
        /\ charged[t] \in {0, 1}
        /\ charged[t] = 1 => \E s \in Finals(t) : s.plan = "debit"

(* A client that sends one tool-result request after the other, repeated   *)
(* requests and retries after failures included, gets one answer.          *)
SerialTurnAnsweredOnce ==
    \A t \in Turns \ contested : Cardinality(Finals(t)) <= 1

(* Nothing more will happen to the turn: it is answered, truncated, or the *)
(* client owes a result.                                                   *)
Settled(t) ==
    \/ ClientCalls(t) \ completed # {}
    \/ \E s \in Committed :
          /\ s.turn = t /\ s.kind \in {"final", "truncated"}
          /\ \A o \in Committed : o.turn = t => o.seq <= s.seq

Started(t) == \E s \in Committed : s.turn = t

(* With such a client no turn hangs: when no request works on it and none  *)
(* failed, the turn is settled.                                            *)
SerialTurnNeverHangs ==
    \A t \in Turns \ (contested \union excused) :
        Started(t) /\ Busy(t) = {} => Settled(t)

(* Every request ends, also when batches lock the same calls in different  *)
(* orders and when the provider asks for one server-side tool after        *)
(* another.                                                                *)
EveryRequestEnds == \A r \in Requests : pc[r] # "idle" ~> pc[r] = "idle"

(* docs/modules/chat-orchestrator/02-api-contracts.md: partial results are *)
(* supported, "when the last result closes the barrier: continuation".     *)
ClosedBarrierContinues ==
    \A t \in Turns \ excused : Started(t) /\ Busy(t) = {} => Settled(t)

(* docs/adr/ADR-025: the continuation runs once for a closed barrier; a    *)
(* concurrent one gets the stored step.                                    *)
ContinuationRunsOnce == \A t \in Turns : Cardinality(Finals(t)) <= 1

(* orchestrator.py, _all_already_done_before: the stored step is answered  *)
(* to a batch whose calls were all completed on entry.                     *)
SavedStepOnlyForReplay ==
    [][\A r \in Requests : RenderSaved(r) => held[r] = {}]_vars
=============================================================================
