------------------------------- MODULE Chats -------------------------------
(***************************************************************************)
(* All chats of a user (chat/orchestrator.py, chat/repository.py,          *)
(* chat/ephemeral_repository.py, chats/service.py): messages in new,       *)
(* resumed, expired and temporary chats, edit and regenerate, the tools    *)
(* the server executes in a round, results of the tools of the client,     *)
(* and deletion, renaming and rebinding of a chat, all concurrently.       *)
(*                                                                         *)
(* ChatTurn looks at the turns of one session and at batches of results;   *)
(* here a request is coarser and the sessions, their deletion and their    *)
(* truncation, the images and the files are in focus.  The statements of a *)
(* truncation, the two of a lookup and its update, and every tool of a     *)
(* round are actions of their own; the rows of an open transaction carry   *)
(* its handler, and keep the session from being deleted.                   *)
(***************************************************************************)
EXTENDS Images, Policy

CONSTANTS
    MaxSessions,    \* bound: sessions that are created
    NoWorkspace,    \* chat_sessions.workspace_project_id is NULL
    SessionTtl      \* session_soft_ttl_seconds

Sessions == 1..MaxSessions

ASSUME ChatsAssumption ==
    /\ MaxSessions \in Nat /\ SessionTtl \in Nat
    /\ NoWorkspace \notin Workspaces

VARIABLES
    sessions,       \* sessions[s]: the row of chat_sessions
    steps,          \* the rows of chat_steps
    calls,          \* the rows of tool_calls
    trialUsed,      \* users.trial_used
    answered,       \* the answers that were given: [turn, plan, round, first]
                    \* (observation only)
    torn            \* the sessions where a round was committed between the
                    \* snapshots of the two DELETEs of a truncation
                    \* (observation only)

chatVars == <<sessions, steps, calls, trialUsed, answered, torn>>
saleVars == <<debits, images, lockedUntil, sold, erased>>
vars == <<world, now, limitVars, job, fileVars, contended, saleVars, chatVars>>

ChatsInit ==
    /\ sessions = [s \in Sessions |->
          [status |-> "none", updated |-> 0, workspace |-> NoWorkspace,
           hasProject |-> FALSE]]
    /\ steps = {}
    /\ calls = {}
    /\ trialUsed = FALSE
    /\ answered = {}
    /\ torn = {}

-----------------------------------------------------------------------------
(* kind splits role=assistant by what it holds; uses are the tool calls a  *)
(* tool-use step asks for, or the one a tool step answers.                 *)
Step(seq, s, t, kind, uses, h) ==
    [seq |-> seq, session |-> s, turn |-> t, kind |-> kind, uses |-> uses, by |-> h]

IsAssistantStep(x) == x.kind \in {"use", "final", "truncated"}

Call(c, s, t, client, done, h) ==
    [id |-> c, session |-> s, turn |-> t, client |-> client, done |-> done, by |-> h]

In(s, S) == {row \in S : row.session = s}

Live(s) == sessions[s].status = "live"

(* get_or_create_session: a session that has not been used for too long is *)
(* not resumed.                                                            *)
Resumable(s) == Live(s) /\ now - sessions[s].updated <= SessionTtl

IsTemporary(h) == job[h].session = NoSession

(* A foreign key of a row of the session: NULL for a temporary chat.       *)
CanStore(h) == ~IsTemporary(h) => Live(job[h].session)

(* What a chat may be bound to: a workspace the user owns, or none.        *)
Bindable == {NoWorkspace} \union {w \in Workspaces : workspaces[w] = "live"}

Truncating == {"edit", "find", "cut", "drop"}

Editing == {h \in Handlers : job[h].pc \in Truncating}

(* chat_steps.seq: higher than every number in use; the numbers the        *)
(* deleted rows had are free again once no request refers to them.         *)
NextSeq ==
    1 + Max({0} \union {x.seq : x \in steps} \union {job[h].anchor : h \in Editing}
                \union (UNION {job[h].drop : h \in Editing}))

(* The uuids of a message step and of a tool call: fresh.                  *)
AtWork == Truncating \union {"apply", "llm", "tools", "write"}

Chatting == {h \in Handlers : job[h].pc \in AtWork}

NextTurn ==
    1 + Max({0} \union {x.turn : x \in steps \union calls \union answered}
                \union {job[h].turn : h \in Chatting})

Reserved(h) ==
    job[h].call + IF job[h].pc \in {"tools", "write"} THEN Len(job[h].todo) ELSE 0

NextCall ==
    1 + Max({0} \union (UNION {x.uses : x \in steps}) \union {x.id : x \in calls}
                \union {s.call : s \in sold} \union {Reserved(h) : h \in Chatting}
                \union (UNION {job[h].cut : h \in Editing}))

(* load_policy_state.                                                      *)
Account ==
    [subscription_status |-> world.subscription, trial_used |-> trialUsed,
     credits_balance |-> Balance(Nobody), byok_enabled |-> TRUE,
     byok_status |-> "valid"]

Admitted == Evaluate(Account, world.mode) = "allow"

TrialAnswers == {a \in answered : a.plan = "trial"}

(* The request reaches _generate_loop and has committed what it wrote; no  *)
(* transaction is open while the provider works.  first: no trial answer   *)
(* has been given so far (observation only).                               *)
Generating(s, t) ==
    [pc |-> "llm", session |-> s, turn |-> t, call |-> 0, round |-> 1,
     plan |-> BillingPlan(Account, world.mode), first |-> TrialAnswers = {}]

Proceeds(h, s, t) ==
    job' = [job EXCEPT ![h] = IF Admitted THEN Generating(s, t) ELSE Idle]

(* session_scope after an exception, or a lost connection.                 *)
Rollback(h) ==
    /\ steps' = Without(h, steps)
    /\ calls' = Without(h, calls)
    /\ images' = Without(h, images)
    /\ debits' = Without(h, debits)
    /\ Discard(h)
    /\ Returns(h)
    /\ UNCHANGED <<workspaces, files, contended, lockedUntil, sold, erased, sessions,
                   trialUsed, answered, torn>>

-----------------------------------------------------------------------------
(* POST /v1/chat/run in an existing chat: the message is stored and stays, *)
(* access granted or not.                                                  *)
Resume(h, s) ==
    LET t == NextTurn
    IN  /\ job[h] = Idle /\ Resumable(s)
        /\ steps' = steps \union {Step(NextSeq, s, t, "user", {}, Nobody)}
        /\ Proceeds(h, s, t)
        /\ UNCHANGED <<fileVars, contended, saleVars, sessions, calls, trialUsed,
                       answered, torn>>

(* POST /v1/chat/run without a session, or with one that is expired or     *)
(* gone: workspace and project are fixed now.                              *)
Open(h, s, w, hasProject) ==
    LET t == NextTurn
    IN  /\ job[h] = Idle
        /\ sessions[s].status = "none" /\ \A o \in 1..(s - 1) : sessions[o].status # "none"
        /\ w \in Bindable
        /\ sessions' = [sessions EXCEPT ![s] =
              [status |-> "live", updated |-> now, workspace |-> w,
               hasProject |-> hasProject]]
        /\ steps' = steps \union {Step(NextSeq, s, t, "user", {}, Nobody)}
        /\ Proceeds(h, s, t)
        /\ UNCHANGED <<fileVars, contended, saleVars, calls, trialUsed, answered, torn>>

(* temporary=true: EphemeralChatRepository keeps the chat in memory.       *)
RunTemporary(h) ==
    /\ job[h] = Idle
    /\ Proceeds(h, NoSession, NextTurn)
    /\ UNCHANGED <<fileVars, contended, saleVars, chatVars>>

-----------------------------------------------------------------------------
(* editMessageStepId: the anchor is the message of the turn; a session     *)
(* that is not resumed, or a turn without a message, is answered 404.      *)
EditMessage(h, s, t) ==
    LET messages == {x \in In(s, Committed(steps)) : x.turn = t /\ x.kind = "user"}
    IN  /\ job[h] = Idle /\ Resumable(s) /\ messages # {}
        /\ job' = [job EXCEPT ![h] =
              [pc |-> "edit", session |-> s, turn |-> NextTurn, call |-> 0,
               anchor |-> Min({x.seq : x \in messages}), cut |-> {}, drop |-> {}]]
        /\ UNCHANGED <<fileVars, contended, saleVars, chatVars>>

FromAnchor(h) ==
    {x \in In(job[h].session, Committed(steps)) : x.seq >= job[h].anchor}

(* Faulty: the tool calls are left to a cascade that does not exist.       *)
CallsToCutNone(h) == {c \in calls : FALSE /\ c.session = job[h].session}

(* The calls of every turn that has a step from the anchor on.             *)
CallsToCut(h) ==
    {c \in In(job[h].session, Committed(calls)) :
        \E x \in FromAnchor(h) : x.turn = c.turn}

(* The calls whose rows an open truncation has deleted.                    *)
Cut(h) == IF job[h].pc \in {"cut", "drop"} THEN job[h].cut ELSE {}

(* truncate_from_message_step, two DELETEs.  Each finds its rows in a      *)
(* snapshot of its own and may have to wait for them then.                 *)
FindCalls(h) ==
    /\ job[h].pc = "edit"
    /\ job' = [job EXCEPT ![h].pc = "find", ![h].cut = {c.id : c \in CallsToCut(h)}]
    /\ UNCHANGED <<fileVars, contended, saleVars, chatVars>>

CutCalls(h) ==
    /\ job[h].pc = "find"
    /\ \A o \in Others(h) : Cut(o) \intersect job[h].cut = {}
    /\ job' = [job EXCEPT ![h].pc = "cut"]
    /\ UNCHANGED <<fileVars, contended, saleVars, chatVars>>

FindSteps(h) ==
    /\ job[h].pc = "cut"
    /\ job' = [job EXCEPT ![h].pc = "drop", ![h].drop = {x.seq : x \in FromAnchor(h)}]
    /\ UNCHANGED <<fileVars, contended, saleVars, chatVars>>

(* The new message in the place of the steps, and the commit.              *)
CutSteps(h) ==
    LET s == job[h].session
        t == job[h].turn
    IN  /\ job[h].pc = "drop" /\ Live(s)
        /\ steps' = {x \in steps : x.seq \notin job[h].drop}
                      \union {Step(NextSeq, s, t, "user", {}, Nobody)}
        /\ calls' = {c \in calls : c.id \notin Cut(h)}
        /\ Proceeds(h, s, t)
        /\ UNCHANGED <<fileVars, contended, saleVars, sessions, trialUsed, answered, torn>>

-----------------------------------------------------------------------------
(* POST /v1/chat/tool-result: session and call are looked up; the age of   *)
(* the session does not matter.                                            *)
ToolResult(h, call) ==
    /\ job[h] = Idle
    /\ call \in Committed(calls) /\ Live(call.session)
    /\ job' = [job EXCEPT ![h] =
          [pc |-> "apply", session |-> call.session, turn |-> call.turn,
           call |-> call.id, wasDone |-> call.done]]
    /\ UNCHANGED <<fileVars, contended, saleVars, chatVars>>

(* Faulty: the answer of complete_tool_call is not looked at.              *)
TransitionsAlways(h) == {job[h].call}

(* complete_tool_call: UPDATE ... WHERE id = :id AND status = 'pending'.   *)
Transitions(h) ==
    {c.id : c \in {c \in Committed(calls) :
                      c.id = job[h].call /\ ~c.done /\ ~job[h].wasDone}}

(* The assistant steps of the turn after the result of the call, or any of *)
(* them when there is no result.                                           *)
SavedAfter(h, rows) ==
    LET s == job[h].session
        own == {x \in In(s, Committed(rows)) : x.turn = job[h].turn}
        results == {x \in own : x.kind = "tool" /\ job[h].call \in x.uses}
    IN  {x \in own : /\ IsAssistantStep(x)
                     /\ results = {} \/ \E r \in results : x.seq > r.seq}

(* The update, the tool step, the barrier and the decision.  The call may  *)
(* have been deleted with its turn since it was looked up: nothing is      *)
(* updated then, no call keeps the barrier open, and the turn goes on.     *)
ApplyResult(h) ==
    LET s == job[h].session
        t == job[h].turn
        c == job[h].call
        changed == Transitions(h)
        after == {[x EXCEPT !.done = @ \/ x.id \in changed] : x \in calls}
        rows == steps \union {Step(NextSeq, s, t, "tool", {i}, Nobody) : i \in changed}
        open == {x \in In(s, Committed(after)) : x.turn = t /\ x.client /\ ~x.done}
        done == job[h].wasDone \/ \E x \in Committed(after) : x.id = c
    IN  /\ job[h].pc = "apply" /\ Live(s)
        /\ \A o \in Others(h) : c \notin Cut(o)
        /\ calls' = after
        /\ steps' = rows
        /\ IF open # {} \/ (done /\ SavedAfter(h, rows) # {})
           THEN Returns(h)
           ELSE Proceeds(h, s, t)
        /\ UNCHANGED <<fileVars, contended, saleVars, sessions, trialUsed, answered, torn>>

(* The foreign key to a session that has been deleted fails.               *)
StoreFails(h) ==
    /\ job[h].pc \in {"drop", "apply", "llm"}
    /\ ~CanStore(h)
    /\ Rollback(h)

-----------------------------------------------------------------------------
(* The tools the provider is offered: site.* needs a project, the tools of *)
(* the client a chat that can be continued.                                *)
Offers(h, tool) ==
    CASE tool \in {"write", "delete"} ->
            ~IsTemporary(h) /\ sessions[job[h].session].hasProject
      [] tool = "client" -> ~IsTemporary(h)
      [] OTHER -> TRUE

(* The provider asks for tools.  The images have been generated before;    *)
(* the transaction begins with the tool-use step.                          *)
StartRound(h, blocks) ==
    LET c == NextCall
        use == Step(NextSeq, job[h].session, job[h].turn, "use",
                    c..(c + Len(blocks) - 1), h)
    IN  /\ job[h].pc = "llm" /\ CanStore(h)
        /\ \A i \in DOMAIN blocks : Offers(h, blocks[i].tool)
        /\ steps' = IF IsTemporary(h) THEN steps ELSE steps \union {use}
        /\ job' = [job EXCEPT ![h] =
              [pc |-> "tools", session |-> @.session, turn |-> @.turn, call |-> c,
               round |-> @.round, plan |-> @.plan, first |-> @.first, todo |-> blocks,
               handsOff |-> FALSE, row |-> 0]]
        /\ UNCHANGED <<fileVars, contended, saleVars, sessions, calls, trialUsed,
                       answered, torn>>

AtTool(h, tools) ==
    job[h].pc = "tools" /\ job[h].todo # <<>> /\ Head(job[h].todo).tool \in tools

NextTool(h) ==
    job' = [job EXCEPT ![h].pc = "tools", ![h].todo = Tail(@), ![h].call = @ + 1]

(* The tool step and the completed call of a tool the backend executed,    *)
(* whether it succeeded or not; those of a temporary chat are not rows.    *)
WithResult(h) ==
    IF IsTemporary(h) THEN steps
    ELSE steps \union {Step(NextSeq, job[h].session, job[h].turn, "tool", {job[h].call}, h)}

WithCall(h) ==
    IF IsTemporary(h) THEN calls
    ELSE calls \union {Call(job[h].call, job[h].session, job[h].turn, FALSE, TRUE, h)}

StoreResult(h) ==
    /\ steps' = WithResult(h)
    /\ calls' = WithCall(h)
    /\ NextTool(h)
    /\ UNCHANGED <<sessions, trialUsed, answered, torn>>

(* time.now and quiz.generate.                                             *)
RunTool(h) ==
    /\ AtTool(h, {"global"})
    /\ StoreResult(h)
    /\ UNCHANGED <<fileVars, contended, saleVars>>

(* An image that could not be generated is a result, too, and free.        *)
ImageRefused(h) ==
    /\ AtTool(h, {"image"})
    /\ StoreResult(h)
    /\ UNCHANGED <<fileVars, contended, saleVars>>

(* Faulty: who brings the own key pays for no image.                       *)
ChargeImageCredits(h) ==
    debits' = debits \union IF world.mode = "byok" THEN {} ELSE
        {[key |-> ImageKey(job[h].call), amount |-> ImageCost, by |-> h]}

(* wallet.consume under the id of the call, whatever the mode.             *)
ChargeImage(h) ==
    debits' = debits \union
        {[key |-> ImageKey(job[h].call), amount |-> ImageCost, by |-> h]}

(* The debit first, then the row.                                          *)
StoreImage(h) ==
    /\ AtTool(h, {"image"})
    /\ WalletFree(h) /\ Balance(h) >= ImageCost
    /\ ChargeImage(h)
    /\ images' = images \union {ImageRow(h, job[h].session, job[h].call)}
    /\ StoreResult(h)
    /\ UNCHANGED <<fileVars, contended, lockedUntil, sold, erased>>

(* image_credits_empty: the round is rolled back and not committed.        *)
ImageUnpaid(h) ==
    /\ AtTool(h, {"image"})
    /\ WalletFree(h) /\ Balance(h) < ImageCost
    /\ Rollback(h)

(* site.write_file: project and limits are checked, an error is a result.  *)
CheckSite(h) ==
    LET file == Head(job[h].todo)
    IN  /\ AtTool(h, {"write"}) /\ ProjectFree(h)
        /\ ResolveProject(h)
        /\ contended' = contended \union
              IF \E o \in Others(h) : OnSite(o) THEN {"site"} ELSE {}
        /\ IF SiteFits(h, file.path, file.size)
           THEN /\ job' = [job EXCEPT ![h].pc = "write",
                                      ![h].row = SiteView(h)[file.path].row]
                /\ UNCHANGED chatVars
           ELSE StoreResult(h)
        /\ UNCHANGED <<workspaces, files, site, draft, saleVars>>

(* The uuid of a new row of the website: no row has it, and no write that  *)
(* is under way is for a row that had it.                                  *)
NextRow ==
    1 + Max({0} \union {site[p].row : p \in Paths}
                \union (UNION {{draft[h][p].row : p \in DOMAIN draft[h]} : h \in Handlers})
                \union {job[h].row : h \in {h \in Handlers : job[h].pc = "write"}})

(* The row that was read is still there and is updated, or there is none   *)
(* as before and one is inserted.                                          *)
WriteSite(h) ==
    LET file == Head(job[h].todo)
        row == job[h].row
    IN  /\ job[h].pc = "write" /\ PathFree(h, file.path)
        /\ row = SiteView(h)[file.path].row
        /\ Draft(h, file.path, [row |-> IF row = 0 THEN NextRow ELSE row,
                                size |-> file.size])
        /\ StoreResult(h)
        /\ UNCHANGED <<workspaces, files, project, site, contended, saleVars>>

(* Otherwise the UPDATE matches no row, though the path may have another   *)
(* one by now, or the INSERT finds the path taken: the request fails.      *)
WriteFails(h) ==
    LET path == Head(job[h].todo).path
    IN  /\ job[h].pc = "write" /\ PathFree(h, path)
        /\ job[h].row # SiteView(h)[path].row
        /\ Rollback(h)

OnPage(h, path) == project \in {"present", h} /\ SiteView(h)[path] # NoFile

(* site.delete: deletes what there is.                                     *)
DeleteSite(h) ==
    LET path == Head(job[h].todo).path
        exists == OnPage(h, path)
    IN  /\ AtTool(h, {"delete"})
        /\ exists => PathFree(h, path)
        /\ IF exists THEN Draft(h, path, NoFile) ELSE UNCHANGED draft
        /\ StoreResult(h)
        /\ UNCHANGED <<workspaces, files, project, site, contended, saleVars>>

(* A tool of the client: the call stays pending.                           *)
LeaveToClient(h) ==
    LET j == job[h]
    IN  /\ AtTool(h, {"client"})
        /\ calls' = calls \union {Call(j.call, j.session, j.turn, TRUE, FALSE, h)}
        /\ job' = [job EXCEPT ![h].todo = Tail(@), ![h].call = @ + 1,
                              ![h].handsOff = TRUE]
        /\ UNCHANGED <<fileVars, contended, saleVars, sessions, steps, trialUsed,
                       answered, torn>>

(* The round is committed.  With calls for the client the request is over; *)
(* otherwise the provider goes on, max_server_tool_rounds times at most.   *)
CommitRound(h) ==
    LET j == job[h]
        made == OpenRows(h, images)
    IN  /\ j.pc = "tools" /\ j.todo = <<>>
        /\ steps' = Sealed(h, steps)
        /\ calls' = Sealed(h, calls)
        /\ images' = Sealed(h, images)
        /\ debits' = Sealed(h, debits)
        /\ Publish(h)
        /\ sold' = sold \union {[call |-> i.call, expires |-> i.expires] : i \in made}
        /\ torn' = torn \union {job[o].session : o \in
              {o \in Others(h) : job[o].pc \in {"find", "cut"} /\ job[o].session = j.session}}
        /\ job' = [job EXCEPT ![h] =
              IF j.handsOff \/ j.round > world.maxRounds THEN Idle
              ELSE [pc |-> "llm", session |-> j.session, turn |-> j.turn, call |-> 0,
                    round |-> j.round + 1, plan |-> j.plan, first |-> j.first]]
        /\ UNCHANGED <<workspaces, files, contended, lockedUntil, erased, sessions,
                       trialUsed, answered>>

-----------------------------------------------------------------------------
(* The final or the truncated answer; nothing of a temporary chat is kept. *)
StoreAnswer(h, kind) ==
    steps' = IF IsTemporary(h) THEN steps
             ELSE steps \union
                    {Step(NextSeq, job[h].session, job[h].turn, kind, {}, Nobody)}

Touched(h) ==
    IF IsTemporary(h) THEN sessions
    ELSE [sessions EXCEPT ![job[h].session].updated = now]

(* Faulty: a temporary chat keeps its trial in memory, too.                *)
ConsumeTrialOfChats(h) ==
    trialUsed' = (trialUsed \/ (job[h].plan = "trial" /\ ~IsTemporary(h)))

(* mark_trial_used, which EphemeralChatRepository inherits.                *)
ConsumeTrial(h) == trialUsed' = (trialUsed \/ job[h].plan = "trial")

(* Faulty: the trial answer is charged, too.                               *)
ChargeAnswerTrial(h) ==
    debits' = debits \union
        IF job[h].plan # "free" /\ ~Debited(TurnKey(job[h].turn))
        THEN {[key |-> TurnKey(job[h].turn), amount |-> 1, by |-> Nobody]} ELSE {}

(* _debit under the id of the turn: the replay of a key is free.           *)
ChargeAnswer(h) ==
    debits' = debits \union
        IF job[h].plan = "debit" /\ ~Debited(TurnKey(job[h].turn))
        THEN {[key |-> TurnKey(job[h].turn), amount |-> 1, by |-> Nobody]} ELSE {}

Payable(h) == Debited(TurnKey(job[h].turn)) \/ Balance(h) >= 1

(* _finalize_assistant: the answer, its payment and the new updated_at are *)
(* one transaction.                                                        *)
Finalize(h) ==
    /\ job[h].pc = "llm" /\ CanStore(h)
    /\ job[h].plan = "debit" => WalletFree(h) /\ Payable(h)
    /\ StoreAnswer(h, "final")
    /\ ChargeAnswer(h)
    /\ ConsumeTrial(h)
    /\ sessions' = Touched(h)
    /\ answered' = answered \union
          {[turn |-> job[h].turn, plan |-> job[h].plan, round |-> job[h].round,
            first |-> job[h].first]}
    /\ Returns(h)
    /\ UNCHANGED <<fileVars, contended, images, lockedUntil, sold, erased, calls, torn>>

(* credits_empty after all: the answer is rolled back.                     *)
FinalizeUnpaid(h) ==
    /\ job[h].pc = "llm" /\ CanStore(h)
    /\ job[h].plan = "debit" /\ WalletFree(h) /\ ~Payable(h)
    /\ Rollback(h)

(* _handle_max_tokens: kept, and not charged.                              *)
Truncate(h) ==
    /\ job[h].pc = "llm" /\ CanStore(h)
    /\ StoreAnswer(h, "truncated")
    /\ Returns(h)
    /\ UNCHANGED <<fileVars, contended, saleVars, sessions, calls, trialUsed, answered,
                   torn>>

(* The provider fails, the connection is lost or the process dies.         *)
Abort(h) == job[h].pc \in AtWork /\ Rollback(h)

(* Whose open transaction h waits for: that of the wallet, of the project, *)
(* of the path or of the call it wants to write.                           *)
WaitsFor(h) ==
    CASE AtTool(h, {"image"}) ->
            {o \in Others(h) : \E d \in debits : d.by = o}
      [] AtTool(h, {"write"}) -> {project} \intersect Others(h)
      [] AtTool(h, {"delete"}) \/ job[h].pc = "write" ->
            {o \in Others(h) : Head(job[h].todo).path \in DOMAIN draft[o]}
      [] job[h].pc = "find" ->
            {o \in Others(h) : Cut(o) \intersect job[h].cut # {}}
      [] job[h].pc = "apply" -> {o \in Others(h) : job[h].call \in Cut(o)}
      [] OTHER -> {}

(* Requests that wait for each other in a circle: the database ends one.   *)
DeadlockVictim(h) ==
    /\ \E S \in SUBSET Handlers :
          h \in S /\ \A o \in S : /\ WaitsFor(o) \intersect S # {}
                                  /\ \E x \in S : o \in WaitsFor(x)
    /\ Rollback(h)

-----------------------------------------------------------------------------
(* DELETE /v1/chats/{id}: waits for the transactions that have rows of the *)
(* chat; steps and calls go along, images stay and belong to no chat.      *)
DeleteChat(s) ==
    /\ Live(s)
    /\ \A row \in In(s, steps \union calls) : row.by = Nobody
    /\ \A h \in Editing : job[h].session = s => Cut(h) = {} /\ job[h].pc # "drop"
    /\ sessions' = [sessions EXCEPT ![s].status = "gone"]
    /\ steps' = steps \ In(s, steps)
    /\ calls' = calls \ In(s, calls)
    /\ images' = {[i EXCEPT !.session = IF @ = s THEN NoSession ELSE @] : i \in images}
    /\ UNCHANGED <<job, fileVars, contended, debits, lockedUntil, sold, erased,
                   trialUsed, answered, torn>>

Rebound(s, w) == [sessions EXCEPT ![s].updated = now, ![s].workspace = w]

(* PATCH /v1/chats/{id}: title, pin and workspace; any of them makes an    *)
(* expired chat resumable again.                                           *)
UpdateMetadata(s, w) ==
    /\ Live(s)
    /\ w \in Bindable
    /\ sessions' = Rebound(s, w)
    /\ UNCHANGED <<job, fileVars, contended, saleVars, steps, calls, trialUsed, answered,
                   torn>>

(* Faulty: the foreign key is left as it is.                               *)
UnbindNone(w) == sessions' = [s \in Sessions |-> sessions[s]]

(* The deletion of a workspace, seen by its chats: they survive without.   *)
Unbind(w) ==
    sessions' = [s \in Sessions |->
        IF sessions[s].workspace = w
        THEN [sessions[s] EXCEPT !.workspace = NoWorkspace] ELSE sessions[s]]

-----------------------------------------------------------------------------
ChatTypeOK ==
    /\ sessions \in [Sessions -> [status: {"none", "live", "gone"}, updated: Times,
                                  workspace: Workspaces \union {NoWorkspace},
                                  hasProject: BOOLEAN]]
    /\ \A x \in steps : /\ x.seq \in Nat \ {0} /\ x.session \in Sessions
                        /\ x.by \in Handlers \union {Nobody}
    /\ \A x, y \in steps : x.seq = y.seq => x = y
    /\ \A c \in calls : c.session \in Sessions /\ c.turn \in Nat \ {0}
    /\ \A c, d \in calls : c.id = d.id => c = d
    /\ \A h \in Handlers : job[h].pc \in {"idle", "total", "store"} \union AtWork
    /\ \A s \in Sessions : sessions[s].workspace # NoWorkspace
                             => workspaces[sessions[s].workspace] = "live"
    /\ Balance(Nobody) >= 0

(* A result in the history of a chat stands after the tool use it answers, *)
(* or the provider would refuse the chat from then on (BUG-5, ADR-021):    *)
(* whatever is edited, deleted and delivered meanwhile, unless a round was *)
(* committed between the two DELETEs of a truncation                       *)
(* (repository.py truncate_from_message_step, orchestrator.py              *)
(* _apply_tool_result).                                                    *)
NoOrphanResult ==
    \A x \in Committed(steps) :
        x.kind = "tool" /\ x.session \notin torn =>
            \E y \in In(x.session, Committed(steps)) :
                y.kind = "use" /\ x.uses \subseteq y.uses /\ y.seq < x.seq

(* A tool call is a row of its own, tied to the chat and not to a step:    *)
(* truncation and deletion leave none behind whose tool use is gone        *)
(* (ADR-040 2.3; repository.py truncate_from_message_step), with the same  *)
(* exception.                                                              *)
CallsHaveUses ==
    \A c \in Committed(calls) :
        /\ Live(c.session)
        /\ c.session \notin torn =>
              \E y \in In(c.session, Committed(steps)) :
                  y.kind = "use" /\ c.id \in y.uses

(* A trial answer, in normal and temporary chats together, goes to the     *)
(* first request or to one that was admitted before the first was          *)
(* answered: afterwards the lifetime trial is over, also for a request     *)
(* that comes while others are still being answered (orchestrator.py       *)
(* _finalize_assistant, repository.py mark_trial_used).                    *)
FreeAnswersOverlap == \A a \in TrialAnswers : a.first

(* "At most 1 extra free generation for each user": what two requests that *)
(* are admitted together cost at most (docs/100-known-tech-debt.md TD-006, *)
(* ADR-002; orchestrator.py evaluates trial_used before the provider works *)
(* and sets it afterwards).                                                *)
OneExtraTrial == Cardinality(TrialAnswers) <= 2

(* A turn is charged one credit exactly when it was answered under a plan  *)
(* that charges: not when the answer was truncated, could not be stored    *)
(* because the chat was deleted meanwhile, or was rolled back              *)
(* (orchestrator.py _finalize_assistant).                                  *)
ChargedWhenAnswered ==
    {d.key.id : d \in {d \in debits : d.key.of = "turn" /\ d.amount = 1}}
        = {a.turn : a \in {a \in answered : a.plan = "debit"}}
=============================================================================
