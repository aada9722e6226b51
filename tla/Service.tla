------------------------------ MODULE Service ------------------------------
(***************************************************************************)
(* The service around the chats (api_gateway/routers/chat.py, chats.py,    *)
(* images.py, workspaces.py): every chat request passes the limits first;  *)
(* chats, images, workspaces and their files are managed meanwhile.        *)
(***************************************************************************)
EXTENDS Chats

(* A tool call of the provider, as the backend sees it.                    *)
Blocks ==
    [tool: {"global", "image", "client"}]
        \union [tool: {"delete"}, path: Paths]
        \union [tool: {"write"}, path: Paths, size: Nat]

ASSUME WorldsAssumption ==
    \A w \in Worlds :
        /\ w.rounds \subseteq Seq(Blocks) /\ w.sizes \subseteq Nat
        /\ w.requests \in Nat /\ w.credits \in Nat
        /\ w.chats \in Sessions /\ w.hasProject \in BOOLEAN

VARIABLE requests   \* bound: requests that may still come

serviceVars == <<vars, requests>>

Init ==
    /\ world \in Worlds
    /\ requests = world.requests
    /\ ThrottleInit
    /\ FilesInit
    /\ ImagesInit
    /\ ChatsInit

-----------------------------------------------------------------------------
(* A request of kind op arrives.                                           *)
Arrives(op) ==
    /\ op \in world.ops /\ requests > 0
    /\ requests' = requests - 1
    /\ UNCHANGED <<world, now>>

(* A request for the chats arrives at a handler and asks the limits.       *)
AskLimits(h) ==
    /\ world.redis # "down" /\ requests > 0 /\ job[h] = Idle
    /\ \E checks \in world.callers : Ask(h, checks)
    /\ requests' = requests - 1
    /\ UNCHANGED <<world, now, job, fileVars, contended, saleVars, chatVars>>

LimitStep(h) ==
    /\ AskNext(h) \/ Execute(h) \/ RedisFails(h) \/ Leave(h)
    /\ UNCHANGED <<world, now, job, fileVars, contended, saleVars, chatVars, requests>>

(* They have let it in; without Redis they let in whatever comes.          *)
ChatArrives(h, op) ==
    \/ /\ op \in world.ops /\ asks[h] = LetIn
       /\ asks' = [asks EXCEPT ![h] = NotAsking]
       /\ UNCHANGED <<world, now, marks, expires, passed, late, trimmed, requests>>
    \/ /\ world.redis = "down" /\ Arrives(op)
       /\ UNCHANGED limitVars

ChatRun(h) ==
    /\ ChatArrives(h, "run")
    /\ \/ \E s \in Sessions : Resume(h, s)
       \/ \E s \in 1..world.chats, w \in Workspaces \union {NoWorkspace} :
             Open(h, s, w, world.hasProject)

ChatTemporary(h) == ChatArrives(h, "temporary") /\ RunTemporary(h)

ChatEdit(h) ==
    /\ ChatArrives(h, "edit")
    /\ \E x \in steps : EditMessage(h, x.session, x.turn)

ChatToolResult(h) ==
    /\ ChatArrives(h, "tool_result")
    /\ \E c \in calls : ToolResult(h, c)

ManageChats ==
    /\ \/ Arrives("delete_chat") /\ \E s \in Sessions : DeleteChat(s)
       \/ Arrives("patch_chat") /\
             \E s \in Sessions, w \in Workspaces \union {NoWorkspace} : UpdateMetadata(s, w)
    /\ UNCHANGED limitVars

ManageImages ==
    /\ \/ Arrives("fetch_images") /\ FetchImages
       \/ Arrives("delete_image") /\ \E i \in images : DeleteImage(i)
    /\ UNCHANGED <<limitVars, job, fileVars, contended, chatVars>>

UploadFile(h) ==
    /\ Arrives("upload") /\ asks[h] = NotAsking
    /\ \E w \in Workspaces, size \in world.sizes : Upload(h, w, size)
    /\ UNCHANGED <<limitVars, saleVars, chatVars>>

ManageWorkspaces ==
    /\ \/ /\ Arrives("create_workspace")
          /\ \E w \in Workspaces : CreateWorkspace(w)
          /\ UNCHANGED sessions
       \/ /\ Arrives("delete_workspace")
          /\ \E w \in Workspaces : DeleteWorkspace(w) /\ Unbind(w)
       \/ /\ Arrives("delete_file")
          /\ \E f \in files : DeleteFile(f)
          /\ UNCHANGED sessions
    /\ UNCHANGED <<limitVars, saleVars, steps, calls, trialUsed, answered, torn>>

TimePasses ==
    /\ Tick
    /\ UNCHANGED <<world, limitVars, job, fileVars, contended, saleVars, chatVars,
                   requests>>

Arrival(h) ==
    \/ ChatRun(h)
    \/ ChatTemporary(h)
    \/ ChatEdit(h)
    \/ ChatToolResult(h)
    \/ UploadFile(h)

(* A handler goes on with the chat request it works on.                    *)
ChatStep(h) ==
    \/ FindCalls(h)
    \/ CutCalls(h)
    \/ FindSteps(h)
    \/ CutSteps(h)
    \/ ApplyResult(h)
    \/ StoreFails(h)
    \/ \E blocks \in world.rounds : StartRound(h, blocks)
    \/ RunTool(h)
    \/ ImageRefused(h)
    \/ StoreImage(h)
    \/ ImageUnpaid(h)
    \/ CheckSite(h)
    \/ WriteSite(h)
    \/ WriteFails(h)
    \/ DeleteSite(h)
    \/ LeaveToClient(h)
    \/ CommitRound(h)
    \/ Finalize(h)
    \/ FinalizeUnpaid(h)
    \/ Truncate(h)
    \/ DeadlockVictim(h)

UploadStep(h) ==
    /\ CheckTotal(h) \/ StoreFile(h)
    /\ UNCHANGED <<saleVars, chatVars>>

Works(h) ==
    /\ ChatStep(h) \/ UploadStep(h) \/ Abort(h)
    /\ UNCHANGED <<world, now, limitVars, requests>>

Next ==
    \/ \E h \in Handlers : AskLimits(h) \/ LimitStep(h) \/ Arrival(h) \/ Works(h)
    \/ ManageChats
    \/ ManageImages
    \/ ManageWorkspaces
    \/ TimePasses

Spec == Init /\ [][Next]_serviceVars
=============================================================================
