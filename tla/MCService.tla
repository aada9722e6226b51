----------------------------- MODULE MCService -----------------------------
(***************************************************************************)
(* Small instances of Service: a world for each group of requests that     *)
(* meet in the same rows, with the requests that may come in it.           *)
(***************************************************************************)
EXTENDS Service, TLC

CONSTANTS h1, h2, w1, p1, p2

MCLimit == [k \in Keys |-> IF k = "user" THEN 2 ELSE 1]

MCWorkspaceMax == [files |-> 2, bytes |-> 3]

MCSiteMax == [files |-> 1, bytes |-> 2]

HandlerSymmetry == Permutations(Handlers)

Tool(name) == [tool |-> name]

Write(p, n) == [tool |-> "write", path |-> p, size |-> n]

Delete(p) == [tool |-> "delete", path |-> p]

World(ops, n, rounds) ==
    [ops |-> ops, requests |-> n, chats |-> 1, rounds |-> rounds, redis |-> "down",
     callers |-> {<<"user">>}, clock |-> FALSE, subscription |-> "active",
     mode |-> "credits", credits |-> 3, maxRounds |-> 1, hasProject |-> FALSE,
     sizes |-> {}]

(* Messages, edits and results of the client in one chat.                  *)
Edits ==
    [World({"run", "edit", "tool_result"}, 4, {<<Tool("client")>>})
        EXCEPT !.mode = "byok"]

(* The chat is deleted meanwhile.                                          *)
Deletions ==
    [World({"run", "edit", "tool_result", "delete_chat"}, 3,
           {<<Tool("global"), Tool("client")>>}) EXCEPT !.chats = 2]

(* Chats are bound to workspaces, which go.                                *)
Moves ==
    [World({"run", "patch_chat", "create_workspace", "delete_workspace"}, 4, {})
        EXCEPT !.chats = 2]

(* Chats expire, and are resumed, edited or renamed.                       *)
Expiry ==
    [World({"run", "edit", "tool_result", "patch_chat"}, 3, {<<Tool("client")>>})
        EXCEPT !.chats = 2, !.clock = TRUE]

(* Two turns of a chat with several rounds each.                           *)
Rounds == World({"run", "temporary"}, 2, {<<Tool("global")>>})

(* Images in normal and temporary chats, as time passes.                   *)
Drawings ==
    [World({"run", "temporary", "delete_chat", "fetch_images", "delete_image"}, 3,
           {<<Tool("image")>>})
        EXCEPT !.clock = TRUE, !.mode = "byok",
               !.credits = 1, !.maxRounds = 0]

(* Free answers of a user without a subscription.                          *)
Trials ==
    [World({"run", "temporary"}, 4, {})
        EXCEPT !.subscription = "none", !.credits = 0]

(* Two chats that work on the same website.                                *)
Websites ==
    [World({"run"}, 2,
           {<<Write(p1, 1), Write(p2, 0)>>, <<Write(p2, 2)>>, <<Delete(p1)>>,
            <<Write(p1, 1), Tool("image")>>, <<Tool("image"), Write(p1, 2)>>})
        EXCEPT !.hasProject = TRUE, !.maxRounds = 0]

(* A page of it that comes and goes.                                       *)
Pages ==
    [World({"run"}, 3, {<<Write(p1, 1)>>, <<Delete(p1)>>})
        EXCEPT !.hasProject = TRUE, !.maxRounds = 0]

(* Workspaces and their files.                                             *)
Uploads ==
    [World({"create_workspace", "upload", "delete_file", "delete_workspace"}, 6, {})
        EXCEPT !.sizes = {1, 2}]

(* A client without credits that keeps asking while Redis answers most of  *)
(* the time.                                                               *)
Crowds ==
    [World({"temporary"}, 4, {})
        EXCEPT !.redis = "flaky", !.clock = TRUE, !.credits = 0,
               !.callers = {<<"user", "ip">>}]

MCWorlds == {Edits, Deletions, Moves, Expiry, Rounds, Drawings, Trials, Websites, Pages, Uploads, Crowds}

(* The free answers alone, for more handlers.                              *)
TrialWorlds == {Trials}
=============================================================================
