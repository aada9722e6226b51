----------------------------- MODULE MCChatTurn -----------------------------
(***************************************************************************)
(* Instances of ChatTurn for TLC: a subscriber with one credit, a user on  *)
(* the trial, and a subscriber with an own key.                            *)
(***************************************************************************)
EXTENDS ChatTurn, TLC

Session(m, subscription, balance) ==
    [mode |-> m,
     account |->
        [subscription_status |-> subscription, trial_used |-> FALSE,
         credits_balance |-> balance, byok_enabled |-> m = "byok",
         byok_status |-> IF m = "byok" THEN "valid" ELSE "missing"]]

Subscriber == {Session("credits", "active", 1)}

Trial == {Session("credits", "none", 0)}

OwnKey == {Session("byok", "active", 0)}

AllSessions == Subscriber \union Trial \union OwnKey

(* One call or two different ones, in both orders.                         *)
OneOrTwo ==
    {<<c>> : c \in Calls} \union {b \in Calls \X Calls : b[1] # b[2]}

(* One call at a time.                                                     *)
OneByOne == {<<c>> : c \in Calls}

(* The request handlers are alike (safety only).                           *)
Handlers == Permutations(Requests)
=============================================================================
