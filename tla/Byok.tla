-------------------------------- MODULE Byok --------------------------------
(***************************************************************************)
(* The user's own provider key: set validates over the network and then    *)
(* stores, toggle and delete change the row, and a generation that the     *)
(* provider rejects marks it expired.  The ORM row is loaded and flushed   *)
(* in two statements, and the UPDATE sends only the columns that differ    *)
(* from what was loaded.  Encryption is left out: a stored key is the key. *)
(* (byok/service.py, byok/provider_detect.py)                              *)
(***************************************************************************)
EXTENDS Accounts

CONSTANTS
    ApiKeys,        \* keys a user may send
    Prefix          \* Prefix[k]: how key k begins, after strip

Prefixes == {"sk-ant-", "sk-proj-", "sk-", "other"}
KeyRows == [key: ApiKeys, status: {"valid", "invalid", "offline", "expired"},
            provider: {"anthropic", "openai", None}, enabled: BOOLEAN]

ASSUME KeysAssumption ==
    /\ Prefix \in [ApiKeys -> Prefixes]
    /\ None \notin {"anthropic", "openai"} \union KeyRows

VARIABLES
    byok_keys,      \* byok_keys[u]: the committed row, or None
    accepted,       \* keys the providers accept now
    overlapped,     \* history: users two of whose writes overlapped
    byok            \* byok[h]: what the request that h serves is doing

byokVars == <<byok_keys, accepted, overlapped, byok>>

(* An Anthropic key also begins with sk-: the order of the tests matters.  *)
detect_byok_provider(k) ==
    CASE Prefix[k] = "sk-ant-" -> "anthropic"
      [] Prefix[k] \in {"sk-proj-", "sk-"} -> "openai"
      [] OTHER -> None

ByokIdle ==
    [pc |-> "idle", op |-> "none", user |-> None, key |-> None,
     status |-> "missing", seen |-> None, write |-> None]

Does(h, j) ==
    /\ byok' = [byok EXCEPT ![h] = j]
    /\ UNCHANGED <<byok_keys, accepted>>

-----------------------------------------------------------------------------
ByokInit ==
    /\ byok_keys = [u \in Users |-> None]
    /\ accepted \in SUBSET {k \in ApiKeys : detect_byok_provider(k) # None}
    /\ overlapped = {}
    /\ byok = [h \in Handlers |-> ByokIdle]

Begins(h, u, op, pc, k) ==
    /\ byok[h].pc = "idle"
    /\ Does(h, [ByokIdle EXCEPT !.pc = pc, !.user = u, !.op = op, !.key = k])
    /\ UNCHANGED overlapped

(* POST /v1/byok/set, /toggle, /delete.                                    *)
SetKey(h, u, k) == Begins(h, u, "set", "validate", k)
Toggle(h, u, enabled) == Begins(h, u, IF enabled THEN "enable" ELSE "disable", "load", None)
DeleteKey(h, u) == Begins(h, u, "delete", "delete", None)

(* The policy lets a message use the key that is enabled and valid.        *)
Generate(h, u) ==
    /\ byok_keys[u] # None /\ byok_keys[u].enabled /\ byok_keys[u].status = "valid"
    /\ Begins(h, u, "generate", "provider", byok_keys[u].key)

(* set_key: an unknown format is invalid without a call; otherwise the     *)
(* provider says valid or invalid, or cannot be reached.                   *)
Validate(h) ==
    LET k == byok[h].key
        verdicts == IF detect_byok_provider(k) = None THEN {"invalid"}
                    ELSE {IF k \in accepted THEN "valid" ELSE "invalid", "offline"}
    IN  /\ byok[h].pc = "validate"
        /\ \E verdict \in verdicts :
              Does(h, [byok[h] EXCEPT !.pc = "load", !.status = verdict])
        /\ UNCHANGED overlapped

(* The provider call of a message: a rejected key is marked expired, any   *)
(* other end leaves the row alone.                                         *)
CallProvider(h) ==
    /\ byok[h].pc = "provider"
    /\ IF byok[h].key \in accepted THEN Does(h, ByokIdle)
       ELSE Does(h, [byok[h] EXCEPT !.pc = "load", !.status = "expired"])
    /\ UNCHANGED overlapped

(* A request between its load and its commit.                              *)
Writing(j) == j.pc \in {"write", "commit"}
Overlaps(h) ==
    overlapped' = overlapped \union
        (IF \E g \in Handlers \ {h} : Writing(byok[g]) /\ byok[g].user = byok[h].user
         THEN {byok[h].user} ELSE {})

(* SELECT of the row.                                                      *)
Load(h) ==
    /\ byok[h].pc = "load"
    /\ Does(h, [byok[h] EXCEPT !.pc = "write", !.seen = byok_keys[byok[h].user]])
    /\ Overlaps(h)

-----------------------------------------------------------------------------
(* The row each operation wants, given the row it has loaded.              *)
(* Mutant: a key that is not valid leaves the switch on.                   *)
FaultyWanted(j) ==
    CASE j.op = "set" ->
            [key |-> j.key, status |-> j.status,
             provider |-> detect_byok_provider(j.key),
             enabled |-> j.seen # None /\ j.seen.enabled]
      [] j.op \in {"enable", "disable"} -> [j.seen EXCEPT !.enabled = j.op = "enable"]
      [] j.op = "generate" -> [j.seen EXCEPT !.status = j.status, !.enabled = FALSE]
Wanted(j) ==
    CASE j.op = "set" ->
            [key |-> j.key, status |-> j.status,
             provider |-> detect_byok_provider(j.key),
             enabled |-> j.seen # None /\ j.seen.enabled /\ j.status = "valid"]
      [] j.op \in {"enable", "disable"} -> [j.seen EXCEPT !.enabled = j.op = "enable"]
      [] j.op = "generate" -> [j.seen EXCEPT !.status = j.status, !.enabled = FALSE]

(* toggle and mark_expired leave early without a row, toggle also when the *)
(* key to enable is not valid.                                             *)
LeavesEarly(j) ==
    \/ j.op # "set" /\ j.seen = None
    \/ j.op = "enable" /\ j.seen # None /\ j.seen.status # "valid"

(* The ciphertext of a set differs even when the key is the same.          *)
ChangedColumns(j) ==
    {c \in DOMAIN Wanted(j) : Wanted(j)[c] # j.seen[c] \/ (j.op = "set" /\ c = "key")}

HoldsKeyRow(j, u) ==
    /\ j.user = u /\ j.pc = "commit"
    /\ j.op = "delete" \/ DOMAIN j.write # {}
KeyRowFree(h) == \A g \in Handlers \ {h} : ~HoldsKeyRow(byok[g], byok[h].user)

(* The flush: an INSERT when no row was loaded, which fails when there is  *)
(* one by now; an UPDATE of the changed columns, which fails when the row  *)
(* is gone.                                                                *)
Flush(h) ==
    LET j == byok[h]
        row == byok_keys[j.user]
    IN  /\ j.pc = "write"
        /\ \/ /\ LeavesEarly(j)
              /\ Does(h, ByokIdle)
           \/ /\ ~LeavesEarly(j) /\ KeyRowFree(h)
              /\ (j.seen = None) # (row = None)
              /\ Does(h, ByokIdle)
           \/ /\ ~LeavesEarly(j) /\ KeyRowFree(h)
              /\ j.seen = None /\ row = None
              /\ Does(h, [j EXCEPT !.pc = "commit", !.write = Wanted(j)])
           \/ /\ ~LeavesEarly(j) /\ KeyRowFree(h)
              /\ j.seen # None /\ row # None
              /\ Does(h, [j EXCEPT !.pc = "commit",
                            !.write = [c \in ChangedColumns(j) |-> Wanted(j)[c]]])
        /\ UNCHANGED overlapped

(* DELETE of the row, if there is one.                                     *)
Delete(h) ==
    /\ byok[h].pc = "delete" /\ KeyRowFree(h)
    /\ Does(h, IF byok_keys[byok[h].user] = None THEN ByokIdle
               ELSE [byok[h] EXCEPT !.pc = "commit"])
    /\ Overlaps(h)

CommitByok(h) ==
    LET j == byok[h] IN
    /\ j.pc = "commit"
    /\ byok_keys' = [byok_keys EXCEPT ![j.user] =
          IF j.op = "delete" THEN None
          ELSE IF DOMAIN j.write = {} THEN @
          ELSE [c \in {"key", "status", "provider", "enabled"} |->
                   IF c \in DOMAIN j.write THEN j.write[c] ELSE @[c]]]
    /\ byok' = [byok EXCEPT ![h] = ByokIdle]
    /\ UNCHANGED <<accepted, overlapped>>

FailByok(h) ==
    /\ byok[h].pc # "idle"
    /\ Does(h, ByokIdle)
    /\ UNCHANGED overlapped

(* The owner revokes a key at the provider.                                *)
RevokeKey(k) ==
    /\ k \in accepted
    /\ accepted' = accepted \ {k}
    /\ UNCHANGED <<byok_keys, overlapped, byok>>

StepByok(h) ==
    \/ Validate(h) \/ CallProvider(h) \/ Load(h) \/ Flush(h) \/ Delete(h) \/ CommitByok(h)

-----------------------------------------------------------------------------
(* While no two writes of a user overlap between load and commit, the row  *)
(* is of one piece: it is switched on only when it is valid, and provider  *)
(* and status are those of the key it holds, however long validations and  *)
(* generations take and in whatever order they end.                        *)
(* (BYOKService._store_key, toggle, mark_expired)                          *)
SerialKeyIsWhole ==
    \A u \in Users \ overlapped :
        LET row == byok_keys[u] IN
        row # None =>
            /\ row.enabled => row.status = "valid"
            /\ row.provider = (CASE Prefix[row.key] = "sk-ant-" -> "anthropic"
                                 [] Prefix[row.key] = "other" -> None
                                 [] OTHER -> "openai")
            /\ row.status = "valid" => row.provider # None
=============================================================================
