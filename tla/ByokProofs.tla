---------------------------- MODULE ByokProofs ----------------------------
(***************************************************************************)
(* The row of a user's own key is of one piece as long as no two writes of *)
(* it overlap, for every number of requests, users and keys.  The          *)
(* invariant: of such a user at most one request is between its load and   *)
(* its commit, what it has loaded is what the table holds, and what it     *)
(* will commit makes a whole row of it.                                    *)
(***************************************************************************)
EXTENDS Credentials, TLAPS

JobFields == {"pc", "op", "user", "key", "status", "seen", "write"}
RowFields == {"key", "status", "provider", "enabled"}

(* A row of one piece.                                                     *)
Whole(row) ==
    /\ row \in KeyRows
    /\ row.enabled => row.status = "valid"
    /\ row.provider = detect_byok_provider(row.key)
    /\ row.status = "valid" => row.provider # None

(* What an UPDATE of some columns makes of a row.                          *)
Updated(row, write) ==
    [c \in RowFields |-> IF c \in DOMAIN write THEN write[c] ELSE row[c]]

(* What a request knows before it loads the row: a key is called valid     *)
(* only when a provider was asked, and a generation only reports a key     *)
(* that was rejected.                                                      *)
Informed(j) ==
    /\ DOMAIN j = JobFields
    /\ j.pc \in {"validate", "load", "write"} =>
          j.op \in {"set", "enable", "disable", "generate"}
    /\ j.pc \in {"validate", "load", "write"} /\ j.op = "set" => j.key \in ApiKeys
    /\ j.pc = "validate" => j.op = "set"
    /\ j.pc = "delete" => j.op = "delete"
    /\ j.pc = "provider" => j.op = "generate"
    /\ j.pc \in {"load", "write"} /\ j.op = "set" =>
          /\ j.status \in {"valid", "invalid", "offline"}
          /\ j.status = "valid" => detect_byok_provider(j.key) # None
    /\ j.pc \in {"load", "write"} /\ j.op = "generate" => j.status = "expired"

(* What is said of a write that overlaps no other.                         *)
Grounded(j) ==
    /\ j.pc = "write" => j.seen = byok_keys[j.user]
    /\ j.pc = "commit" /\ j.op # "delete" /\ DOMAIN j.write # {} =>
          Whole(Updated(byok_keys[j.user], j.write))

Serial(u) == u \in Users \ overlapped

KeyInv ==
    /\ DOMAIN byok_keys = Users /\ DOMAIN byok = Handlers
    /\ \A u \in Users : Serial(u) => byok_keys[u] = None \/ Whole(byok_keys[u])
    /\ \A h \in Handlers : Informed(byok[h])
    /\ \A h \in Handlers :
          Serial(byok[h].user) /\ Writing(byok[h]) => Grounded(byok[h])
    /\ \A h, g \in Handlers :
          Serial(byok[h].user) /\ Writing(byok[h]) /\ Writing(byok[g])
          /\ byok[h].user = byok[g].user => h = g

-----------------------------------------------------------------------------
(* A step of one request that leaves the table alone.                      *)
LEMMA JobStep ==
    ASSUME KeyInv, NEW h \in Handlers, NEW j, byok' = [byok EXCEPT ![h] = j],
           byok_keys' = byok_keys, overlapped \subseteq overlapped', Informed(j),
           j.user \in Users \ overlapped' /\ Writing(j) =>
               /\ Grounded(j)
               /\ \A g \in Handlers \ {h} :
                     ~(Writing(byok[g]) /\ byok[g].user = j.user)
    PROVE  KeyInv'
<1>1. /\ DOMAIN byok' = Handlers /\ byok'[h] = j
      /\ \A g \in Handlers \ {h} : byok'[g] = byok[g]
  BY DEF KeyInv
<1>2. \A g \in Handlers : Informed(byok[g])'
  BY <1>1 DEF KeyInv, Informed
<1>3. \A g \in Handlers : Serial(byok[g].user)' /\ Writing(byok[g])' => Grounded(byok[g])'
  BY <1>1 DEF KeyInv, Serial, Writing, Grounded
<1>4. \A f, g \in Handlers : Serial(byok[f].user)' /\ Writing(byok[f])' /\ Writing(byok[g])'
                             /\ (byok[f].user = byok[g].user)' => f = g
  BY <1>1 DEF KeyInv, Serial, Writing
<1>5. QED
  BY <1>1, <1>2, <1>3, <1>4 DEF KeyInv, Serial

(* The idle record, and any record on its way to its load, is no write.    *)
LEMMA IdleInformed == Informed(ByokIdle) /\ ~Writing(ByokIdle)
BY DEF Informed, ByokIdle, JobFields, Writing

(* Giving up leaves the invariant alone.                                   *)
LEMMA IdleStep ==
    ASSUME KeyInv, NEW h \in Handlers, Does(h, ByokIdle), overlapped \subseteq overlapped'
    PROVE  KeyInv'
BY IdleInformed, JobStep DEF Does

(* Every call begins on its way to its load.                               *)
LEMMA BeginStep ==
    ASSUME KeyInv, NEW h \in Handlers, NEW u, NEW op, NEW pc, NEW k, Begins(h, u, op, pc, k),
           \/ op = "set" /\ pc = "validate" /\ k \in ApiKeys
           \/ op \in {"enable", "disable"} /\ pc = "load"
           \/ op = "delete" /\ pc = "delete"
           \/ op = "generate" /\ pc = "provider"
    PROVE  KeyInv'
<1>1. PICK j : j = [ByokIdle EXCEPT !.pc = pc, !.user = u, !.op = op, !.key = k]
  OBVIOUS
<1>2. /\ DOMAIN j = JobFields /\ j.pc = pc /\ j.op = op /\ j.key = k
  BY <1>1 DEF ByokIdle, JobFields
<1>3. Informed(j) /\ ~Writing(j)
  BY <1>2 DEF Informed, Writing
<1>4. QED
  BY <1>1, <1>3, JobStep DEF Begins, Does

(* The bearer of an access token begins one of the five calls.             *)
LEMMA UseKeysStep ==
    ASSUME KeyInv, NEW h \in Handlers, UseKeys(h)
    PROVE  KeyInv'
<1>1. PICK u \in users :
          \/ \E k \in ApiKeys : SetKey(h, u, k)
          \/ \E enabled \in BOOLEAN : Toggle(h, u, enabled)
          \/ DeleteKey(h, u)
          \/ Generate(h, u)
  BY DEF UseKeys
<1>2. ASSUME NEW k \in ApiKeys, SetKey(h, u, k)
      PROVE  KeyInv'
  BY <1>2, BeginStep DEF SetKey
<1>3. ASSUME NEW enabled \in BOOLEAN, Toggle(h, u, enabled)
      PROVE  KeyInv'
  <2>1. PICK op \in {"enable", "disable"} : Begins(h, u, op, "load", None)
    BY <1>3 DEF Toggle
  <2>2. QED
    BY <2>1, BeginStep
<1>4. CASE DeleteKey(h, u)
  BY <1>4, BeginStep DEF DeleteKey
<1>5. CASE Generate(h, u)
  BY <1>5, BeginStep DEF Generate
<1>6. QED
  BY <1>1, <1>2, <1>3, <1>4, <1>5

-----------------------------------------------------------------------------
(* Before the row is loaded.                                               *)
(* A key is valid only by the word of a provider.                          *)
LEMMA ValidateStep ==
    ASSUME KeyInv, NEW h \in Handlers, Validate(h)
    PROVE  KeyInv'
<1>1. PICK k : k = byok[h]
  OBVIOUS
<1>2. PICK verdict \in {"valid", "invalid", "offline"} :
          /\ Does(h, [k EXCEPT !.pc = "load", !.status = verdict])
          /\ verdict = "valid" => detect_byok_provider(k.key) # None
  BY <1>1 DEF Validate
<1>3. k.pc = "validate" /\ Informed(k) /\ overlapped' = overlapped
  BY <1>1 DEF Validate, KeyInv
<1>4. PICK j : j = [k EXCEPT !.pc = "load", !.status = verdict]
  OBVIOUS
<1>5. /\ DOMAIN j = JobFields /\ j.pc = "load" /\ j.status = verdict
      /\ j.op = k.op /\ j.key = k.key
  BY <1>3, <1>4 DEF Informed, JobFields
<1>6. Informed(j) /\ ~Writing(j)
  BY <1>2, <1>3, <1>5 DEF Informed, Writing
<1>7. QED
  BY <1>2, <1>3, <1>4, <1>6, JobStep DEF Does

(* Only a key that was rejected is reported.                               *)
LEMMA CallProviderStep ==
    ASSUME KeyInv, NEW h \in Handlers, CallProvider(h)
    PROVE  KeyInv'
<1>1. PICK k : k = byok[h]
  OBVIOUS
<1>2. k.pc = "provider" /\ Informed(k) /\ overlapped' = overlapped
  BY <1>1 DEF CallProvider, KeyInv
<1>3. CASE Does(h, ByokIdle)
  BY <1>2, <1>3, IdleStep
<1>4. CASE Does(h, [k EXCEPT !.pc = "load", !.status = "expired"])
  <2>1. PICK j : j = [k EXCEPT !.pc = "load", !.status = "expired"]
    OBVIOUS
  <2>2. DOMAIN j = JobFields /\ j.pc = "load" /\ j.status = "expired" /\ j.op = k.op
    BY <1>2, <2>1 DEF Informed, JobFields
  <2>3. Informed(j) /\ ~Writing(j)
    BY <1>2, <2>2 DEF Informed, Writing
  <2>4. QED
    BY <1>2, <1>4, <2>1, <2>3, JobStep DEF Does
<1>5. QED
  BY <1>1, <1>3, <1>4 DEF CallProvider

-----------------------------------------------------------------------------
(* From the load to the commit.                                            *)

(* Whoever begins to write a user's row alone finds nobody else writing.   *)
LEMMA NobodyElse ==
    ASSUME NEW h \in Handlers, Overlaps(h), byok[h].user \notin overlapped'
    PROVE  \A g \in Handlers \ {h} : ~(Writing(byok[g]) /\ byok[g].user = byok[h].user)
BY DEF Overlaps

(* What is loaded is what the table holds.                                 *)
LEMMA LoadStep ==
    ASSUME KeyInv, NEW h \in Handlers, Load(h)
    PROVE  KeyInv'
<1>1. PICK k : k = byok[h]
  OBVIOUS
<1>2. PICK j : j = [k EXCEPT !.pc = "write", !.seen = byok_keys[k.user]]
  OBVIOUS
<1>3. k.pc = "load" /\ Informed(k) /\ Overlaps(h)
  BY <1>1 DEF Load, KeyInv
<1>4. /\ DOMAIN j = JobFields /\ j.pc = "write" /\ j.seen = byok_keys[k.user]
      /\ j.op = k.op /\ j.key = k.key /\ j.status = k.status /\ j.user = k.user
  BY <1>2, <1>3 DEF Informed, JobFields
<1>5. Informed(j) /\ Grounded(j)
  BY <1>3, <1>4 DEF Informed, Grounded
<1>6. overlapped \subseteq overlapped'
  BY <1>3 DEF Overlaps
<1>7. QED
  BY <1>1, <1>2, <1>3, <1>4, <1>5, <1>6, NobodyElse, JobStep DEF Load, Does

(* A deletion is a write without columns.                                  *)
LEMMA DeleteStep ==
    ASSUME KeyInv, NEW h \in Handlers, Delete(h)
    PROVE  KeyInv'
<1>1. PICK k : k = byok[h]
  OBVIOUS
<1>2. k.pc = "delete" /\ Informed(k) /\ Overlaps(h)
  BY <1>1 DEF Delete, KeyInv
<1>3. overlapped \subseteq overlapped'
  BY <1>2 DEF Overlaps
<1>4. CASE Does(h, ByokIdle)
  BY <1>3, <1>4, IdleStep
<1>5. CASE Does(h, [k EXCEPT !.pc = "commit"])
  <2>1. PICK j : j = [k EXCEPT !.pc = "commit"]
    OBVIOUS
  <2>2. DOMAIN j = JobFields /\ j.pc = "commit" /\ j.op = "delete" /\ j.user = k.user
    BY <1>2, <2>1 DEF Informed, JobFields
  <2>3. Informed(j) /\ Grounded(j)
    BY <2>2 DEF Informed, Grounded
  <2>4. QED
    BY <1>1, <1>2, <1>3, <1>5, <2>1, <2>2, <2>3, NobodyElse, JobStep DEF Does
<1>6. QED
  BY <1>1, <1>4, <1>5 DEF Delete

(* The row an operation wants is of one piece when the one it has loaded   *)
(* is.                                                                     *)
LEMMA WantedWhole ==
    ASSUME NEW j, Informed(j), j.pc = "write", ~LeavesEarly(j),
           j.seen = None \/ Whole(j.seen)
    PROVE  Whole(Wanted(j)) /\ DOMAIN Wanted(j) = RowFields
<1>1. \A row : Whole(row) => DOMAIN row = RowFields
  BY DEF Whole, KeyRows, RowFields
<1>2. CASE j.op = "set"
  <2>1. PICK enabled \in BOOLEAN : enabled = (j.seen # None /\ j.seen.enabled
                                              /\ j.status = "valid")
    OBVIOUS
  <2>2. Wanted(j) = [key |-> j.key, status |-> j.status,
                     provider |-> detect_byok_provider(j.key), enabled |-> enabled]
    BY <1>2, <2>1 DEF Wanted
  <2>3. detect_byok_provider(j.key) \in {"anthropic", "openai", None}
    BY DEF detect_byok_provider
  <2>4. Wanted(j) \in KeyRows
    BY <1>2, <2>2, <2>3 DEF Informed, KeyRows
  <2>5. /\ Wanted(j).key = j.key /\ Wanted(j).status = j.status
        /\ Wanted(j).provider = detect_byok_provider(j.key) /\ Wanted(j).enabled = enabled
    BY <2>2
  <2>6. /\ enabled => j.status = "valid"
        /\ j.status = "valid" => detect_byok_provider(j.key) # None
    BY <1>2, <2>1 DEF Informed
  <2>7. Whole(Wanted(j))
    BY <2>4, <2>5, <2>6 DEF Whole
  <2>8. QED
    BY <1>1, <2>7
<1>3. CASE j.op \in {"enable", "disable"}
  <2>1. j.seen # None /\ Whole(j.seen) /\ (j.op = "enable" => j.seen.status = "valid")
    BY <1>3 DEF LeavesEarly
  <2>2. PICK enabled \in BOOLEAN : enabled = (j.op = "enable")
    OBVIOUS
  <2>3. Wanted(j) = [j.seen EXCEPT !.enabled = enabled]
    BY <1>3, <2>2 DEF Wanted
  <2>4. Wanted(j) \in KeyRows
    BY <2>1, <2>3 DEF Whole, KeyRows
  <2>5. /\ Wanted(j).enabled = enabled /\ Wanted(j).status = j.seen.status
        /\ Wanted(j).key = j.seen.key /\ Wanted(j).provider = j.seen.provider
    BY <2>1, <2>3 DEF Whole, KeyRows
  <2>6. QED
    BY <1>1, <2>1, <2>2, <2>4, <2>5 DEF Whole
<1>4. CASE j.op = "generate"
  <2>1. j.seen # None /\ Whole(j.seen) /\ j.status = "expired"
    BY <1>4 DEF LeavesEarly, Informed
  <2>2. Wanted(j) = [j.seen EXCEPT !.status = "expired", !.enabled = FALSE]
    BY <1>4, <2>1 DEF Wanted
  <2>3. Wanted(j) \in KeyRows
    BY <2>1, <2>2 DEF Whole, KeyRows
  <2>4. /\ Wanted(j).enabled = FALSE /\ Wanted(j).status = "expired"
        /\ Wanted(j).key = j.seen.key /\ Wanted(j).provider = j.seen.provider
    BY <2>1, <2>2 DEF Whole, KeyRows
  <2>5. QED
    BY <1>1, <2>1, <2>3, <2>4 DEF Whole
<1>5. QED
  BY <1>2, <1>3, <1>4 DEF Informed

(* A row is the function of its fields.                                    *)
LEMMA RowExtensional ==
    ASSUME NEW row, Whole(row), NEW other, DOMAIN other = RowFields,
           other = [c \in RowFields |-> other[c]],
           \A c \in RowFields : other[c] = row[c]
    PROVE  other = row
BY DEF Whole, KeyRows, RowFields

(* What an uncontested request flushes makes a whole row.                  *)
LEMMA FlushStep ==
    ASSUME KeyInv, NEW h \in Handlers, Flush(h)
    PROVE  KeyInv'
<1>1. PICK k : k = byok[h]
  OBVIOUS
<1>2. k.pc = "write" /\ Informed(k) /\ overlapped' = overlapped
  BY <1>1 DEF Flush, KeyInv
<1>3. CASE Does(h, ByokIdle)
  BY <1>2, <1>3, IdleStep
<1>4. ASSUME NEW w, ~LeavesEarly(k), Does(h, [k EXCEPT !.pc = "commit", !.write = w]),
             DOMAIN w \subseteq RowFields, \A c \in DOMAIN w : w[c] = Wanted(k)[c],
             \/ DOMAIN w = RowFields
             \/ /\ k.seen # None
                /\ \A c \in RowFields \ DOMAIN w : Wanted(k)[c] = k.seen[c]
      PROVE  KeyInv'
  <2>1. PICK j : j = [k EXCEPT !.pc = "commit", !.write = w]
    OBVIOUS
  <2>2. DOMAIN j = JobFields /\ j.pc = "commit" /\ j.write = w /\ j.user = k.user
        /\ j.op = k.op
    BY <1>2, <2>1 DEF Informed, JobFields
  <2>3. Informed(j)
    BY <2>2 DEF Informed
  <2>4. ASSUME k.user \in Users \ overlapped
        PROVE  /\ Grounded(j)
               /\ \A g \in Handlers \ {h} : ~(Writing(byok[g]) /\ byok[g].user = j.user)
    <3>1. Serial(byok[h].user) /\ Writing(byok[h])
      BY <1>1, <1>2, <2>4 DEF Serial, Writing
    <3>2. \A g \in Handlers \ {h} : ~(Writing(byok[g]) /\ byok[g].user = j.user)
      BY <1>1, <2>2, <3>1 DEF KeyInv
    <3>3. k.seen = byok_keys[k.user] /\ (k.seen = None \/ Whole(k.seen))
      BY <1>1, <1>2, <2>4, <3>1 DEF KeyInv, Grounded, Serial
    <3>4. PICK row : row = Updated(byok_keys[k.user], w)
      OBVIOUS
    <3>5. Whole(Wanted(k)) /\ DOMAIN Wanted(k) = RowFields
      BY <1>2, <1>4, <3>3, WantedWhole
    <3>6. \A c \in RowFields : row[c] = Wanted(k)[c]
      BY <1>4, <3>3, <3>4 DEF Updated
    <3>7. DOMAIN row = RowFields /\ row = [c \in RowFields |-> row[c]]
      BY <3>4 DEF Updated
    <3>8. row = Wanted(k)
      BY <3>5, <3>6, <3>7, RowExtensional
    <3>9. Grounded(j)
      BY <2>2, <3>4, <3>5, <3>8 DEF Grounded
    <3>10. QED
      BY <3>2, <3>9
  <2>5. QED
    BY <1>2, <1>4, <2>1, <2>2, <2>3, <2>4, JobStep DEF Does
<1>5. CASE /\ ~LeavesEarly(k) /\ k.seen = None
           /\ Does(h, [k EXCEPT !.pc = "commit", !.write = Wanted(k)])
  <2>1. DOMAIN Wanted(k) = RowFields
    BY <1>2, <1>5, WantedWhole
  <2>2. QED
    BY <1>4, <1>5, <2>1
<1>6. CASE /\ ~LeavesEarly(k) /\ k.seen # None
           /\ Does(h, [k EXCEPT !.pc = "commit",
                         !.write = [c \in ChangedColumns(k) |-> Wanted(k)[c]]])
  <2>1. CASE ~Serial(k.user)
    <3>1. PICK j : j = [k EXCEPT !.pc = "commit",
                          !.write = [c \in ChangedColumns(k) |-> Wanted(k)[c]]]
      OBVIOUS
    <3>2. DOMAIN j = JobFields /\ j.pc = "commit" /\ j.user = k.user
      BY <1>2, <3>1 DEF Informed, JobFields
    <3>3. Informed(j)
      BY <3>2 DEF Informed
    <3>4. QED
      BY <1>2, <1>6, <2>1, <3>1, <3>2, <3>3, JobStep DEF Does, Serial
  <2>2. CASE Serial(k.user)
    <3>1. k.seen = None \/ Whole(k.seen)
      BY <1>1, <1>2, <2>2 DEF KeyInv, Grounded, Serial, Writing
    <3>2. DOMAIN Wanted(k) = RowFields
      BY <1>2, <1>6, <3>1, WantedWhole
    <3>3. /\ ChangedColumns(k) \subseteq RowFields
          /\ \A c \in RowFields \ ChangedColumns(k) : Wanted(k)[c] = k.seen[c]
      BY <3>2 DEF ChangedColumns
    <3>4. PICK w : w = [c \in ChangedColumns(k) |-> Wanted(k)[c]]
      OBVIOUS
    <3>5. /\ DOMAIN w = ChangedColumns(k)
          /\ \A c \in DOMAIN w : w[c] = Wanted(k)[c]
      BY <3>4
    <3>6. QED
      BY <1>4, <1>6, <3>3, <3>4, <3>5
  <2>3. QED
    BY <2>1, <2>2
<1>7. QED
  BY <1>1, <1>3, <1>5, <1>6 DEF Flush

(* A commit replaces the row of the one request that writes it.            *)
LEMMA CommitStep ==
    ASSUME KeyInv, NEW h \in Handlers, CommitByok(h)
    PROVE  KeyInv'
<1>1. PICK k : k = byok[h]
  OBVIOUS
<1>2. PICK row : row = IF k.op = "delete" THEN None
                       ELSE IF DOMAIN k.write = {} THEN byok_keys[k.user]
                       ELSE Updated(byok_keys[k.user], k.write)
  OBVIOUS
<1>3. /\ k.pc = "commit" /\ overlapped' = overlapped
      /\ byok' = [byok EXCEPT ![h] = ByokIdle]
      /\ byok_keys' = [byok_keys EXCEPT ![k.user] = row]
  BY <1>1, <1>2 DEF CommitByok, Updated, RowFields
<1>4. /\ DOMAIN byok_keys' = Users /\ DOMAIN byok' = Handlers /\ byok'[h] = ByokIdle
      /\ \A g \in Handlers \ {h} : byok'[g] = byok[g]
      /\ \A u \in Users : byok_keys'[u] = IF u = k.user THEN row ELSE byok_keys[u]
  BY <1>3 DEF KeyInv
<1>5. Serial(k.user) => row = None \/ Whole(row)
  BY <1>1, <1>2, <1>3 DEF KeyInv, Grounded, Serial, Writing
<1>6. \A u \in Users : Serial(u)' => byok_keys'[u] = None \/ Whole(byok_keys[u])'
  BY <1>3, <1>4, <1>5 DEF KeyInv, Serial, Whole
<1>7. \A g \in Handlers : Informed(byok[g])'
  BY <1>4, IdleInformed DEF KeyInv, Informed
<1>8. ASSUME NEW g \in Handlers, Serial(byok[g].user)', Writing(byok[g])'
      PROVE  Grounded(byok[g])'
  <2>1. g # h /\ byok'[g] = byok[g] /\ Serial(byok[g].user) /\ Writing(byok[g])
    BY <1>3, <1>4, <1>8, IdleInformed DEF Serial, Writing
  <2>2. byok[g].user # k.user
    BY <1>1, <1>3, <2>1 DEF KeyInv, Writing
  <2>3. byok_keys'[byok[g].user] = byok_keys[byok[g].user]
    BY <1>4, <2>1, <2>2 DEF Serial
  <2>4. Grounded(byok[g])
    BY <2>1 DEF KeyInv
  <2>5. QED
    BY <2>1, <2>3, <2>4 DEF Grounded
<1>9. \A f, g \in Handlers : Serial(byok[f].user)' /\ Writing(byok[f])' /\ Writing(byok[g])'
                             /\ (byok[f].user = byok[g].user)' => f = g
  BY <1>3, <1>4, IdleInformed DEF KeyInv, Serial, Writing
<1>10. QED
  BY <1>4, <1>6, <1>7, <1>8, <1>9 DEF KeyInv

-----------------------------------------------------------------------------
(* Steps that change neither rows nor requests.                            *)
LEMMA Untouched ==
    ASSUME KeyInv, UNCHANGED <<byok_keys, overlapped, byok>>
    PROVE  KeyInv'
<1>1. \A h \in Handlers : Informed(byok[h])' /\ (Writing(byok[h])' <=> Writing(byok[h]))
                          /\ (Serial(byok[h].user)' <=> Serial(byok[h].user))
                          /\ (Grounded(byok[h])' <=> Grounded(byok[h]))
  BY DEF KeyInv, Informed, Writing, Serial, Grounded
<1>2. QED
  BY <1>1 DEF KeyInv, Serial

(* No key is stored and no request is running.                             *)
LEMMA InitHolds ==
    ASSUME Init
    PROVE  KeyInv
<1>1. \A h \in Handlers : byok[h] = ByokIdle
  BY DEF Init, ByokInit
<1>2. /\ DOMAIN byok_keys = Users /\ DOMAIN byok = Handlers
      /\ \A u \in Users : byok_keys[u] = None
  BY DEF Init, ByokInit
<1>3. QED
  BY <1>1, <1>2, IdleInformed DEF KeyInv

(* Every step keeps the invariant.                                         *)
LEMMA NextHolds ==
    ASSUME KeyInv, [Next]_vars
    PROVE  KeyInv'
<1>1. ASSUME NEW h \in Handlers, SignIn(h)
      PROVE  KeyInv'
  BY <1>1, Untouched DEF SignIn, byokVars
<1>2. ASSUME NEW h \in Handlers, UseKeys(h)
      PROVE  KeyInv'
  BY <1>2, UseKeysStep
<1>3. CASE AuthSide
  BY <1>3, Untouched DEF AuthSide, byokVars
<1>4. ASSUME NEW h \in Handlers, StepByok(h)
      PROVE  KeyInv'
  BY <1>4, ValidateStep, CallProviderStep, LoadStep, FlushStep, DeleteStep, CommitStep
     DEF StepByok
<1>5. ASSUME NEW h \in Handlers, FailByok(h)
      PROVE  KeyInv'
  BY <1>5, IdleStep DEF FailByok
<1>6. ASSUME NEW k \in ApiKeys, RevokeKey(k)
      PROVE  KeyInv'
  BY <1>6, Untouched DEF RevokeKey
<1>7. CASE UNCHANGED vars
  BY <1>7, Untouched DEF vars, byokVars
<1>8. QED
  BY <1>1, <1>2, <1>3, <1>4, <1>5, <1>6, <1>7 DEF Next, KeySide

(* The inductive invariant of the users' own keys: of a user whose writes  *)
(* do not overlap, at most one request is between load and commit, it has  *)
(* seen the row as it is, and what it commits makes a whole row of it.     *)
THEOREM KeysSound == Spec => []KeyInv
<1>1. Init => KeyInv
  BY InitHolds
<1>2. KeyInv /\ [Next]_vars => KeyInv'
  BY NextHolds
<1>3. QED
  BY <1>1, <1>2, PTL DEF Spec

(* The row of a user whose writes do not overlap is of one piece: switched *)
(* on only when valid, with the provider of the key it holds               *)
(* (BYOKService._store_key, toggle, mark_expired).                         *)
THEOREM SerialKeysAreWhole == Spec => []SerialKeyIsWhole
<1>1. KeyInv => SerialKeyIsWhole
  <2> SUFFICES ASSUME KeyInv, NEW u \in Users \ overlapped, byok_keys[u] # None,
                      NEW row, row = byok_keys[u]
               PROVE  /\ row.enabled => row.status = "valid"
                      /\ row.provider = (CASE Prefix[row.key] = "sk-ant-" -> "anthropic"
                                           [] Prefix[row.key] = "other" -> None
                                           [] OTHER -> "openai")
                      /\ row.status = "valid" => row.provider # None
    BY DEF SerialKeyIsWhole
  <2>1. Whole(row)
    BY DEF KeyInv, Serial
  <2>2. Prefix[row.key] \in Prefixes
    BY <2>1, KeysAssumption DEF Whole, KeyRows
  <2>3. QED
    BY <2>1, <2>2 DEF Whole, detect_byok_provider, Prefixes
<1>2. QED
  BY <1>1, KeysSound, PTL
=============================================================================
