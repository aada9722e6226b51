--------------------------- MODULE ChatTurnProofs ---------------------------
(***************************************************************************)
(* Theorems about ChatTurn, for every number of requests, turns, calls and *)
(* rounds: a tool call gets one result, the provider sees every result it  *)
(* must, answers are paid and paid once, and a client that sends one       *)
(* request after the other gets one answer and no turn that hangs.  The    *)
(* invariant says what the rows of chat_steps are (numbered without gaps,  *)
(* one result for a call, the open ones tied to the request that wrote     *)
(* them), what a request knows at each place, and, for the turns no two    *)
(* requests have worked on at once, what is still to come.                 *)
(***************************************************************************)
EXTENDS ChatTurn, FiniteSetTheorems, TLAPS

(* The places of a request that has an open transaction.                   *)
Applying == {"apply", "open", "closed"}

RowsBy(p) == {s \in steps : s.by = p}

(* seq numbers the rows 1, 2, 3, ...                                       *)
Numbered(S) ==
    /\ IsFiniteSet(S)
    /\ \A s \in S : s.seq \in 1..Cardinality(S)
    /\ \A x, y \in S : x.seq = y.seq => x = y

(* A result names its call, and no call has two.                           *)
OneResultPerCall(S) ==
    /\ \A s \in S : s.kind = "tool" => s.call \in Calls
    /\ \A x, y \in S : x.kind = "tool" /\ y.kind = "tool" /\ x.call = y.call => x = y

(* A result belongs to the turn of its call; an uncommitted row is a       *)
(* result that a request has just applied in the turn it works on.         *)
RowsLinked ==
    \A s \in steps :
        /\ s.kind = "tool" => s.turn = turnOf[s.call]
        /\ s.by # NoRequest =>
              s.kind = "tool" /\ s.turn = turn[s.by] /\ pc[s.by] \in Applying

(* The calls are numbered in the order of their creation; those that are   *)
(* done are those that have a result.                                      *)
CallsLinked ==
    /\ \E k \in 0..MaxCalls : Existing = 1..k
    /\ serverSide \subseteq completed
    /\ completed = ResultsIn(Committed)
    /\ \A r \in Requests : held[r] = ResultsIn(RowsBy(r))
    /\ \A c \in Existing : Started(turnOf[c])

(* What a request knows at each place.                                     *)
RequestOK(r) ==
    /\ pc[r] = "idle" => turn[r] = NoTurn /\ known[r] = {}
    /\ pc[r] # "idle" => turn[r] \in Turns /\ Started(turn[r])
    /\ pc[r] \in Applying =>
          /\ BatchCalls(todo[r]) \subseteq TurnCalls(turn[r])
          /\ anchor[r] \in TurnCalls(turn[r])
    /\ pc[r] \in {"open", "closed"} => todo[r] = <<>>
    /\ pc[r] = "closed" => known[r] \subseteq completed \union held[r]
    /\ pc[r] = "llm" =>
          /\ known[r] \subseteq completed /\ known[r] \subseteq sent[r]
          /\ plan[r] \in {"debit", "trial", "free"}
          /\ plan[r] = "free" => mode = "byok"

BaseInv ==
    /\ TypeOK
    /\ Numbered(steps) /\ OneResultPerCall(steps)
    /\ RowsLinked /\ CallsLinked
    /\ \A r \in Requests : RequestOK(r)
    /\ AnswersArePaid /\ ChargedForAnswer

-----------------------------------------------------------------------------
OfTurn(S, t) == {s \in S : s.turn = t}

TurnRows(t) == {s \in steps : s.turn = t}

(* The batch of r repeats what was done before r came.                     *)
Replays(r) ==
    anchor[r] \in completed /\ BatchCalls(todo[r]) \subseteq completed /\ held[r] = {}

(* The batch of r brings results for calls that had none, and nothing but  *)
(* its own results has followed the first of them.                         *)
Resumes(r) ==
    /\ anchor[r] \notin completed
    /\ BatchCalls(todo[r]) \intersect completed = {}
    /\ anchor[r] \in held[r] \/ (todo[r] # <<>> /\ Head(todo[r]) = anchor[r])
    /\ \A a, x \in TurnRows(turn[r]) :
          a.kind = "tool" /\ a.call = anchor[r] /\ x.seq > a.seq => x.kind = "tool"

(* What the request that works on a turn knows when no other has met it.   *)
AloneOK(r) ==
    LET t == turn[r] IN
    /\ pc[r] \in Applying => Replays(r) \/ Resumes(r)
    /\ pc[r] = "open" => ~(ClientCalls(t) \subseteq completed \union held[r])
    /\ pc[r] = "closed" => ClientCalls(t) \subseteq completed \union held[r]
    /\ pc[r] = "llm" => TurnCalls(t) \subseteq completed /\ Finals(t) = {}
    /\ pc[r] \in Applying /\ Replays(r) /\ t \notin excused => Settled(t)

(* A turn has one answer, which follows the results of all its calls.      *)
AnswerIsLast(t) ==
    /\ \A f, g \in Finals(t) : f = g
    /\ \A f \in Finals(t) :
          /\ TurnCalls(t) \subseteq completed
          /\ \A x \in TurnRows(t) : x.kind = "tool" => x.seq < f.seq

(* A turn of a client that sends one request after the other.              *)
SerialOK(t) ==
    /\ \A r, o \in Busy(t) : r = o
    /\ \A r \in Busy(t) : AloneOK(r)
    /\ AnswerIsLast(t)
    /\ t \notin excused /\ Started(t) /\ Busy(t) = {} => Settled(t)

SerialInv == \A t \in Turns \ contested : SerialOK(t)

IInv == BaseInv /\ SerialInv

-----------------------------------------------------------------------------
(* Rows that differ in their numbers and writers only.                     *)
SameRow(x, y) ==
    x.turn = y.turn /\ x.kind = y.kind /\ x.call = y.call /\ x.plan = y.plan

(* f turns the rows S into the rows T without changing what they say nor   *)
(* their order: a commit, which changes the writers, and a rollback, which *)
(* closes the gaps of the numbers.                                         *)
Relabels(f, S, T) ==
    /\ f \in [S -> T]
    /\ \A y \in T : \E x \in S : y = f[x]
    /\ \A x \in S : SameRow(x, f[x])
    /\ \A x, y \in S : x.seq < y.seq <=> f[x].seq < f[y].seq

(* A new row takes the next number.                                        *)
LEMMA NumberedAdd ==
    ASSUME NEW S, Numbered(S), NEW s, s.seq = Cardinality(S) + 1
    PROVE  /\ Numbered(S \union {s})
           /\ Cardinality(S \union {s}) = Cardinality(S) + 1
           /\ \A x \in S : x.seq < s.seq
<1>1. Cardinality(S) \in Nat
  BY FS_CardinalityType DEF Numbered
<1>2. s \notin S /\ \A x \in S : x.seq < s.seq
  BY <1>1 DEF Numbered
<1>3. IsFiniteSet(S \union {s}) /\ Cardinality(S \union {s}) = Cardinality(S) + 1
  BY <1>2, FS_AddElement DEF Numbered
<1>4. \A x \in S \union {s} : x.seq \in 1..(Cardinality(S) + 1)
  BY <1>1 DEF Numbered
<1>5. \A x, y \in S \union {s} : x.seq = y.seq => x = y
  BY <1>1, <1>2 DEF Numbered
<1>6. QED
  BY <1>2, <1>3, <1>4, <1>5 DEF Numbered

(* Among finitely many rows the number of those not after a row is between *)
(* one and their cardinality, and grows with seq.                          *)
Rank(S, s) == Cardinality({o \in S : o.seq <= s.seq})

(* The rank of a row grows with its number.                                *)
LEMMA RankOrder ==
    ASSUME NEW S, IsFiniteSet(S), \A s \in S : s.seq \in Nat
    PROVE  /\ \A x \in S : Rank(S, x) \in 1..Cardinality(S)
           /\ \A x, y \in S : x.seq < y.seq => Rank(S, x) < Rank(S, y)
<1> DEFINE Upto(x) == {o \in S : o.seq <= x.seq}
<1>0. Cardinality(S) \in Nat
  BY FS_CardinalityType
<1>1. ASSUME NEW x \in S
      PROVE  /\ IsFiniteSet(Upto(x)) /\ Cardinality(Upto(x)) \in Nat
             /\ Cardinality(Upto(x)) <= Cardinality(S) /\ Cardinality(Upto(x)) # 0
  <2>1. Upto(x) \in SUBSET S /\ x \in Upto(x)
    OBVIOUS
  <2> HIDE DEF Upto
  <2>2. IsFiniteSet(Upto(x)) /\ Cardinality(Upto(x)) <= Cardinality(S)
    BY <2>1, FS_Subset
  <2>3. Cardinality(Upto(x)) \in Nat
    BY <2>2, FS_CardinalityType
  <2>4. Cardinality(Upto(x)) # 0
    BY <2>1, <2>2, FS_EmptySet
  <2>5. QED
    BY <2>2, <2>3, <2>4
<1>2. ASSUME NEW x \in S, NEW y \in S, x.seq < y.seq
      PROVE  Cardinality(Upto(x)) < Cardinality(Upto(y))
  <2>1. Upto(x) \in SUBSET Upto(y) /\ y \in Upto(y) /\ y \notin Upto(x)
    BY <1>2
  <2>2. IsFiniteSet(Upto(y)) /\ Cardinality(Upto(x)) \in Nat /\ Cardinality(Upto(y)) \in Nat
    BY <1>1
  <2> HIDE DEF Upto
  <2>3. /\ Cardinality(Upto(x)) <= Cardinality(Upto(y))
        /\ Cardinality(Upto(y)) = Cardinality(Upto(x)) => Upto(y) = Upto(x)
    BY <2>1, <2>2, FS_Subset
  <2>4. QED
    BY <2>1, <2>2, <2>3
<1> HIDE DEF Upto
<1>3. \A x \in S : Rank(S, x) = Cardinality(Upto(x))
  BY DEF Rank, Upto
<1>4. QED
  BY <1>0, <1>1, <1>2, <1>3

(* Closing the gaps keeps the rows and their order.                        *)
LEMMA RenumberedRelabels ==
    ASSUME NEW S \in SUBSET StepRows, IsFiniteSet(S),
           \A x, y \in S : x.seq = y.seq => x = y
    PROVE  /\ Numbered(Renumbered(S))
           /\ Renumbered(S) \subseteq StepRows
           /\ \E f : /\ Relabels(f, S, Renumbered(S))
                     /\ \A x \in S : f[x].by = x.by
<1> DEFINE f == [s \in S |-> [s EXCEPT !.seq = Rank(S, s)]]
           T == Renumbered(S)
<1>1. \A s \in S : s.seq \in Nat
  BY DEF StepRows
<1>2. /\ Cardinality(S) \in Nat
      /\ \A x \in S : Rank(S, x) \in 1..Cardinality(S)
      /\ \A x, y \in S : x.seq < y.seq => Rank(S, x) < Rank(S, y)
  BY <1>1, RankOrder, FS_CardinalityType
<1>3. T = {f[s] : s \in S}
  BY DEF Renumbered, Rank
<1>4. \A x \in S : /\ f[x].seq = Rank(S, x) /\ f[x].by = x.by /\ SameRow(x, f[x])
                   /\ f[x] \in StepRows
  BY <1>2 DEF StepRows, SameRow
<1>5. f \in [S -> T] /\ \A y \in T : \E x \in S : y = f[x]
  BY <1>3
<1> HIDE DEF f, T
<1>6. \A x, y \in S : x.seq < y.seq <=> f[x].seq < f[y].seq
  <2> SUFFICES ASSUME NEW x \in S, NEW y \in S PROVE x.seq < y.seq <=> f[x].seq < f[y].seq
    OBVIOUS
  <2>1. CASE x.seq = y.seq
    BY <1>1, <1>2, <1>4, <2>1
  <2>2. CASE x.seq # y.seq
    BY <1>1, <1>2, <1>4, <2>2
  <2>3. QED
    BY <2>1, <2>2
<1>7. \A x, y \in S : f[x].seq = f[y].seq => x = y
  BY <1>1, <1>2, <1>4, <1>6
<1>8. IsFiniteSet(T) /\ Cardinality(T) = Cardinality(S)
  <2>1. f \in Bijection(S, T)
    BY <1>5, <1>7 DEF Bijection, Injection, Surjection, IsInjective
  <2>2. ExistsBijection(S, T)
    BY <2>1 DEF ExistsBijection
  <2>3. QED
    BY <2>2, FS_Bijection
<1>9. Numbered(T)
  BY <1>2, <1>4, <1>5, <1>7, <1>8 DEF Numbered
<1>10. QED
  BY <1>4, <1>5, <1>6, <1>9 DEF Relabels, T

-----------------------------------------------------------------------------
(* The results of the calls of an answer follow its tool_use step in the   *)
(* order of the calls.                                                     *)
LEMMA PositionOrder ==
    ASSUME NEW S, IsFiniteSet(S), S \subseteq Nat
    PROVE  /\ \A c \in S : Cardinality({d \in S : d < c}) \in 0..(Cardinality(S) - 1)
           /\ \A b, c \in S : b < c =>
                Cardinality({d \in S : d < b}) < Cardinality({d \in S : d < c})
<1> DEFINE Before(c) == {d \in S : d < c}
<1>0. Cardinality(S) \in Nat
  BY FS_CardinalityType
<1>1. ASSUME NEW c \in S
      PROVE  /\ IsFiniteSet(Before(c)) /\ Cardinality(Before(c)) \in Nat
             /\ Cardinality(Before(c)) < Cardinality(S)
  <2>1. Before(c) \in SUBSET S /\ c \notin Before(c)
    OBVIOUS
  <2> HIDE DEF Before
  <2>2. /\ IsFiniteSet(Before(c)) /\ Cardinality(Before(c)) <= Cardinality(S)
        /\ Cardinality(S) = Cardinality(Before(c)) => S = Before(c)
    BY <2>1, FS_Subset
  <2>3. Cardinality(Before(c)) \in Nat
    BY <2>2, FS_CardinalityType
  <2>4. QED
    BY <1>0, <2>1, <2>2, <2>3
<1>2. ASSUME NEW b \in S, NEW c \in S, b < c
      PROVE  Cardinality(Before(b)) < Cardinality(Before(c))
  <2>0. \A d \in S : d \in Int
    OBVIOUS
  <2>1. Before(b) \in SUBSET Before(c) /\ b \in Before(c) /\ b \notin Before(b)
    <3>1. b \in Before(c)
      BY <1>2
    <3>2. ~(b < b)
      BY <2>0
    <3>3. b \notin Before(b)
      BY <3>2
    <3>4. \A d \in S : d < b => d < c
      BY <1>2, <2>0
    <3>5. QED
      BY <3>1, <3>3, <3>4
  <2>2. IsFiniteSet(Before(c)) /\ Cardinality(Before(b)) \in Nat /\ Cardinality(Before(c)) \in Nat
    BY <1>1
  <2> HIDE DEF Before
  <2>3. /\ Cardinality(Before(b)) <= Cardinality(Before(c))
        /\ Cardinality(Before(c)) = Cardinality(Before(b)) => Before(c) = Before(b)
    BY <2>1, <2>2, FS_Subset
  <2>4. QED
    BY <2>1, <2>2, <2>3
<1>3. \A c \in S : Cardinality(Before(c)) \in 0..(Cardinality(S) - 1)
  BY <1>0, <1>1
<1>4. QED
  BY <1>2, <1>3

(* The rows a round adds, as the rest of the proofs needs them.            *)
Adds(r, server, added) ==
    /\ steps' = steps \union added
    /\ added \subseteq StepRows
    /\ \A x \in added :
          /\ x.turn = turn[r] /\ x.by = NoRequest /\ x.plan = "none"
          /\ x.kind \in {"tool_use", "tool"}
          /\ x.kind = "tool" => x.call \in server
          /\ \A y \in steps : y.seq < x.seq
    /\ \A c \in server : \E x \in added : x.kind = "tool" /\ x.call = c
    /\ \A x, y \in added :
          x.kind = "tool" /\ y.kind = "tool" /\ x.call = y.call => x = y
    /\ \E x \in added : x.kind = "tool_use"

(* A round adds its rows after all others, numbered one by one.            *)
LEMMA StoredRows ==
    ASSUME Numbered(steps), NEW r \in Requests, turn[r] \in Turns,
           NEW new \in SUBSET Calls, NEW server \in SUBSET new,
           StoreCalls(r, new, server)
    PROVE  /\ Numbered(steps')
           /\ \E added : Adds(r, server, added)
<1> DEFINE N == Cardinality(steps)
           pos(c) == Cardinality({d \in server : d < c})
           use == Row(NextSeq, turn[r], "tool_use")
           result == [c \in server |->
                        [Row(NextSeq + 1 + pos(c), turn[r], "tool") EXCEPT !.call = c]]
           results == {result[c] : c \in server}
           added == {use} \union results
<1>1. N \in Nat /\ \A s \in steps : s.seq \in 1..N
  BY FS_CardinalityType DEF Numbered
<1>2. server \subseteq Nat /\ IsFiniteSet(server) /\ Cardinality(server) \in Nat
  <2>1. server \in SUBSET (1..MaxCalls) /\ 1 \in Int /\ MaxCalls \in Int
    BY ChatBoundsAssumption DEF Calls
  <2>2. IsFiniteSet(1..MaxCalls)
    BY <2>1, FS_Interval
  <2>3. IsFiniteSet(server)
    BY <2>1, <2>2, FS_Subset
  <2>4. QED
    BY <2>1, <2>3, FS_CardinalityType
<1>3. /\ \A c \in server : pos(c) \in 0..(Cardinality(server) - 1)
      /\ \A b, c \in server : b < c => pos(b) < pos(c)
  BY <1>2, PositionOrder
<1>4. steps' = steps \union added
  BY DEF StoreCalls
<1> HIDE DEF pos
<1>5. /\ use.seq = N + 1 /\ use.kind = "tool_use" /\ use.turn = turn[r]
      /\ use.by = NoRequest /\ use.plan = "none" /\ use \in StepRows
  BY <1>1 DEF Row, NextSeq, StepRows, StepKinds, Plans
<1>6. ASSUME NEW c \in server
      PROVE  /\ result[c].seq = N + 2 + pos(c) /\ result[c].kind = "tool"
             /\ result[c].turn = turn[r] /\ result[c].call = c
             /\ result[c].by = NoRequest /\ result[c].plan = "none"
             /\ result[c] \in StepRows
  BY <1>1, <1>3 DEF Row, NextSeq, StepRows, StepKinds, Plans
<1> HIDE DEF use, result
<1>7. Adds(r, server, added)
  <2>1. \A x \in added : x = use \/ \E c \in server : x = result[c]
    OBVIOUS
  <2>2. \A c \in server : result[c] \in added
    OBVIOUS
  <2>3. use \in added
    OBVIOUS
  <2> HIDE DEF added
  <2>4. \A x \in added : x.seq \in Nat /\ x.seq > N
    BY <1>1, <1>3, <1>5, <1>6, <2>1
  <2>5. \A x \in added : \A y \in steps : y.seq < x.seq
    BY <1>1, <2>4
  <2>6. \A x \in added : /\ x \in StepRows /\ x.turn = turn[r] /\ x.by = NoRequest
                         /\ x.plan = "none" /\ x.kind \in {"tool_use", "tool"}
                         /\ x.kind = "tool" => x.call \in server
    BY <1>5, <1>6, <2>1
  <2>7. \A x, y \in added :
          x.kind = "tool" /\ y.kind = "tool" /\ x.call = y.call => x = y
    BY <1>5, <1>6, <2>1
  <2>8. QED
    BY <1>4, <1>5, <1>6, <2>2, <2>3, <2>5, <2>6, <2>7 DEF Adds
<1>8. /\ IsFiniteSet(results) /\ Cardinality(results) = Cardinality(server)
  <2>1. result \in [server -> results]
    BY DEF result
  <2>2. result \in Bijection(server, results)
    BY <1>6, <2>1 DEF Bijection, Injection, Surjection, IsInjective
  <2>3. ExistsBijection(server, results)
    BY <2>2 DEF ExistsBijection
  <2> HIDE DEF results
  <2>4. QED
    BY <1>2, <2>3, FS_Bijection
<1>9. /\ \A x \in results : x.seq \in (N + 2)..(N + 1 + Cardinality(server))
      /\ \A x, y \in results : x.seq = y.seq => x = y
  <2>1. \A x \in results : \E c \in server : x = result[c]
    OBVIOUS
  <2> HIDE DEF results
  <2>2. \A b, c \in server : pos(b) = pos(c) => b = c
    BY <1>2, <1>3
  <2>3. QED
    BY <1>1, <1>2, <1>3, <1>6, <2>1, <2>2
<1>10. /\ Numbered(steps \union {use})
       /\ Cardinality(steps \union {use}) = N + 1
  BY <1>5, NumberedAdd
<1> DEFINE before == steps \union {use}
<1>11. IsFiniteSet(before) /\ \A x \in before : x.seq \in 1..(N + 1)
  BY <1>10 DEF Numbered
<1>12. before \intersect results = {}
  BY <1>1, <1>9, <1>11
<1>13. steps' = before \union results
  BY <1>4
<1> HIDE DEF before, results, N
<1>14. /\ IsFiniteSet(steps')
       /\ Cardinality(steps') = N + 1 + Cardinality(server)
  <2>1. /\ IsFiniteSet(before \union results)
        /\ Cardinality(before \union results) = Cardinality(before)
              + Cardinality(results) - Cardinality(before \intersect results)
    BY <1>8, <1>11, FS_Union
  <2>2. Cardinality(before \intersect results) = 0
    BY <1>12, FS_EmptySet
  <2>3. Cardinality(before) = N + 1
    BY <1>10 DEF before
  <2>4. QED
    BY <1>1, <1>2, <1>8, <1>13, <2>1, <2>2, <2>3
<1>15. \A x \in steps' : x.seq \in 1..(N + 1 + Cardinality(server))
  BY <1>1, <1>2, <1>9, <1>11, <1>13
<1>16. \A x, y \in steps' : x.seq = y.seq => x = y
  <2>1. \A x, y \in before : x.seq = y.seq => x = y
    BY <1>10 DEF Numbered, before
  <2>2. QED
    BY <1>1, <1>9, <1>11, <1>13, <2>1
<1>17. QED
  BY <1>7, <1>14, <1>15, <1>16 DEF Numbered

(* The calls of an answer are new, and the calls stay numbered 1, 2, ...   *)
LEMMA FreshCallsAreNew ==
    ASSUME CallsLinked, NEW new \in FreshCalls
    PROVE  /\ new \in SUBSET Calls /\ new # {} /\ new \intersect Existing = {}
           /\ \E k \in 0..MaxCalls : Existing \union new = 1..k
<1>1. PICK k \in 0..MaxCalls : Existing = 1..k
  BY DEF CallsLinked
<1>2. Cardinality(1..k) = k
  <2>1. 1 \in Int /\ k \in Int
    BY <1>1, ChatBoundsAssumption
  <2>2. Cardinality(1..k) = IF 1 > k THEN 0 ELSE k - 1 + 1
    BY <2>1, FS_Interval
  <2>3. QED
    BY <1>1, <2>2, ChatBoundsAssumption
<1>3. PICK m \in (k + 1)..MaxCalls : new = (k + 1)..m
  BY <1>1, <1>2 DEF FreshCalls
<1>4. Existing \union new = 1..m
  BY <1>1, <1>3, ChatBoundsAssumption
<1>5. QED
  BY <1>1, <1>3, <1>4, ChatBoundsAssumption DEF Calls

-----------------------------------------------------------------------------
(* What a step of r leaves alone, and what no step takes back.             *)
OnlyRequest(r) ==
    \A o \in Requests \ {r} :
        /\ pc'[o] = pc[o] /\ turn'[o] = turn[o] /\ todo'[o] = todo[o]
        /\ anchor'[o] = anchor[o] /\ held'[o] = held[o] /\ plan'[o] = plan[o]
        /\ sent'[o] = sent[o] /\ known'[o] = known[o]

RowsPersist == \A x \in Committed : \E y \in Committed' : SameRow(x, y)

FinalsKnown ==
    \A y \in Committed' : y.kind = "final" => \E x \in Committed : SameRow(x, y)

(* A turn that has begun stays begun.                                      *)
LEMMA StartedPersists ==
    ASSUME RowsPersist
    PROVE  \A t : Started(t) => \E s \in Committed' : s.turn = t
  BY DEF RowsPersist, Started, SameRow

(* What another request knows stays true.                                  *)
LEMMA OthersKeepRequest ==
    ASSUME NEW r, NEW o \in Requests, o # r, RequestOK(o), OnlyRequest(r), RowsPersist,
           completed \subseteq completed', mode' = mode,
           \A t \in Turns : TurnCalls(t) \subseteq TurnCalls(t)'
    PROVE  RequestOK(o)'
<1>1. /\ pc'[o] = pc[o] /\ turn'[o] = turn[o] /\ todo'[o] = todo[o]
      /\ anchor'[o] = anchor[o] /\ held'[o] = held[o] /\ plan'[o] = plan[o]
      /\ sent'[o] = sent[o] /\ known'[o] = known[o]
  BY DEF OnlyRequest
<1>2. pc[o] # "idle" => turn[o] \in Turns /\ \E s \in Committed' : s.turn = turn[o]
  BY StartedPersists DEF RequestOK
<1>3. pc'[o] # "idle" => turn'[o] \in Turns /\ Started(turn[o])'
  BY <1>1, <1>2 DEF Started
<1>6. pc[o] \in Applying =>
         /\ BatchCalls(todo[o]) \subseteq TurnCalls(turn[o])'
         /\ anchor[o] \in TurnCalls(turn[o])'
  BY <1>1, <1>2 DEF RequestOK, Applying, TurnCalls
<1>7. BatchCalls(todo[o])' = BatchCalls(todo[o])
  BY <1>1 DEF BatchCalls
<1>8. QED
  BY <1>1, <1>3, <1>6, <1>7 DEF RequestOK

(* A payment is not taken back.                                            *)
LEMMA PaidStaysPaid ==
    ASSUME AnswersArePaid, FinalsKnown, mode' = mode, UNCHANGED charged,
           account.trial_used => account'.trial_used
    PROVE  AnswersArePaid'
  BY DEF AnswersArePaid, FinalsKnown, SameRow

(* A charge keeps the answer it was made for.                              *)
LEMMA ChargeStaysEarned ==
    ASSUME ChargedForAnswer, RowsPersist, UNCHANGED charged
    PROVE  ChargedForAnswer'
  BY DEF ChargedForAnswer, RowsPersist, SameRow, Finals

-----------------------------------------------------------------------------
(* The steps by what they do to the rows, and the invariant after each.    *)

(* A step that writes no row.                                              *)
LEMMA QuietKeepsBase ==
    ASSUME BaseInv, NEW r \in Requests, OnlyRequest(r), TypeOK', RequestOK(r)',
           UNCHANGED <<mode, charged, rows, held>>,
           account.trial_used => account'.trial_used,
           RowsBy(r) # {} => turn'[r] = turn[r] /\ pc'[r] \in Applying
    PROVE  BaseInv'
<1>1. Numbered(steps)' /\ OneResultPerCall(steps)'
  BY DEF BaseInv, Numbered, OneResultPerCall, rows
<1>2. RowsPersist /\ FinalsKnown
  BY DEF RowsPersist, FinalsKnown, Committed, SameRow, rows
<1>3. CallsLinked'
  BY DEF BaseInv, CallsLinked, rows, Existing, Committed, RowsBy, ResultsIn, Started
<1>4. RowsLinked'
  <2> SUFFICES ASSUME NEW s \in steps
               PROVE  /\ s.kind = "tool" => s.turn = turnOf[s.call]
                      /\ s.by # NoRequest =>
                            s.kind = "tool" /\ s.turn = turn'[s.by] /\ pc'[s.by] \in Applying
    BY DEF RowsLinked, rows
  <2>1. s.by \in Requests \union {NoRequest}
    BY DEF BaseInv, TypeOK, StepRows
  <2>2. CASE s.by = r
    BY <2>2 DEF BaseInv, RowsLinked, RowsBy
  <2>3. CASE s.by # r
    BY <2>1, <2>3 DEF BaseInv, RowsLinked, OnlyRequest
  <2>4. QED
    BY <2>2, <2>3
<1>5. \A o \in Requests : RequestOK(o)'
  <2>1. \A t \in Turns : TurnCalls(t)' = TurnCalls(t)
    BY DEF TurnCalls, rows
  <2>2. QED
    BY <1>2, <2>1, OthersKeepRequest DEF BaseInv, rows
<1>6. AnswersArePaid' /\ ChargedForAnswer'
  BY <1>2, PaidStaysPaid, ChargeStaysEarned DEF BaseInv
<1>7. QED
  BY <1>1, <1>3, <1>4, <1>5, <1>6 DEF BaseInv

(* A step that adds one committed row that is not a result.                *)
LEMMA AppendKeepsBase ==
    ASSUME BaseInv, NEW r \in Requests, OnlyRequest(r), TypeOK', RequestOK(r)',
           NEW s \in StepRows, steps' = steps \union {s}, s.seq = NextSeq,
           s.by = NoRequest, s.kind # "tool", RowsBy(r) = {},
           UNCHANGED <<mode, turnOf, serverSide, completed, held>>,
           AnswersArePaid', ChargedForAnswer'
    PROVE  BaseInv'
<1>1. Numbered(steps)'
  <2>1. Numbered(steps \union {s})
    BY NumberedAdd DEF BaseInv, NextSeq
  <2>2. QED
    BY <2>1 DEF Numbered
<1>2. OneResultPerCall(steps)'
  BY DEF BaseInv, OneResultPerCall
<1>3. RowsPersist
  BY DEF RowsPersist, Committed, SameRow
<1>4. RowsLinked'
  <2> SUFFICES ASSUME NEW x \in steps'
               PROVE  /\ x.kind = "tool" => x.turn = turnOf[x.call]
                      /\ x.by # NoRequest =>
                            x.kind = "tool" /\ x.turn = turn'[x.by] /\ pc'[x.by] \in Applying
    BY DEF RowsLinked
  <2>1. CASE x = s
    BY <2>1
  <2>2. CASE x \in steps
    <3>1. x.by \in Requests \union {NoRequest} /\ x.by # r
      BY <2>2 DEF BaseInv, TypeOK, StepRows, RowsBy
    <3>2. QED
      BY <2>2, <3>1 DEF BaseInv, RowsLinked, OnlyRequest
  <2>3. QED
    BY <2>1, <2>2
<1>5. CallsLinked'
  <2>1. ResultsIn(Committed)' = ResultsIn(Committed)
    BY DEF ResultsIn, Committed
  <2>2. \A o \in Requests : ResultsIn(RowsBy(o))' = ResultsIn(RowsBy(o))
    BY NullsAssumption DEF ResultsIn, RowsBy
  <2>3. Existing' = Existing
    BY DEF Existing
  <2>4. \A c \in Existing : \E x \in Committed' : x.turn = turnOf[c]
    BY <1>3, StartedPersists DEF BaseInv, CallsLinked
  <2>5. \A c \in Existing' : Started(turnOf[c])'
    BY <2>3, <2>4 DEF Started
  <2>6. QED
    BY <2>1, <2>2, <2>3, <2>5 DEF BaseInv, CallsLinked
<1>6. \A o \in Requests : RequestOK(o)'
  <2>1. \A t \in Turns : TurnCalls(t)' = TurnCalls(t)
    BY DEF TurnCalls
  <2>2. QED
    BY <1>3, <2>1, OthersKeepRequest DEF BaseInv
<1>7. QED
  BY <1>1, <1>2, <1>4, <1>5, <1>6 DEF BaseInv

(* Relabelling rows gives no call a second result.                         *)
LEMMA RelabelsResults ==
    ASSUME NEW S, NEW T, NEW f, OneResultPerCall(S), Relabels(f, S, T)
    PROVE  OneResultPerCall(T)
  BY DEF OneResultPerCall, Relabels, SameRow

(* A commit changes the writer of the rows of r and nothing else.          *)
LEMMA CommitRelabels ==
    ASSUME steps \subseteq StepRows, Numbered(steps), NEW r \in Requests, CommitRows(r)
    PROVE  /\ Numbered(steps') /\ steps' \subseteq StepRows
           /\ \E f : /\ Relabels(f, steps, steps')
                     /\ \A s \in steps :
                          /\ f[s].seq = s.seq
                          /\ f[s].by = IF s.by = r THEN NoRequest ELSE s.by
<1> DEFINE f == [s \in steps |->
                    [s EXCEPT !.by = IF s.by = r THEN NoRequest ELSE s.by]]
<1>1. steps' = {f[s] : s \in steps}
  BY DEF CommitRows
<1>2. \A s \in steps : /\ f[s].seq = s.seq /\ SameRow(s, f[s]) /\ f[s] \in StepRows
                       /\ f[s].by = IF s.by = r THEN NoRequest ELSE s.by
  BY DEF StepRows, SameRow
<1>3. f \in [steps -> steps'] /\ \A y \in steps' : \E x \in steps : y = f[x]
  BY <1>1
<1> HIDE DEF f
<1>4. Relabels(f, steps, steps')
  BY <1>2, <1>3 DEF Relabels
<1>5. IsFiniteSet(steps') /\ Cardinality(steps') = Cardinality(steps)
  <2>1. f \in Bijection(steps, steps')
    BY <1>2, <1>3 DEF Numbered, Bijection, Injection, Surjection, IsInjective
  <2>2. ExistsBijection(steps, steps')
    BY <2>1 DEF ExistsBijection
  <2>3. QED
    BY <2>2, FS_Bijection DEF Numbered
<1>6. Numbered(steps')
  BY <1>2, <1>3, <1>5 DEF Numbered
<1>7. QED
  BY <1>2, <1>3, <1>4, <1>6

(* A step that commits the rows of r.                                      *)
LEMMA CommitKeepsBase ==
    ASSUME BaseInv, NEW r \in Requests, OnlyRequest(r), TypeOK', RequestOK(r)',
           CommitRows(r), UNCHANGED <<mode, billing, turnOf, serverSide>>
    PROVE  BaseInv'
<1>1. PICK f : /\ Relabels(f, steps, steps')
               /\ \A s \in steps :
                    /\ f[s].seq = s.seq
                    /\ f[s].by = IF s.by = r THEN NoRequest ELSE s.by
  BY CommitRelabels DEF BaseInv, TypeOK
<1>2. Numbered(steps)'
  <2>1. Numbered(steps')
    BY CommitRelabels DEF BaseInv, TypeOK
  <2>2. QED
    BY <2>1 DEF Numbered
<1>3. OneResultPerCall(steps)'
  <2>1. OneResultPerCall(steps')
    BY <1>1, RelabelsResults DEF BaseInv
  <2>2. QED
    BY <2>1 DEF OneResultPerCall
<1>4. \A y \in steps' : \E x \in steps : y = f[x] /\ SameRow(x, y)
  BY <1>1 DEF Relabels
<1>5. \A x \in steps : f[x] \in steps' /\ SameRow(x, f[x])
  BY <1>1 DEF Relabels
<1>6. RowsPersist
  BY <1>1, <1>5 DEF RowsPersist, Committed
<1>7. FinalsKnown
  BY <1>1, <1>4 DEF FinalsKnown, Committed, BaseInv, RowsLinked, SameRow
<1>8. RowsLinked'
  <2> SUFFICES ASSUME NEW y \in steps'
               PROVE  /\ y.kind = "tool" => y.turn = turnOf[y.call]
                      /\ y.by # NoRequest =>
                            y.kind = "tool" /\ y.turn = turn'[y.by] /\ pc'[y.by] \in Applying
    BY DEF RowsLinked
  <2>1. PICK x \in steps : y = f[x] /\ SameRow(x, y)
    BY <1>4
  <2>2. x.by \in Requests \union {NoRequest}
    BY DEF BaseInv, TypeOK, StepRows
  <2>3. y.by # NoRequest => y.by = x.by /\ x.by \in Requests \ {r}
    BY <1>1, <2>1, <2>2
  <2>4. QED
    BY <2>1, <2>3 DEF BaseInv, RowsLinked, SameRow, OnlyRequest
<1>9. CallsLinked'
  <2>1. completed' = ResultsIn(Committed)'
    <3>1. completed' = ResultsIn(Committed) \union ResultsIn(RowsBy(r))
      BY DEF CommitRows, BaseInv, CallsLinked
    <3>2. ResultsIn(Committed)' = ResultsIn(Committed) \union ResultsIn(RowsBy(r))
      BY <1>1, <1>4, <1>5, NullsAssumption DEF ResultsIn, Committed, RowsBy, SameRow
    <3>3. QED
      BY <3>1, <3>2
  <2>2. ASSUME NEW o \in Requests PROVE held'[o] = ResultsIn(RowsBy(o))'
    <3>1. CASE o = r
      <4>1. held'[o] = {}
        BY <3>1 DEF CommitRows, BaseInv, TypeOK
      <4>2. RowsBy(o)' = {}
        BY <1>1, <1>4, <3>1, NullsAssumption DEF RowsBy
      <4>3. QED
        BY <4>1, <4>2 DEF ResultsIn
    <3>2. CASE o # r
      <4>1. held'[o] = ResultsIn(RowsBy(o))
        BY <3>2 DEF OnlyRequest, BaseInv, CallsLinked
      <4>2. ResultsIn(RowsBy(o))' = ResultsIn(RowsBy(o))
        BY <1>1, <1>4, <1>5, <3>2, NullsAssumption DEF ResultsIn, RowsBy, SameRow
      <4>3. QED
        BY <4>1, <4>2
    <3>3. QED
      BY <3>1, <3>2
  <2>3. Existing' = Existing
    BY DEF Existing
  <2>4. \A c \in Existing : \E x \in Committed' : x.turn = turnOf[c]
    BY <1>6, StartedPersists DEF BaseInv, CallsLinked
  <2>5. \A c \in Existing' : Started(turnOf[c])'
    BY <2>3, <2>4 DEF Started
  <2>6. serverSide' \subseteq completed'
    BY DEF CommitRows, BaseInv, CallsLinked
  <2>7. QED
    BY <2>1, <2>2, <2>3, <2>5, <2>6 DEF BaseInv, CallsLinked
<1>10. \A o \in Requests : RequestOK(o)'
  <2>1. \A t \in Turns : TurnCalls(t)' = TurnCalls(t)
    BY DEF TurnCalls
  <2>2. completed \subseteq completed'
    BY DEF CommitRows
  <2>3. QED
    BY <1>6, <2>1, <2>2, OthersKeepRequest DEF BaseInv
<1>11. AnswersArePaid' /\ ChargedForAnswer'
  BY <1>6, <1>7, PaidStaysPaid, ChargeStaysEarned DEF BaseInv, billing
<1>12. QED
  BY <1>2, <1>3, <1>8, <1>9, <1>10, <1>11 DEF BaseInv

(* A rollback takes the rows of r away and closes the gaps.                *)
LEMMA RollbackRelabels ==
    ASSUME steps \subseteq StepRows, Numbered(steps), NEW r \in Requests,
           RollbackAndReturn(r)
    PROVE  /\ Numbered(steps') /\ steps' \subseteq StepRows
           /\ \E f : /\ Relabels(f, steps \ RowsBy(r), steps')
                     /\ \A s \in steps \ RowsBy(r) : f[s].by = s.by
<1> DEFINE S == {s \in steps : s.by # r}
<1>1. S \in SUBSET steps /\ S = steps \ RowsBy(r) /\ steps' = Renumbered(S)
  BY DEF RowsBy, RollbackAndReturn
<1> HIDE DEF S
<1>2. IsFiniteSet(S)
  BY <1>1, FS_Subset DEF Numbered
<1>3. S \in SUBSET StepRows /\ \A x, y \in S : x.seq = y.seq => x = y
  BY <1>1 DEF Numbered
<1>4. QED
  BY <1>1, <1>2, <1>3, RenumberedRelabels

(* A request that returns leaves the others alone and forgets everything.  *)
LEMMA ReturnIsAlone ==
    ASSUME TypeOK, NEW r \in Requests, Return(r), \A o \in Requests \ {r} : held'[o] = held[o]
    PROVE  OnlyRequest(r) /\ RequestOK(r)' /\ pc'[r] = "idle" /\ turn'[r] = NoTurn
  BY DEF Return, OnlyRequest, RequestOK, TypeOK, Applying

(* A step that undoes the transaction of r.                                *)
LEMMA RollbackKeepsBase ==
    ASSUME BaseInv, NEW r \in Requests, TypeOK', RollbackAndReturn(r)
    PROVE  BaseInv'
<1>0. OnlyRequest(r) /\ RequestOK(r)' /\ UNCHANGED <<mode, billing, turnOf, serverSide, completed>>
  <2>1. \A o \in Requests \ {r} : held'[o] = held[o]
    BY DEF RollbackAndReturn, BaseInv, TypeOK
  <2>2. QED
    BY <2>1, ReturnIsAlone DEF RollbackAndReturn, BaseInv
<1>1. PICK f : /\ Relabels(f, steps \ RowsBy(r), steps')
               /\ \A s \in steps \ RowsBy(r) : f[s].by = s.by
  BY RollbackRelabels DEF BaseInv, TypeOK
<1>2. Numbered(steps)'
  <2>1. Numbered(steps')
    BY RollbackRelabels DEF BaseInv, TypeOK
  <2>2. QED
    BY <2>1 DEF Numbered
<1>4. \A y \in steps' : \E x \in steps \ RowsBy(r) : y = f[x] /\ SameRow(x, y)
  BY <1>1 DEF Relabels
<1>5. \A x \in steps \ RowsBy(r) : f[x] \in steps' /\ SameRow(x, f[x])
  BY <1>1 DEF Relabels
<1>3. OneResultPerCall(steps)'
  <2>1. OneResultPerCall(steps \ RowsBy(r))
    BY DEF BaseInv, OneResultPerCall
  <2>2. OneResultPerCall(steps')
    BY <1>1, <2>1, RelabelsResults
  <2>3. QED
    BY <2>2 DEF OneResultPerCall
<1>6. RowsPersist
  BY <1>1, <1>5, NullsAssumption DEF RowsPersist, Committed, RowsBy
<1>7. FinalsKnown
  BY <1>1, <1>4 DEF FinalsKnown, Committed
<1>8. RowsLinked'
  <2> SUFFICES ASSUME NEW y \in steps'
               PROVE  /\ y.kind = "tool" => y.turn = turnOf[y.call]
                      /\ y.by # NoRequest =>
                            y.kind = "tool" /\ y.turn = turn'[y.by] /\ pc'[y.by] \in Applying
    BY <1>0 DEF RowsLinked
  <2>1. PICK x \in steps \ RowsBy(r) : y = f[x] /\ SameRow(x, y)
    BY <1>4
  <2>2. x.by \in Requests \union {NoRequest} /\ x.by # r
    BY DEF BaseInv, TypeOK, StepRows, RowsBy
  <2>3. y.by = x.by
    BY <1>1, <2>1
  <2>4. QED
    BY <1>0, <2>1, <2>2, <2>3 DEF BaseInv, RowsLinked, SameRow, OnlyRequest
<1>9. CallsLinked'
  <2>1. completed' = ResultsIn(Committed)'
    <3>1. ResultsIn(Committed)' = ResultsIn(Committed)
      BY <1>1, <1>4, <1>5, NullsAssumption DEF ResultsIn, Committed, RowsBy, SameRow
    <3>2. QED
      BY <1>0, <3>1 DEF BaseInv, CallsLinked
  <2>2. ASSUME NEW o \in Requests PROVE held'[o] = ResultsIn(RowsBy(o))'
    <3>1. CASE o = r
      <4>1. held'[o] = {}
        BY <3>1 DEF RollbackAndReturn, BaseInv, TypeOK
      <4>2. RowsBy(o)' = {}
        BY <1>1, <1>4, <3>1 DEF RowsBy
      <4>3. QED
        BY <4>1, <4>2 DEF ResultsIn
    <3>2. CASE o # r
      <4>1. held'[o] = ResultsIn(RowsBy(o))
        BY <1>0, <3>2 DEF OnlyRequest, BaseInv, CallsLinked
      <4>2. ResultsIn(RowsBy(o))' = ResultsIn(RowsBy(o))
        BY <1>1, <1>4, <1>5, <3>2 DEF ResultsIn, RowsBy, SameRow
      <4>3. QED
        BY <4>1, <4>2
    <3>3. QED
      BY <3>1, <3>2
  <2>3. Existing' = Existing
    BY <1>0 DEF Existing
  <2>4. \A c \in Existing : \E x \in Committed' : x.turn = turnOf[c]
    BY <1>6, StartedPersists DEF BaseInv, CallsLinked
  <2>5. \A c \in Existing' : Started(turnOf[c])'
    BY <1>0, <2>3, <2>4 DEF Started
  <2>7. QED
    BY <1>0, <2>1, <2>2, <2>3, <2>5 DEF BaseInv, CallsLinked
<1>10. \A o \in Requests : RequestOK(o)'
  <2>1. \A t \in Turns : TurnCalls(t)' = TurnCalls(t)
    BY <1>0 DEF TurnCalls
  <2>3. QED
    BY <1>0, <1>6, <2>1, OthersKeepRequest DEF BaseInv
<1>11. AnswersArePaid' /\ ChargedForAnswer'
  BY <1>0, <1>6, <1>7, PaidStaysPaid, ChargeStaysEarned DEF BaseInv, billing
<1>12. QED
  BY <1>2, <1>3, <1>8, <1>9, <1>10, <1>11 DEF BaseInv

(* The calls a request holds are calls of its turn.                        *)
LEMMA HeldBelong ==
    ASSUME BaseInv, NEW r \in Requests
    PROVE  held[r] \subseteq TurnCalls(turn[r]) /\ held[r] \subseteq Existing
<1> SUFFICES ASSUME NEW c \in held[r]
             PROVE  c \in TurnCalls(turn[r]) /\ c \in Existing
  OBVIOUS
<1>1. PICK s \in steps : s.by = r /\ s.kind = "tool" /\ s.call = c
  BY DEF BaseInv, CallsLinked, ResultsIn, RowsBy
<1>2. s.turn = turn[r] /\ s.turn = turnOf[c] /\ s.turn \in Turns /\ c \in Calls
  BY <1>1, NullsAssumption DEF BaseInv, RowsLinked, TypeOK, StepRows, OneResultPerCall
<1>3. QED
  BY <1>2, NullsAssumption DEF TurnCalls, Existing

(* A request that is not applying a batch has no open transaction.         *)
LEMMA NoOpenRows ==
    ASSUME BaseInv, NEW r \in Requests, pc[r] \notin Applying
    PROVE  RowsBy(r) = {} /\ held[r] = {}
<1>1. RowsBy(r) = {}
  BY NullsAssumption DEF BaseInv, RowsLinked, RowsBy
<1>2. QED
  BY <1>1 DEF BaseInv, CallsLinked, ResultsIn

(* Every call that exists and is done has its result, held or committed.   *)
LEMMA ResultOfDone ==
    ASSUME BaseInv, NEW c \in Calls, NEW s \in steps, s.kind = "tool", s.call = c
    PROVE  c \in completed \/ \E o \in Requests : c \in held[o] /\ s.by = o
<1>1. s.by \in Requests \union {NoRequest}
  BY DEF BaseInv, TypeOK, StepRows
<1>2. CASE s.by = NoRequest
  BY <1>2 DEF BaseInv, CallsLinked, ResultsIn, Committed
<1>3. CASE s.by \in Requests
  BY <1>3 DEF BaseInv, CallsLinked, ResultsIn, RowsBy
<1>4. QED
  BY <1>1, <1>2, <1>3

(* A result is applied to a call that has none, held ones included.        *)
LEMMA ApplyKeepsBase ==
    ASSUME BaseInv, NEW r \in Requests, TypeOK', ApplyResult(r)
    PROVE  BaseInv'
<1> DEFINE c == Head(todo[r])
           s == [Row(NextSeq, turn[r], "tool") EXCEPT !.call = c, !.by = r]
<1>1. /\ pc[r] = "apply" /\ todo[r] # <<>> /\ todo[r] \in Seq(Calls)
      /\ steps' = steps \union {s}
      /\ held' = [held EXCEPT ![r] = @ \union {c}]
      /\ todo' = [todo EXCEPT ![r] = Tail(@)]
      /\ UNCHANGED <<mode, billing, turnOf, serverSide, completed, pc, turn, anchor,
                     plan, round, sent, known, excused, contested>>
      /\ c \notin completed \union held[r]
      /\ \A o \in Requests \ {r} : c \notin held[o]
  BY DEF ApplyResult, Completable, RowLocked, BaseInv, TypeOK
<1>2. c \in Calls /\ c \in BatchCalls(todo[r]) /\ c \in TurnCalls(turn[r])
  <2>1. c \in Calls /\ c = todo[r][1] /\ 1 \in DOMAIN todo[r]
    BY <1>1
  <2>2. BatchCalls(todo[r]) \subseteq TurnCalls(turn[r])
    BY <1>1 DEF BaseInv, RequestOK, Applying
  <2>3. QED
    BY <2>1, <2>2 DEF BatchCalls
<1>3. BatchCalls(Tail(todo[r])) \subseteq BatchCalls(todo[r])
  BY <1>1 DEF BatchCalls
<1>4. /\ s.seq = Cardinality(steps) + 1 /\ s.turn = turn[r] /\ s.kind = "tool"
      /\ s.call = c /\ s.by = r
  BY DEF Row, NextSeq
<1> HIDE DEF s, c
<1>5. OnlyRequest(r)
  BY <1>1 DEF OnlyRequest, BaseInv, TypeOK
<1>6. Numbered(steps)'
  <2>1. Numbered(steps \union {s})
    BY <1>4, NumberedAdd DEF BaseInv
  <2>2. QED
    BY <1>1, <2>1 DEF Numbered
<1>7. \A x \in steps : x.kind = "tool" => x.call # c
  BY <1>1, <1>2, ResultOfDone
<1>8. OneResultPerCall(steps)'
  BY <1>1, <1>2, <1>4, <1>7 DEF BaseInv, OneResultPerCall
<1>9. RowsPersist /\ FinalsKnown
  BY <1>1, <1>4, NullsAssumption DEF RowsPersist, FinalsKnown, Committed, SameRow
<1>10. RowsLinked'
  <2> SUFFICES ASSUME NEW x \in steps'
               PROVE  /\ x.kind = "tool" => x.turn = turnOf[x.call]
                      /\ x.by # NoRequest =>
                            x.kind = "tool" /\ x.turn = turn[x.by] /\ pc[x.by] \in Applying
    BY <1>1 DEF RowsLinked
  <2>1. CASE x = s
    BY <1>1, <1>2, <1>4, <2>1 DEF TurnCalls, Applying
  <2>2. CASE x \in steps
    BY <2>2 DEF BaseInv, RowsLinked
  <2>3. QED
    BY <1>1, <2>1, <2>2
<1>11. CallsLinked'
  <2>1. ResultsIn(Committed)' = ResultsIn(Committed)
    BY <1>1, <1>4, NullsAssumption DEF ResultsIn, Committed
  <2>2. ASSUME NEW o \in Requests PROVE held'[o] = ResultsIn(RowsBy(o))'
    <3>1. CASE o = r
      <4>1. held'[o] = ResultsIn(RowsBy(o)) \union {c}
        BY <1>1, <3>1 DEF BaseInv, TypeOK, CallsLinked
      <4>2. ResultsIn(RowsBy(o))' = ResultsIn(RowsBy(o)) \union {c}
        BY <1>1, <1>4, <3>1 DEF ResultsIn, RowsBy
      <4>3. QED
        BY <4>1, <4>2
    <3>2. CASE o # r
      BY <1>1, <1>4, <3>2 DEF ResultsIn, RowsBy, BaseInv, TypeOK, CallsLinked
    <3>3. QED
      BY <3>1, <3>2
  <2>3. Existing' = Existing
    BY <1>1 DEF Existing
  <2>4. \A d \in Existing : \E x \in Committed' : x.turn = turnOf[d]
    BY <1>9, StartedPersists DEF BaseInv, CallsLinked
  <2>5. \A d \in Existing' : Started(turnOf[d])'
    BY <1>1, <2>3, <2>4 DEF Started
  <2>6. QED
    BY <1>1, <2>1, <2>2, <2>3, <2>5 DEF BaseInv, CallsLinked
<1>12. \A o \in Requests : RequestOK(o)'
  <2>1. \A t \in Turns : TurnCalls(t)' = TurnCalls(t)
    BY <1>1 DEF TurnCalls
  <2>2. RequestOK(r)'
    <3>1. Started(turn[r])'
      BY <1>1, <1>9, StartedPersists DEF BaseInv, RequestOK, Started
    <3>2. BatchCalls(todo[r])' \subseteq TurnCalls(turn[r])'
      <4>1. todo'[r] = Tail(todo[r]) /\ turn'[r] = turn[r] /\ turnOf' = turnOf
        BY <1>1 DEF BaseInv, TypeOK
      <4>2. BatchCalls(Tail(todo[r])) \subseteq TurnCalls(turn[r])
        BY <1>1, <1>3 DEF BaseInv, RequestOK, Applying
      <4>3. QED
        BY <4>1, <4>2 DEF BatchCalls, TurnCalls
    <3>3. QED
      BY <1>1, <3>1, <3>2 DEF BaseInv, RequestOK, Applying, TurnCalls
  <2>3. QED
    BY <1>1, <1>5, <1>9, <2>1, <2>2, OthersKeepRequest DEF BaseInv
<1>13. AnswersArePaid' /\ ChargedForAnswer'
  BY <1>1, <1>9, PaidStaysPaid, ChargeStaysEarned DEF BaseInv, billing
<1>14. QED
  BY <1>6, <1>8, <1>10, <1>11, <1>12, <1>13 DEF BaseInv

(* A step that stores the calls of an answer and the results of the calls  *)
(* the backend has executed.                                               *)
LEMMA StoreKeepsBase ==
    ASSUME BaseInv, NEW r \in Requests, OnlyRequest(r), TypeOK', RequestOK(r)',
           pc[r] = "llm", NEW new \in FreshCalls, NEW server \in SUBSET new,
           StoreCalls(r, new, server), UNCHANGED <<mode, billing, held>>
    PROVE  BaseInv'
<1>0. /\ new \in SUBSET Calls /\ new \intersect Existing = {}
      /\ \E k \in 0..MaxCalls : Existing \union new = 1..k
  BY FreshCallsAreNew DEF BaseInv
<1>1. turn[r] \in Turns /\ Started(turn[r])
  BY DEF BaseInv, RequestOK
<1>2. RowsBy(r) = {}
  BY NoOpenRows DEF Applying
<1>3. /\ turnOf' = [c \in Calls |-> IF c \in new THEN turn[r] ELSE turnOf[c]]
      /\ serverSide' = serverSide \union server
      /\ completed' = completed \union server
  BY DEF StoreCalls
<1>4. PICK added : Numbered(steps') /\ Adds(r, server, added)
  BY <1>0, <1>1, StoredRows DEF BaseInv
<1>5. \A x \in steps : x.kind = "tool" => x.call \in Existing
  BY NullsAssumption DEF BaseInv, RowsLinked, OneResultPerCall, Existing, TypeOK, StepRows
<1>6. OneResultPerCall(steps)'
  BY <1>0, <1>4, <1>5 DEF BaseInv, OneResultPerCall, Adds
<1>7. RowsPersist /\ FinalsKnown
  BY <1>4 DEF RowsPersist, FinalsKnown, Committed, SameRow, Adds
<1>8. RowsLinked'
  <2> SUFFICES ASSUME NEW x \in steps'
               PROVE  /\ x.kind = "tool" => x.turn = turnOf'[x.call]
                      /\ x.by # NoRequest =>
                            x.kind = "tool" /\ x.turn = turn'[x.by] /\ pc'[x.by] \in Applying
    BY DEF RowsLinked
  <2>1. CASE x \in added
    BY <1>0, <1>3, <1>4, <2>1 DEF Adds
  <2>2. CASE x \in steps
    <3>1. x.by \in Requests \union {NoRequest} /\ x.by # r
      BY <1>2, <2>2 DEF BaseInv, TypeOK, StepRows, RowsBy
    <3>2. x.kind = "tool" => x.call \in Calls /\ x.call \notin new /\ x.turn = turnOf[x.call]
      BY <1>0, <1>5, <2>2 DEF BaseInv, RowsLinked, OneResultPerCall
    <3>3. QED
      BY <1>3, <2>2, <3>1, <3>2 DEF BaseInv, RowsLinked, OnlyRequest
  <2>3. QED
    BY <1>4, <2>1, <2>2 DEF Adds
<1>9. Existing' = Existing \union new
  BY <1>0, <1>1, <1>3, NullsAssumption DEF Existing
<1>10. CallsLinked'
  <2>1. ResultsIn(Committed)' = ResultsIn(Committed) \union server
    BY <1>4 DEF ResultsIn, Committed, Adds
  <2>2. \A o \in Requests : ResultsIn(RowsBy(o))' = ResultsIn(RowsBy(o))
    BY <1>4, NullsAssumption DEF ResultsIn, RowsBy, Adds
  <2>4. \A c \in Existing : \E x \in Committed' : x.turn = turnOf[c]
    BY <1>7, StartedPersists DEF BaseInv, CallsLinked
  <2>5. \E x \in Committed' : x.turn = turn[r]
    BY <1>1, <1>7, StartedPersists
  <2>6. ASSUME NEW c \in Existing' PROVE Started(turnOf[c])'
    <3>1. c \in Calls
      BY DEF Existing
    <3>2. CASE c \in new
      BY <1>3, <2>5, <3>1, <3>2 DEF Started
    <3>3. CASE c \notin new
      BY <1>3, <1>9, <2>4, <3>1, <3>3 DEF Started
    <3>4. QED
      BY <3>2, <3>3
  <2>7. QED
    BY <1>0, <1>3, <1>9, <2>1, <2>2, <2>6 DEF BaseInv, CallsLinked
<1>11. \A o \in Requests : RequestOK(o)'
  <2>1. \A t \in Turns : TurnCalls(t) \subseteq TurnCalls(t)'
    BY <1>0, <1>3, NullsAssumption DEF TurnCalls, Existing
  <2>2. QED
    BY <1>3, <1>7, <2>1, OthersKeepRequest DEF BaseInv
<1>12. AnswersArePaid' /\ ChargedForAnswer'
  BY <1>7, PaidStaysPaid, ChargeStaysEarned DEF BaseInv, billing
<1>13. Numbered(steps)'
  BY <1>4 DEF Numbered
<1>14. QED
  BY <1>6, <1>8, <1>10, <1>11, <1>12, <1>13 DEF BaseInv

-----------------------------------------------------------------------------
(* Types, in two parts: what is stored and what the requests know.         *)
StoredTypes ==
    /\ mode \in Modes /\ account \in PolicyStates /\ charged \in [Turns -> Nat]
    /\ steps \subseteq StepRows /\ turnOf \in [Calls -> Turns \union {NoTurn}]
    /\ serverSide \subseteq Existing /\ completed \subseteq Existing
    /\ excused \subseteq Turns /\ contested \subseteq Turns

WorkTypes ==
    /\ pc \in [Requests -> Places] /\ turn \in [Requests -> Turns \union {NoTurn}]
    /\ todo \in [Requests -> Seq(Calls)] /\ anchor \in [Requests -> Calls \union {NoCall}]
    /\ plan \in [Requests -> Plans] /\ round \in [Requests -> 0..(MaxRounds + 1)]
    /\ sent \in [Requests -> SUBSET Calls] /\ known \in [Requests -> SUBSET Calls]

(* TypeOK is both parts, and the calls the requests hold.                  *)
LEMMA TypeParts ==
    TypeOK <=> StoredTypes /\ WorkTypes /\ held \in [Requests -> SUBSET Calls]
  BY DEF TypeOK, StoredTypes, WorkTypes

(* A request that returns keeps the types of what requests know.           *)
LEMMA ReturnTypes ==
    ASSUME WorkTypes, NEW r \in Requests, Return(r)
    PROVE  WorkTypes'
  BY ChatBoundsAssumption DEF WorkTypes, Return, Places, Plans

(* The rows are finitely many.                                             *)
LEMMA CountIsNat ==
    ASSUME BaseInv
    PROVE  Cardinality(steps) \in Nat
  BY FS_CardinalityType DEF BaseInv, Numbered

(* A new row is a row, with the fields it was given.                       *)
LEMMA RowTypes ==
    ASSUME BaseInv, NEW t \in Turns, NEW kind \in StepKinds
    PROVE  Row(NextSeq, t, kind) \in StepRows /\ Row(NextSeq, t, kind).seq = NextSeq
           /\ Row(NextSeq, t, kind).by = NoRequest /\ Row(NextSeq, t, kind).kind = kind
           /\ Row(NextSeq, t, kind).turn = t /\ Row(NextSeq, t, kind).plan = "none"
  BY CountIsNat DEF Row, NextSeq, StepRows, StepKinds, Plans

(* The results in a history name calls.                                    *)
LEMMA ResultTypes ==
    ASSUME BaseInv, NEW S \in SUBSET steps
    PROVE  ResultsIn(S) \in SUBSET Calls
  BY DEF BaseInv, OneResultPerCall, ResultsIn

(* A commit keeps the types.                                               *)
LEMMA CommitTypes ==
    ASSUME BaseInv, NEW r \in Requests, CommitRows(r),
           UNCHANGED <<mode, billing, turnOf, serverSide, contested>>, excused' \subseteq Turns,
           WorkTypes'
    PROVE  TypeOK'
<1>1. steps' \subseteq StepRows
  BY CommitRelabels DEF BaseInv, TypeOK
<1>2. held' \in [Requests -> SUBSET Calls]
  BY DEF CommitRows, BaseInv, TypeOK
<1>3. completed' \subseteq Existing'
  BY HeldBelong DEF CommitRows, BaseInv, TypeOK, Existing
<1>4. serverSide' \subseteq Existing'
  BY DEF BaseInv, TypeOK, Existing
<1>5. StoredTypes'
  BY <1>1, <1>3, <1>4 DEF StoredTypes, BaseInv, TypeOK, billing
<1>6. QED
  BY <1>2, <1>5, TypeParts DEF StoredTypes, WorkTypes, TypeOK

(* A rollback keeps the types.                                             *)
LEMMA RollbackTypes ==
    ASSUME BaseInv, NEW r \in Requests, pc[r] # "idle", RollbackAndReturn(r)
    PROVE  TypeOK'
<1>1. steps' \subseteq StepRows
  BY RollbackRelabels DEF BaseInv, TypeOK
<1>2. held' \in [Requests -> SUBSET Calls]
  BY DEF RollbackAndReturn, BaseInv, TypeOK
<1>3. excused' \subseteq Turns
  BY DEF RollbackAndReturn, Excuse, BaseInv, TypeOK, RequestOK
<1>4. UNCHANGED <<mode, billing, turnOf, serverSide, completed, contested>> /\ WorkTypes'
  BY TypeParts, ReturnTypes DEF RollbackAndReturn, BaseInv
<1>5. QED
  BY <1>1, <1>2, <1>3, <1>4 DEF WorkTypes, BaseInv, TypeOK, billing, Existing

(* Storing the calls of an answer keeps the types.                         *)
LEMMA StoreTypes ==
    ASSUME BaseInv, NEW r \in Requests, pc[r] = "llm", NEW new \in FreshCalls,
           NEW server \in SUBSET new, StoreCalls(r, new, server), WorkTypes',
           UNCHANGED <<mode, billing, held, contested>>, excused' \subseteq Turns
    PROVE  TypeOK'
<1>1. turn[r] \in Turns /\ new \in SUBSET Calls
  BY FreshCallsAreNew DEF BaseInv, RequestOK
<1>2. steps' \subseteq StepRows
  <2>1. PICK added : Adds(r, server, added)
    BY <1>1, StoredRows DEF BaseInv
  <2>2. QED
    BY <2>1 DEF Adds, BaseInv, TypeOK
<1>3. /\ turnOf' = [c \in Calls |-> IF c \in new THEN turn[r] ELSE turnOf[c]]
      /\ serverSide' = serverSide \union server
      /\ completed' = completed \union server
  BY DEF StoreCalls
<1>4. turnOf' \in [Calls -> Turns \union {NoTurn}] /\ Existing \union new \subseteq Existing'
  BY <1>1, <1>3, NullsAssumption DEF Existing, BaseInv, TypeOK
<1>5. StoredTypes'
  BY <1>2, <1>3, <1>4 DEF StoredTypes, BaseInv, TypeOK, billing
<1>6. held' \in [Requests -> SUBSET Calls]
  BY DEF BaseInv, TypeOK
<1>7. QED
  BY <1>5, <1>6, TypeParts DEF StoredTypes, WorkTypes, TypeOK

-----------------------------------------------------------------------------
(* Before the first request.                                               *)
LEMMA InitBase == Init => BaseInv
<1> SUFFICES ASSUME Init PROVE BaseInv
  OBVIOUS
<1>1. TypeOK
  BY SessionsAssumption, ChatBoundsAssumption DEF Init, TypeOK, Existing, Places, Plans
<1>2. Numbered(steps)
  BY FS_EmptySet DEF Init, Numbered
<1>3. Existing = {} /\ 1..0 = {}
  BY DEF Init, Existing
<1>4. CallsLinked
  <2>1. 0 \in 0..MaxCalls /\ Existing = 1..0
    BY <1>3, ChatBoundsAssumption
  <2>2. QED
    BY <1>3, <2>1 DEF Init, CallsLinked, ResultsIn, Committed, RowsBy
<1>5. \A r \in Requests : RequestOK(r)
  BY DEF Init, RequestOK, Applying
<1>6. AnswersArePaid /\ ChargedForAnswer
  BY DEF Init, AnswersArePaid, ChargedForAnswer, Committed
<1>7. QED
  BY <1>1, <1>2, <1>4, <1>5, <1>6 DEF Init, BaseInv, OneResultPerCall, RowsLinked

(* An allowed generation has a billing plan, which is free for an own key  *)
(* only.                                                                   *)
LEMMA PlanOfAllowed ==
    ASSUME TypeOK, Evaluate(account, mode) = "allow"
    PROVE  /\ BillingPlan(account, mode) \in {"debit", "trial", "free"}
           /\ BillingPlan(account, mode) = "free" => mode = "byok"
  BY DEF TypeOK, Evaluate, EvaluateByok, EvaluateCredits, BillingPlan, Modes,
     PolicyStates, SubscriptionStatuses

(* The message of the user opens the turn.                                 *)
LEMMA RunKeepsBase ==
    ASSUME BaseInv, NEW r \in Requests, NEW t \in Turns, Run(r, t)
    PROVE  BaseInv'
<1> DEFINE s == Row(NextSeq, t, "user")
<1>1. /\ s \in StepRows /\ s.seq = NextSeq /\ s.by = NoRequest /\ s.kind = "user"
      /\ s.turn = t
  BY RowTypes DEF StepKinds
<1>2. /\ pc[r] = "idle" /\ steps' = steps \union {s}
      /\ pc' = [pc EXCEPT ![r] = "llm"]
      /\ turn' = [turn EXCEPT ![r] = t]
      /\ plan' = [plan EXCEPT ![r] = BillingPlan(account, mode)]
      /\ round' = [round EXCEPT ![r] = 1]
      /\ sent' = [sent EXCEPT ![r] = ResultsIn(Visible(r))]
      /\ Evaluate(account, mode) = "allow"
      /\ UNCHANGED <<mode, billing, turnOf, serverSide, completed, todo, anchor,
                     held, known, excused, contested>>
  BY DEF Run
<1> HIDE DEF s
<1>3. RowsBy(r) = {}
  BY <1>2, NoOpenRows DEF Applying
<1>4. ResultsIn(Visible(r)) \in SUBSET Calls
  BY ResultTypes DEF Visible
<1>5. /\ BillingPlan(account, mode) \in {"debit", "trial", "free"}
      /\ BillingPlan(account, mode) = "free" => mode = "byok"
  BY <1>2, PlanOfAllowed DEF BaseInv
<1>6. TypeOK'
  BY <1>1, <1>2, <1>4, <1>5, ChatBoundsAssumption DEF BaseInv, TypeOK, Places, Plans, Existing, billing
<1>7. OnlyRequest(r)
  BY <1>2 DEF OnlyRequest, BaseInv, TypeOK
<1>8. RequestOK(r)'
  <2>1. Started(t)'
    BY <1>1, <1>2 DEF Started, Committed
  <2>2. turn'[r] = t /\ pc'[r] = "llm" /\ known'[r] = {} /\ plan'[r] = BillingPlan(account, mode)
    BY <1>2 DEF BaseInv, TypeOK, RequestOK
  <2>3. Started(turn[r])'
    BY <2>1, <2>2 DEF Started
  <2>4. QED
    BY <1>2, <1>5, <2>2, <2>3 DEF RequestOK, Applying
<1>9. RowsPersist /\ FinalsKnown
  BY <1>1, <1>2 DEF RowsPersist, FinalsKnown, Committed, SameRow
<1>10. AnswersArePaid' /\ ChargedForAnswer'
  BY <1>2, <1>9, PaidStaysPaid, ChargeStaysEarned DEF BaseInv, billing
<1>11. QED
  BY <1>1, <1>2, <1>3, <1>6, <1>7, <1>8, <1>10, AppendKeepsBase

(* The message of the user stays when access is denied.                    *)
LEMMA RunBlockedKeepsBase ==
    ASSUME BaseInv, NEW r \in Requests, NEW t \in Turns, RunBlocked(r, t)
    PROVE  BaseInv'
<1> DEFINE s == Row(NextSeq, t, "user")
<1>1. /\ s \in StepRows /\ s.seq = NextSeq /\ s.by = NoRequest /\ s.kind = "user"
      /\ s.turn = t
  BY RowTypes DEF StepKinds
<1>2. /\ pc[r] = "idle" /\ steps' = steps \union {s}
      /\ excused' = excused \union {t}
      /\ UNCHANGED <<mode, billing, turnOf, serverSide, completed, pc, work, held, contested>>
  BY DEF RunBlocked
<1> HIDE DEF s
<1>3. RowsBy(r) = {}
  BY <1>2, NoOpenRows DEF Applying
<1>6. TypeOK'
  BY <1>1, <1>2 DEF BaseInv, TypeOK, Existing, work, billing
<1>7. OnlyRequest(r)
  BY <1>2 DEF OnlyRequest, work
<1>8. RequestOK(r)'
  BY <1>2 DEF BaseInv, RequestOK, Applying, work
<1>9. RowsPersist /\ FinalsKnown
  BY <1>1, <1>2 DEF RowsPersist, FinalsKnown, Committed, SameRow
<1>10. AnswersArePaid' /\ ChargedForAnswer'
  BY <1>2, <1>9, PaidStaysPaid, ChargeStaysEarned DEF BaseInv, billing
<1>11. QED
  BY <1>1, <1>2, <1>3, <1>6, <1>7, <1>8, <1>10, AppendKeepsBase

(* A batch names calls of one turn, which has begun.                       *)
LEMMA ToolResultKeepsBase ==
    ASSUME BaseInv, NEW r \in Requests, NEW batch \in Batches, ToolResult(r, batch)
    PROVE  BaseInv'
<1> DEFINE t == turnOf[batch[1]]
<1>1. /\ pc[r] = "idle" /\ BatchCalls(batch) \subseteq TurnCalls(t) /\ t # NoTurn
      /\ pc' = [pc EXCEPT ![r] = "apply"]
      /\ turn' = [turn EXCEPT ![r] = t]
      /\ todo' = [todo EXCEPT ![r] = batch]
      /\ anchor' = [anchor EXCEPT ![r] = batch[1]]
      /\ contested' \subseteq contested \union {t}
      /\ UNCHANGED <<mode, billing, rows, held, plan, round, sent, known, excused>>
  BY DEF ToolResult
<1>2. batch \in Seq(Calls) /\ batch[1] \in Calls /\ batch[1] \in BatchCalls(batch)
  <2>1. batch \in Seq(Calls) /\ batch # <<>>
    BY BatchesAssumption
  <2>2. 1 \in DOMAIN batch
    BY <2>1
  <2>3. QED
    BY <2>1, <2>2 DEF BatchCalls
<1>3. t \in Turns /\ Started(t)
  BY <1>1, <1>2 DEF BaseInv, TypeOK, CallsLinked, Existing
<1> HIDE DEF t
<1>4. TypeOK'
  BY <1>1, <1>2, <1>3 DEF BaseInv, TypeOK, Places, rows, billing, Existing
<1>5. OnlyRequest(r)
  BY <1>1 DEF OnlyRequest, BaseInv, TypeOK
<1>6. turn'[r] = t /\ todo'[r] = batch /\ anchor'[r] = batch[1] /\ pc'[r] = "apply"
  BY <1>1 DEF BaseInv, TypeOK
<1>7. RequestOK(r)'
  <2>1. Started(turn[r])'
    BY <1>1, <1>3, <1>6 DEF Started, Committed, rows
  <2>2. BatchCalls(todo[r])' \subseteq TurnCalls(turn[r])' /\ anchor'[r] \in TurnCalls(turn[r])'
    BY <1>1, <1>2, <1>6 DEF BatchCalls, TurnCalls, rows
  <2>3. QED
    BY <1>3, <1>6, <2>1, <2>2 DEF RequestOK
<1>8. RowsBy(r) = {}
  BY <1>1, NoOpenRows DEF Applying
<1>9. QED
  BY <1>1, <1>4, <1>5, <1>7, <1>8, QuietKeepsBase DEF billing

(* A result that is skipped changes nothing but the batch.                 *)
LEMMA SkipKeepsBase ==
    ASSUME BaseInv, NEW r \in Requests, SkipResult(r)
    PROVE  BaseInv'
<1>1. /\ pc[r] = "apply" /\ todo[r] # <<>> /\ todo' = [todo EXCEPT ![r] = Tail(@)]
      /\ UNCHANGED <<mode, billing, rows, pc, turn, anchor, held, plan, round, sent,
                   known, excused, contested>>
  BY DEF SkipResult
<1>2. TypeOK'
  BY <1>1 DEF BaseInv, TypeOK, rows, billing, Existing
<1>3. OnlyRequest(r)
  BY <1>1 DEF OnlyRequest, BaseInv, TypeOK
<1>4. RequestOK(r)'
  <2>1. todo'[r] = Tail(todo[r]) /\ todo[r] \in Seq(Calls)
    BY <1>1 DEF BaseInv, TypeOK
  <2>2. BatchCalls(Tail(todo[r])) \subseteq BatchCalls(todo[r])
    BY <1>1, <2>1 DEF BatchCalls
  <2>3. BatchCalls(todo[r])' \subseteq TurnCalls(turn[r])'
    BY <1>1, <2>1, <2>2 DEF BatchCalls, TurnCalls, rows, BaseInv, RequestOK, Applying
  <2>4. QED
    BY <1>1, <2>3 DEF BaseInv, RequestOK, Applying, TurnCalls, Started, Committed, rows
<1>5. QED
  BY <1>1, <1>2, <1>3, <1>4, QuietKeepsBase DEF billing, Applying

(* Read together, the calls of the backend are done, and those of the      *)
(* client are when none is pending.                                        *)
LEMMA BarrierKeepsBase ==
    ASSUME BaseInv, NEW r \in Requests, ReadBarrier(r)
    PROVE  BaseInv'
<1>1. /\ pc[r] = "apply" /\ todo[r] = <<>>
      /\ pc' = [pc EXCEPT ![r] = IF Pending(r) = {} THEN "closed" ELSE "open"]
      /\ known' = [known EXCEPT ![r] = TurnCalls(turn[r])]
      /\ UNCHANGED <<mode, billing, rows, turn, todo, anchor, held, plan, round, sent,
                   excused, contested>>
  BY DEF ReadBarrier
<1>2. TypeOK'
  BY <1>1 DEF BaseInv, TypeOK, rows, billing, Existing, Places, TurnCalls
<1>3. OnlyRequest(r)
  BY <1>1 DEF OnlyRequest, BaseInv, TypeOK
<1>4. pc'[r] \in {"open", "closed"} /\ known'[r] = TurnCalls(turn[r])
      /\ (pc'[r] = "closed" => Pending(r) = {})
  BY <1>1 DEF BaseInv, TypeOK
<1>5. Pending(r) = {} => TurnCalls(turn[r]) \subseteq completed \union held[r]
  BY DEF Pending, ClientCalls, BaseInv, CallsLinked
<1>6. RequestOK(r)'
  BY <1>1, <1>4, <1>5 DEF BaseInv, RequestOK, Applying, TurnCalls, Started, Committed, rows,
     BatchCalls
<1>7. QED
  BY <1>1, <1>2, <1>3, <1>4, <1>6, QuietKeepsBase DEF billing, Applying

(* A step that commits and returns.                                        *)
LEMMA CommitReturnKeepsBase ==
    ASSUME BaseInv, NEW r \in Requests, pc[r] # "idle", CommitRows(r), Return(r),
           UNCHANGED <<mode, billing, turnOf, serverSide, contested>>,
           excused' = excused \/ Excuse(r)
    PROVE  BaseInv'
<1>1. WorkTypes'
  BY TypeParts, ReturnTypes DEF BaseInv
<1>2. excused' \subseteq Turns
  BY DEF BaseInv, TypeOK, RequestOK, Excuse
<1>3. TypeOK'
  BY <1>1, <1>2, CommitTypes
<1>4. \A o \in Requests \ {r} : held'[o] = held[o]
  BY DEF CommitRows, BaseInv, TypeOK
<1>5. OnlyRequest(r) /\ RequestOK(r)'
  BY <1>4, ReturnIsAlone DEF BaseInv
<1>6. QED
  BY <1>3, <1>5, CommitKeepsBase

(* The history that is sent has a result for every call that must have     *)
(* one: the rows the request has just committed are among them.            *)
LEMMA ContinueKeepsBase ==
    ASSUME BaseInv, NEW r \in Requests, Continue(r)
    PROVE  BaseInv'
<1>1. /\ pc[r] = "closed" /\ CommitRows(r) /\ Evaluate(account, mode) = "allow"
      /\ pc' = [pc EXCEPT ![r] = "llm"]
      /\ plan' = [plan EXCEPT ![r] = BillingPlan(account, mode)]
      /\ round' = [round EXCEPT ![r] = 1]
      /\ sent' = [sent EXCEPT ![r] = ResultsIn(Visible(r))]
      /\ UNCHANGED <<mode, billing, turnOf, serverSide, turn, todo, anchor, known,
                   excused, contested>>
  BY DEF Continue
<1>2. ResultsIn(Visible(r)) \in SUBSET Calls
  BY ResultTypes DEF Visible
<1>3. /\ BillingPlan(account, mode) \in {"debit", "trial", "free"}
      /\ BillingPlan(account, mode) = "free" => mode = "byok"
  BY <1>1, PlanOfAllowed DEF BaseInv
<1>4. WorkTypes'
  BY <1>1, <1>2, <1>3, ChatBoundsAssumption DEF BaseInv, TypeOK, WorkTypes, Places, Plans
<1>5. TypeOK'
  BY <1>1, <1>4, CommitTypes DEF BaseInv, TypeOK
<1>6. OnlyRequest(r)
  BY <1>1 DEF OnlyRequest, CommitRows, BaseInv, TypeOK
<1>7. ResultsIn(Visible(r)) = completed \union held[r]
  BY DEF ResultsIn, Visible, BaseInv, CallsLinked, Committed, RowsBy
<1>8. /\ pc'[r] = "llm" /\ turn'[r] = turn[r] /\ known'[r] = known[r]
      /\ sent'[r] = ResultsIn(Visible(r)) /\ plan'[r] = BillingPlan(account, mode)
      /\ completed' = completed \union held[r] /\ mode' = mode
  BY <1>1 DEF CommitRows, BaseInv, TypeOK
<1>9. known[r] \subseteq completed \union held[r] /\ turn[r] \in Turns /\ Started(turn[r])
  BY <1>1 DEF BaseInv, RequestOK
<1>10. Started(turn[r])'
  <2>1. PICK f : /\ Relabels(f, steps, steps')
                 /\ \A s \in steps : f[s].by = IF s.by = r THEN NoRequest ELSE s.by
    BY <1>1, CommitRelabels DEF BaseInv, TypeOK
  <2>2. PICK x \in steps : x.by = NoRequest /\ x.turn = turn[r]
    BY <1>9 DEF Started, Committed
  <2>3. f[x] \in steps' /\ f[x].by = NoRequest /\ f[x].turn = turn[r]
    BY <2>1, <2>2 DEF Relabels, SameRow
  <2>4. QED
    BY <1>8, <2>3 DEF Started, Committed
<1>11. RequestOK(r)'
  BY <1>3, <1>7, <1>8, <1>9, <1>10 DEF RequestOK, Applying
<1>12. QED
  BY <1>1, <1>5, <1>6, <1>11, CommitKeepsBase

-----------------------------------------------------------------------------
(* A debit keeps the account an account, and charges a turn once.          *)
LEMMA DebitTypes ==
    ASSUME TypeOK, ChargedForAnswer, NEW t \in Turns, Debitable(t), Debit(t)
    PROVE  /\ account' \in PolicyStates /\ account'.trial_used = account.trial_used
           /\ charged'[t] = 1 /\ charged' \in [Turns -> Nat]
           /\ \A u \in Turns \ {t} : charged'[u] = charged[u]
<1>1. account \in PolicyStates /\ charged \in [Turns -> Nat] /\ charged[t] \in {0, 1}
  BY DEF TypeOK, ChargedForAnswer
<1>2. CASE charged[t] > 0
  BY <1>1, <1>2 DEF Debit, billing
<1>3. CASE ~(charged[t] > 0)
  <2>1. account.credits_balance >= 1
    BY <1>3 DEF Debitable
  <2>2. /\ charged' = [charged EXCEPT ![t] = 1]
        /\ account' = [account EXCEPT !.credits_balance = @ - 1]
    BY <1>3 DEF Debit
  <2>3. account.credits_balance \in Nat /\ account.credits_balance - 1 \in Nat
    BY <1>1, <2>1 DEF PolicyStates
  <2>4. account' \in PolicyStates /\ account'.trial_used = account.trial_used
    BY <1>1, <2>2, <2>3 DEF PolicyStates
  <2>5. QED
    BY <1>1, <2>2, <2>4
<1>4. QED
  BY <1>2, <1>3

(* A stored answer is paid for in the transaction that stores it.          *)
LEMMA FinalizeKeepsBase ==
    ASSUME BaseInv, NEW r \in Requests, Finalize(r)
    PROVE  BaseInv'
<1> DEFINE t == turn[r]
           s == [Row(NextSeq, t, "final") EXCEPT !.plan = plan[r]]
<1>1. /\ pc[r] = "llm" /\ steps' = steps \union {s} /\ Return(r)
      /\ UNCHANGED <<mode, turnOf, serverSide, completed, held, excused, contested>>
  BY DEF Finalize, Answer
<1>2. t \in Turns /\ plan[r] \in {"debit", "trial", "free"} /\ (plan[r] = "free" => mode = "byok")
  BY <1>1 DEF BaseInv, RequestOK
<1>3. /\ s \in StepRows /\ s.seq = NextSeq /\ s.by = NoRequest /\ s.kind = "final"
      /\ s.turn = t /\ s.plan = plan[r]
  BY <1>2, CountIsNat DEF Row, NextSeq, StepRows, StepKinds, Plans
<1> HIDE DEF s
<1>4. RowsBy(r) = {}
  BY <1>1, NoOpenRows DEF Applying
<1>5. OnlyRequest(r) /\ RequestOK(r)'
  BY <1>1, ReturnIsAlone DEF BaseInv
<1>6. /\ account' \in PolicyStates /\ charged' \in [Turns -> Nat]
      /\ account.trial_used => account'.trial_used
      /\ \A u \in Turns : charged[u] = 1 => charged'[u] = 1
      /\ \A u \in Turns \ {t} : charged'[u] = charged[u]
      /\ plan[r] = "debit" => charged'[t] = 1
      /\ plan[r] = "trial" => account'.trial_used = TRUE /\ UNCHANGED charged
      /\ plan[r] = "free" => UNCHANGED charged
  <2>1. CASE plan[r] = "debit"
    <3>1. Debitable(t) /\ Debit(t)
      BY <2>1 DEF Finalize
    <3>2. QED
      BY <1>2, <2>1, <3>1, DebitTypes DEF BaseInv
  <2>2. CASE plan[r] = "trial"
    <3>1. account' = [account EXCEPT !.trial_used = TRUE] /\ UNCHANGED charged
      BY <2>2 DEF Finalize
    <3>2. QED
      BY <2>2, <3>1 DEF BaseInv, TypeOK, PolicyStates
  <2>3. CASE plan[r] = "free"
    <3>1. UNCHANGED billing
      BY <2>3 DEF Finalize
    <3>2. QED
      BY <2>3, <3>1 DEF BaseInv, TypeOK, billing
  <2>4. QED
    BY <1>2, <2>1, <2>2, <2>3
<1>7. TypeOK'
  <2>1. WorkTypes'
    BY <1>1, TypeParts, ReturnTypes DEF BaseInv
  <2>2. StoredTypes'
    BY <1>1, <1>3, <1>6 DEF BaseInv, TypeOK, StoredTypes, Existing
  <2>3. held' \in [Requests -> SUBSET Calls]
    BY <1>1 DEF BaseInv, TypeOK
  <2>4. QED
    BY <2>1, <2>2, <2>3, TypeParts DEF WorkTypes, StoredTypes, TypeOK
<1>8. \A x \in Committed' : x \in Committed \/ x = s
  BY <1>1 DEF Committed
<1>9. AnswersArePaid'
  <2> SUFFICES ASSUME NEW x \in Committed', x.kind = "final"
               PROVE  \/ x.plan = "debit" /\ charged'[x.turn] = 1
                      \/ x.plan = "trial" /\ account'.trial_used
                      \/ x.plan = "free" /\ mode' = "byok"
    BY DEF AnswersArePaid
  <2>1. CASE x = s
    BY <1>1, <1>2, <1>3, <1>6, <2>1
  <2>2. CASE x \in Committed
    <3>1. x.turn \in Turns
      BY <2>2 DEF Committed, BaseInv, TypeOK, StepRows
    <3>2. QED
      BY <1>1, <1>6, <2>2, <3>1 DEF BaseInv, AnswersArePaid
  <2>3. QED
    BY <1>8, <2>1, <2>2
<1>10. ChargedForAnswer'
  <2> SUFFICES ASSUME NEW u \in Turns
               PROVE  /\ charged'[u] \in {0, 1}
                      /\ charged'[u] = 1 =>
                            \E x \in Committed' : x.turn = u /\ x.kind = "final" /\ x.plan = "debit"
    BY DEF ChargedForAnswer, Finals
  <2>1. /\ charged[u] \in {0, 1}
        /\ charged[u] = 1 =>
              \E x \in Committed : x.turn = u /\ x.kind = "final" /\ x.plan = "debit"
    BY DEF BaseInv, ChargedForAnswer, Finals
  <2>2. Committed \subseteq Committed' /\ s \in Committed'
    BY <1>1, <1>3 DEF Committed
  <2>3. CASE u = t /\ plan[r] = "debit"
    BY <1>3, <1>6, <2>2, <2>3
  <2>4. CASE ~(u = t /\ plan[r] = "debit")
    BY <1>2, <1>6, <2>1, <2>2, <2>4
  <2>5. QED
    BY <2>3, <2>4
<1>11. QED
  BY <1>1, <1>3, <1>4, <1>5, <1>7, <1>9, <1>10, AppendKeepsBase

(* A partial answer is stored and not paid.                                *)
LEMMA TruncateKeepsBase ==
    ASSUME BaseInv, NEW r \in Requests, Truncate(r)
    PROVE  BaseInv'
<1> DEFINE s == Row(NextSeq, turn[r], "truncated")
<1>1. /\ pc[r] = "llm" /\ steps' = steps \union {s} /\ Return(r)
      /\ UNCHANGED <<mode, billing, turnOf, serverSide, completed, held, excused, contested>>
  BY DEF Truncate
<1>2. turn[r] \in Turns
  BY <1>1 DEF BaseInv, RequestOK
<1>3. s \in StepRows /\ s.seq = NextSeq /\ s.by = NoRequest /\ s.kind = "truncated"
  BY <1>2, RowTypes DEF StepKinds
<1> HIDE DEF s
<1>4. RowsBy(r) = {}
  BY <1>1, NoOpenRows DEF Applying
<1>5. OnlyRequest(r) /\ RequestOK(r)'
  BY <1>1, ReturnIsAlone DEF BaseInv
<1>6. TypeOK'
  <2>1. WorkTypes'
    BY <1>1, TypeParts, ReturnTypes DEF BaseInv
  <2>2. StoredTypes' /\ held' \in [Requests -> SUBSET Calls]
    BY <1>1, <1>3 DEF BaseInv, TypeOK, StoredTypes, Existing, billing
  <2>4. QED
    BY <2>1, <2>2, TypeParts DEF WorkTypes, StoredTypes, TypeOK
<1>7. RowsPersist /\ FinalsKnown
  BY <1>1, <1>3 DEF RowsPersist, FinalsKnown, Committed, SameRow
<1>8. AnswersArePaid' /\ ChargedForAnswer'
  BY <1>1, <1>7, PaidStaysPaid, ChargeStaysEarned DEF BaseInv, billing
<1>9. QED
  BY <1>1, <1>3, <1>4, <1>5, <1>6, <1>8, AppendKeepsBase

(* A step that stores the calls of an answer and returns.                  *)
LEMMA StoreReturnKeepsBase ==
    ASSUME BaseInv, NEW r \in Requests, pc[r] = "llm", NEW new \in FreshCalls,
           NEW server \in SUBSET new, StoreCalls(r, new, server), Return(r),
           UNCHANGED <<mode, billing, held, contested>>, excused' = excused \/ Excuse(r)
    PROVE  BaseInv'
<1>1. WorkTypes'
  BY TypeParts, ReturnTypes DEF BaseInv
<1>2. excused' \subseteq Turns
  BY DEF BaseInv, TypeOK, RequestOK, Excuse
<1>3. TypeOK'
  BY <1>1, <1>2, StoreTypes
<1>4. OnlyRequest(r) /\ RequestOK(r)'
  BY ReturnIsAlone DEF BaseInv
<1>5. QED
  BY <1>3, <1>4, StoreKeepsBase

(* The next round has the results of the calls it has just run, too.       *)
LEMMA NextRoundKeepsBase ==
    ASSUME BaseInv, NEW r \in Requests, NextRound(r)
    PROVE  BaseInv'
<1>1. PICK new \in FreshCalls :
         /\ StoreCalls(r, new, new) /\ known' = [known EXCEPT ![r] = @ \union new]
         /\ pc[r] = "llm" /\ round[r] <= MaxRounds
         /\ round' = [round EXCEPT ![r] = @ + 1]
         /\ sent' = [sent EXCEPT ![r] = ResultsIn({s \in steps' : s.by = NoRequest})]
         /\ UNCHANGED <<mode, billing, pc, turn, todo, anchor, held, plan, excused, contested>>
  BY DEF NextRound
<1>2. turn[r] \in Turns /\ new \in SUBSET Calls /\ known[r] \subseteq completed
  BY <1>1, FreshCallsAreNew DEF BaseInv, RequestOK
<1>3. PICK added : Adds(r, new, added)
  BY <1>1, <1>2, StoredRows DEF BaseInv
<1>4. ResultsIn({s \in steps' : s.by = NoRequest}) = completed \union new
  BY <1>3 DEF Adds, ResultsIn, BaseInv, CallsLinked, Committed
<1>5. completed' = completed \union new
  BY <1>1 DEF StoreCalls
<1>6. completed \subseteq Calls
  BY DEF BaseInv, TypeOK, Existing
<1>7. WorkTypes'
  <2>1. round[r] + 1 \in 0..(MaxRounds + 1)
    BY <1>1, ChatBoundsAssumption DEF BaseInv, TypeOK
  <2>2. QED
    BY <1>1, <1>2, <1>4, <1>6, <2>1 DEF BaseInv, TypeOK, WorkTypes
<1>8. TypeOK'
  BY <1>1, <1>7, StoreTypes DEF BaseInv, TypeOK
<1>9. OnlyRequest(r)
  BY <1>1 DEF OnlyRequest, BaseInv, TypeOK
<1>10. /\ known'[r] = known[r] \union new /\ sent'[r] = completed \union new
       /\ pc' = pc /\ turn' = turn /\ plan' = plan /\ mode' = mode
  BY <1>1, <1>4 DEF BaseInv, TypeOK
<1>11. Started(turn[r])'
  BY <1>1, <1>3 DEF Adds, Started, Committed, BaseInv, RequestOK
<1>12. RequestOK(r)'
  BY <1>1, <1>2, <1>5, <1>10, <1>11 DEF BaseInv, RequestOK, Applying
<1>13. QED
  BY <1>1, <1>8, <1>9, <1>12, StoreKeepsBase

(* A rejected key changes the account and ends the request.                *)
LEMMA KeyRejectedKeepsBase ==
    ASSUME BaseInv, NEW r \in Requests, KeyRejected(r)
    PROVE  BaseInv'
<1>1. /\ pc[r] = "llm" /\ Return(r)
      /\ account' = [account EXCEPT !.byok_status = "expired", !.byok_enabled = FALSE]
      /\ excused' = excused \union {turn[r]} /\ turn[r] \in Turns
      /\ UNCHANGED <<mode, charged, rows, held, contested>>
  BY DEF KeyRejected, Excuse, BaseInv, RequestOK
<1>2. account' \in PolicyStates /\ account'.trial_used = account.trial_used
  BY <1>1 DEF BaseInv, TypeOK, PolicyStates, ByokStatuses
<1>3. OnlyRequest(r) /\ RequestOK(r)'
  BY <1>1, ReturnIsAlone DEF BaseInv
<1>4. TypeOK'
  <2>1. WorkTypes'
    BY <1>1, TypeParts, ReturnTypes DEF BaseInv
  <2>2. StoredTypes' /\ held' \in [Requests -> SUBSET Calls]
    BY <1>1, <1>2 DEF BaseInv, TypeOK, StoredTypes, Existing, rows
  <2>4. QED
    BY <2>1, <2>2, TypeParts DEF WorkTypes, StoredTypes, TypeOK
<1>5. RowsBy(r) = {}
  BY <1>1, NoOpenRows DEF Applying
<1>6. QED
  BY <1>1, <1>2, <1>3, <1>4, <1>5, QuietKeepsBase

(* What changes the account elsewhere changes nothing here.                *)
LEMMA AccountChangesKeepsBase ==
    ASSUME BaseInv, AccountChanges
    PROVE  BaseInv'
<1>1. UNCHANGED <<mode, charged, rows, pc, work, held, excused, contested>>
  BY DEF AccountChanges
<1>2. account' \in PolicyStates /\ account'.trial_used = account.trial_used
  <2>1. account \in PolicyStates
    BY DEF BaseInv, TypeOK
  <2>2. CASE account.credits_balance > 0
             /\ account' = [account EXCEPT !.credits_balance = @ - 1]
    <3>1. account.credits_balance - 1 \in Nat
      BY <2>1, <2>2 DEF PolicyStates
    <3>2. QED
      BY <2>1, <2>2, <3>1 DEF PolicyStates
  <2>3. CASE account.subscription_status = "active"
             /\ account' = [account EXCEPT !.subscription_status =
                               EffectiveSubscriptionStatus(@, TRUE)]
    BY <2>1, <2>3 DEF PolicyStates, EffectiveSubscriptionStatus, SubscriptionStatuses
  <2>4. CASE account.byok_enabled /\ account' = [account EXCEPT !.byok_enabled = FALSE]
    BY <2>1, <2>4 DEF PolicyStates
  <2>5. QED
    BY <2>2, <2>3, <2>4 DEF AccountChanges
<1>3. TypeOK'
  BY <1>1, <1>2 DEF BaseInv, TypeOK, rows, work, Existing
<1>4. \A r \in Requests : RequestOK(r)'
  BY <1>1 DEF BaseInv, RequestOK, rows, work, Applying, TurnCalls, Started, Committed, BatchCalls
<1>5. Numbered(steps)' /\ OneResultPerCall(steps)' /\ RowsLinked'
  BY <1>1 DEF BaseInv, Numbered, OneResultPerCall, RowsLinked, rows, work, Applying
<1>6. CallsLinked'
  BY <1>1 DEF BaseInv, CallsLinked, rows, Existing, Committed, RowsBy, ResultsIn, Started
<1>7. RowsPersist /\ FinalsKnown
  BY <1>1 DEF RowsPersist, FinalsKnown, Committed, SameRow, rows
<1>8. AnswersArePaid' /\ ChargedForAnswer'
  BY <1>1, <1>2, <1>7, PaidStaysPaid, ChargeStaysEarned DEF BaseInv
<1>9. QED
  BY <1>3, <1>4, <1>5, <1>6, <1>8 DEF BaseInv

(* A stuttering step.                                                      *)
LEMMA StutterKeepsBase ==
    ASSUME BaseInv, UNCHANGED vars
    PROVE  BaseInv'
<1>1. TypeOK'
  BY DEF BaseInv, TypeOK, vars, Existing
<1>2. \A r \in Requests : RequestOK(r)'
  BY DEF BaseInv, RequestOK, vars, Applying, TurnCalls, Started, Committed, BatchCalls
<1>3. Numbered(steps)' /\ OneResultPerCall(steps)' /\ RowsLinked'
  BY DEF BaseInv, Numbered, OneResultPerCall, RowsLinked, vars, Applying
<1>4. CallsLinked'
  BY DEF BaseInv, CallsLinked, vars, Existing, Committed, RowsBy, ResultsIn, Started
<1>5. AnswersArePaid' /\ ChargedForAnswer'
  BY DEF BaseInv, AnswersArePaid, ChargedForAnswer, Committed, Finals, vars
<1>6. QED
  BY <1>1, <1>2, <1>3, <1>4, <1>5 DEF BaseInv

(* A request that is undone was running.                                   *)
LEMMA UndoneWasRunning ==
    ASSUME BaseInv, NEW r \in Requests,
           DeadlockVictim(r) \/ FinalizeUnpaid(r) \/ ProviderFails(r) \/ Crash(r)
    PROVE  pc[r] # "idle" /\ RollbackAndReturn(r)
<1>1. CASE DeadlockVictim(r)
  <2>1. PICK S \in SUBSET Requests : r \in S /\ Cycle(S)
    BY <1>1 DEF DeadlockVictim
  <2>2. pc[r] = "apply"
    BY <2>1 DEF Cycle, WaitsFor
  <2>3. QED
    BY <1>1, <2>2 DEF DeadlockVictim
<1>2. CASE FinalizeUnpaid(r) \/ ProviderFails(r) \/ Crash(r)
  BY <1>2 DEF FinalizeUnpaid, ProviderFails, Crash
<1>3. QED
  BY <1>1, <1>2

(* The row of an applied result.                                           *)
LEMMA ResultRowTypes ==
    ASSUME BaseInv, NEW t \in Turns, NEW c \in Calls, NEW r \in Requests
    PROVE  [Row(NextSeq, t, "tool") EXCEPT !.call = c, !.by = r] \in StepRows
<1>1. Row(NextSeq, t, "tool") \in StepRows
  BY RowTypes DEF StepKinds
<1>2. \A s \in StepRows : [s EXCEPT !.call = c, !.by = r] \in StepRows
  BY DEF StepRows
<1>3. QED
  BY <1>1, <1>2

(* The invariant of the rows is preserved by every step.                   *)
LEMMA NextBase == BaseInv /\ [Next]_vars => BaseInv'
<1> SUFFICES ASSUME BaseInv, [Next]_vars PROVE BaseInv'
  OBVIOUS
<1>1. CASE UNCHANGED vars
  BY <1>1, StutterKeepsBase
<1>2. CASE AccountChanges
  BY <1>2, AccountChangesKeepsBase
<1>3. ASSUME NEW r \in Requests, NEW t \in Turns, Run(r, t) \/ RunBlocked(r, t)
      PROVE  BaseInv'
  BY <1>3, RunKeepsBase, RunBlockedKeepsBase
<1>4. ASSUME NEW r \in Requests, NEW batch \in Batches, ToolResult(r, batch)
      PROVE  BaseInv'
  BY <1>4, ToolResultKeepsBase
<1>5. ASSUME NEW r \in Requests, Crash(r) PROVE BaseInv'
  BY <1>5, UndoneWasRunning, RollbackTypes, RollbackKeepsBase
<1>6. ASSUME NEW r \in Requests, Step(r) PROVE BaseInv'
  <2>1. CASE ApplyResult(r)
    <3>1. /\ pc[r] = "apply" /\ todo[r] # <<>> /\ todo[r] \in Seq(Calls)
          /\ held' = [held EXCEPT ![r] = @ \union {Head(todo[r])}]
          /\ todo' = [todo EXCEPT ![r] = Tail(@)]
          /\ UNCHANGED <<mode, billing, turnOf, serverSide, completed, pc, turn, anchor,
                         plan, round, sent, known, excused, contested>>
      BY <2>1 DEF ApplyResult, BaseInv, TypeOK
    <3>2. turn[r] \in Turns /\ Head(todo[r]) \in Calls
      BY <3>1 DEF BaseInv, RequestOK
    <3>3. [Row(NextSeq, turn[r], "tool") EXCEPT !.call = Head(todo[r]), !.by = r] \in StepRows
      BY <3>2, ResultRowTypes
    <3>4. steps' \subseteq StepRows
      BY <2>1, <3>3 DEF ApplyResult, BaseInv, TypeOK
    <3>5. TypeOK'
      BY <3>1, <3>2, <3>4 DEF BaseInv, TypeOK, Existing, billing
    <3>6. QED
      BY <2>1, <3>5, ApplyKeepsBase
  <2>2. CASE SkipResult(r)
    BY <2>2, SkipKeepsBase
  <2>3. CASE DeadlockVictim(r) \/ FinalizeUnpaid(r) \/ ProviderFails(r)
    BY <2>3, UndoneWasRunning, RollbackTypes, RollbackKeepsBase
  <2>4. CASE ReadBarrier(r)
    BY <2>4, BarrierKeepsBase
  <2>5. CASE AnswerPending(r) \/ RenderSaved(r) \/ ContinueBlocked(r)
    BY <2>5, CommitReturnKeepsBase DEF AnswerPending, RenderSaved, ContinueBlocked
  <2>6. CASE Continue(r)
    BY <2>6, ContinueKeepsBase
  <2>7. CASE Finalize(r)
    BY <2>7, FinalizeKeepsBase
  <2>8. CASE Truncate(r)
    BY <2>8, TruncateKeepsBase
  <2>9. CASE HandOff(r) \/ RoundsExceeded(r)
    BY <2>9, StoreReturnKeepsBase DEF HandOff, RoundsExceeded
  <2>10. CASE NextRound(r)
    BY <2>10, NextRoundKeepsBase
  <2>11. CASE KeyRejected(r)
    BY <2>11, KeyRejectedKeepsBase
  <2>12. QED
    BY <1>6, <2>1, <2>2, <2>3, <2>4, <2>5, <2>6, <2>7, <2>8, <2>9, <2>10, <2>11 DEF Step
<1>7. QED
  BY <1>1, <1>2, <1>3, <1>4, <1>5, <1>6 DEF Next

(* The rows, calls, requests and payments are sound in every reachable     *)
(* state.                                                                  *)
THEOREM BaseInvariance == Spec => []BaseInv
  BY InitBase, NextBase, PTL DEF Spec

(* Every variable of the chat keeps its type; in particular no debit takes *)
(* the balance below zero.                                                 *)
THEOREM TurnsAreTyped == Spec => []TypeOK
  BY BaseInvariance, PTL DEF BaseInv

(* However many requests bring a result for a call, exactly one is stored, *)
(* together with the UPDATE of the call.                                   *)
THEOREM ResultsStoredOnce == Spec => []ToolResultOnce
<1>1. BaseInv => ToolResultOnce
  BY DEF BaseInv, CallsLinked, OneResultPerCall, ToolResultOnce, ResultsIn, Committed
<1>2. QED
  BY <1>1, BaseInvariance, PTL

(* The provider is called only with a result for every call it must have.  *)
THEOREM ProviderSeesResults == Spec => []BarrierHolds
<1>1. BaseInv => BarrierHolds
  BY DEF BaseInv, RequestOK, BarrierHolds
<1>2. QED
  BY <1>1, BaseInvariance, PTL

(* No answer is given away, whatever changes during its generation.        *)
THEOREM EveryAnswerIsPaid == Spec => []AnswersArePaid
  BY BaseInvariance, PTL DEF BaseInv

(* A turn costs at most one credit, and only when its answer is stored.    *)
THEOREM TurnsChargedOnce == Spec => []ChargedForAnswer
  BY BaseInvariance, PTL DEF BaseInv

-----------------------------------------------------------------------------
(* A step seen from one turn: the rows of the turn keep their order, the   *)
(* calls their state, and the requests that work on it are left alone.     *)
SameTurnRows(t) ==
    \E f : /\ Relabels(f, TurnRows(t), TurnRows(t)')
           /\ \A x \in TurnRows(t) : f[x].by = x.by

Untouched(t) ==
    /\ SameTurnRows(t)
    /\ TurnCalls(t)' = TurnCalls(t)
    /\ \A c \in TurnCalls(t) :
          /\ c \in serverSide' <=> c \in serverSide
          /\ c \in completed' <=> c \in completed
    /\ Busy(t)' = Busy(t)
    /\ \A o \in Busy(t) :
          /\ pc'[o] = pc[o] /\ turn'[o] = turn[o] /\ todo'[o] = todo[o]
          /\ anchor'[o] = anchor[o] /\ held'[o] = held[o]
    /\ excused \subseteq excused'

(* The rows of one turn are relabelled with all others.                    *)
LEMMA RelabelsTurn ==
    ASSUME NEW f, NEW S, NEW T, Relabels(f, S, T), NEW t
    PROVE  \E g : /\ Relabels(g, OfTurn(S, t), OfTurn(T, t))
                  /\ \A x \in S : x.turn = t => g[x] = f[x]
<1> DEFINE A == {x \in S : x.turn = t}
           B == {y \in T : y.turn = t}
           g == [x \in A |-> f[x]]
<1>1. \A x \in A : x \in S /\ g[x] = f[x] /\ f[x] \in T /\ SameRow(x, f[x])
  BY DEF Relabels
<1>2. \A x \in A : f[x] \in B
  BY <1>1 DEF SameRow
<1>3. g \in [A -> B]
  BY <1>2
<1>4. \A y \in B : \E x \in A : y = f[x]
  BY DEF Relabels, SameRow
<1>5. \A x, y \in A : x.seq < y.seq <=> f[x].seq < f[y].seq
  BY DEF Relabels
<1> HIDE DEF g
<1>6. Relabels(g, A, B)
  BY <1>1, <1>3, <1>4, <1>5 DEF Relabels
<1>7. A = OfTurn(S, t) /\ B = OfTurn(T, t)
  BY DEF OfTurn
<1>8. QED
  BY <1>1, <1>6, <1>7

(* A step that writes no row of the turn.                                  *)
LEMMA SameRowsSameTurn ==
    ASSUME NEW t, TurnRows(t)' = TurnRows(t)
    PROVE  SameTurnRows(t)
<1> DEFINE S == TurnRows(t)
           f == [x \in S |-> x]
<1>1. /\ f \in [S -> S] /\ \A y \in S : \E x \in S : y = f[x]
      /\ \A x \in S : f[x] = x /\ SameRow(x, f[x])
  BY DEF SameRow
<1> HIDE DEF f
<1>2. Relabels(f, S, S) /\ \A x \in S : f[x].by = x.by
  BY <1>1 DEF Relabels
<1>3. QED
  BY <1>2 DEF SameTurnRows

(* A commit of r and a rollback of r, seen from one turn.                  *)
LEMMA CommitTurnRows ==
    ASSUME BaseInv, NEW r \in Requests, CommitRows(r), NEW t
    PROVE  \E f : /\ Relabels(f, TurnRows(t), TurnRows(t)')
                  /\ \A x \in TurnRows(t) :
                        f[x].by = IF x.by = r THEN NoRequest ELSE x.by
<1>1. PICK f : /\ Relabels(f, steps, steps')
               /\ \A s \in steps : f[s].by = IF s.by = r THEN NoRequest ELSE s.by
  BY CommitRelabels DEF BaseInv, TypeOK
<1>2. PICK g : /\ Relabels(g, OfTurn(steps, t), OfTurn(steps', t))
               /\ \A x \in steps : x.turn = t => g[x] = f[x]
  BY <1>1, RelabelsTurn
<1>3. Relabels(g, TurnRows(t), TurnRows(t)')
  BY <1>2 DEF TurnRows, OfTurn
<1>4. \A x \in TurnRows(t) : g[x].by = IF x.by = r THEN NoRequest ELSE x.by
  BY <1>1, <1>2 DEF TurnRows
<1>5. QED
  BY <1>3, <1>4

KeptRows(r, t) == {x \in TurnRows(t) : x.by # r}

(* The rows of a turn that a rollback of r leaves.                         *)
LEMMA RollbackTurnRows ==
    ASSUME BaseInv, NEW r \in Requests, RollbackAndReturn(r), NEW t
    PROVE  \E f : /\ Relabels(f, KeptRows(r, t), TurnRows(t)')
                  /\ \A x \in KeptRows(r, t) : f[x].by = x.by
<1>1. PICK f : /\ Relabels(f, steps \ RowsBy(r), steps')
               /\ \A s \in steps \ RowsBy(r) : f[s].by = s.by
  BY RollbackRelabels DEF BaseInv, TypeOK
<1>2. PICK g : /\ Relabels(g, OfTurn(steps \ RowsBy(r), t), OfTurn(steps', t))
               /\ \A x \in steps \ RowsBy(r) : x.turn = t => g[x] = f[x]
  BY <1>1, RelabelsTurn
<1>3. OfTurn(steps \ RowsBy(r), t) = KeptRows(r, t)
  BY DEF TurnRows, OfTurn, KeptRows, RowsBy
<1>4. OfTurn(steps', t) = TurnRows(t)'
  BY DEF TurnRows, OfTurn
<1>5. \A x \in KeptRows(r, t) : g[x].by = x.by
  BY <1>1, <1>2 DEF TurnRows, KeptRows, RowsBy
<1>6. QED
  BY <1>2, <1>3, <1>4, <1>5

(* The answer of a turn stays its last word as long as the step stores no  *)
(* answer, adds no row and no call.                                        *)
LEMMA AnswerStaysLast ==
    ASSUME NEW t, AnswerIsLast(t), NEW S \in SUBSET TurnRows(t),
           NEW f, Relabels(f, S, TurnRows(t)'),
           \A x \in S : x.kind = "final" /\ f[x].by = NoRequest => x.by = NoRequest,
           TurnCalls(t)' \subseteq TurnCalls(t),
           \A c \in TurnCalls(t) : c \in completed => c \in completed'
    PROVE  AnswerIsLast(t)'
<1>1. \A y \in TurnRows(t)' : \E x \in S : y = f[x] /\ SameRow(x, y)
  BY DEF Relabels
<1>2. \A y \in Finals(t)' : \E x \in S : y = f[x] /\ x \in Finals(t)
  <2> SUFFICES ASSUME NEW y \in Finals(t)' PROVE \E x \in S : y = f[x] /\ x \in Finals(t)
    OBVIOUS
  <2>1. y \in TurnRows(t)' /\ y.kind = "final" /\ y.by = NoRequest
    BY DEF Finals, Committed, TurnRows
  <2>2. PICK x \in S : y = f[x] /\ SameRow(x, y)
    BY <1>1, <2>1
  <2>3. x \in steps /\ x.turn = t /\ x.kind = "final" /\ x.by = NoRequest
    BY <2>1, <2>2 DEF SameRow, TurnRows
  <2>4. QED
    BY <2>2, <2>3 DEF Finals, Committed
<1>3. \A y, z \in Finals(t)' : y = z
  BY <1>2 DEF AnswerIsLast
<1>4. ASSUME NEW y \in Finals(t)'
      PROVE  /\ TurnCalls(t)' \subseteq completed'
             /\ \A z \in TurnRows(t)' : z.kind = "tool" => z.seq < y.seq
  <2>1. PICK x \in S : y = f[x] /\ x \in Finals(t)
    BY <1>2
  <2>2. TurnCalls(t)' \subseteq completed'
    BY <2>1 DEF AnswerIsLast
  <2>3. ASSUME NEW z \in TurnRows(t)', z.kind = "tool" PROVE z.seq < y.seq
    <3>1. PICK w \in S : z = f[w] /\ SameRow(w, z)
      BY <1>1
    <3>2. w.seq < x.seq
      BY <2>1, <2>3, <3>1 DEF AnswerIsLast, SameRow
    <3>3. QED
      BY <2>1, <3>1, <3>2 DEF Relabels
  <2>4. QED
    BY <2>2, <2>3
<1>5. QED
  BY <1>3, <1>4 DEF AnswerIsLast

(* What settles a turn stays true when the calls and the committed rows of *)
(* the turn are the same.                                                  *)
LEMMA SettledStays ==
    ASSUME NEW t, Settled(t), TurnCalls(t)' = TurnCalls(t),
           steps \subseteq StepRows, steps' \subseteq StepRows,
           \A c \in TurnCalls(t) :
              /\ c \in serverSide' <=> c \in serverSide
              /\ c \in completed' <=> c \in completed,
           SameTurnRows(t)
    PROVE  Settled(t)'
<1>1. CASE ClientCalls(t) \ completed # {}
  BY <1>1 DEF Settled, ClientCalls
<1>2. ASSUME NEW s \in Committed, s.turn = t, s.kind \in {"final", "truncated"},
             \A o \in Committed : o.turn = t => o.seq <= s.seq
      PROVE  Settled(t)'
  <2>1. PICK f : /\ Relabels(f, TurnRows(t), TurnRows(t)')
                 /\ \A x \in TurnRows(t) : f[x].by = x.by
    BY DEF SameTurnRows
  <2>2. s \in TurnRows(t) /\ s.by = NoRequest
    BY <1>2 DEF Committed, TurnRows
  <2>3. f[s] \in Committed' /\ f[s].turn = t /\ f[s].kind \in {"final", "truncated"}
    BY <1>2, <2>1, <2>2 DEF Relabels, SameRow, Committed, TurnRows
  <2>4. ASSUME NEW y \in Committed', y.turn = t PROVE y.seq <= f[s].seq
    <3>1. y \in TurnRows(t)' /\ y.by = NoRequest
      BY <2>4 DEF Committed, TurnRows
    <3>2. PICK x \in TurnRows(t) : y = f[x]
      BY <2>1, <3>1 DEF Relabels
    <3>3. x \in Committed /\ x.turn = t
      BY <2>1, <3>1, <3>2 DEF Committed, TurnRows
    <3>4. x.seq <= s.seq /\ x.seq \in Nat /\ s.seq \in Nat
      BY <1>2, <2>2, <3>3 DEF Committed, StepRows
    <3>5. y.seq \in Nat /\ f[s].seq \in Nat
      BY <2>3, <2>4 DEF Committed, StepRows
    <3>6. ~(f[s].seq < y.seq)
      <4>1. s.seq < x.seq <=> f[s].seq < f[x].seq
        BY <2>1, <2>2, <3>2 DEF Relabels
      <4>2. QED
        BY <3>2, <3>4, <4>1
    <3>7. QED
      BY <3>5, <3>6
  <2>5. QED
    BY <2>3, <2>4 DEF Settled
<1>3. QED
  BY <1>1, <1>2 DEF Settled

(* A turn that a step does not touch stays sound.                          *)
LEMMA UntouchedStaysSerial ==
    ASSUME BaseInv, BaseInv', NEW t \in Turns, SerialOK(t), Untouched(t)
    PROVE  SerialOK(t)'
<1>1. PICK f : /\ Relabels(f, TurnRows(t), TurnRows(t)')
               /\ \A x \in TurnRows(t) : f[x].by = x.by
  BY DEF Untouched, SameTurnRows
<1>2. AnswerIsLast(t)'
  BY <1>1, AnswerStaysLast DEF SerialOK, Untouched
<1>3. Settled(t) => Settled(t)'
  BY SettledStays DEF Untouched, BaseInv, TypeOK
<1>4. Started(t)' => Started(t)
  BY <1>1 DEF Started, Committed, TurnRows, Relabels, SameRow
<1>5. Finals(t) = {} => Finals(t)' = {}
  BY <1>1 DEF Finals, Committed, TurnRows, Relabels, SameRow
<1>6. ASSUME NEW o \in Busy(t)' PROVE AloneOK(o)'
  <2>1. /\ o \in Requests /\ o \in Busy(t) /\ pc'[o] = pc[o] /\ turn'[o] = turn[o]
        /\ todo'[o] = todo[o] /\ anchor'[o] = anchor[o] /\ held'[o] = held[o]
        /\ turn[o] = t /\ AloneOK(o)
    BY DEF Untouched, SerialOK, Busy
  <2>2. pc[o] \in Applying =>
           /\ BatchCalls(todo[o]) \subseteq TurnCalls(t) /\ anchor[o] \in TurnCalls(t)
    BY <2>1 DEF BaseInv, RequestOK
  <2>3. held[o] \subseteq TurnCalls(t)
    BY <2>1, HeldBelong
  <2>4. ClientCalls(t)' = ClientCalls(t)
    BY DEF Untouched, ClientCalls
  <2>5. BatchCalls(todo[o])' = BatchCalls(todo[o])
    BY <2>1 DEF BatchCalls
  <2>6. pc[o] \in Applying => (Replays(o)' <=> Replays(o))
    BY <2>1, <2>2, <2>5 DEF Replays, Untouched
  <2>7. ASSUME pc[o] \in Applying, Resumes(o) PROVE Resumes(o)'
    <3>1. \A a, x \in TurnRows(t)' :
             a.kind = "tool" /\ a.call = anchor[o] /\ x.seq > a.seq => x.kind = "tool"
      <4> SUFFICES ASSUME NEW a \in TurnRows(t)', NEW x \in TurnRows(t)',
                          a.kind = "tool", a.call = anchor[o], x.seq > a.seq
                   PROVE  x.kind = "tool"
        OBVIOUS
      <4>1. PICK b \in TurnRows(t), y \in TurnRows(t) : a = f[b] /\ x = f[y]
        BY <1>1 DEF Relabels
      <4>2. SameRow(b, a) /\ SameRow(y, x) /\ (b.seq < y.seq <=> a.seq < x.seq)
        BY <1>1, <4>1 DEF Relabels
      <4>3. b.seq \in Nat /\ y.seq \in Nat /\ a.seq \in Nat /\ x.seq \in Nat
        BY DEF TurnRows, BaseInv, TypeOK, StepRows
      <4>4. y.seq > b.seq
        BY <4>2, <4>3
      <4>5. QED
        BY <2>1, <2>7, <4>2, <4>4 DEF Resumes, SameRow
    <3>2. /\ anchor[o] \notin completed' /\ BatchCalls(todo[o]) \intersect completed' = {}
          /\ anchor[o] \in held[o] \/ (todo[o] # <<>> /\ Head(todo[o]) = anchor[o])
      BY <2>2, <2>7 DEF Resumes, Untouched
    <3>3. QED
      BY <2>1, <2>5, <3>1, <3>2 DEF Resumes, TurnRows
  <2>8. pc[o] = "open" => ~(ClientCalls(t)' \subseteq completed' \union held[o])
    BY <2>1, <2>3, <2>4 DEF AloneOK, Untouched, ClientCalls
  <2>9. pc[o] = "closed" => ClientCalls(t)' \subseteq completed' \union held[o]
    BY <2>1, <2>3, <2>4 DEF AloneOK, Untouched, ClientCalls
  <2>10. pc[o] = "llm" => TurnCalls(t)' \subseteq completed' /\ Finals(t)' = {}
    BY <1>5, <2>1 DEF AloneOK, Untouched
  <2>11. pc[o] \in Applying /\ Replays(o)' /\ t \notin excused' => Settled(t)'
    BY <1>3, <2>1, <2>6 DEF AloneOK, Untouched
  <2>12. pc[o] \in Applying => Replays(o)' \/ Resumes(o)'
    BY <2>1, <2>6, <2>7 DEF AloneOK
  <2>13. /\ ClientCalls(turn[o])' = ClientCalls(t)' /\ TurnCalls(turn[o])' = TurnCalls(t)'
         /\ Finals(turn[o])' = Finals(t)' /\ Settled(turn[o])' = Settled(t)'
    BY <2>1 DEF ClientCalls, TurnCalls, Finals, Committed, Settled
  <2>14. QED
    BY <2>1, <2>8, <2>9, <2>10, <2>11, <2>12, <2>13 DEF AloneOK
<1>7. QED
  BY <1>2, <1>3, <1>4, <1>6 DEF SerialOK, Untouched

-----------------------------------------------------------------------------
(* A step of r that works on turn t, and touches no other turn.            *)
WorksOn(r, t) ==
    /\ OnlyRequest(r)
    /\ pc[r] # "idle" => turn[r] = t
    /\ pc'[r] # "idle" => turn'[r] = t
    /\ excused \subseteq excused' /\ contested \subseteq contested'

Confined(r, t) ==
    /\ WorksOn(r, t)
    /\ \A u \in Turns \ {t} : SameTurnRows(u)
    /\ \A c \in Calls :
          \/ turnOf'[c] = turnOf[c]
          \/ turnOf[c] = NoTurn /\ turnOf'[c] = t
    /\ \A c \in Calls : turnOf[c] \in Turns \ {t} =>
          /\ c \in serverSide' <=> c \in serverSide
          /\ c \in completed' <=> c \in completed

(* A confined step does not touch another turn.                            *)
LEMMA ConfinedLeavesOthers ==
    ASSUME NEW r \in Requests, NEW t \in Turns, Confined(r, t), NEW u \in Turns \ {t}
    PROVE  Untouched(u)
<1>1. TurnCalls(u)' = TurnCalls(u)
  BY NullsAssumption DEF Confined, TurnCalls
<1>2. \A c \in TurnCalls(u) :
         /\ c \in serverSide' <=> c \in serverSide
         /\ c \in completed' <=> c \in completed
  BY DEF Confined, TurnCalls
<1>3. Busy(u)' = Busy(u)
  <2>1. \A o \in Requests : o \in Busy(u)' <=> o \in Busy(u)
    BY DEF Confined, WorksOn, OnlyRequest, Busy
  <2>2. QED
    BY <2>1 DEF Busy
<1>4. \A o \in Busy(u) :
          /\ pc'[o] = pc[o] /\ turn'[o] = turn[o] /\ todo'[o] = todo[o]
          /\ anchor'[o] = anchor[o] /\ held'[o] = held[o]
  BY DEF Confined, WorksOn, OnlyRequest, Busy
<1>5. QED
  BY <1>1, <1>2, <1>3, <1>4 DEF Untouched, Confined, WorksOn

(* It remains to look at the turn the step works on.                       *)
LEMMA ConfinedKeepsSerial ==
    ASSUME IInv, BaseInv', NEW r \in Requests, NEW t \in Turns, Confined(r, t),
           t \notin contested' /\ SerialOK(t) => SerialOK(t)'
    PROVE  SerialInv'
<1> SUFFICES ASSUME NEW u \in Turns, u \notin contested' PROVE SerialOK(u)'
  BY DEF SerialInv
<1>1. SerialOK(u)
  BY DEF IInv, SerialInv, Confined, WorksOn
<1>2. CASE u = t
  BY <1>1, <1>2
<1>3. CASE u # t
  BY <1>1, <1>3, ConfinedLeavesOthers, UntouchedStaysSerial DEF IInv
<1>4. QED
  BY <1>2, <1>3

(* The ways a step treats the rows are confined to the turn of r.          *)
LEMMA QuietConfined ==
    ASSUME NEW r \in Requests, NEW t \in Turns, WorksOn(r, t), UNCHANGED rows
    PROVE  Confined(r, t)
<1>1. \A u : TurnRows(u)' = TurnRows(u)
  BY DEF TurnRows, rows
<1>2. \A u : SameTurnRows(u)
  BY <1>1, SameRowsSameTurn
<1>3. QED
  BY <1>2 DEF Confined, rows

(* A row added to the turn.                                                *)
LEMMA AppendConfined ==
    ASSUME NEW r \in Requests, NEW t \in Turns, WorksOn(r, t), NEW s, s.turn = t,
           steps' = steps \union {s}, UNCHANGED <<turnOf, serverSide, completed>>
    PROVE  Confined(r, t)
<1>1. \A u : u # t => TurnRows(u)' = TurnRows(u)
  BY DEF TurnRows
<1>2. \A u \in Turns \ {t} : SameTurnRows(u)
  BY <1>1, SameRowsSameTurn
<1>3. QED
  BY <1>2 DEF Confined

(* The calls of an answer, stored in the turn.                             *)
LEMMA StoreConfined ==
    ASSUME BaseInv, NEW r \in Requests, NEW t \in Turns, WorksOn(r, t), pc[r] = "llm",
           NEW new \in FreshCalls, NEW server \in SUBSET new, StoreCalls(r, new, server)
    PROVE  Confined(r, t)
<1>0. turn[r] = t /\ new \in SUBSET Calls /\ new \intersect Existing = {}
  BY FreshCallsAreNew DEF WorksOn, BaseInv
<1>1. PICK added : Adds(r, server, added)
  BY <1>0, StoredRows DEF BaseInv
<1>2. \A u : u # t => TurnRows(u)' = TurnRows(u)
  BY <1>0, <1>1 DEF TurnRows, Adds
<1>3. \A u \in Turns \ {t} : SameTurnRows(u)
  BY <1>2, SameRowsSameTurn
<1>4. /\ turnOf' = [c \in Calls |-> IF c \in new THEN t ELSE turnOf[c]]
      /\ serverSide' = serverSide \union server
      /\ completed' = completed \union server
  BY <1>0 DEF StoreCalls
<1>5. \A c \in new : turnOf[c] = NoTurn
  BY <1>0 DEF Existing
<1>6. \A c \in Calls : turnOf[c] \in Turns \ {t} =>
         /\ c \in serverSide' <=> c \in serverSide
         /\ c \in completed' <=> c \in completed
  BY <1>4, <1>5, NullsAssumption
<1>7. \A c \in Calls :
          \/ turnOf'[c] = turnOf[c]
          \/ turnOf[c] = NoTurn /\ turnOf'[c] = t
  BY <1>4, <1>5
<1>8. QED
  BY <1>3, <1>6, <1>7 DEF Confined

(* A commit of rows of the turn.                                           *)
LEMMA CommitConfined ==
    ASSUME BaseInv, NEW r \in Requests, NEW t \in Turns, WorksOn(r, t), pc[r] # "idle",
           CommitRows(r), UNCHANGED <<turnOf, serverSide>>
    PROVE  Confined(r, t)
<1>1. ASSUME NEW u \in Turns \ {t} PROVE SameTurnRows(u)
  <2>1. PICK f : /\ Relabels(f, TurnRows(u), TurnRows(u)')
                 /\ \A x \in TurnRows(u) : f[x].by = IF x.by = r THEN NoRequest ELSE x.by
    BY CommitTurnRows
  <2>2. \A x \in TurnRows(u) : x.by # r
    BY NullsAssumption DEF TurnRows, WorksOn, BaseInv, RowsLinked
  <2>3. QED
    BY <2>1, <2>2 DEF SameTurnRows
<1>2. held[r] \subseteq TurnCalls(t) /\ completed' = completed \union held[r]
  BY HeldBelong DEF WorksOn, CommitRows
<1>3. QED
  BY <1>1, <1>2 DEF Confined, TurnCalls

(* A rollback of rows of the turn.                                         *)
LEMMA RollbackConfined ==
    ASSUME BaseInv, NEW r \in Requests, NEW t \in Turns, WorksOn(r, t), pc[r] # "idle",
           RollbackAndReturn(r)
    PROVE  Confined(r, t)
<1>1. ASSUME NEW u \in Turns \ {t} PROVE SameTurnRows(u)
  <2>1. PICK f : /\ Relabels(f, KeptRows(r, u), TurnRows(u)')
                 /\ \A x \in KeptRows(r, u) : f[x].by = x.by
    BY RollbackTurnRows
  <2>2. KeptRows(r, u) = TurnRows(u)
    BY NullsAssumption DEF TurnRows, KeptRows, WorksOn, BaseInv, RowsLinked
  <2>3. QED
    BY <2>1, <2>2 DEF SameTurnRows
<1>2. UNCHANGED <<turnOf, serverSide, completed>>
  BY DEF RollbackAndReturn
<1>3. QED
  BY <1>1, <1>2 DEF Confined

-----------------------------------------------------------------------------
(* On the turn of r itself no other request works.                         *)
LEMMA OnlyOneWorks ==
    ASSUME NEW r \in Requests, NEW t \in Turns, WorksOn(r, t), SerialOK(t),
           pc[r] # "idle"
    PROVE  /\ AloneOK(r) /\ turn[r] = t /\ AnswerIsLast(t)
           /\ \A o \in Busy(t)' : o = r
           /\ pc'[r] = "idle" => Busy(t)' = {}
<1>1. r \in Busy(t)
  BY DEF Busy, WorksOn
<1>2. \A o \in Busy(t)' : o = r
  <2> SUFFICES ASSUME NEW o \in Busy(t)', o # r PROVE FALSE
    OBVIOUS
  <2>1. o \in Busy(t)
    BY DEF Busy, WorksOn, OnlyRequest
  <2>2. QED
    BY <1>1, <2>1 DEF SerialOK
<1>3. QED
  BY <1>1, <1>2 DEF SerialOK, Busy, WorksOn

(* The turn of a request that returns.                                     *)
LEMMA ReturnedTurn ==
    ASSUME NEW t, Busy(t)' = {}, AnswerIsLast(t)', t \in excused' \/ Settled(t)'
    PROVE  SerialOK(t)'
  BY DEF SerialOK

(* The turn of a request that goes on.                                     *)
LEMMA BusyTurn ==
    ASSUME NEW t, NEW r \in Requests, \A o \in Busy(t)' : o = r, pc'[r] # "idle",
           turn'[r] = t, AloneOK(r)', AnswerIsLast(t)'
    PROVE  SerialOK(t)'
  BY DEF SerialOK, Busy

(* A turn without an answer.                                               *)
LEMMA NoAnswerYet ==
    ASSUME NEW t, Finals(t)' = {}
    PROVE  AnswerIsLast(t)'
  BY DEF AnswerIsLast

(* A commit or a rollback leaves the answer of the turn where it is.       *)
LEMMA CommitKeepsAnswer ==
    ASSUME BaseInv, NEW r \in Requests, NEW t, AnswerIsLast(t), CommitRows(r),
           UNCHANGED turnOf
    PROVE  /\ AnswerIsLast(t)'
           /\ Finals(t) = {} => Finals(t)' = {}
<1>1. PICK f : /\ Relabels(f, TurnRows(t), TurnRows(t)')
               /\ \A x \in TurnRows(t) : f[x].by = IF x.by = r THEN NoRequest ELSE x.by
  BY CommitTurnRows
<1>2. \A x \in TurnRows(t) : x.kind = "final" => x.by = NoRequest
  BY DEF BaseInv, RowsLinked, TurnRows
<1>3. completed \subseteq completed' /\ TurnCalls(t)' = TurnCalls(t)
  BY DEF CommitRows, TurnCalls
<1>4. Relabels(f, TurnRows(t), TurnRows(t)')
  BY <1>1
<1>5. AnswerIsLast(t)'
  BY <1>2, <1>3, <1>4, AnswerStaysLast
<1>6. Finals(t) = {} => Finals(t)' = {}
  BY <1>2, <1>4 DEF Finals, Committed, TurnRows, Relabels, SameRow
<1>7. QED
  BY <1>5, <1>6

(* A rollback takes no answer away.                                        *)
LEMMA RollbackKeepsAnswer ==
    ASSUME BaseInv, NEW r \in Requests, NEW t, AnswerIsLast(t), RollbackAndReturn(r)
    PROVE  AnswerIsLast(t)'
<1>1. PICK f : /\ Relabels(f, KeptRows(r, t), TurnRows(t)')
               /\ \A x \in KeptRows(r, t) : f[x].by = x.by
  BY RollbackTurnRows
<1>2. completed' = completed /\ TurnCalls(t)' = TurnCalls(t)
  BY DEF RollbackAndReturn, TurnCalls
<1>3. KeptRows(r, t) \in SUBSET TurnRows(t)
  BY DEF KeptRows
<1>4. QED
  BY <1>1, <1>2, <1>3, AnswerStaysLast

(* A row added after all others, when the turn had no answer.              *)
LEMMA AppendSettles ==
    ASSUME BaseInv, NEW t, Finals(t) = {}, TurnCalls(t) \subseteq completed,
           NEW s \in StepRows, s.turn = t, s.by = NoRequest, s.seq = NextSeq,
           s.kind \in {"final", "truncated"}, steps' = steps \union {s},
           UNCHANGED <<turnOf, completed>>
    PROVE  AnswerIsLast(t)' /\ Settled(t)'
<1>1. \A x \in steps : x.seq < s.seq
  BY NumberedAdd DEF BaseInv, NextSeq
<1>2. \A f \in Finals(t)' : f = s
  BY DEF Finals, Committed
<1>3. \A x \in TurnRows(t)' : x.kind = "tool" => x.seq < s.seq
  BY <1>1 DEF TurnRows
<1>4. TurnCalls(t)' \subseteq completed'
  BY DEF TurnCalls
<1>5. AnswerIsLast(t)'
  BY <1>2, <1>3, <1>4 DEF AnswerIsLast
<1>6. \A x \in steps' : x.seq <= s.seq
  <2>1. s.seq \in Nat /\ \A x \in steps : x.seq \in Nat
    BY DEF BaseInv, TypeOK, StepRows
  <2>2. QED
    BY <1>1, <2>1
<1>7. s \in Committed'
  BY DEF Committed
<1>8. Settled(t)'
  BY <1>6, <1>7 DEF Settled, Committed
<1>9. QED
  BY <1>5, <1>8

-----------------------------------------------------------------------------
(* The actions, on the turn they work on.                                  *)

(* A fresh turn has no calls, no answer and no request at work.            *)
LEMMA FreshTurn ==
    ASSUME BaseInv, NEW t \in Turns, \A s \in steps : s.turn # t
    PROVE  TurnCalls(t) = {} /\ Finals(t) = {} /\ Busy(t) = {}
<1>1. ~Started(t)
  BY DEF Started, Committed
<1>2. TurnCalls(t) = {}
  BY <1>1, NullsAssumption DEF BaseInv, CallsLinked, TurnCalls, Existing
<1>3. Busy(t) = {}
  BY <1>1 DEF BaseInv, RequestOK, Busy
<1>4. QED
  BY <1>2, <1>3 DEF Finals, Committed

(* A row of another kind than final is no answer.                          *)
LEMMA NoFinalAdded ==
    ASSUME NEW t, Finals(t) = {}, NEW added, steps' = steps \union added,
           \A x \in added : x.turn = t => x.kind # "final"
    PROVE  Finals(t)' = {}
  BY DEF Finals, Committed

(* The first request of a turn: nothing has happened in it before.         *)
LEMMA RunKeepsSerial ==
    ASSUME IInv, BaseInv', NEW r \in Requests, NEW t \in Turns, Run(r, t)
    PROVE  SerialInv'
<1> DEFINE s == Row(NextSeq, t, "user")
<1>1. /\ pc[r] = "idle" /\ steps' = steps \union {s}
      /\ \A x \in steps : x.turn # t
      /\ pc' = [pc EXCEPT ![r] = "llm"] /\ turn' = [turn EXCEPT ![r] = t]
      /\ plan' = [plan EXCEPT ![r] = BillingPlan(account, mode)]
      /\ sent' = [sent EXCEPT ![r] = ResultsIn(Visible(r))]
      /\ UNCHANGED <<mode, billing, turnOf, serverSide, completed, todo, anchor,
                     held, known, excused, contested>>
  BY DEF Run
<1>2. s.turn = t /\ s.kind = "user"
  BY DEF Row
<1> HIDE DEF s
<1>3. pc'[r] = "llm" /\ turn'[r] = t
  BY <1>1 DEF IInv, BaseInv, TypeOK
<1>4. WorksOn(r, t)
  <2>1. OnlyRequest(r)
    BY <1>1 DEF OnlyRequest, IInv, BaseInv, TypeOK
  <2>2. QED
    BY <1>1, <1>3, <2>1 DEF WorksOn
<1>5. Confined(r, t)
  BY <1>1, <1>2, <1>4, AppendConfined
<1>6. TurnCalls(t) = {} /\ Finals(t) = {} /\ Busy(t) = {}
  BY <1>1, FreshTurn DEF IInv
<1>7. SerialOK(t)'
  <2>1. Finals(t)' = {} /\ TurnCalls(t)' = {}
    <3>1. Finals(t)' = {}
      BY <1>1, <1>2, <1>6, NoFinalAdded
    <3>2. QED
      BY <1>1, <1>6, <3>1 DEF TurnCalls
  <2>2. \A o \in Busy(t)' : o = r
    BY <1>4, <1>6 DEF Busy, WorksOn, OnlyRequest
  <2>3. AloneOK(r)'
    BY <1>3, <2>1 DEF AloneOK, Applying, Finals, TurnCalls, Committed
  <2>4. AnswerIsLast(t)'
    BY <2>1, NoAnswerYet
  <2>5. QED
    BY <1>3, <2>2, <2>3, <2>4, BusyTurn
<1>8. QED
  BY <1>5, <1>7, ConfinedKeepsSerial

(* A turn that was blocked at once is excused.                             *)
LEMMA RunBlockedKeepsSerial ==
    ASSUME IInv, BaseInv', NEW r \in Requests, NEW t \in Turns, RunBlocked(r, t)
    PROVE  SerialInv'
<1> DEFINE s == Row(NextSeq, t, "user")
<1>1. /\ pc[r] = "idle" /\ steps' = steps \union {s}
      /\ \A x \in steps : x.turn # t
      /\ excused' = excused \union {t}
      /\ UNCHANGED <<turnOf, serverSide, completed, pc, work, held, contested>>
  BY DEF RunBlocked
<1>2. s.turn = t /\ s.kind = "user"
  BY DEF Row
<1> HIDE DEF s
<1>3. WorksOn(r, t)
  BY <1>1 DEF WorksOn, OnlyRequest, work
<1>4. Confined(r, t)
  BY <1>1, <1>2, <1>3, AppendConfined
<1>5. Finals(t) = {} /\ Busy(t) = {}
  BY <1>1, FreshTurn DEF IInv
<1>6. Finals(t)' = {}
  BY <1>1, <1>2, <1>5, NoFinalAdded
<1>7. Busy(t)' = {}
  BY <1>1, <1>5 DEF Busy, work
<1>8. SerialOK(t)'
  BY <1>1, <1>6, <1>7, NoAnswerYet, ReturnedTurn
<1>9. QED
  BY <1>4, <1>8, ConfinedKeepsSerial

(* A batch that comes alone either repeats answered calls or resumes the   *)
(* turn with calls that have no result yet, not even an uncommitted one.   *)
LEMMA ToolResultKeepsSerial ==
    ASSUME IInv, BaseInv', NEW r \in Requests, NEW batch \in Batches, ToolResult(r, batch)
    PROVE  SerialInv'
<1> DEFINE named == BatchCalls(batch)
<1>0. PICK t : t = turnOf[batch[1]]
  OBVIOUS
<1>1. /\ pc[r] = "idle" /\ named \subseteq TurnCalls(t) /\ t # NoTurn
      /\ pc' = [pc EXCEPT ![r] = "apply"]
      /\ turn' = [turn EXCEPT ![r] = t]
      /\ todo' = [todo EXCEPT ![r] = batch]
      /\ anchor' = [anchor EXCEPT ![r] = batch[1]]
      /\ contested' = contested \union
            IF Busy(t) # {} \/ (named \ completed # {} /\ named \cap completed # {})
            THEN {t} ELSE {}
      /\ UNCHANGED <<mode, billing, rows, held, plan, round, sent, known, excused>>
  BY <1>0 DEF ToolResult
<1>2. batch # <<>> /\ Head(batch) = batch[1] /\ batch[1] \in Calls /\ batch[1] \in named
  <2>1. batch \in Seq(Calls) /\ batch # <<>>
    BY BatchesAssumption
  <2>2. 1 \in DOMAIN batch /\ Head(batch) = batch[1]
    BY <2>1
  <2>3. QED
    BY <2>1, <2>2 DEF BatchCalls
<1>3. t \in Turns /\ Started(t)
  BY <1>0, <1>1, <1>2 DEF IInv, BaseInv, TypeOK, CallsLinked, Existing
<1>4. /\ pc'[r] = "apply" /\ turn'[r] = t /\ todo'[r] = batch /\ anchor'[r] = batch[1]
      /\ held'[r] = {}
  <2>1. held[r] = {}
    BY <1>1, NoOpenRows DEF Applying, IInv
  <2>2. QED
    BY <1>1, <2>1 DEF IInv, BaseInv, TypeOK
<1>5. turnOf[batch[1]] = t
  BY <1>0
<1> HIDE DEF named
<1>6. WorksOn(r, t)
  <2>1. OnlyRequest(r)
    BY <1>1 DEF OnlyRequest, IInv, BaseInv, TypeOK
  <2>2. QED
    BY <1>1, <1>4, <2>1 DEF WorksOn
<1>7. Confined(r, t)
  BY <1>1, <1>3, <1>6, QuietConfined
<1>8. ASSUME t \notin contested', SerialOK(t) PROVE SerialOK(t)'
  <2>1. Busy(t) = {} /\ (named \subseteq completed \/ named \intersect completed = {})
    BY <1>1, <1>8
  <2>2. \A o \in Busy(t)' : o = r
    BY <1>6, <2>1 DEF Busy, WorksOn, OnlyRequest
  <2>3. t \notin excused => Settled(t)
    BY <1>3, <1>8, <2>1 DEF SerialOK
  <2>4. Settled(t)' = Settled(t)
    BY <1>1 DEF Settled, ClientCalls, TurnCalls, Committed, rows
  <2>5. BatchCalls(todo[r])' = named
    BY <1>4 DEF BatchCalls, named
  <2>8. AloneOK(r)'
    <3>1. Replays(r)' \/ Resumes(r)'
      <4>1. CASE named \subseteq completed
        BY <1>1, <1>2, <1>4, <2>5, <4>1 DEF Replays, rows
      <4>2. CASE named \intersect completed = {}
        <5>1. \A a \in steps : a.kind = "tool" => a.call # batch[1]
          <6> SUFFICES ASSUME NEW a \in steps, a.kind = "tool", a.call = batch[1]
                       PROVE  FALSE
            OBVIOUS
          <6>1. PICK o \in Requests : a.by = o
            BY <1>2, <4>2, ResultOfDone DEF IInv
          <6>2. a.turn = t /\ a.turn = turn[o] /\ pc[o] \in Applying
            BY <1>5, <6>1, NullsAssumption DEF IInv, BaseInv, RowsLinked
          <6>3. o \in Busy(t)
            BY <6>2 DEF Busy, Applying
          <6>4. QED
            BY <2>1, <6>3
        <5>2. Resumes(r)'
          BY <1>1, <1>2, <1>4, <2>5, <4>2, <5>1 DEF Resumes, TurnRows, rows
        <5>3. QED
          BY <5>2
      <4>3. QED
        BY <2>1, <4>1, <4>2
    <3>2. t \notin excused' => Settled(t)'
      BY <1>1, <2>3, <2>4
    <3>3. Settled(turn[r])' = Settled(t)'
      BY <1>4 DEF Settled, ClientCalls, TurnCalls, Committed
    <3>4. QED
      BY <1>4, <3>1, <3>2, <3>3 DEF AloneOK
  <2>9. AnswerIsLast(t)'
    BY <1>1, <1>8 DEF SerialOK, AnswerIsLast, Finals, Committed, TurnCalls, TurnRows, rows
  <2>10. QED
    BY <1>4, <2>2, <2>8, <2>9, BusyTurn
<1>9. QED
  BY <1>3, <1>7, <1>8, ConfinedKeepsSerial

(* A request that applies results while it is alone resumes the turn: the  *)
(* turn has no answer, and the new result follows all rows.                *)
LEMMA ApplyKeepsSerial ==
    ASSUME IInv, BaseInv', NEW r \in Requests, ApplyResult(r)
    PROVE  SerialInv'
<1> DEFINE c == Head(todo[r])
           s == [Row(NextSeq, turn[r], "tool") EXCEPT !.call = c, !.by = r]
<1>1. /\ pc[r] = "apply" /\ todo[r] # <<>> /\ todo[r] \in Seq(Calls)
      /\ steps' = steps \union {s}
      /\ held' = [held EXCEPT ![r] = @ \union {c}]
      /\ todo' = [todo EXCEPT ![r] = Tail(@)]
      /\ UNCHANGED <<mode, billing, turnOf, serverSide, completed, pc, turn, anchor,
                     plan, round, sent, known, excused, contested>>
      /\ c \notin completed
  BY DEF ApplyResult, Completable, IInv, BaseInv, TypeOK
<1>2. PICK t \in Turns : turn[r] = t
  BY <1>1 DEF IInv, BaseInv, RequestOK
<1>3. s.seq = NextSeq /\ s.turn = t /\ s.kind = "tool"
  BY <1>2 DEF Row
<1>4. c \in BatchCalls(todo[r]) /\ BatchCalls(Tail(todo[r])) \subseteq BatchCalls(todo[r])
  BY <1>1 DEF BatchCalls
<1>5. c = Head(todo[r])
  OBVIOUS
<1> HIDE DEF s, c
<1>6. WorksOn(r, t)
  BY <1>1, <1>2 DEF WorksOn, OnlyRequest, IInv, BaseInv, TypeOK
<1>7. Confined(r, t)
  BY <1>1, <1>3, <1>6, AppendConfined
<1>8. ASSUME SerialOK(t) PROVE SerialOK(t)'
  <2>1. AloneOK(r) /\ AnswerIsLast(t) /\ \A o \in Busy(t)' : o = r
    BY <1>1, <1>6, <1>8, OnlyOneWorks
  <2>2. Resumes(r)
    BY <1>1, <1>4, <2>1 DEF AloneOK, Applying, Replays
  <2>3. /\ todo'[r] = Tail(todo[r]) /\ held'[r] = held[r] \union {c}
        /\ pc'[r] = "apply" /\ turn'[r] = t /\ anchor'[r] = anchor[r]
    BY <1>1, <1>2 DEF IInv, BaseInv, TypeOK
  <2>4. \A x \in steps : x.seq < s.seq
    BY <1>3, NumberedAdd DEF IInv, BaseInv, NextSeq
  <2>5. \A a, x \in TurnRows(t)' :
           a.kind = "tool" /\ a.call = anchor[r] /\ x.seq > a.seq => x.kind = "tool"
    <3> SUFFICES ASSUME NEW a \in TurnRows(t)', NEW x \in TurnRows(t)',
                        a.kind = "tool", a.call = anchor[r], x.seq > a.seq
                 PROVE  x.kind = "tool"
      OBVIOUS
    <3>1. a \in TurnRows(t) \union {s} /\ x \in TurnRows(t) \union {s}
      BY <1>1 DEF TurnRows
    <3>2. a.seq \in Nat /\ x.seq \in Nat
      BY DEF TurnRows, BaseInv, TypeOK, StepRows
    <3>3. CASE x = s
      BY <1>3, <3>3
    <3>4. CASE x \in TurnRows(t) /\ a = s
      BY <2>4, <3>2, <3>4 DEF TurnRows
    <3>5. CASE x \in TurnRows(t) /\ a \in TurnRows(t)
      BY <1>2, <2>2, <3>5 DEF Resumes
    <3>6. QED
      BY <3>1, <3>3, <3>4, <3>5
  <2>6. BatchCalls(todo[r])' = BatchCalls(Tail(todo[r]))
    BY <2>3 DEF BatchCalls
  <2>7. anchor[r] \notin completed' /\ BatchCalls(Tail(todo[r])) \intersect completed' = {}
        /\ anchor[r] \in held'[r]
    BY <1>1, <1>4, <1>5, <2>2, <2>3 DEF Resumes
  <2>8. Resumes(r)' /\ ~Replays(r)'
    BY <2>3, <2>5, <2>6, <2>7 DEF Resumes, Replays, TurnRows
  <2>9. AloneOK(r)'
    BY <2>3, <2>8 DEF AloneOK
  <2>10. Finals(t) = {}
    BY <1>1, <1>2, <2>1, <2>2 DEF AnswerIsLast, Resumes, IInv, BaseInv, RequestOK, Applying
  <2>11. AnswerIsLast(t)'
    <3>1. Finals(t)' = {}
      BY <1>1, <1>3, <2>10 DEF Finals, Committed
    <3>2. QED
      BY <3>1, NoAnswerYet
  <2>12. QED
    BY <2>1, <2>3, <2>9, <2>11, BusyTurn
<1>9. QED
  BY <1>7, <1>8, ConfinedKeepsSerial

(* A step of a request that goes on, after which rows, calls and answers   *)
(* are as before.                                                          *)
LEMMA QuietKeepsSerial ==
    ASSUME IInv, BaseInv', NEW r \in Requests, NEW t \in Turns, turn[r] = t,
           pc[r] # "idle", pc'[r] # "idle", WorksOn(r, t), UNCHANGED rows,
           SerialOK(t) => AloneOK(r)'
    PROVE  SerialInv'
<1>1. Confined(r, t)
  BY QuietConfined
<1>2. ASSUME SerialOK(t) PROVE SerialOK(t)'
  <2>1. AnswerIsLast(t) /\ \A o \in Busy(t)' : o = r
    BY <1>2, OnlyOneWorks
  <2>2. AnswerIsLast(t)'
    BY <2>1 DEF AnswerIsLast, Finals, Committed, TurnCalls, TurnRows, rows
  <2>3. turn'[r] = t
    BY DEF WorksOn
  <2>4. QED
    BY <1>2, <2>1, <2>2, <2>3, BusyTurn
<1>3. QED
  BY <1>1, <1>2, ConfinedKeepsSerial

(* A result that is skipped is one the request holds itself, or the batch  *)
(* repeats answered calls.                                                 *)
LEMMA SkipKeepsSerial ==
    ASSUME IInv, BaseInv', NEW r \in Requests, SkipResult(r)
    PROVE  SerialInv'
<1> DEFINE c == Head(todo[r])
<1>1. /\ pc[r] = "apply" /\ todo[r] # <<>> /\ todo[r] \in Seq(Calls)
      /\ todo' = [todo EXCEPT ![r] = Tail(@)]
      /\ UNCHANGED <<mode, billing, rows, pc, turn, anchor, held, plan, round, sent,
                   known, excused, contested>>
      /\ c \in completed \union held[r]
  BY DEF SkipResult, Completable, IInv, BaseInv, TypeOK
<1>2. PICK t \in Turns : turn[r] = t
  BY <1>1 DEF IInv, BaseInv, RequestOK
<1>3. c \in BatchCalls(todo[r]) /\ BatchCalls(Tail(todo[r])) \subseteq BatchCalls(todo[r])
  BY <1>1 DEF BatchCalls
<1>4. c = Head(todo[r])
  OBVIOUS
<1> HIDE DEF c
<1>5. WorksOn(r, t)
  BY <1>1, <1>2 DEF WorksOn, OnlyRequest, IInv, BaseInv, TypeOK
<1>6. ASSUME SerialOK(t) PROVE AloneOK(r)'
  <2>1. AloneOK(r)
    BY <1>1, <1>5, <1>6, OnlyOneWorks
  <2>2. /\ todo'[r] = Tail(todo[r]) /\ pc'[r] = "apply" /\ turn'[r] = t
        /\ anchor'[r] = anchor[r] /\ held'[r] = held[r]
        /\ completed' = completed /\ steps' = steps /\ turnOf' = turnOf /\ excused' = excused
    BY <1>1, <1>2 DEF IInv, BaseInv, TypeOK, rows
  <2>3. BatchCalls(todo[r])' = BatchCalls(Tail(todo[r]))
    BY <2>2 DEF BatchCalls
  <2>4. ASSUME Replays(r) PROVE Replays(r)' /\ (t \notin excused => Settled(t))
    BY <1>1, <1>2, <1>3, <2>1, <2>2, <2>3, <2>4 DEF Replays, AloneOK, Applying
  <2>5. ASSUME Resumes(r) PROVE Resumes(r)' /\ ~Replays(r)'
    <3>1. anchor[r] \in held[r]
      BY <1>1, <1>3, <1>4, <2>5 DEF Resumes
    <3>2. BatchCalls(Tail(todo[r])) \intersect completed = {} /\ anchor[r] \notin completed
      BY <1>3, <2>5 DEF Resumes
    <3>3. TurnRows(turn[r])' = TurnRows(turn[r])
      BY <1>2, <2>2 DEF TurnRows
    <3>4. QED
      BY <2>2, <2>3, <2>5, <3>1, <3>2, <3>3 DEF Resumes, Replays
  <2>6. Settled(turn[r])' = Settled(t)
    BY <1>1, <2>2 DEF Settled, ClientCalls, TurnCalls, Committed, rows
  <2>7. QED
    BY <1>1, <2>1, <2>2, <2>4, <2>5, <2>6 DEF AloneOK, Applying
<1>7. QED
  BY <1>1, <1>2, <1>5, <1>6, QuietKeepsSerial

(* The barrier is read once, and its reading stays true.                   *)
LEMMA BarrierKeepsSerial ==
    ASSUME IInv, BaseInv', NEW r \in Requests, ReadBarrier(r)
    PROVE  SerialInv'
<1>1. /\ pc[r] = "apply" /\ todo[r] = <<>>
      /\ pc' = [pc EXCEPT ![r] = IF Pending(r) = {} THEN "closed" ELSE "open"]
      /\ known' = [known EXCEPT ![r] = TurnCalls(turn[r])]
      /\ UNCHANGED <<mode, billing, rows, turn, todo, anchor, held, plan, round, sent,
                   excused, contested>>
  BY DEF ReadBarrier
<1>2. PICK t \in Turns : turn[r] = t
  BY <1>1 DEF IInv, BaseInv, RequestOK
<1>3. WorksOn(r, t)
  BY <1>1, <1>2 DEF WorksOn, OnlyRequest, IInv, BaseInv, TypeOK
<1>4. /\ pc'[r] \in {"open", "closed"}
      /\ pc'[r] = "closed" <=> ClientCalls(t) \subseteq completed \union held[r]
  BY <1>1, <1>2 DEF Pending, IInv, BaseInv, TypeOK
<1>5. ASSUME SerialOK(t) PROVE AloneOK(r)'
  <2>1. AloneOK(r)
    BY <1>1, <1>3, <1>5, OnlyOneWorks
  <2>2. /\ turn' = turn /\ todo' = todo /\ anchor' = anchor /\ held' = held
        /\ completed' = completed /\ steps' = steps /\ turnOf' = turnOf
        /\ excused' = excused /\ serverSide' = serverSide
    BY <1>1 DEF rows
  <2>3. Replays(r)' = Replays(r) /\ Resumes(r)' = Resumes(r)
    BY <2>2 DEF Replays, Resumes, BatchCalls, TurnRows
  <2>4. Settled(turn[r])' = Settled(t) /\ ClientCalls(turn[r])' = ClientCalls(t)
    BY <1>2, <2>2 DEF Settled, ClientCalls, TurnCalls, Committed
  <2>5. QED
    BY <1>1, <1>2, <1>4, <2>1, <2>2, <2>3, <2>4 DEF AloneOK, Applying
<1>6. QED
  BY <1>1, <1>2, <1>3, <1>4, <1>5, QuietKeepsSerial

(* A step that commits and returns.                                        *)
LEMMA CommitReturnKeepsSerial ==
    ASSUME IInv, BaseInv', NEW r \in Requests, NEW t \in Turns, turn[r] = t,
           pc[r] # "idle", CommitRows(r), Return(r),
           UNCHANGED <<turnOf, serverSide, contested>>, excused \subseteq excused',
           SerialOK(t) => t \in excused' \/ Settled(t)'
    PROVE  SerialInv'
<1>1. WorksOn(r, t) /\ pc'[r] = "idle"
  <2>1. \A o \in Requests \ {r} : held'[o] = held[o]
    BY DEF CommitRows, IInv, BaseInv, TypeOK
  <2>2. QED
    BY <2>1, ReturnIsAlone DEF IInv, BaseInv, WorksOn
<1>2. Confined(r, t)
  BY <1>1, CommitConfined DEF IInv
<1>3. ASSUME SerialOK(t) PROVE SerialOK(t)'
  <2>1. AnswerIsLast(t) /\ Busy(t)' = {}
    BY <1>1, <1>3, OnlyOneWorks
  <2>2. AnswerIsLast(t)'
    BY <2>1, CommitKeepsAnswer DEF IInv
  <2>3. QED
    BY <1>3, <2>1, <2>2, ReturnedTurn
<1>4. QED
  BY <1>2, <1>3, ConfinedKeepsSerial

(* Still waiting: the client owes a result that the commit does not bring. *)
LEMMA AnswerPendingKeepsSerial ==
    ASSUME IInv, BaseInv', NEW r \in Requests, AnswerPending(r)
    PROVE  SerialInv'
<1>1. /\ pc[r] = "open" /\ CommitRows(r) /\ Return(r)
      /\ UNCHANGED <<turnOf, serverSide, contested, excused>>
  BY DEF AnswerPending
<1>2. PICK t \in Turns : turn[r] = t
  BY <1>1 DEF IInv, BaseInv, RequestOK
<1>3. ASSUME SerialOK(t) PROVE Settled(t)'
  <2>1. AloneOK(r)
    BY <1>1, <1>2, <1>3 DEF SerialOK, Busy
  <2>2. ClientCalls(t)' = ClientCalls(t) /\ completed' = completed \union held[r]
    BY <1>1 DEF ClientCalls, TurnCalls, CommitRows
  <2>3. QED
    BY <1>1, <1>2, <2>1, <2>2 DEF AloneOK, Settled
<1>4. QED
  BY <1>1, <1>2, <1>3, CommitReturnKeepsSerial

(* A stored step is answered only to a batch that repeats answered calls:  *)
(* nothing but its own results follows the first call of a batch that      *)
(* resumes the turn.                                                       *)
LEMMA RenderSavedKeepsSerial ==
    ASSUME IInv, BaseInv', NEW r \in Requests, RenderSaved(r)
    PROVE  SerialInv'
<1>1. /\ pc[r] = "closed" /\ CommitRows(r) /\ Return(r) /\ Saved(r) # {}
      /\ UNCHANGED <<turnOf, serverSide, contested, excused>>
  BY DEF RenderSaved
<1>2. PICK t \in Turns : turn[r] = t
  BY <1>1 DEF IInv, BaseInv, RequestOK
<1>3. ASSUME SerialOK(t), t \notin excused PROVE Settled(t)'
  <2>1. AloneOK(r)
    BY <1>1, <1>2, <1>3 DEF SerialOK, Busy
  <2>2. ~Resumes(r)
    <3>1. PICK s \in Visible(r) :
             /\ s.turn = t /\ IsAssistant(s)
             /\ \E result \in Visible(r) :
                   /\ result.kind = "tool" /\ result.call = anchor[r]
                   /\ s.seq > result.seq
      BY <1>1, <1>2 DEF Saved
    <3>2. PICK a \in Visible(r) : a.kind = "tool" /\ a.call = anchor[r] /\ s.seq > a.seq
      BY <3>1
    <3>3. a.turn = t
      BY <1>1, <1>2, <3>2 DEF Visible, IInv, BaseInv, RowsLinked, RequestOK, TurnCalls, Applying
    <3>4. s \in TurnRows(t) /\ a \in TurnRows(t) /\ s.kind # "tool"
      BY <3>1, <3>2, <3>3 DEF TurnRows, Visible, IsAssistant
    <3>5. QED
      BY <1>2, <3>2, <3>4 DEF Resumes
  <2>3. Replays(r) /\ Settled(t)
    BY <1>1, <1>2, <1>3, <2>1, <2>2 DEF AloneOK, Applying
  <2>4. held[r] = {} /\ completed' = completed
    BY <1>1, <2>3 DEF Replays, CommitRows
  <2>5. RowsBy(r) = {}
    BY <2>4, NullsAssumption DEF IInv, BaseInv, CallsLinked, RowsLinked, ResultsIn, RowsBy
  <2>6. SameTurnRows(t)
    <3>1. PICK f : /\ Relabels(f, TurnRows(t), TurnRows(t)')
                   /\ \A x \in TurnRows(t) : f[x].by = IF x.by = r THEN NoRequest ELSE x.by
      BY <1>1, CommitTurnRows DEF IInv
    <3>2. \A x \in TurnRows(t) : x.by # r
      BY <2>5 DEF RowsBy, TurnRows
    <3>3. QED
      BY <3>1, <3>2 DEF SameTurnRows
  <2>7. TurnCalls(t)' = TurnCalls(t) /\ serverSide' = serverSide
    BY <1>1 DEF TurnCalls
  <2>8. QED
    BY <2>3, <2>4, <2>6, <2>7, SettledStays DEF IInv, BaseInv, TypeOK
<1>4. QED
  BY <1>1, <1>2, <1>3, CommitReturnKeepsSerial

(* The turn goes on: all its calls are done, and it has no answer, which   *)
(* would follow the result of the anchor and be answered again.            *)
LEMMA ContinueKeepsSerial ==
    ASSUME IInv, BaseInv', NEW r \in Requests, Continue(r)
    PROVE  SerialInv'
<1>1. /\ pc[r] = "closed" /\ CommitRows(r) /\ Saved(r) = {}
      /\ pc' = [pc EXCEPT ![r] = "llm"]
      /\ plan' = [plan EXCEPT ![r] = BillingPlan(account, mode)]
      /\ sent' = [sent EXCEPT ![r] = ResultsIn(Visible(r))]
      /\ held' = [held EXCEPT ![r] = {}] /\ completed' = completed \union held[r]
      /\ UNCHANGED <<mode, turnOf, serverSide, turn, todo, anchor, known, excused, contested>>
  BY DEF Continue, CommitRows
<1>2. PICK t \in Turns : turn[r] = t
  BY <1>1 DEF IInv, BaseInv, RequestOK
<1>3. pc'[r] = "llm" /\ turn'[r] = t
  BY <1>1, <1>2 DEF IInv, BaseInv, TypeOK
<1>4. WorksOn(r, t)
  <2>1. OnlyRequest(r)
    BY <1>1 DEF OnlyRequest, IInv, BaseInv, TypeOK
  <2>2. QED
    BY <1>1, <1>2, <1>3, <2>1 DEF WorksOn
<1>5. Confined(r, t)
  BY <1>1, <1>4, CommitConfined DEF IInv
<1>6. ASSUME SerialOK(t) PROVE SerialOK(t)'
  <2>1. AloneOK(r) /\ AnswerIsLast(t) /\ \A o \in Busy(t)' : o = r
    BY <1>1, <1>4, <1>6, OnlyOneWorks
  <2>2. TurnCalls(t) \subseteq completed'
    BY <1>1, <1>2, <2>1 DEF AloneOK, ClientCalls, IInv, BaseInv, CallsLinked
  <2>3. Finals(t) = {}
    <3> SUFFICES ASSUME NEW s \in Finals(t) PROVE FALSE
      OBVIOUS
    <3>1. anchor[r] \in TurnCalls(t) /\ anchor[r] \in completed
      BY <1>1, <1>2, <2>1 DEF AnswerIsLast, IInv, BaseInv, RequestOK, Applying
    <3>2. PICK a \in Committed : a.kind = "tool" /\ a.call = anchor[r]
      BY <3>1 DEF IInv, BaseInv, CallsLinked, ResultsIn
    <3>3. a \in TurnRows(t)
      BY <3>1, <3>2 DEF IInv, BaseInv, RowsLinked, TurnCalls, TurnRows, Committed
    <3>4. a.seq < s.seq
      BY <2>1, <3>2, <3>3 DEF AnswerIsLast
    <3>5. s.seq \in Nat /\ a.seq \in Nat
      BY <3>2 DEF Finals, Committed, IInv, BaseInv, TypeOK, StepRows
    <3>6. s \in Saved(r)
      BY <1>2, <3>2, <3>4, <3>5 DEF Saved, Visible, Finals, Committed, IsAssistant
    <3>7. QED
      BY <1>1, <3>6
  <2>4. Finals(t)' = {} /\ AnswerIsLast(t)'
    BY <1>1, <2>1, <2>3, CommitKeepsAnswer DEF IInv
  <2>5. TurnCalls(t)' = TurnCalls(t) /\ TurnCalls(turn[r])' = TurnCalls(t)
        /\ Finals(turn[r])' = Finals(t)'
    BY <1>1, <1>3 DEF TurnCalls, Finals, Committed
  <2>6. AloneOK(r)'
    BY <1>3, <2>2, <2>4, <2>5 DEF AloneOK, Applying
  <2>7. QED
    BY <1>3, <2>1, <2>4, <2>6, BusyTurn
<1>7. QED
  BY <1>5, <1>6, ConfinedKeepsSerial

(* A continuation that was blocked excuses its turn.                       *)
LEMMA ContinueBlockedKeepsSerial ==
    ASSUME IInv, BaseInv', NEW r \in Requests, ContinueBlocked(r)
    PROVE  SerialInv'
<1>1. /\ pc[r] = "closed" /\ CommitRows(r) /\ Return(r) /\ Excuse(r)
      /\ UNCHANGED <<turnOf, serverSide, contested>>
  BY DEF ContinueBlocked
<1>2. PICK t \in Turns : turn[r] = t
  BY <1>1 DEF IInv, BaseInv, RequestOK
<1>3. excused \subseteq excused' /\ t \in excused'
  BY <1>1, <1>2 DEF Excuse
<1>4. QED
  BY <1>1, <1>2, <1>3, CommitReturnKeepsSerial

(* The turn of a request that is undone is excused.                        *)
LEMMA RollbackKeepsSerial ==
    ASSUME IInv, BaseInv', NEW r \in Requests, pc[r] # "idle", RollbackAndReturn(r)
    PROVE  SerialInv'
<1>1. PICK t \in Turns : turn[r] = t
  BY DEF IInv, BaseInv, RequestOK
<1>2. t \in excused' /\ excused \subseteq excused' /\ contested' = contested
  BY <1>1 DEF RollbackAndReturn, Excuse
<1>3. WorksOn(r, t) /\ pc'[r] = "idle"
  <2>1. \A o \in Requests \ {r} : held'[o] = held[o]
    BY DEF RollbackAndReturn, IInv, BaseInv, TypeOK
  <2>2. QED
    BY <1>1, <1>2, <2>1, ReturnIsAlone DEF IInv, BaseInv, WorksOn, RollbackAndReturn
<1>4. Confined(r, t)
  BY <1>3, RollbackConfined DEF IInv
<1>5. ASSUME SerialOK(t) PROVE SerialOK(t)'
  <2>1. AnswerIsLast(t) /\ Busy(t)' = {}
    BY <1>3, <1>5, OnlyOneWorks
  <2>2. AnswerIsLast(t)'
    BY <2>1, RollbackKeepsAnswer DEF IInv
  <2>3. QED
    BY <1>2, <2>1, <2>2, ReturnedTurn
<1>6. QED
  BY <1>4, <1>5, ConfinedKeepsSerial

(* The turn of a provider call: no open rows, no answer, all calls done.   *)
LEMMA LlmTurn ==
    ASSUME IInv, NEW r \in Requests, pc[r] = "llm", NEW t \in Turns, turn[r] = t,
           SerialOK(t)
    PROVE  TurnCalls(t) \subseteq completed /\ Finals(t) = {}
  BY DEF SerialOK, Busy, AloneOK

(* A step that returns and leaves what a request holds as it is.           *)
LEMMA ReturnWorksOn ==
    ASSUME TypeOK, NEW r \in Requests, NEW t \in Turns, turn[r] = t, Return(r),
           UNCHANGED <<held, contested>>, excused \subseteq excused'
    PROVE  WorksOn(r, t) /\ pc'[r] = "idle"
  BY ReturnIsAlone DEF WorksOn

(* An answer, whole or cut short, is the last row and settles the turn.    *)
LEMMA AnswerKeepsSerial ==
    ASSUME IInv, BaseInv', NEW r \in Requests, pc[r] = "llm", NEW t \in Turns, turn[r] = t,
           NEW s \in StepRows, s.turn = t, s.by = NoRequest, s.seq = NextSeq,
           s.kind \in {"final", "truncated"}, steps' = steps \union {s}, Return(r),
           UNCHANGED <<turnOf, serverSide, completed, held, excused, contested>>
    PROVE  SerialInv'
<1>1. WorksOn(r, t) /\ pc'[r] = "idle"
  BY ReturnWorksOn DEF IInv, BaseInv
<1>2. Confined(r, t)
  BY <1>1, AppendConfined
<1>3. ASSUME SerialOK(t) PROVE SerialOK(t)'
  <2>1. Busy(t)' = {}
    BY <1>1, <1>3, OnlyOneWorks
  <2>2. AnswerIsLast(t)' /\ Settled(t)'
    BY <1>3, LlmTurn, AppendSettles DEF IInv
  <2>3. QED
    BY <2>1, <2>2, ReturnedTurn
<1>4. QED
  BY <1>2, <1>3, ConfinedKeepsSerial

(* The final answer settles the turn.                                      *)
LEMMA FinalizeKeepsSerial ==
    ASSUME IInv, BaseInv', NEW r \in Requests, Finalize(r)
    PROVE  SerialInv'
<1> DEFINE s == [Row(NextSeq, turn[r], "final") EXCEPT !.plan = plan[r]]
<1>1. /\ pc[r] = "llm" /\ steps' = steps \union {s} /\ Return(r)
      /\ UNCHANGED <<mode, turnOf, serverSide, completed, held, excused, contested>>
  BY DEF Finalize, Answer
<1>2. PICK t \in Turns : turn[r] = t
  BY <1>1 DEF IInv, BaseInv, RequestOK
<1>3. /\ s \in StepRows /\ s.seq = NextSeq /\ s.by = NoRequest /\ s.kind = "final"
      /\ s.turn = t
  <2>1. plan[r] \in Plans
    BY DEF IInv, BaseInv, TypeOK
  <2>2. QED
    BY <1>2, <2>1, CountIsNat DEF IInv, Row, NextSeq, StepRows, StepKinds, Plans
<1> HIDE DEF s
<1>4. QED
  BY <1>1, <1>2, <1>3, AnswerKeepsSerial

(* The partial answer settles the turn.                                    *)
LEMMA TruncateKeepsSerial ==
    ASSUME IInv, BaseInv', NEW r \in Requests, Truncate(r)
    PROVE  SerialInv'
<1> DEFINE s == Row(NextSeq, turn[r], "truncated")
<1>1. /\ pc[r] = "llm" /\ steps' = steps \union {s} /\ Return(r)
      /\ UNCHANGED <<turnOf, serverSide, completed, held, excused, contested>>
  BY DEF Truncate
<1>2. PICK t \in Turns : turn[r] = t
  BY <1>1 DEF IInv, BaseInv, RequestOK
<1>3. /\ s \in StepRows /\ s.seq = NextSeq /\ s.by = NoRequest /\ s.kind = "truncated"
      /\ s.turn = t
  BY <1>2, RowTypes DEF StepKinds, IInv
<1> HIDE DEF s
<1>4. QED
  BY <1>1, <1>2, <1>3, AnswerKeepsSerial

(* Storing the calls of an answer stores no final answer.                  *)
LEMMA StoreKeepsNoAnswer ==
    ASSUME IInv, NEW r \in Requests, pc[r] = "llm", NEW t \in Turns, turn[r] = t,
           SerialOK(t), NEW new \in FreshCalls, NEW server \in SUBSET new,
           StoreCalls(r, new, server)
    PROVE  /\ Finals(t)' = {} /\ AnswerIsLast(t)'
           /\ TurnCalls(t)' = TurnCalls(t) \union new
           /\ TurnCalls(t) \subseteq completed
           /\ completed' = completed \union server
           /\ server # new => Settled(t)'
<1>1. new \in SUBSET Calls /\ new \intersect Existing = {}
  BY FreshCallsAreNew DEF IInv, BaseInv
<1>2. PICK added : Adds(r, server, added)
  BY <1>1, StoredRows DEF IInv, BaseInv
<1>3. TurnCalls(t) \subseteq completed /\ Finals(t) = {}
  BY LlmTurn
<1>4. Finals(t)' = {}
  BY <1>2, <1>3 DEF Adds, Finals, Committed
<1>5. /\ turnOf' = [c \in Calls |-> IF c \in new THEN t ELSE turnOf[c]]
      /\ serverSide' = serverSide \union server
      /\ completed' = completed \union server
  BY DEF StoreCalls
<1>6. TurnCalls(t)' = TurnCalls(t) \union new
  BY <1>1, <1>5, NullsAssumption DEF TurnCalls, Existing
<1>7. ASSUME server # new PROVE Settled(t)'
  <2>1. PICK c \in new : c \notin server
    BY <1>7
  <2>2. c \notin serverSide /\ c \notin completed
    BY <1>1, <2>1 DEF IInv, BaseInv, TypeOK
  <2>3. c \in ClientCalls(t)' /\ c \notin completed'
    BY <1>5, <1>6, <2>1, <2>2 DEF ClientCalls
  <2>4. QED
    BY <2>3 DEF Settled
<1>8. QED
  BY <1>3, <1>4, <1>5, <1>6, <1>7, NoAnswerYet

(* The client owes the results of its calls, or the turn is excused.       *)
LEMMA StoreReturnKeepsSerial ==
    ASSUME IInv, BaseInv', NEW r \in Requests, HandOff(r) \/ RoundsExceeded(r)
    PROVE  SerialInv'
<1>1. /\ pc[r] = "llm" /\ Return(r)
      /\ UNCHANGED <<mode, billing, held, contested>>
      /\ excused' = excused \/ Excuse(r)
  BY DEF HandOff, RoundsExceeded
<1>2. PICK new \in FreshCalls : \E server \in SUBSET new :
         StoreCalls(r, new, server) /\ (server # new \/ Excuse(r))
  BY DEF HandOff, RoundsExceeded
<1>3. PICK server \in SUBSET new :
         StoreCalls(r, new, server) /\ (server # new \/ Excuse(r))
  BY <1>2
<1>4. PICK t \in Turns : turn[r] = t
  BY <1>1 DEF IInv, BaseInv, RequestOK
<1>5. excused \subseteq excused' /\ (Excuse(r) => t \in excused')
  BY <1>1, <1>4 DEF Excuse
<1>6. WorksOn(r, t) /\ pc'[r] = "idle"
  BY <1>1, <1>4, <1>5, ReturnWorksOn DEF IInv, BaseInv
<1>7. Confined(r, t)
  BY <1>1, <1>3, <1>6, StoreConfined DEF IInv
<1>8. ASSUME SerialOK(t) PROVE SerialOK(t)'
  <2>1. Busy(t)' = {}
    BY <1>1, <1>6, <1>8, OnlyOneWorks
  <2>2. AnswerIsLast(t)' /\ (server # new => Settled(t)')
    BY <1>1, <1>3, <1>4, <1>8, StoreKeepsNoAnswer
  <2>3. QED
    BY <1>3, <1>5, <2>1, <2>2, ReturnedTurn
<1>9. QED
  BY <1>7, <1>8, ConfinedKeepsSerial

(* The calls of a server-side round are done when they are stored.         *)
LEMMA NextRoundKeepsSerial ==
    ASSUME IInv, BaseInv', NEW r \in Requests, NextRound(r)
    PROVE  SerialInv'
<1>1. PICK new \in FreshCalls :
         /\ StoreCalls(r, new, new) /\ known' = [known EXCEPT ![r] = @ \union new]
         /\ pc[r] = "llm"
         /\ sent' = [sent EXCEPT ![r] = ResultsIn({s \in steps' : s.by = NoRequest})]
         /\ UNCHANGED <<mode, billing, pc, turn, todo, anchor, held, plan, excused, contested>>
  BY DEF NextRound
<1>2. PICK t \in Turns : turn[r] = t
  BY <1>1 DEF IInv, BaseInv, RequestOK
<1>3. WorksOn(r, t)
  BY <1>1, <1>2 DEF WorksOn, OnlyRequest, IInv, BaseInv, TypeOK
<1>4. Confined(r, t)
  BY <1>1, <1>3, StoreConfined DEF IInv
<1>5. ASSUME SerialOK(t) PROVE SerialOK(t)'
  <2>1. \A o \in Busy(t)' : o = r
    BY <1>1, <1>3, <1>5, OnlyOneWorks
  <2>2. /\ Finals(t)' = {} /\ AnswerIsLast(t)'
        /\ TurnCalls(t)' \subseteq completed'
    BY <1>1, <1>2, <1>5, StoreKeepsNoAnswer
  <2>3. pc'[r] = "llm" /\ turn'[r] = t
    BY <1>1, <1>2
  <2>4. TurnCalls(turn[r])' = TurnCalls(t)' /\ Finals(turn[r])' = Finals(t)'
    BY <2>3 DEF TurnCalls, Finals, Committed
  <2>5. AloneOK(r)'
    BY <2>2, <2>3, <2>4 DEF AloneOK, Applying
  <2>6. QED
    BY <2>1, <2>2, <2>3, <2>5, BusyTurn
<1>6. QED
  BY <1>4, <1>5, ConfinedKeepsSerial

(* A rejected key excuses the turn.                                        *)
LEMMA KeyRejectedKeepsSerial ==
    ASSUME IInv, BaseInv', NEW r \in Requests, KeyRejected(r)
    PROVE  SerialInv'
<1>1. /\ pc[r] = "llm" /\ Return(r) /\ excused' = excused \union {turn[r]}
      /\ UNCHANGED <<mode, charged, rows, held, contested>>
  BY DEF KeyRejected, Excuse
<1>2. PICK t \in Turns : turn[r] = t
  BY <1>1 DEF IInv, BaseInv, RequestOK
<1>3. WorksOn(r, t) /\ pc'[r] = "idle"
  BY <1>1, <1>2, ReturnWorksOn DEF IInv, BaseInv
<1>4. Confined(r, t)
  BY <1>1, <1>3, QuietConfined
<1>5. ASSUME SerialOK(t) PROVE SerialOK(t)'
  <2>1. Busy(t)' = {}
    BY <1>1, <1>3, <1>5, OnlyOneWorks
  <2>2. Finals(t)' = {}
    BY <1>1, <1>2, <1>5, LlmTurn DEF Finals, Committed, rows
  <2>3. QED
    BY <1>1, <1>2, <2>1, <2>2, NoAnswerYet, ReturnedTurn
<1>6. QED
  BY <1>4, <1>5, ConfinedKeepsSerial

(* Steps outside the session.                                              *)
LEMMA OutsideKeepsSerial ==
    ASSUME IInv, BaseInv', UNCHANGED <<rows, pc, turn, todo, anchor, held, excused, contested>>
    PROVE  SerialInv'
<1> SUFFICES ASSUME NEW t \in Turns, t \notin contested' PROVE SerialOK(t)'
  BY DEF SerialInv
<1>1. SerialOK(t)
  BY DEF IInv, SerialInv
<1>2. TurnRows(t)' = TurnRows(t) /\ TurnCalls(t)' = TurnCalls(t) /\ Busy(t)' = Busy(t)
  BY DEF TurnRows, TurnCalls, Busy, rows
<1>3. SameTurnRows(t)
  BY <1>2, SameRowsSameTurn
<1>4. Untouched(t)
  BY <1>2, <1>3 DEF Untouched, rows
<1>5. QED
  BY <1>1, <1>4, UntouchedStaysSerial DEF IInv

-----------------------------------------------------------------------------
(* Before the first request no turn has begun.                             *)
LEMMA InitSerial == Init => SerialInv
  BY DEF Init, SerialInv, SerialOK, AnswerIsLast, Busy, Finals, Committed, Started

(* The whole invariant is preserved by every step.                         *)
LEMMA NextSerial == IInv /\ [Next]_vars => SerialInv'
<1> SUFFICES ASSUME IInv, [Next]_vars PROVE SerialInv'
  OBVIOUS
<1>0. BaseInv'
  BY NextBase DEF IInv
<1>1. CASE UNCHANGED vars
  BY <1>0, <1>1, OutsideKeepsSerial DEF vars, rows
<1>2. CASE AccountChanges
  BY <1>0, <1>2, OutsideKeepsSerial DEF AccountChanges, work
<1>3. ASSUME NEW r \in Requests, NEW t \in Turns, Run(r, t) \/ RunBlocked(r, t)
      PROVE  SerialInv'
  BY <1>0, <1>3, RunKeepsSerial, RunBlockedKeepsSerial
<1>4. ASSUME NEW r \in Requests, NEW batch \in Batches, ToolResult(r, batch)
      PROVE  SerialInv'
  BY <1>0, <1>4, ToolResultKeepsSerial
<1>5. ASSUME NEW r \in Requests, Crash(r) PROVE SerialInv'
  BY <1>0, <1>5, UndoneWasRunning, RollbackKeepsSerial DEF IInv
<1>6. ASSUME NEW r \in Requests, Step(r) PROVE SerialInv'
  <2>1. CASE ApplyResult(r)
    BY <1>0, <2>1, ApplyKeepsSerial
  <2>2. CASE SkipResult(r)
    BY <1>0, <2>2, SkipKeepsSerial
  <2>3. CASE DeadlockVictim(r) \/ FinalizeUnpaid(r) \/ ProviderFails(r)
    BY <1>0, <2>3, UndoneWasRunning, RollbackKeepsSerial DEF IInv
  <2>4. CASE ReadBarrier(r)
    BY <1>0, <2>4, BarrierKeepsSerial
  <2>5. CASE AnswerPending(r)
    BY <1>0, <2>5, AnswerPendingKeepsSerial
  <2>6. CASE RenderSaved(r)
    BY <1>0, <2>6, RenderSavedKeepsSerial
  <2>7. CASE Continue(r)
    BY <1>0, <2>7, ContinueKeepsSerial
  <2>8. CASE ContinueBlocked(r)
    BY <1>0, <2>8, ContinueBlockedKeepsSerial
  <2>9. CASE Finalize(r)
    BY <1>0, <2>9, FinalizeKeepsSerial
  <2>10. CASE Truncate(r)
    BY <1>0, <2>10, TruncateKeepsSerial
  <2>11. CASE HandOff(r) \/ RoundsExceeded(r)
    BY <1>0, <2>11, StoreReturnKeepsSerial
  <2>12. CASE NextRound(r)
    BY <1>0, <2>12, NextRoundKeepsSerial
  <2>13. CASE KeyRejected(r)
    BY <1>0, <2>13, KeyRejectedKeepsSerial
  <2>14. QED
    BY <1>6, <2>1, <2>2, <2>3, <2>4, <2>5, <2>6, <2>7, <2>8, <2>9, <2>10, <2>11, <2>12,
       <2>13 DEF Step
<1>7. QED
  BY <1>1, <1>2, <1>3, <1>4, <1>5, <1>6 DEF Next

(* What is known of the turns of a client that sends one request after the *)
(* other holds in every reachable state.                                   *)
THEOREM SerialInvariance == Spec => []IInv
<1>1. Init => IInv
  BY InitBase, InitSerial DEF IInv
<1>2. IInv /\ [Next]_vars => IInv'
  BY NextBase, NextSerial DEF IInv
<1>3. QED
  BY <1>1, <1>2, PTL DEF Spec

(* Such a client gets one answer for a turn, repeated requests and retries *)
(* after failures included.                                                *)
THEOREM SerialTurnsAnsweredOnce == Spec => []SerialTurnAnsweredOnce
<1>1. IInv => SerialTurnAnsweredOnce
  <2> SUFFICES ASSUME IInv, NEW t \in Turns \ contested PROVE Cardinality(Finals(t)) <= 1
    BY DEF SerialTurnAnsweredOnce
  <2>1. \A f, g \in Finals(t) : f = g
    BY DEF IInv, SerialInv, SerialOK, AnswerIsLast
  <2>2. CASE Finals(t) = {}
    BY <2>2, FS_EmptySet
  <2>3. ASSUME NEW f \in Finals(t) PROVE Cardinality(Finals(t)) <= 1
    <3>1. Finals(t) = {f}
      BY <2>1
    <3>2. QED
      BY <3>1, FS_Singleton
  <2>4. QED
    BY <2>2, <2>3
<1>2. QED
  BY <1>1, SerialInvariance, PTL

(* No turn of such a client hangs: when no request works on it and none    *)
(* failed, it is answered, cut short, or the client owes a result.         *)
THEOREM SerialTurnsSettle == Spec => []SerialTurnNeverHangs
<1>1. IInv => SerialTurnNeverHangs
  BY DEF IInv, SerialInv, SerialOK, SerialTurnNeverHangs
<1>2. QED
  BY <1>1, SerialInvariance, PTL
=============================================================================
