--------------------------- MODULE ServiceProofs ---------------------------
(***************************************************************************)
(* Proofs about the service: the request limits, the payment of answers    *)
(* and images, and the history of the chats, for any number of handlers,   *)
(* chats, workspaces, keys and rounds.                                     *)
(***************************************************************************)
EXTENDS Service, Totals

-----------------------------------------------------------------------------
(* The windows of the request limits.                                      *)

(* The checks of window k that wait for Redis and have read t or less.     *)
WaitingChecks(k, t) ==
    {h \in Handlers : /\ asks[h].at = "execute" /\ Head(asks[h].left) = k
                      /\ asks[h].read <= t}

(* What is still in the window ending at t has been marked, so that the    *)
(* count of the marks covers it, until marks of its time are dropped; from *)
(* then on only those pass that had read the clock before.                 *)
WindowKept(k, t) ==
    LET let == Total(passed[k], WindowOf(t))
    IN  /\ let <= Limit[k] + Total(late[k], WindowOf(t))
        /\ TrimmedTo(k) <= t => let <= Limit[k]
        /\ TrimmedTo(k) > t =>
              let + Cardinality(WaitingChecks(k, t)) <= Limit[k] + Cardinality(Handlers)

KeyInv(k) ==
    /\ marks[k] \in [Times -> Nat] /\ passed[k] \in [Times -> Nat]
    /\ late[k] \in [Times -> Nat]
    /\ expires[k] \in Nat /\ expires[k] <= now + Window
    /\ trimmed[k] \in Nat /\ trimmed[k] <= now
    /\ \A u \in Times : /\ u + Window > expires[k] => passed[k][u] = 0
                        /\ u > TrimmedTo(k) - Window => passed[k][u] <= marks[k][u]
    /\ \A t \in Times : WindowKept(k, t)

AskOK(h) == asks[h].at = "execute" => asks[h].read \in Times /\ asks[h].read <= now

WindowInv ==
    /\ now \in Times
    /\ DOMAIN marks = Keys /\ DOMAIN passed = Keys /\ DOMAIN late = Keys
    /\ DOMAIN expires = Keys /\ DOMAIN trimmed = Keys /\ DOMAIN asks = Handlers
    /\ \A h \in Handlers : AskOK(h)
    /\ \A k \in Keys : KeyInv(k)

(* The clock moves, a request asks the windows, it begins, or neither.     *)
LEMMA ClockOrLimits ==
  ASSUME [Next]_serviceVars
  PROVE  \/ Tick /\ UNCHANGED limitVars
         \/ \E h \in Handlers :
               /\ \/ \E checks : Ask(h, checks)
                  \/ AskNext(h) \/ Execute(h) \/ RedisFails(h) \/ Leave(h)
                  \/ /\ asks' = [asks EXCEPT ![h] = NotAsking]
                     /\ UNCHANGED <<marks, expires, passed, late, trimmed>>
               /\ UNCHANGED now
         \/ UNCHANGED <<now, limitVars>>
  <1>1. CASE Next
    <2>1. ASSUME NEW h \in Handlers, AskLimits(h) \/ LimitStep(h)
          PROVE  /\ \/ \E checks : Ask(h, checks)
                    \/ AskNext(h) \/ Execute(h) \/ RedisFails(h) \/ Leave(h)
                 /\ UNCHANGED now
      BY <2>1 DEF AskLimits, LimitStep
    <2>2. ASSUME NEW h \in Handlers, Arrival(h)
          PROVE  /\ \/ /\ asks' = [asks EXCEPT ![h] = NotAsking]
                       /\ UNCHANGED <<marks, expires, passed, late, trimmed>>
                    \/ UNCHANGED limitVars
                 /\ UNCHANGED now
      BY <2>2 DEF Arrival, ChatRun, ChatTemporary, ChatEdit, ChatToolResult, UploadFile,
         ChatArrives, Arrives
    <2>3. ASSUME NEW h \in Handlers, Works(h)
          PROVE  UNCHANGED <<now, limitVars>>
      BY <2>3 DEF Works
    <2>4. CASE ManageChats \/ ManageImages \/ ManageWorkspaces
      BY <2>4 DEF ManageChats, ManageImages, ManageWorkspaces, Arrives
    <2>5. CASE TimePasses
      BY <2>5 DEF TimePasses
    <2> QED
      BY <1>1, <2>1, <2>2, <2>3, <2>4, <2>5 DEF Next
  <1>2. CASE UNCHANGED serviceVars
    BY <1>2 DEF serviceVars, vars
  <1> QED
    BY <1>1, <1>2

(* The later of two times.                                                 *)
LEMMA LaterOf ==
  ASSUME NEW a \in Nat, NEW b \in Nat
  PROVE  /\ Max({a, b}) \in Nat /\ Max({a, b}) >= a /\ Max({a, b}) >= b
         /\ Max({a, b}) = a \/ Max({a, b}) = b
  <1>1. IsFiniteSet({a, b})
    <2>1. {a, b} = {a} \union {b} /\ IsFiniteSet({a})
      BY FS_Singleton
    <2> QED
      BY <2>1, FS_AddElement
  <1>2. Max({a, b}) \in {a, b} /\ \A y \in {a, b} : Max({a, b}) >= y
    <2>1. {a, b} \subseteq Int /\ {a, b} # {}
      OBVIOUS
    <2> QED
      BY <1>1, <2>1, MaxIsGreatest
  <1> QED
    BY <1>2

(* How far a window is trimmed.                                            *)
LEMMA TrimmedIsTime ==
  ASSUME NEW k \in Keys, KeyInv(k), now \in Nat
  PROVE  /\ TrimmedTo(k) \in Nat /\ TrimmedTo(k) <= now /\ TrimmedTo(k) >= trimmed[k]
         /\ Lapsed(k) => TrimmedTo(k) >= expires[k]
         /\ ~ Lapsed(k) => TrimmedTo(k) = trimmed[k]
  <1>1. trimmed[k] \in Nat /\ expires[k] \in Nat /\ trimmed[k] <= now
    BY DEF KeyInv
  <1>2. /\ Max({trimmed[k], expires[k]}) \in Nat
        /\ Max({trimmed[k], expires[k]}) >= trimmed[k]
        /\ Max({trimmed[k], expires[k]}) >= expires[k]
        /\ Max({trimmed[k], expires[k]}) = trimmed[k] \/ Max({trimmed[k], expires[k]}) = expires[k]
    BY <1>1, LaterOf
  <1> QED
    BY <1>1, <1>2 DEF TrimmedTo, Lapsed

(* What the counts and the pending checks of a window are.                 *)
LEMMA WindowTypes ==
  ASSUME NEW k \in Keys, NEW t \in Times, KeyInv(k)
  PROVE  /\ IsFiniteSet(WindowOf(t)) /\ WindowOf(t) \subseteq Times
         /\ IsFiniteSet(Times) /\ Times \subseteq Nat
         /\ Total(passed[k], WindowOf(t)) \in Int /\ Total(late[k], WindowOf(t)) \in Int
         /\ Limit[k] \in Nat /\ Window \in Nat \ {0}
         /\ IsFiniteSet(WaitingChecks(k, t)) /\ Cardinality(WaitingChecks(k, t)) \in Nat
         /\ Cardinality(Handlers) \in Nat
         /\ Cardinality(WaitingChecks(k, t)) <= Cardinality(Handlers)
  <1>1. Times \subseteq Nat /\ IsFiniteSet(Times)
    BY ThrottleAssumption, FS_Interval DEF Times
  <1>2. WindowOf(t) \in SUBSET Times /\ IsFiniteSet(WindowOf(t))
    BY <1>1, FS_Subset DEF WindowOf
  <1>3. \A u \in WindowOf(t) : passed[k][u] \in Int /\ late[k][u] \in Int
    BY <1>2 DEF KeyInv
  <1>4. WaitingChecks(k, t) \in SUBSET Handlers /\ IsFiniteSet(Handlers)
    BY ThrottleAssumption DEF WaitingChecks
  <1>5. IsFiniteSet(WaitingChecks(k, t)) /\ Cardinality(WaitingChecks(k, t)) <= Cardinality(Handlers)
    BY <1>4, FS_Subset
  <1>6. Cardinality(WaitingChecks(k, t)) \in Nat /\ Cardinality(Handlers) \in Nat
    BY <1>4, <1>5, FS_CardinalityType
  <1> QED
    BY <1>1, <1>2, <1>3, <1>5, <1>6, TotalIsInt, ThrottleAssumption

(* While nothing is written a window stays as it is: as time passes, and   *)
(* as requests read the clock or leave.                                    *)
LEMMA UnwrittenWindow ==
  ASSUME NEW k \in Keys, KeyInv(k), now \in Nat, now' \in Nat, now' >= now,
         marks'[k] = marks[k], passed'[k] = passed[k], late'[k] = late[k],
         expires'[k] = expires[k], trimmed'[k] = trimmed[k],
         \A t \in Times : TrimmedTo(k) > t => WaitingChecks(k, t)' \subseteq WaitingChecks(k, t)
  PROVE  KeyInv(k)'
  <1>1. trimmed[k] \in Nat /\ expires[k] \in Nat /\ Window \in Nat
    BY ThrottleAssumption DEF KeyInv
  <1>2. /\ Max({trimmed[k], expires[k]}) \in Nat
        /\ Max({trimmed[k], expires[k]}) >= trimmed[k]
    BY <1>1, LaterOf
  <1>3. TrimmedTo(k) \in Nat /\ TrimmedTo(k)' \in Nat /\ TrimmedTo(k)' >= TrimmedTo(k)
    BY <1>1, <1>2 DEF TrimmedTo, Lapsed
  <1>4. ASSUME NEW t \in Times
        PROVE  WindowKept(k, t)'
    <2>1. /\ Total(passed[k], WindowOf(t)) \in Int /\ Limit[k] \in Nat
          /\ Cardinality(Handlers) \in Nat /\ t \in Nat
      BY WindowTypes
    <2>2. WindowKept(k, t)
      BY DEF KeyInv
    <2>3. WaitingChecks(k, t)' \in SUBSET Handlers /\ IsFiniteSet(Handlers)
      BY ThrottleAssumption DEF WaitingChecks
    <2>4. /\ IsFiniteSet(WaitingChecks(k, t)') /\ Cardinality(WaitingChecks(k, t)') \in Nat
          /\ Cardinality(WaitingChecks(k, t)') <= Cardinality(Handlers)
      BY <2>3, FS_Subset, FS_CardinalityType
    <2>5. TrimmedTo(k) > t => Cardinality(WaitingChecks(k, t)') <= Cardinality(WaitingChecks(k, t))
      BY FS_Subset, WindowTypes
    <2>6. /\ Total(passed[k], WindowOf(t)) <= Limit[k] + Total(late[k], WindowOf(t))
          /\ TrimmedTo(k) <= t => Total(passed[k], WindowOf(t)) <= Limit[k]
          /\ TrimmedTo(k) > t =>
                Total(passed[k], WindowOf(t)) + Cardinality(WaitingChecks(k, t))
                    <= Limit[k] + Cardinality(Handlers)
      BY <2>2 DEF WindowKept
    <2>7. Cardinality(WaitingChecks(k, t)) \in Nat
      BY WindowTypes
    <2>8. TrimmedTo(k)' <= t => Total(passed[k], WindowOf(t)) <= Limit[k]
      BY <1>3, <2>1, <2>6
    <2>9. TrimmedTo(k)' > t =>
             Total(passed[k], WindowOf(t)) + Cardinality(WaitingChecks(k, t)')
                 <= Limit[k] + Cardinality(Handlers)
      BY <1>3, <2>1, <2>4, <2>5, <2>6, <2>7
    <2> QED
      BY <2>6, <2>8, <2>9 DEF WindowKept, WindowOf
  <1>5. /\ marks'[k] \in [Times -> Nat] /\ passed'[k] \in [Times -> Nat]
        /\ late'[k] \in [Times -> Nat]
        /\ expires'[k] \in Nat /\ expires'[k] <= now' + Window
        /\ trimmed'[k] \in Nat /\ trimmed'[k] <= now'
    BY <1>1 DEF KeyInv
  <1>6. ASSUME NEW u \in Times
        PROVE  /\ u + Window > expires'[k] => passed'[k][u] = 0
               /\ u > TrimmedTo(k)' - Window => passed'[k][u] <= marks'[k][u]
    <2>1. u \in Nat
      BY WindowTypes
    <2>2. /\ u + Window > expires[k] => passed[k][u] = 0
          /\ u > TrimmedTo(k) - Window => passed[k][u] <= marks[k][u]
      BY DEF KeyInv
    <2> QED
      BY <1>1, <1>3, <2>1, <2>2
  <1> QED
    BY <1>4, <1>5, <1>6 DEF KeyInv

(* n = 1 when the check of h, that had read r, lets it through window k.   *)
Written(k, r, n) ==
    /\ marks'[k] = Marked(k, r)
    /\ expires'[k] = now + Window
    /\ trimmed'[k] = Max({r, TrimmedTo(k)})
    /\ passed'[k] = [passed[k] EXCEPT ![r] = @ + n]
    /\ late'[k] = [late[k] EXCEPT ![r] = @ + (IF r < TrimmedTo(k) THEN n ELSE 0)]

(* A check that is executed keeps its window: it counts every mark of the  *)
(* window it had read, unless some of them are gone.                       *)
LEMMA WrittenWindow ==
  ASSUME NEW k \in Keys, NEW h \in Handlers, NEW n \in {0, 1}, NEW r,
         KeyInv(k), AskOK(h), now \in Nat, now' = now, r = asks[h].read,
         asks[h].at = "execute", Head(asks[h].left) = k, asks'[h].at # "execute",
         \A o \in Handlers \ {h} : asks'[o] = asks[o],
         Written(k, r, n), n = 1 => Allows(k, r)
  PROVE  KeyInv(k)'
  <1>1. r \in Times /\ r \in Nat /\ r <= now /\ Window \in Nat \ {0} /\ n \in Nat
    BY ThrottleAssumption DEF AskOK, Times
  <1>2. /\ TrimmedTo(k) \in Nat /\ TrimmedTo(k) <= now
        /\ Lapsed(k) => TrimmedTo(k) >= expires[k]
    BY TrimmedIsTime
  <1>3. PICK last : last = Max({r, TrimmedTo(k)})
    OBVIOUS
  <1>4. /\ last \in Nat /\ last >= r /\ last >= TrimmedTo(k) /\ last <= now
        /\ last = r \/ last = TrimmedTo(k)
    BY <1>1, <1>2, <1>3, LaterOf
  <1>5. /\ expires'[k] = now + Window /\ trimmed'[k] = last /\ TrimmedTo(k)' = last
    BY <1>1, <1>3 DEF Written, TrimmedTo, Lapsed
  <1>6. /\ marks[k] \in [Times -> Nat] /\ passed[k] \in [Times -> Nat]
        /\ late[k] \in [Times -> Nat] /\ expires[k] \in Nat /\ expires[k] <= now + Window
    BY DEF KeyInv
  <1>7. ASSUME NEW u \in Times
        PROVE  /\ marks'[k][u] = (IF Fresh(u, r) /\ ~ Lapsed(k) THEN marks[k][u] ELSE 0)
                                 + (IF u = r THEN 1 ELSE 0)
               /\ passed'[k][u] = IF u = r THEN passed[k][u] + n ELSE passed[k][u]
               /\ late'[k][u] = IF u = r /\ r < TrimmedTo(k) THEN late[k][u] + n
                                ELSE late[k][u]
               /\ u \in Nat /\ marks[k][u] \in Nat /\ passed[k][u] \in Nat
               /\ late[k][u] \in Nat
    BY <1>1, <1>6, WindowTypes DEF Written, Marked
  <1>8. /\ marks'[k] \in [Times -> Nat] /\ passed'[k] \in [Times -> Nat]
        /\ late'[k] \in [Times -> Nat]
    <2>1. marks'[k] = [t \in Times |-> (IF Fresh(t, r) /\ ~ Lapsed(k) THEN marks[k][t] ELSE 0)
                                       + (IF t = r THEN 1 ELSE 0)]
      BY DEF Written, Marked
    <2>2. marks'[k] \in [Times -> Nat]
      BY <1>6, <2>1
    <2>3. passed'[k] \in [Times -> Nat] /\ late'[k] \in [Times -> Nat]
      BY <1>1, <1>6 DEF Written
    <2> QED
      BY <2>2, <2>3
  <1>9. ASSUME NEW u \in Times
        PROVE  /\ u + Window > expires'[k] => passed'[k][u] = 0
               /\ u > last - Window => passed'[k][u] <= marks'[k][u]
    <2>1. /\ u + Window > expires[k] => passed[k][u] = 0
          /\ u > TrimmedTo(k) - Window => passed[k][u] <= marks[k][u]
      BY DEF KeyInv
    <2>2. u + Window > expires'[k] => u # r /\ passed[k][u] = 0
      BY <1>1, <1>5, <1>6, <1>7, <2>1
    <2>3. u > last - Window => Fresh(u, r) /\ u > TrimmedTo(k) - Window
      BY <1>1, <1>2, <1>4, <1>7 DEF Fresh
    <2>4. u > last - Window /\ Lapsed(k) => passed[k][u] = 0
      BY <1>1, <1>2, <1>6, <1>7, <2>1, <2>3
    <2>5. u > last - Window => passed'[k][u] <= marks'[k][u]
      BY <1>1, <1>7, <2>1, <2>3, <2>4
    <2> QED
      BY <1>7, <2>2, <2>5
  <1>10. ASSUME NEW t \in Times
         PROVE  WindowKept(k, t)'
    <2> DEFINE W == WindowOf(t)
    <2>1. /\ IsFiniteSet(W) /\ W \subseteq Times /\ IsFiniteSet(Times) /\ Limit[k] \in Nat
          /\ Total(passed[k], W) \in Int /\ Total(late[k], W) \in Int /\ t \in Nat
          /\ IsFiniteSet(WaitingChecks(k, t)) /\ Cardinality(WaitingChecks(k, t)) \in Nat
          /\ Cardinality(Handlers) \in Nat
          /\ Cardinality(WaitingChecks(k, t)) <= Cardinality(Handlers)
      BY WindowTypes
    <2>2. /\ Total(passed[k], W) <= Limit[k] + Total(late[k], W)
          /\ TrimmedTo(k) <= t => Total(passed[k], W) <= Limit[k]
          /\ TrimmedTo(k) > t =>
                Total(passed[k], W) + Cardinality(WaitingChecks(k, t))
                    <= Limit[k] + Cardinality(Handlers)
      BY DEF KeyInv, WindowKept
    <2>3. WaitingChecks(k, t)' \subseteq WaitingChecks(k, t) \ {h}
      BY DEF WaitingChecks
    <2>4. /\ r <= t => Cardinality(WaitingChecks(k, t)') <= Cardinality(WaitingChecks(k, t)) - 1
          /\ Cardinality(WaitingChecks(k, t)') <= Cardinality(WaitingChecks(k, t))
          /\ Cardinality(WaitingChecks(k, t)') \in Nat
      <3>1. r <= t => h \in WaitingChecks(k, t)
        BY DEF WaitingChecks
      <3>2. /\ IsFiniteSet(WaitingChecks(k, t) \ {h})
            /\ Cardinality(WaitingChecks(k, t) \ {h}) =
                  IF h \in WaitingChecks(k, t) THEN Cardinality(WaitingChecks(k, t)) - 1
                  ELSE Cardinality(WaitingChecks(k, t))
        BY <2>1, FS_RemoveElement
      <3>3. /\ Cardinality(WaitingChecks(k, t)') <= Cardinality(WaitingChecks(k, t) \ {h})
            /\ IsFiniteSet(WaitingChecks(k, t)')
        BY <2>3, <3>2, FS_Subset
      <3>4. Cardinality(WaitingChecks(k, t)') \in Nat /\ Cardinality(WaitingChecks(k, t) \ {h}) \in Nat
        BY <3>2, <3>3, FS_CardinalityType
      <3> QED
        BY <2>1, <3>1, <3>2, <3>3, <3>4
    <2>5. /\ Total(passed'[k], W) = IF r \in W THEN Total(passed[k], W) + n
                                    ELSE Total(passed[k], W)
          /\ Total(late'[k], W) = IF r \in W /\ r < TrimmedTo(k)
                                  THEN Total(late[k], W) + n ELSE Total(late[k], W)
      <3> HIDE DEF W
      <3>1. ASSUME NEW u \in W
            PROVE  /\ passed[k][u] \in Int /\ passed'[k][u] \in Int
                   /\ late[k][u] \in Int /\ late'[k][u] \in Int
        <4>1. u \in Times
          BY <2>1
        <4> QED
          BY <1>6, <1>8, <4>1
      <3>2. CASE r \notin W
        <4>1. \A u \in W : passed'[k][u] = passed[k][u]
          BY <1>7, <2>1, <3>2
        <4>2. \A u \in W : late'[k][u] = late[k][u]
          BY <1>7, <2>1, <3>2
        <4>3. Total(passed'[k], W) = Total(passed[k], W)
          BY <2>1, <4>1, TotalSame
        <4>4. Total(late'[k], W) = Total(late[k], W)
          BY <2>1, <4>2, TotalSame
        <4> QED
          BY <3>2, <4>3, <4>4
      <3>3. CASE r \in W
        <4>1. \A u \in W \ {r} : passed'[k][u] = passed[k][u] /\ late'[k][u] = late[k][u]
          BY <1>7, <2>1
        <4>2. IsFiniteSet(W \ {r}) /\ r \notin W \ {r} /\ (W \ {r}) \union {r} = W
          BY <2>1, <3>3, FS_RemoveElement
        <4>3. /\ Total(passed[k], W) = passed[k][r] + Total(passed[k], W \ {r})
              /\ Total(passed'[k], W) = passed'[k][r] + Total(passed'[k], W \ {r})
              /\ Total(late[k], W) = late[k][r] + Total(late[k], W \ {r})
              /\ Total(late'[k], W) = late'[k][r] + Total(late'[k], W \ {r})
          <5>1. \A f : (\A u \in W : f[u] \in Int)
                          => Total(f, W) = f[r] + Total(f, W \ {r})
            BY <4>2, TotalAdd
          <5> QED
            BY <3>1, <5>1
        <4>4. /\ Total(passed'[k], W \ {r}) = Total(passed[k], W \ {r})
              /\ Total(late'[k], W \ {r}) = Total(late[k], W \ {r})
          BY <4>1, <4>2, TotalSame
        <4>5. Total(passed[k], W \ {r}) \in Int /\ Total(late[k], W \ {r}) \in Int
          BY <3>1, <4>2, TotalIsInt
        <4> QED
          BY <1>1, <1>7, <3>3, <4>3, <4>4, <4>5
      <3> QED
        BY <3>2, <3>3
    <2>6. n = 1 /\ r \in W /\ last <= t => Total(passed'[k], W) <= Limit[k]
      <3> SUFFICES ASSUME n = 1, r \in W, last <= t
                   PROVE  Total(passed'[k], W) <= Limit[k]
        OBVIOUS
      <3>1. Total(marks'[k], Times) <= Limit[k]
        BY DEF Allows, Written
      <3>2. \A u \in W : u \in Times /\ passed'[k][u] <= marks'[k][u]
                         /\ passed'[k][u] \in Int /\ marks'[k][u] \in Int
        <4> SUFFICES ASSUME NEW u \in W
                     PROVE  u \in Times /\ passed'[k][u] <= marks'[k][u]
                            /\ passed'[k][u] \in Int /\ marks'[k][u] \in Int
          OBVIOUS
        <4>1. u \in Times /\ u \in Nat /\ u > t - Window
          BY <2>1, WindowTypes DEF WindowOf
        <4>2. u > last - Window
          BY <1>1, <1>4, <2>1, <4>1
        <4> QED
          BY <1>8, <1>9, <4>1, <4>2
      <3> HIDE DEF W
      <3>3. /\ Total(passed'[k], W) <= Total(marks'[k], W)
            /\ Total(passed'[k], W) \in Int /\ Total(marks'[k], W) \in Int
        BY <2>1, <3>2, TotalOrder, TotalIsInt
      <3>4. \A u \in Times : marks'[k][u] \in Nat /\ marks'[k][u] \in Int
        BY <1>8
      <3>5. Total(marks'[k], W) <= Total(marks'[k], Times) /\ Total(marks'[k], Times) \in Int
        BY <2>1, <3>4, TotalPart, TotalIsInt
      <3> QED
        BY <2>1, <3>1, <3>3, <3>5
    <2>7. r \in W => r <= t
      BY DEF WindowOf
    <2> HIDE DEF W
    <2>8. Total(passed'[k], W) \in Int /\ Total(late'[k], W) \in Int
      BY <1>1, <2>1, <2>5
    <2>9. Total(late'[k], W) >= 0
      <3>1. PICK f : f = late'[k]
        OBVIOUS
      <3>2. PICK z : z = [u \in W |-> 0]
        OBVIOUS
      <3>3. \A u \in W : z[u] \in Int /\ f[u] \in Int /\ z[u] <= f[u] /\ z[u] = 0
        BY <1>8, <2>1, <3>1, <3>2
      <3>4. Total(z, W) = 0
        BY <2>1, <3>3, TotalZero
      <3>5. Total(z, W) <= Total(f, W)
        BY <2>1, <3>3, TotalOrder
      <3> QED
        BY <2>8, <3>1, <3>4, <3>5
    <2>10. Total(passed'[k], W) <= Limit[k] + Total(late'[k], W)
      <3>1. CASE n = 0 \/ r \notin W \/ r < TrimmedTo(k)
        BY <1>1, <2>1, <2>2, <2>5, <3>1
      <3>2. CASE n = 1 /\ r \in W /\ ~ (r < TrimmedTo(k))
        <4>1. last <= t
          BY <1>1, <1>2, <1>4, <2>7, <3>2
        <4> QED
          BY <2>1, <2>6, <2>8, <2>9, <3>2, <4>1
      <3> QED
        BY <3>1, <3>2
    <2>11. last <= t => Total(passed'[k], W) <= Limit[k]
      <3>1. last <= t => TrimmedTo(k) <= t
        BY <1>2, <1>4, <2>1
      <3>2. CASE n = 0 \/ r \notin W
        BY <1>1, <2>1, <2>2, <2>5, <3>1, <3>2
      <3>3. CASE n = 1 /\ r \in W
        BY <2>6, <3>3
      <3> QED
        BY <3>2, <3>3
    <2>12. last > t => Total(passed'[k], W) + Cardinality(WaitingChecks(k, t)')
                          <= Limit[k] + Cardinality(Handlers)
      <3> SUFFICES ASSUME last > t
                   PROVE  Total(passed'[k], W) + Cardinality(WaitingChecks(k, t)')
                             <= Limit[k] + Cardinality(Handlers)
        OBVIOUS
      <3>1. CASE TrimmedTo(k) > t
        <4>1. r \notin W \/ r <= t
          BY <2>7
        <4> QED
          BY <1>1, <2>1, <2>2, <2>4, <2>5, <3>1, <4>1
      <3>2. CASE TrimmedTo(k) <= t
        <4>1. r \notin W
          BY <1>1, <1>2, <1>4, <2>1, <2>7, <3>2
        <4> QED
          BY <2>1, <2>2, <2>4, <2>5, <3>2, <4>1
      <3> QED
        BY <1>2, <2>1, <3>1, <3>2
    <2> USE DEF W
    <2>13. /\ WindowOf(t)' = W /\ TrimmedTo(k)' = last /\ Limit[k]' = Limit[k]
      BY <1>5 DEF WindowOf
    <2> QED
      BY <2>10, <2>11, <2>12, <2>13 DEF WindowKept, WindowOf
  <1>11. /\ expires'[k] \in Nat /\ expires'[k] <= now' + Window
         /\ trimmed'[k] \in Nat /\ trimmed'[k] <= now'
    BY <1>1, <1>4, <1>5
  <1> QED
    BY <1>5, <1>8, <1>9, <1>10, <1>11 DEF KeyInv

(* The steps of a handler that wait for nothing keep the windows.          *)
LEMMA AsksStep ==
  ASSUME WindowInv, NEW h \in Handlers, now' = now,
         UNCHANGED <<marks, expires, passed, late, trimmed>>,
         DOMAIN asks' = Handlers, \A o \in Handlers \ {h} : asks'[o] = asks[o],
         \/ asks'[h].at # "execute"
         \/ asks'[h].at = "execute" /\ asks'[h].read = now
  PROVE  WindowInv'
  <1>1. now \in Times /\ now \in Nat
    BY DEF WindowInv, Times
  <1>2. ASSUME NEW k \in Keys
        PROVE  KeyInv(k)'
    <2>1. KeyInv(k)
      BY DEF WindowInv
    <2>2. TrimmedTo(k) \in Nat /\ TrimmedTo(k) <= now
      BY <1>1, <2>1, TrimmedIsTime
    <2>3. ASSUME NEW t \in Times, TrimmedTo(k) > t
          PROVE  WaitingChecks(k, t)' \subseteq WaitingChecks(k, t)
      <3>1. t \in Nat /\ ~ (now <= t)
        BY <1>1, <2>2, <2>3 DEF Times
      <3> QED
        BY <3>1 DEF WaitingChecks
    <2> QED
      BY <1>1, <2>1, <2>3, UnwrittenWindow
  <1>3. \A o \in Handlers : AskOK(o)'
    BY <1>1 DEF WindowInv, AskOK
  <1> QED
    BY <1>2, <1>3 DEF WindowInv

(* A step of MULTI/EXEC keeps them.                                        *)
LEMMA ExecuteStep ==
  ASSUME WindowInv, NEW h \in Handlers, now' = now,
         Execute(h) \/ RedisFails(h)
  PROVE  WindowInv'
  <1>1. now \in Times /\ now \in Nat /\ asks[h].at = "execute" /\ AskOK(h)
    BY DEF WindowInv, Times, Execute, RedisFails
  <1> DEFINE q == Head(asks[h].left)
             r == asks[h].read
  <1>2. /\ DOMAIN asks' = Handlers /\ asks'[h].at # "execute"
        /\ \A o \in Handlers \ {h} : asks'[o] = asks[o]
    BY DEF WindowInv, Execute, RedisFails, Onward, LetIn, NotAsking
  <1>3. /\ DOMAIN marks' = Keys /\ DOMAIN passed' = Keys /\ DOMAIN late' = Keys
        /\ DOMAIN expires' = Keys /\ DOMAIN trimmed' = Keys
    BY DEF WindowInv, Execute, RedisFails, Mark
  <1>4. ASSUME NEW k \in Keys
        PROVE  KeyInv(k)'
    <2>1. KeyInv(k) /\ r \in Times
      BY <1>1 DEF WindowInv, AskOK
    <2>2. \/ /\ marks'[k] = marks[k] /\ passed'[k] = passed[k] /\ late'[k] = late[k]
             /\ expires'[k] = expires[k] /\ trimmed'[k] = trimmed[k]
          \/ k = q /\ \E n \in {0, 1} : Written(k, r, n) /\ (n = 1 => Allows(k, r))
      <3>1. CASE k # q
        BY <3>1 DEF WindowInv, Execute, RedisFails, Mark
      <3>2. CASE k = q /\ Execute(h)
        <4>1. PICK n : n = IF Allows(k, r) THEN 1 ELSE 0
          OBVIOUS
        <4>2. /\ marks'[k] = Marked(k, r) /\ expires'[k] = now + Window
              /\ trimmed'[k] = Max({r, TrimmedTo(k)})
          BY <3>2 DEF Execute, Mark, WindowInv
        <4>3. passed'[k] = [passed[k] EXCEPT ![r] = @ + n]
          BY <3>2, <4>1 DEF Execute, WindowInv
        <4>4. late'[k] = [late[k] EXCEPT ![r] = @ + (IF r < TrimmedTo(k) THEN n ELSE 0)]
          BY <3>2, <4>1 DEF Execute, WindowInv
        <4> QED
          BY <3>2, <4>1, <4>2, <4>3, <4>4 DEF Written
      <3>3. CASE k = q /\ RedisFails(h)
        <4>1. passed'[k] = passed[k] /\ late'[k] = late[k]
          BY <3>3 DEF RedisFails
        <4>2. CASE UNCHANGED <<marks, expires, trimmed>>
          BY <4>1, <4>2
        <4>3. CASE Mark(q, r)
          <5>1. /\ marks'[k] = Marked(k, r) /\ expires'[k] = now + Window
                /\ trimmed'[k] = Max({r, TrimmedTo(k)})
            BY <3>3, <4>3 DEF Mark, WindowInv
          <5>2. passed[k] \in [Times -> Nat] /\ late[k] \in [Times -> Nat]
            BY <2>1 DEF KeyInv
          <5>3. /\ passed'[k] = [passed[k] EXCEPT ![r] = @ + 0]
                /\ late'[k] = [late[k] EXCEPT ![r] = @ + (IF r < TrimmedTo(k) THEN 0 ELSE 0)]
            BY <2>1, <4>1, <5>2
          <5>4. Written(k, r, 0)
            BY <5>1, <5>3 DEF Written
          <5> QED
            BY <3>3, <5>4
        <4> QED
          BY <3>3, <4>2, <4>3 DEF RedisFails
      <3> QED
        BY <3>1, <3>2, <3>3
    <2>3. CASE /\ marks'[k] = marks[k] /\ passed'[k] = passed[k] /\ late'[k] = late[k]
               /\ expires'[k] = expires[k] /\ trimmed'[k] = trimmed[k]
      <3>1. \A t \in Times : WaitingChecks(k, t)' \subseteq WaitingChecks(k, t)
        BY <1>2 DEF WaitingChecks
      <3> QED
        BY <1>1, <2>1, <2>3, <3>1, UnwrittenWindow
    <2>4. CASE k = q /\ \E n \in {0, 1} : Written(k, r, n) /\ (n = 1 => Allows(k, r))
      <3>1. PICK n \in {0, 1} : Written(k, r, n) /\ (n = 1 => Allows(k, r))
        BY <2>4
      <3> QED
        BY <1>1, <1>2, <2>1, <2>4, <3>1, WrittenWindow
    <2> QED
      BY <2>2, <2>3, <2>4
  <1>5. \A o \in Handlers : AskOK(o)'
    BY <1>2 DEF WindowInv, AskOK
  <1> QED
    BY <1>1, <1>2, <1>3, <1>4, <1>5 DEF WindowInv

(* No step lets a window overflow by more than those that were overtaken.  *)
LEMMA WindowStep ==
  ASSUME WindowInv, [Next]_serviceVars
  PROVE  WindowInv'
  <1>1. CASE Tick /\ UNCHANGED limitVars
    <2>1. now \in Nat /\ now' \in Nat /\ now' >= now /\ now' \in Times
      BY <1>1, ThrottleAssumption DEF Tick, WindowInv, Times
    <2>2. ASSUME NEW k \in Keys
          PROVE  KeyInv(k)'
      <3>1. KeyInv(k)
        BY DEF WindowInv
      <3>2. \A t \in Times : WaitingChecks(k, t)' \subseteq WaitingChecks(k, t)
        BY <1>1 DEF WaitingChecks, limitVars
      <3> QED
        BY <1>1, <2>1, <3>1, <3>2, UnwrittenWindow DEF limitVars
    <2>3. \A h \in Handlers : AskOK(h)'
      <3>1. ASSUME NEW h \in Handlers, asks[h].at = "execute"
            PROVE  asks[h].read \in Times /\ asks[h].read <= now'
        <4>1. asks[h].read \in Times /\ asks[h].read <= now
          BY <3>1 DEF AskOK, WindowInv
        <4> QED
          BY <2>1, <4>1 DEF Times
      <3>2. asks' = asks
        BY <1>1 DEF limitVars
      <3> QED
        BY <3>1, <3>2 DEF AskOK
    <2> QED
      BY <1>1, <2>1, <2>2, <2>3 DEF WindowInv, limitVars
  <1>2. ASSUME NEW h \in Handlers, UNCHANGED now,
               \/ \E checks : Ask(h, checks)
               \/ AskNext(h) \/ Leave(h)
               \/ /\ asks' = [asks EXCEPT ![h] = NotAsking]
                  /\ UNCHANGED <<marks, expires, passed, late, trimmed>>
        PROVE  WindowInv'
    <2>1. DOMAIN asks = Handlers
      BY DEF WindowInv
    <2>2. CASE \/ Leave(h)
               \/ /\ asks' = [asks EXCEPT ![h] = NotAsking]
                  /\ UNCHANGED <<marks, expires, passed, late, trimmed>>
      <3>1. /\ asks' = [asks EXCEPT ![h] = NotAsking]
            /\ UNCHANGED <<marks, expires, passed, late, trimmed>>
        BY <2>2 DEF Leave
      <3>2. /\ DOMAIN asks' = Handlers /\ \A o \in Handlers \ {h} : asks'[o] = asks[o]
            /\ asks'[h].at # "execute"
        BY <2>1, <3>1 DEF NotAsking
      <3> QED
        BY <1>2, <3>1, <3>2, AsksStep
    <2>3. CASE (\E checks : Ask(h, checks)) \/ AskNext(h)
      <3>1. PICK left : ReadsClock(h, left)
        BY <2>3 DEF Ask, AskNext
      <3>2. /\ DOMAIN asks' = Handlers /\ \A o \in Handlers \ {h} : asks'[o] = asks[o]
            /\ asks'[h].at = "execute" /\ asks'[h].read = now
            /\ UNCHANGED <<marks, expires, passed, late, trimmed>>
        BY <2>1, <3>1 DEF ReadsClock
      <3> QED
        BY <1>2, <3>2, AsksStep
    <2> QED
      BY <1>2, <2>2, <2>3
  <1>3. ASSUME NEW h \in Handlers, UNCHANGED now, Execute(h) \/ RedisFails(h)
        PROVE  WindowInv'
    BY <1>3, ExecuteStep
  <1>4. CASE UNCHANGED <<now, limitVars>>
    <2>1. \A k \in Keys : KeyInv(k)'
      BY <1>4 DEF WindowInv, KeyInv, WindowKept, WaitingChecks, TrimmedTo, Lapsed, WindowOf, limitVars
    <2> QED
      BY <1>4, <2>1 DEF WindowInv, AskOK, limitVars
  <1> QED
    BY <1>1, <1>2, <1>3, <1>4, ClockOrLimits

(* A window, wherever it starts, lets through more requests than its limit *)
(* only by those that were overtaken before Redis executed them, and never *)
(* by more than there are handlers: for any number of keys and handlers,   *)
(* any limits and any length of the window, while sets are trimmed, expire *)
(* and are marked by requests that are refused or that Redis fails.        *)
(* (rate_limit.py, _allow)                                                 *)
THEOREM WindowsAreBounded == Spec => []WindowBound
  <1>1. Init => WindowInv
    <2> SUFFICES ASSUME Init
                 PROVE  WindowInv
      OBVIOUS
    <2>1. /\ now = 0 /\ marks = [k \in Keys |-> NoMarks] /\ passed = [k \in Keys |-> NoMarks]
          /\ late = [k \in Keys |-> NoMarks] /\ expires = [k \in Keys |-> 0]
          /\ trimmed = [k \in Keys |-> 0] /\ asks = [h \in Handlers |-> NotAsking]
      BY DEF Init, ThrottleInit
    <2>2. Times \subseteq Nat /\ IsFiniteSet(Times) /\ 0 \in Times /\ Window \in Nat \ {0}
      BY ThrottleAssumption, FS_Interval DEF Times
    <2>3. ASSUME NEW k \in Keys
          PROVE  KeyInv(k)
      <3>1. /\ marks[k] = NoMarks /\ passed[k] = NoMarks /\ late[k] = NoMarks
            /\ expires[k] = 0 /\ trimmed[k] = 0
        BY <2>1
      <3>2. NoMarks \in [Times -> Nat] /\ \A u \in Times : NoMarks[u] = 0
        BY DEF NoMarks
      <3>3. TrimmedTo(k) = 0
        BY <2>1, <3>1, LaterOf DEF TrimmedTo
      <3>4. ASSUME NEW t \in Times
            PROVE  WindowKept(k, t)
        <4>1. WindowOf(t) \in SUBSET Times /\ IsFiniteSet(WindowOf(t)) /\ t \in Nat
          BY <2>2, FS_Subset DEF WindowOf
        <4>2. Total(passed[k], WindowOf(t)) = 0 /\ Total(late[k], WindowOf(t)) = 0
          BY <3>1, <3>2, <4>1, TotalZero
        <4>3. Limit[k] \in Nat /\ ~ (TrimmedTo(k) > t)
          BY <3>3, <4>1, ThrottleAssumption
        <4> QED
          BY <4>2, <4>3 DEF WindowKept
      <3> QED
        BY <2>1, <2>2, <3>1, <3>2, <3>4 DEF KeyInv
    <2>4. \A h \in Handlers : AskOK(h)
      BY <2>1 DEF AskOK, NotAsking
    <2> QED
      BY <2>1, <2>2, <2>3, <2>4 DEF WindowInv
  <1>2. WindowInv => WindowBound
    <2> SUFFICES ASSUME WindowInv, NEW k \in Keys, NEW t \in Times
                 PROVE  /\ Total(passed[k], WindowOf(t)) <= Limit[k] + Total(late[k], WindowOf(t))
                        /\ Total(passed[k], WindowOf(t)) <= Limit[k] + Cardinality(Handlers)
      BY DEF WindowBound
    <2>1. KeyInv(k) /\ now \in Nat /\ t \in Nat
      BY DEF WindowInv, Times
    <2>2. WindowKept(k, t)
      BY <2>1 DEF KeyInv
    <2>3. /\ Total(passed[k], WindowOf(t)) \in Int /\ Limit[k] \in Nat
          /\ Cardinality(WaitingChecks(k, t)) \in Nat /\ Cardinality(Handlers) \in Nat
      BY <2>1, WindowTypes
    <2>4. TrimmedTo(k) \in Nat
      BY <2>1, TrimmedIsTime
    <2> QED
      BY <2>1, <2>2, <2>3, <2>4 DEF WindowKept
  <1> QED
    BY <1>1, <1>2, WindowStep, PTL DEF Spec

-----------------------------------------------------------------------------
(* What a step does to debits, images and answers: a transaction is undone *)
(* or committed, an image is drawn, an answer paid, a chat loses its       *)
(* images, images are erased or swept, time passes.                        *)
Undoes(h) ==
    /\ debits' = Without(h, debits) /\ images' = Without(h, images)
    /\ UNCHANGED <<now, sold, erased, answered>>

Draws(h) ==
    /\ job[h].pc = "tools" /\ WalletFree(h) /\ Balance(h) >= ImageCost
    /\ \E c, s : /\ c = job[h].call
                 /\ debits' = debits \union
                       {[key |-> ImageKey(c), amount |-> ImageCost, by |-> h]}
                 /\ images' = images \union {ImageRow(h, s, c)}
    /\ UNCHANGED <<now, sold, erased, answered>>

Seals(h) ==
    /\ debits' = Sealed(h, debits) /\ images' = Sealed(h, images)
    /\ sold' = sold \union
          {[call |-> i.call, expires |-> i.expires] : i \in OpenRows(h, images)}
    /\ UNCHANGED <<now, erased, answered>>

Pays(h) ==
    /\ job[h].pc = "llm"
    /\ job[h].plan = "debit" => WalletFree(h) /\ Payable(h)
    /\ ChargeAnswer(h)
    /\ answered' = answered \union
          {[turn |-> job[h].turn, plan |-> job[h].plan, round |-> job[h].round,
            first |-> job[h].first]}
    /\ UNCHANGED <<now, images, sold, erased>>

Loses(s) ==
    /\ images' = {[i EXCEPT !.session = IF @ = s THEN NoSession ELSE @] : i \in images}
    /\ UNCHANGED <<now, debits, sold, erased, answered>>

Sheds ==
    /\ FetchImages \/ \E i \in images : DeleteImage(i)
    /\ UNCHANGED <<now, answered>>

Ages == Tick /\ UNCHANGED <<debits, images, sold, erased, answered>>

(* Every step is one of these, or does not touch what is paid.             *)
LEMMA SalesStep ==
  ASSUME [Next]_serviceVars
  PROVE  \/ \E h \in Handlers : Undoes(h) \/ Draws(h) \/ Seals(h) \/ Pays(h)
         \/ \E s \in Sessions : Loses(s)
         \/ Sheds
         \/ Ages
         \/ UNCHANGED <<now, debits, images, sold, erased, answered>>
  <1>1. CASE Next
    <2>1. ASSUME NEW h \in Handlers, Arrival(h)
          PROVE  UNCHANGED <<now, debits, images, sold, erased, answered>>
      <3>1. CASE ChatRun(h)
        BY <3>1 DEF ChatRun, ChatArrives, Arrives, Resume, Open, saleVars
      <3>2. CASE ChatTemporary(h) \/ ChatEdit(h) \/ ChatToolResult(h)
        BY <3>2 DEF ChatTemporary, ChatEdit, ChatToolResult, ChatArrives, Arrives,
           RunTemporary, EditMessage, ToolResult, saleVars, chatVars
      <3>3. CASE UploadFile(h)
        BY <3>3 DEF UploadFile, Arrives, saleVars, chatVars
      <3> QED
        BY <2>1, <3>1, <3>2, <3>3 DEF Arrival
    <2>2. ASSUME NEW h \in Handlers, Works(h)
          PROVE  \/ Undoes(h) \/ Draws(h) \/ Seals(h) \/ Pays(h)
                 \/ UNCHANGED <<now, debits, images, sold, erased, answered>>
      <3>1. UNCHANGED now
        BY <2>2 DEF Works
      <3>2. ASSUME Rollback(h) PROVE Undoes(h)
        BY <3>1, <3>2 DEF Rollback, Undoes
      <3>3. CASE Abort(h) \/ StoreFails(h) \/ ImageUnpaid(h) \/ WriteFails(h)
                 \/ FinalizeUnpaid(h) \/ DeadlockVictim(h)
        BY <3>2, <3>3 DEF Abort, StoreFails, ImageUnpaid, WriteFails, FinalizeUnpaid,
           DeadlockVictim
      <3>4. CASE StoreImage(h)
        BY <3>1, <3>4 DEF StoreImage, StoreResult, AtTool, ChargeImage, Draws
      <3>5. CASE CommitRound(h)
        BY <3>1, <3>5 DEF CommitRound, Seals
      <3>6. CASE Finalize(h)
        BY <3>1, <3>6 DEF Finalize, Pays
      <3>7. CASE UploadStep(h)
        BY <3>1, <3>7 DEF UploadStep, saleVars, chatVars
      <3>8. CASE FindCalls(h) \/ CutCalls(h) \/ FindSteps(h) \/ CutSteps(h)
                 \/ ApplyResult(h)
        BY <3>1, <3>8 DEF FindCalls, CutCalls, FindSteps, CutSteps, ApplyResult, saleVars,
           chatVars
      <3>9. CASE \E blocks \in world.rounds : StartRound(h, blocks)
        BY <3>1, <3>9 DEF StartRound, saleVars
      <3>10. CASE RunTool(h) \/ ImageRefused(h) \/ CheckSite(h) \/ WriteSite(h)
                  \/ DeleteSite(h) \/ LeaveToClient(h) \/ Truncate(h)
        BY <3>1, <3>10 DEF RunTool, ImageRefused, CheckSite, WriteSite, DeleteSite,
           LeaveToClient, Truncate, StoreResult, saleVars, chatVars
      <3> QED
        BY <2>2, <3>3, <3>4, <3>5, <3>6, <3>7, <3>8, <3>9, <3>10 DEF Works, ChatStep
    <2>3. ASSUME NEW h \in Handlers, AskLimits(h) \/ LimitStep(h)
          PROVE  UNCHANGED <<now, debits, images, sold, erased, answered>>
      BY <2>3 DEF AskLimits, LimitStep, saleVars, chatVars
    <2>4. CASE ManageChats
      <3>1. ASSUME NEW s \in Sessions, DeleteChat(s), UNCHANGED now
            PROVE  Loses(s)
        BY <3>1 DEF DeleteChat, Loses
      <3>2. ASSUME NEW s \in Sessions, NEW w, UpdateMetadata(s, w), UNCHANGED now
            PROVE  UNCHANGED <<now, debits, images, sold, erased, answered>>
        BY <3>2 DEF UpdateMetadata, saleVars
      <3> QED
        BY <2>4, <3>1, <3>2 DEF ManageChats, Arrives
    <2>5. CASE ManageImages
      BY <2>5 DEF ManageImages, Arrives, Sheds, chatVars
    <2>6. CASE ManageWorkspaces
      BY <2>6 DEF ManageWorkspaces, Arrives, saleVars
    <2>7. CASE TimePasses
      BY <2>7 DEF TimePasses, Ages, saleVars, chatVars
    <2> QED
      BY <1>1, <2>1, <2>2, <2>3, <2>4, <2>5, <2>6, <2>7 DEF Next
  <1>2. CASE UNCHANGED serviceVars
    BY <1>2 DEF serviceVars, vars, saleVars, chatVars
  <1> QED
    BY <1>1, <1>2

-----------------------------------------------------------------------------
(* The debits and the images.  An image that is drawn and its debit belong *)
(* to the same open transaction, so that both are kept or neither is.      *)
DebitOK(d) ==
    \/ \E t : d = [key |-> TurnKey(t), amount |-> 1, by |-> Nobody]
    \/ \E c, h : /\ d = [key |-> ImageKey(c), amount |-> ImageCost, by |-> h]
                 /\ h \in Handlers \union {Nobody}

ImageOK(i) ==
    /\ DOMAIN i = {"call", "session", "by", "expires"}
    /\ i.by \in Handlers \union {Nobody}
    /\ i.expires \in Int

PaidFor(i) ==
    \E d \in debits : d.key = ImageKey(i.call) /\ d.amount = ImageCost /\ d.by = i.by

Delivered(d) ==
    IF d.by = Nobody THEN \E s \in sold : s.call = d.key.id
    ELSE \E i \in images : i.call = d.key.id /\ i.by = d.by

Kept(s) ==
    \/ s.call \in erased
    \/ Expired(s)
    \/ \E i \in Committed(images) : i.call = s.call /\ i.expires = s.expires

SalesInv ==
    /\ now \in Nat
    /\ \A d \in debits : DebitOK(d) /\ (d.key.of = "image" => Delivered(d))
    /\ \A i \in images : ImageOK(i) /\ PaidFor(i)
    /\ \A s \in sold : s.expires \in Int /\ Kept(s)

(* A rollback drops the image together with its debit: both carry the      *)
(* handler that drew them.                                                 *)
LEMMA UndoKeepsSales ==
  ASSUME SalesInv, NEW h \in Handlers, Undoes(h)
  PROVE  SalesInv'
  <1>1. h # Nobody
    BY ImagesAssumption
  <1>2. \A d : d \in debits' <=> d \in debits /\ d.by # h
    BY DEF Undoes, Without
  <1>3. \A i : i \in images' <=> i \in images /\ i.by # h
    BY DEF Undoes, Without
  <1>4. \A d \in debits : d.by # h /\ Delivered(d) => Delivered(d)'
    BY <1>3 DEF Delivered, Undoes
  <1>5. \A i \in images : i.by # h /\ PaidFor(i) => PaidFor(i)'
    BY <1>2 DEF PaidFor
  <1>6. \A s : Expired(s) => Expired(s)'
    BY DEF Undoes, Expired
  <1>7. \A s \in sold : Kept(s) => Kept(s)'
    BY <1>1, <1>3, <1>6 DEF Undoes, Kept, Committed
  <1> QED
    BY <1>2, <1>3, <1>4, <1>5, <1>7 DEF SalesInv, Undoes

(* An image enters with the debit that pays for it, in one transaction.    *)
LEMMA DrawingKeepsSales ==
  ASSUME SalesInv, NEW h \in Handlers, Draws(h)
  PROVE  SalesInv'
  <1>1. h # Nobody /\ ImageTtl \in Nat
    BY ImagesAssumption
  <1>2. PICK c, s : /\ debits' = debits \union
                          {[key |-> ImageKey(c), amount |-> ImageCost, by |-> h]}
                    /\ images' = images \union {ImageRow(h, s, c)}
    BY DEF Draws
  <1> DEFINE debit == [key |-> ImageKey(c), amount |-> ImageCost, by |-> h]
  <1>3. PICK image : image = ImageRow(h, s, c)
    OBVIOUS
  <1>4. /\ image.call = c /\ image.by = h
        /\ ImageOK(image) /\ PaidFor(image)'
    <2>1. image.call = c /\ image.by = h /\ ImageOK(image)
      BY <1>1, <1>3 DEF ImageRow, ImageOK, Unlimited, SalesInv
    <2>2. debit \in debits'
      BY <1>2
    <2>3. /\ debit.key = ImageKey(image.call) /\ debit.amount = ImageCost
          /\ debit.by = image.by
      BY <2>1
    <2>4. PaidFor(image)'
      BY <2>2, <2>3 DEF PaidFor
    <2> QED
      BY <2>1, <2>4
  <1>5. DebitOK(debit)
    BY DEF DebitOK
  <1>6. Delivered(debit)'
    BY <1>1, <1>2, <1>3, <1>4 DEF Delivered, ImageKey
  <1>7. \A d : Delivered(d) => Delivered(d)'
    BY <1>2 DEF Delivered, Draws
  <1>8. \A i : PaidFor(i) => PaidFor(i)'
    BY <1>2 DEF PaidFor
  <1>9. \A x : Kept(x) => Kept(x)'
    BY <1>2 DEF Kept, Draws, Committed, Expired
  <1> QED
    BY <1>2, <1>3, <1>4, <1>5, <1>6, <1>7, <1>8, <1>9 DEF SalesInv, Draws, ImageOK

(* A commit seals every row of the transaction.                            *)
LEMMA CommitKeepsSales ==
  ASSUME SalesInv, NEW h \in Handlers, Seals(h)
  PROVE  SalesInv'
  <1>1. h # Nobody
    BY ImagesAssumption
  <1> DEFINE Seal(row) == [row EXCEPT !.by = IF @ = h THEN Nobody ELSE @]
  <1>2. debits' = {Seal(d) : d \in debits} /\ images' = {Seal(i) : i \in images}
    BY DEF Seals, Sealed
  <1>3. \A d \in debits : /\ DebitOK(Seal(d))
                          /\ Seal(d).key = d.key /\ Seal(d).amount = d.amount
                          /\ Seal(d).by = IF d.by = h THEN Nobody ELSE d.by
    BY DEF SalesInv, DebitOK
  <1>4. \A i \in images : /\ ImageOK(Seal(i))
                          /\ Seal(i).call = i.call /\ Seal(i).expires = i.expires
                          /\ Seal(i).by = IF i.by = h THEN Nobody ELSE i.by
    BY DEF SalesInv, ImageOK
  <1>5. ASSUME NEW i \in images PROVE PaidFor(Seal(i))'
    <2>1. PICK d \in debits : d.key = ImageKey(i.call) /\ d.amount = ImageCost /\ d.by = i.by
      BY DEF SalesInv, PaidFor
    <2>2. Seal(d) \in debits'
      BY <1>2
    <2>3. /\ Seal(d).key = ImageKey(Seal(i).call) /\ Seal(d).amount = ImageCost
          /\ Seal(d).by = Seal(i).by
      BY <1>3, <1>4, <2>1
    <2> QED
      BY <2>2, <2>3 DEF PaidFor
  <1>6. ASSUME NEW d \in debits, d.key.of = "image" PROVE Delivered(Seal(d))'
    <2>1. Delivered(d)
      BY <1>6 DEF SalesInv
    <2>2. CASE d.by = Nobody
      BY <1>1, <1>3, <2>1, <2>2 DEF Delivered, Seals
    <2>3. CASE d.by = h
      <3>1. PICK i \in images : i.call = d.key.id /\ i.by = h
        BY <1>1, <2>1, <2>3 DEF Delivered
      <3>2. i \in OpenRows(h, images)
        BY <3>1 DEF OpenRows, Without
      <3>3. [call |-> i.call, expires |-> i.expires] \in sold'
        BY <3>2 DEF Seals
      <3>4. \E x \in sold' : x.call = d.key.id
        BY <3>1, <3>3
      <3> QED
        BY <1>3, <2>3, <3>4 DEF Delivered
    <2>4. CASE d.by # Nobody /\ d.by # h
      <3>1. PICK i \in images : i.call = d.key.id /\ i.by = d.by
        BY <2>1, <2>4 DEF Delivered
      <3>2. Seal(i) \in images' /\ Seal(i).call = Seal(d).key.id /\ Seal(i).by = Seal(d).by
        BY <1>2, <1>3, <1>4, <3>1
      <3>3. Seal(d).by # Nobody
        BY <1>3, <2>4
      <3> QED
        BY <3>2, <3>3 DEF Delivered
    <2> QED
      BY <2>2, <2>3, <2>4
  <1>7. ASSUME NEW x \in sold PROVE Kept(x)'
    <2>1. Kept(x)
      BY DEF SalesInv
    <2>2. CASE x.call \in erased \/ Expired(x)
      BY <2>2 DEF Kept, Expired, Seals
    <2>3. CASE \E i \in Committed(images) : i.call = x.call /\ i.expires = x.expires
      <3>1. PICK i \in images : i.by = Nobody /\ i.call = x.call /\ i.expires = x.expires
        BY <2>3 DEF Committed
      <3>2. Seal(i) \in images' /\ Seal(i).by = Nobody
        BY <1>1, <1>2, <1>4, <3>1
      <3> QED
        BY <1>4, <3>1, <3>2 DEF Kept, Committed
    <2> QED
      BY <2>1, <2>2, <2>3 DEF Kept
  <1>8. ASSUME NEW i \in images, i.by = h
        PROVE  /\ i.expires \in Int
               /\ Kept([call |-> i.call, expires |-> i.expires])'
    <2>1. Seal(i) \in images' /\ Seal(i).by = Nobody
      BY <1>2, <1>4, <1>8
    <2>2. /\ i.expires \in Int
          /\ Seal(i) \in Committed(images)'
          /\ Seal(i).call = i.call /\ Seal(i).expires = i.expires
      BY <1>4, <2>1 DEF Committed, SalesInv, ImageOK
    <2> QED
      BY <2>2 DEF Kept
  <1>9. \A x \in sold' : x.expires \in Int /\ Kept(x)'
    <2>1. ASSUME NEW x \in sold', x \notin sold
          PROVE  \E i \in images : i.by = h /\ x = [call |-> i.call, expires |-> i.expires]
      BY <2>1 DEF Seals, OpenRows, Without
    <2> QED
      BY <1>7, <1>8, <2>1 DEF SalesInv
  <1>10. \A d \in debits' : DebitOK(d)' /\ (d.key.of = "image" => Delivered(d)')
    <2> SUFFICES ASSUME NEW d \in debits
                 PROVE  /\ DebitOK(Seal(d))
                        /\ Seal(d).key.of = "image" => Delivered(Seal(d))'
      BY <1>2 DEF DebitOK
    <2> QED
      BY <1>3, <1>6
  <1>11. \A i \in images' : ImageOK(i)' /\ PaidFor(i)'
    BY <1>2, <1>4, <1>5 DEF ImageOK
  <1> QED
    BY <1>9, <1>10, <1>11 DEF SalesInv, Seals

(* Paying an answer touches no image, and its debit has a key of its own.  *)
LEMMA PaymentKeepsSales ==
  ASSUME SalesInv, NEW h \in Handlers, Pays(h)
  PROVE  SalesInv'
  <1> DEFINE debit == [key |-> TurnKey(job[h].turn), amount |-> 1, by |-> Nobody]
  <1>1. debits' = debits \/ debits' = debits \union {debit}
    BY DEF Pays, ChargeAnswer
  <1>2. DebitOK(debit) /\ debit.key.of # "image"
    BY DEF DebitOK, TurnKey
  <1>3. \A d : Delivered(d) => Delivered(d)'
    BY DEF Delivered, Pays
  <1>4. \A i : PaidFor(i) => PaidFor(i)'
    BY <1>1 DEF PaidFor
  <1>5. \A x : Kept(x) => Kept(x)'
    BY DEF Kept, Pays, Committed, Expired
  <1> QED
    BY <1>1, <1>2, <1>3, <1>4, <1>5 DEF SalesInv, Pays

(* The images of a deleted chat stay, and belong to no chat.               *)
LEMMA LossKeepsSales ==
  ASSUME SalesInv, NEW s, Loses(s)
  PROVE  SalesInv'
  <1> DEFINE Moved(i) == [i EXCEPT !.session = IF @ = s THEN NoSession ELSE @]
  <1>1. images' = {Moved(i) : i \in images}
    BY DEF Loses
  <1>2. \A i \in images : /\ ImageOK(Moved(i))
                          /\ Moved(i).call = i.call /\ Moved(i).by = i.by
                          /\ Moved(i).expires = i.expires
    BY DEF SalesInv, ImageOK
  <1>3. \A i \in images : PaidFor(Moved(i))'
    BY <1>2 DEF SalesInv, PaidFor, Loses
  <1>4. \A d : Delivered(d) => Delivered(d)'
    <2> SUFFICES ASSUME NEW d, Delivered(d) PROVE Delivered(d)'
      OBVIOUS
    <2>1. CASE d.by = Nobody
      BY <2>1 DEF Delivered, Loses
    <2>2. CASE d.by # Nobody
      <3>1. PICK i \in images : i.call = d.key.id /\ i.by = d.by
        BY <2>2 DEF Delivered
      <3>2. Moved(i) \in images' /\ Moved(i).call = d.key.id /\ Moved(i).by = d.by
        BY <1>1, <1>2, <3>1
      <3> QED
        BY <2>2, <3>2 DEF Delivered
    <2> QED
      BY <2>1, <2>2
  <1>5. \A x : Kept(x) => Kept(x)'
    <2> SUFFICES ASSUME NEW x, Kept(x) PROVE Kept(x)'
      OBVIOUS
    <2>1. CASE x.call \in erased \/ Expired(x)
      BY <2>1 DEF Kept, Expired, Loses
    <2>2. CASE \E i \in Committed(images) : i.call = x.call /\ i.expires = x.expires
      <3>1. PICK i \in images : i.by = Nobody /\ i.call = x.call /\ i.expires = x.expires
        BY <2>2 DEF Committed
      <3>2. /\ Moved(i) \in Committed(images)'
            /\ Moved(i).call = x.call /\ Moved(i).expires = x.expires
        BY <1>1, <1>2, <3>1 DEF Committed
      <3> QED
        BY <3>2 DEF Kept
    <2> QED
      BY <2>1, <2>2 DEF Kept
  <1> QED
    BY <1>1, <1>2, <1>3, <1>4, <1>5 DEF SalesInv, Loses, ImageOK

(* A sweep takes expired images only, the owner the one that is erased.    *)
LEMMA SheddingKeepsSales ==
  ASSUME SalesInv, Sheds
  PROVE  SalesInv'
  <1>1. ASSUME NEW left, Sweeps(left)
        PROVE  /\ left \subseteq images
               /\ \A i \in images : i \notin left => i.by = Nobody /\ Expired(i)
    BY <1>1 DEF Sweeps, Sweepable, kSubset, Committed
  <1>2. /\ images' \subseteq images
        /\ UNCHANGED <<now, debits, sold, answered>>
        /\ erased \subseteq erased'
        /\ \A i \in images : i \notin images' =>
              i.by = Nobody /\ (Expired(i) \/ i.call \in erased')
    BY <1>1 DEF Sheds, FetchImages, DeleteImage, Committed
  <1>3. \A d \in debits : Delivered(d) => Delivered(d)'
    BY <1>2 DEF Delivered
  <1>4. \A i : PaidFor(i) => PaidFor(i)'
    BY <1>2 DEF PaidFor
  <1>5. \A x : Kept(x) => Kept(x)'
    <2> SUFFICES ASSUME NEW x, Kept(x) PROVE Kept(x)'
      OBVIOUS
    <2>1. CASE x.call \in erased \/ Expired(x)
      BY <1>2, <2>1 DEF Kept, Expired
    <2>2. CASE \E i \in Committed(images) : i.call = x.call /\ i.expires = x.expires
      <3>1. PICK i \in images : i.by = Nobody /\ i.call = x.call /\ i.expires = x.expires
        BY <2>2 DEF Committed
      <3>2. CASE i \in images'
        BY <3>1, <3>2 DEF Kept, Committed
      <3>3. CASE i \notin images'
        BY <1>2, <3>1, <3>3 DEF Kept, Expired
      <3> QED
        BY <3>2, <3>3
    <2> QED
      BY <2>1, <2>2 DEF Kept
  <1> QED
    BY <1>2, <1>3, <1>4, <1>5 DEF SalesInv, ImageOK

(* Time expires images and brings none back.                               *)
LEMMA TimeKeepsSales ==
  ASSUME SalesInv, Ages
  PROVE  SalesInv'
  <1>1. now' = now + 1 /\ now \in Nat
    BY DEF Ages, Tick, SalesInv
  <1>2. \A d : Delivered(d) => Delivered(d)'
    BY DEF Delivered, Ages
  <1>3. \A i : PaidFor(i) => PaidFor(i)'
    BY DEF PaidFor, Ages
  <1>4. \A x : x.expires \in Int /\ Expired(x) => Expired(x)'
    BY <1>1 DEF Expired, Unlimited
  <1>5. \A x \in sold : x.expires \in Int /\ Kept(x) => Kept(x)'
    BY <1>4 DEF Kept, Ages, Committed
  <1> QED
    BY <1>1, <1>2, <1>3, <1>5 DEF SalesInv, Ages

(* Every step keeps images and their debits together.                      *)
LEMMA SalesKept ==
  ASSUME SalesInv, [Next]_serviceVars
  PROVE  SalesInv'
  <1>1. CASE UNCHANGED <<now, debits, images, sold, erased, answered>>
    BY <1>1 DEF SalesInv, Delivered, PaidFor, Kept, Expired, Committed
  <1> QED
    BY <1>1, SalesStep, UndoKeepsSales, DrawingKeepsSales, CommitKeepsSales,
       PaymentKeepsSales, LossKeepsSales, SheddingKeepsSales, TimeKeepsSales

(* Every image a user has was paid for, and what was paid for is there     *)
(* until its owner erases it or its time is over: however rounds are       *)
(* committed, rolled back or aborted, and chats deleted and images swept   *)
(* meanwhile.  (orchestrator.py _execute_image_generate_tool,              *)
(* image_sweep.py)                                                         *)
THEOREM ImagesArePaidAndKept == Spec => []ImagesPaidAndKept
  <1>1. Init => SalesInv
    BY DEF Init, ThrottleInit, ImagesInit, SalesInv
  <1>2. SalesInv => ImagesPaidAndKept
    <2> SUFFICES ASSUME SalesInv PROVE ImagesPaidAndKept
      OBVIOUS
    <2>1. \A image \in Committed(images) :
             \E d \in Committed(debits) :
                d.key = ImageKey(image.call) /\ d.amount = ImageCost
      BY DEF SalesInv, PaidFor, Committed
    <2>2. \A d \in Committed(debits) :
             d.key.of = "image" => \E s \in sold : s.call = d.key.id
      BY DEF SalesInv, Delivered, Committed
    <2>3. \A s \in sold : \/ s.call \in erased
                          \/ Expired(s)
                          \/ \E image \in Committed(images) : image.call = s.call
      BY DEF SalesInv, Kept
    <2> QED
      BY <2>1, <2>2, <2>3 DEF ImagesPaidAndKept
  <1> QED
    BY <1>1, <1>2, SalesKept, PTL DEF Spec

-----------------------------------------------------------------------------
(* A turn has a debit exactly when it has an answer that charges.          *)
Answered(t) == \E a \in answered : a.turn = t /\ a.plan = "debit"

ChargeInv == \A t : Debited(TurnKey(t)) <=> Answered(t)

(* A turn is debited exactly when it was answered on the plan that pays,   *)
(* in every step.                                                          *)
LEMMA ChargesKept ==
  ASSUME SalesInv, ChargeInv, [Next]_serviceVars
  PROVE  ChargeInv'
  <1>1. \A d \in debits : DebitOK(d)
    BY DEF SalesInv
  <1>2. \A h \in Handlers : h # Nobody
    BY ImagesAssumption
  <1>3. ASSUME UNCHANGED answered, \A t : Debited(TurnKey(t))' <=> Debited(TurnKey(t))
        PROVE  ChargeInv'
    BY <1>3 DEF ChargeInv, Answered
  <1>4. ASSUME NEW h \in Handlers, Undoes(h)
        PROVE  ChargeInv'
    <2>1. \A t : Debited(TurnKey(t))' <=> Debited(TurnKey(t))
      <3> SUFFICES ASSUME NEW t, Debited(TurnKey(t)) PROVE Debited(TurnKey(t))'
        BY <1>4 DEF Undoes, Without, Debited
      <3>1. PICK d \in debits : d.key = TurnKey(t)
        BY DEF Debited
      <3>2. d.by # h
        BY <1>1, <1>2, <3>1 DEF DebitOK, TurnKey, ImageKey
      <3> QED
        BY <1>4, <3>1, <3>2 DEF Undoes, Without, Debited
    <2> QED
      BY <1>3, <1>4, <2>1 DEF Undoes
  <1>5. ASSUME NEW h \in Handlers, Draws(h)
        PROVE  ChargeInv'
    <2>1. \A t, c : TurnKey(t) # ImageKey(c)
      BY DEF TurnKey, ImageKey
    <2>2. \A t : Debited(TurnKey(t))' <=> Debited(TurnKey(t))
      BY <1>5, <2>1 DEF Draws, Debited
    <2> QED
      BY <1>3, <1>5, <2>2 DEF Draws
  <1>6. ASSUME NEW h \in Handlers, Seals(h)
        PROVE  ChargeInv'
    <2> DEFINE Seal(row) == [row EXCEPT !.by = IF @ = h THEN Nobody ELSE @]
    <2>1. \A d \in debits : Seal(d).key = d.key
      BY <1>1 DEF DebitOK
    <2>2. debits' = {Seal(d) : d \in debits}
      BY <1>6 DEF Seals, Sealed
    <2>3. \A t : Debited(TurnKey(t))' <=> Debited(TurnKey(t))
      <3> HIDE DEF Seal
      <3> QED
        BY <2>1, <2>2 DEF Debited
    <2> QED
      BY <1>3, <1>6, <2>3 DEF Seals
  <1>7. ASSUME NEW h \in Handlers, Pays(h)
        PROVE  ChargeInv'
    <2> DEFINE u == job[h].turn
               charged == job[h].plan = "debit"
    <2> DEFINE debit == [key |-> TurnKey(u), amount |-> 1, by |-> Nobody]
               answer == [turn |-> u, plan |-> job[h].plan, round |-> job[h].round,
                          first |-> job[h].first]
    <2>1. \A t : TurnKey(t) = TurnKey(u) <=> t = u
      BY DEF TurnKey
    <2>2. \A t : Debited(TurnKey(t))' <=> Debited(TurnKey(t)) \/ (charged /\ t = u)
      <3>1. CASE charged /\ ~Debited(TurnKey(u))
        <4>1. debits' = debits \union {debit} /\ debit.key = TurnKey(u)
          BY <1>7, <3>1 DEF Pays, ChargeAnswer
        <4> QED
          BY <2>1, <3>1, <4>1 DEF Debited
      <3>2. CASE ~ (charged /\ ~Debited(TurnKey(u)))
        <4>1. debits' = debits
          BY <1>7, <3>2 DEF Pays, ChargeAnswer
        <4> QED
          BY <3>2, <4>1 DEF Debited
      <3> QED
        BY <3>1, <3>2
    <2>3. \A t : Answered(t)' <=> Answered(t) \/ (charged /\ t = u)
      <3>1. answered' = answered \union {answer}
        BY <1>7 DEF Pays
      <3>2. answer.turn = u /\ (answer.plan = "debit" <=> charged)
        OBVIOUS
      <3> HIDE DEF answer, u, charged
      <3> QED
        BY <3>1, <3>2 DEF Answered
    <2> QED
      BY <2>2, <2>3 DEF ChargeInv
  <1>8. CASE \/ \E s \in Sessions : Loses(s)
             \/ Sheds
             \/ Ages
             \/ UNCHANGED <<now, debits, images, sold, erased, answered>>
    <2>1. UNCHANGED <<debits, answered>>
      BY <1>8 DEF Loses, Sheds, Ages, FetchImages, DeleteImage
    <2> QED
      BY <2>1 DEF ChargeInv, Debited, Answered
  <1> QED
    BY <1>4, <1>5, <1>6, <1>7, <1>8, SalesStep

(* A turn is charged exactly when it was answered under a plan that        *)
(* charges, for any number of turns, rounds and handlers.                  *)
(* (orchestrator.py _finalize_assistant)                                   *)
THEOREM AnswersAreCharged == Spec => []ChargedWhenAnswered
  <1>1. Init => SalesInv /\ ChargeInv
    BY DEF Init, ThrottleInit, ImagesInit, ChatsInit, SalesInv, ChargeInv, Debited,
       Answered
  <1>2. SalesInv /\ ChargeInv /\ [Next]_serviceVars => (SalesInv /\ ChargeInv)'
    BY SalesKept, ChargesKept
  <1>3. SalesInv /\ ChargeInv => ChargedWhenAnswered
    <2> SUFFICES ASSUME SalesInv, ChargeInv PROVE ChargedWhenAnswered
      OBVIOUS
    <2> DEFINE turns == {d \in debits : d.key.of = "turn" /\ d.amount = 1}
               charging == {a \in answered : a.plan = "debit"}
    <2>1. \A d \in turns : d.key = TurnKey(d.key.id)
      BY DEF SalesInv, DebitOK, TurnKey, ImageKey
    <2>2. \A d \in debits : \A t : d.key = TurnKey(t) => d \in turns /\ d.key.id = t
      BY DEF SalesInv, DebitOK, TurnKey, ImageKey
    <2>3. ASSUME NEW t
          PROVE  t \in {d.key.id : d \in turns} <=> Debited(TurnKey(t))
      <3>1. turns \subseteq debits
        OBVIOUS
      <3> HIDE DEF turns
      <3> QED
        BY <2>1, <2>2, <3>1 DEF Debited
    <2>4. ASSUME NEW t
          PROVE  t \in {a.turn : a \in charging} <=> Answered(t)
      BY DEF Answered
    <2>5. {d.key.id : d \in turns} = {a.turn : a \in charging}
      <3> HIDE DEF turns, charging
      <3> QED
        BY <2>3, <2>4 DEF ChargeInv
    <2> QED
      BY <2>5 DEF ChargedWhenAnswered
  <1> QED
    BY <1>1, <1>2, <1>3, PTL DEF Spec

-----------------------------------------------------------------------------
(* What the rows and the work in progress look like.                       *)
Positive == Nat \ {0}

Owners == Handlers \union {Nobody}

Chatted == Sessions \union {NoSession}

Kinds == {"user", "use", "tool", "final", "truncated"}

Plans == {"debit", "trial", "free"}

StepOK(x) ==
    /\ x \in [seq: Positive, session: Sessions, turn: Positive, kind: Kinds,
              uses: SUBSET Positive, by: Owners]
    /\ IsFiniteSet(x.uses)
    /\ x.kind = "tool" => x.uses # {}

CallOK(c) ==
    c \in [id: Positive, session: Sessions, turn: Positive, client: BOOLEAN,
           done: BOOLEAN, by: Owners]

AnswerOK(a) == a.turn \in Positive

UploadOK(j) == j \in [pc: {"total", "store"}, workspace: Workspaces, size: Nat]

EditOK(j) ==
    /\ j \in [pc: Truncating, session: Sessions, turn: Positive, call: {0},
              anchor: Positive, cut: SUBSET Positive, drop: SUBSET Positive]
    /\ IsFiniteSet(j.cut) /\ IsFiniteSet(j.drop)

ResultOK(j) ==
    j \in [pc: {"apply"}, session: Sessions, turn: Positive, call: Positive,
           wasDone: BOOLEAN]

AskingOK(j) ==
    j \in [pc: {"llm"}, session: Chatted, turn: Positive, call: {0}, round: Nat,
           plan: Plans, first: BOOLEAN]

RoundOK(j) ==
    /\ j \in [pc: {"tools", "write"}, session: Chatted, turn: Positive, call: Positive,
              round: Nat, plan: Plans, first: BOOLEAN, todo: Seq(Blocks),
              handsOff: BOOLEAN, row: {j.row}]
    /\ j.pc = "write" => j.todo # <<>> /\ Head(j.todo).tool = "write"
    /\ j.session = NoSession => \A i \in DOMAIN j.todo : j.todo[i].tool # "client"

JobOK(j) ==
    j = Idle \/ UploadOK(j) \/ EditOK(j) \/ ResultOK(j) \/ AskingOK(j) \/ RoundOK(j)

ImageShape(i) ==
    DOMAIN i = {"call", "session", "by", "expires"} /\ i.call \in Positive

SessionsOK ==
    sessions \in [Sessions -> [status: {"none", "live", "gone"}, updated: Times,
                               workspace: Workspaces \union {NoWorkspace},
                               hasProject: BOOLEAN]]

RowsInv ==
    /\ world \in Worlds
    /\ DOMAIN job = Handlers
    /\ \A h \in Handlers : JobOK(job[h])
    /\ IsFiniteSet(steps) /\ \A x \in steps : StepOK(x)
    /\ IsFiniteSet(calls) /\ \A c \in calls : CallOK(c)
    /\ IsFiniteSet(answered) /\ \A a \in answered : AnswerOK(a)
    /\ IsFiniteSet(images) /\ \A i \in images : ImageShape(i)
    /\ IsFiniteSet(sold) /\ \A s \in sold : s.call \in Positive

-----------------------------------------------------------------------------
(* The history of a chat.                                                  *)
Working(h) == job[h].pc \in {"tools", "write"}

(* The ids of the calls of the round that have no row yet.                 *)
Ahead(h) == job[h].call..(Reserved(h) - 1)

Uses(x) == x.kind = "use"

(* Open rows belong to the chat and the round their handler works on.      *)
OpenRowsOfRound ==
    \A row \in steps \union calls :
        row.by # Nobody => Working(row.by) /\ row.session = job[row.by].session

RowsLive == \A row \in steps \union calls : Live(row.session)

(* A round that asks for tools has its tool-use step.                      *)
RoundStarted ==
    \A h \in Handlers :
        Working(h) =>
            /\ \A y \in steps : Uses(y) /\ y.uses \intersect Ahead(h) # {} =>
                  y.session = job[h].session /\ y.turn = job[h].turn /\ y.by = h
            /\ ~IsTemporary(h) =>
                  \E y \in steps : Uses(y) /\ y.by = h /\ Ahead(h) \subseteq y.uses

(* No id is given twice.                                                   *)
IdsApart ==
    /\ \A x, y \in steps : x.seq = y.seq => x = y
    /\ \A c, d \in calls : c.id = d.id => c = d
    /\ \A h \in Handlers : Working(h) =>
          /\ \A c \in calls : c.id \notin Ahead(h)
          /\ \A o \in Others(h) :
                /\ job[o].pc = "apply" => job[o].call \notin Ahead(h)
                /\ Working(o) => Ahead(o) \intersect Ahead(h) = {}

(* A call belongs to the turn of its tool use.                             *)
CallsLinked ==
    \A c \in calls, y \in steps :
        Uses(y) /\ c.id \in y.uses =>
            y.session = c.session /\ y.turn = c.turn /\ y.by = c.by

CallsTied ==
    \A c \in calls : c.session \notin torn => \E y \in steps : Uses(y) /\ c.id \in y.uses

ResultsTied ==
    \A x \in steps : x.kind = "tool" /\ x.session \notin torn =>
        \E y \in steps : /\ Uses(y) /\ x.uses \subseteq y.uses /\ y.seq < x.seq
                         /\ y.session = x.session /\ y.by = x.by

(* The call a result is applied to is the one that was looked up.          *)
ResultsAimed ==
    \A h \in Handlers, c \in calls :
        job[h].pc = "apply" /\ c.id = job[h].call =>
            c.session = job[h].session /\ c.turn = job[h].turn

(* No id is asked for twice.                                               *)
UsesApart ==
    \A y, z \in steps : Uses(y) /\ Uses(z) /\ y.uses \intersect z.uses # {} => y = z

(* What an open truncation leaves of the calls is used before its anchor.  *)
CutsWhole ==
    \A h \in Handlers, c \in calls, y \in steps :
        /\ job[h].pc \in {"find", "cut"} /\ c.by = Nobody /\ c.session = job[h].session
        /\ c.session \notin torn /\ c.id \notin job[h].cut
        /\ Uses(y) /\ c.id \in y.uses
        => y.seq < job[h].anchor

(* The steps a truncation has found are committed, and with a tool use     *)
(* among them are its results and the calls that are deleted.              *)
DropsWhole(h) ==
    /\ \A x \in steps : x.seq \in job[h].drop => x.by = Nobody
    /\ \A c \in calls, y \in steps :
          /\ c.session \notin torn /\ c.id \notin job[h].cut
          /\ Uses(y) /\ c.id \in y.uses
          => y.seq \notin job[h].drop
    /\ \A x, y \in steps :
          /\ x.kind = "tool" /\ x.session \notin torn
          /\ Uses(y) /\ x.uses \subseteq y.uses /\ y.seq \in job[h].drop
          => x.seq \in job[h].drop

DropsInv == \A h \in Handlers : job[h].pc = "drop" => DropsWhole(h)

HistoryInv ==
    /\ OpenRowsOfRound
    /\ RowsLive
    /\ RoundStarted
    /\ IdsApart
    /\ CallsLinked
    /\ CallsTied
    /\ ResultsTied
    /\ ResultsAimed
    /\ UsesApart
    /\ CutsWhole
    /\ DropsInv

-----------------------------------------------------------------------------
(* The numbers and ids that are given next are fresh.                      *)
LEMMA FiniteRange ==
  ASSUME NEW S, IsFiniteSet(S), NEW f
  PROVE  IsFiniteSet({f[x] : x \in S})
  <1> DEFINE T == {f[x] : x \in S}
             g == [x \in S |-> f[x]]
  <1>1. g \in Surjection(S, T)
    BY DEF Surjection
  <1> QED
    BY <1>1, FS_Surjection

(* The numbers that the requests in progress refer to are finitely many.   *)
LEMMA AnchorsAreFinite ==
  ASSUME RowsInv, NEW H \in SUBSET Handlers, NEW f
  PROVE  IsFiniteSet({f[h] : h \in H})
  <1>1. IsFiniteSet(Handlers)
    BY ThrottleAssumption
  <1> QED
    BY <1>1, FS_Subset, FiniteRange

(* The number of the next row is above every row, those of open            *)
(* transactions included, and above every place an edit cuts at.           *)
LEMMA NextSeqIsFresh ==
  ASSUME RowsInv
  PROVE  /\ NextSeq \in Positive
         /\ \A x \in steps : x.seq < NextSeq
         /\ \A h \in Editing : job[h].anchor < NextSeq /\ NextSeq \notin job[h].drop
  <1> DEFINE A == {x.seq : x \in steps}
             B == {job[h].anchor : h \in Editing}
             D == {job[h].drop : h \in Editing}
             S == {0} \union A \union B \union (UNION D)
  <1>1. IsFiniteSet(A)
    <2> DEFINE f == [x \in steps |-> x.seq]
    <2>1. IsFiniteSet({f[x] : x \in steps}) /\ A = {f[x] : x \in steps}
      BY FiniteRange DEF RowsInv
    <2> QED
      BY <2>1
  <1>2. IsFiniteSet(B)
    <2> DEFINE f == [h \in Editing |-> job[h].anchor]
    <2>1. IsFiniteSet({f[h] : h \in Editing}) /\ B = {f[h] : h \in Editing}
      BY AnchorsAreFinite DEF Editing
    <2> QED
      BY <2>1
  <1>3. \A h \in Editing : EditOK(job[h])
    BY DEF RowsInv, JobOK, Editing, Truncating, Idle, UploadOK, ResultOK, AskingOK, RoundOK
  <1>4. IsFiniteSet(UNION D)
    <2> DEFINE f == [h \in Editing |-> job[h].drop]
    <2>1. IsFiniteSet({f[h] : h \in Editing}) /\ D = {f[h] : h \in Editing}
      BY AnchorsAreFinite DEF Editing
    <2>2. \A T \in D : IsFiniteSet(T)
      BY <1>3 DEF EditOK
    <2> QED
      BY <2>1, <2>2, FS_UNION
  <1>5. /\ A \subseteq Nat /\ B \subseteq Nat /\ UNION D \subseteq Nat
        /\ \A x \in steps : x.seq \in A
        /\ \A h \in Editing : job[h].anchor \in B
        /\ \A h \in Editing : \A n \in job[h].drop : n \in UNION D
    BY <1>3 DEF RowsInv, StepOK, EditOK, Positive
  <1>6. NextSeq = 1 + Max(S)
    BY DEF NextSeq
  <1> HIDE DEF A, B, D
  <1>7. IsFiniteSet(S)
    <2>1. IsFiniteSet({0}) /\ IsFiniteSet({0} \union A)
      BY <1>1, FS_Singleton, FS_Union
    <2>2. IsFiniteSet({0} \union A \union B)
      BY <1>2, <2>1, FS_Union
    <2> QED
      BY <1>4, <2>2, FS_Union
  <1>8. S \subseteq Nat /\ 0 \in S /\ A \subseteq S /\ B \subseteq S /\ UNION D \subseteq S
    <2>1. PICK E, Z : E = UNION D /\ Z = {0} \union A \union B \union E
      OBVIOUS
    <2>2. S = Z
      BY <2>1
    <2> HIDE DEF S
    <2>3. E \subseteq Nat
      BY <1>5, <2>1
    <2>4. Z \subseteq Nat
      BY <1>5, <2>1, <2>3
    <2>5. 0 \in Z /\ A \subseteq Z /\ B \subseteq Z /\ E \subseteq Z
      BY <2>1
    <2> QED
      BY <2>1, <2>2, <2>4, <2>5
  <1> HIDE DEF S
  <1>9. Max(S) \in Nat /\ \A y \in S : y <= Max(S)
    <2>1. S \subseteq Int /\ S # {}
      BY <1>8
    <2>2. Max(S) \in S /\ \A y \in S : Max(S) >= y
      BY <1>7, <2>1, MaxIsGreatest
    <2> QED
      BY <1>8, <2>2
  <1>10. NextSeq \in Positive /\ \A y \in S : y \in Nat /\ y < NextSeq
    BY <1>6, <1>8, <1>9 DEF Positive
  <1>11. NextSeq \notin S
    BY <1>10
  <1>12. \A x \in steps : x.seq < NextSeq
    BY <1>5, <1>8, <1>10
  <1>13. \A h \in Editing : job[h].anchor < NextSeq
    BY <1>5, <1>8, <1>10
  <1>14. \A h \in Editing : NextSeq \notin job[h].drop
    BY <1>5, <1>8, <1>11
  <1> QED
    BY <1>10, <1>12, <1>13, <1>14

(* The next turn has a number.                                             *)
LEMMA NextTurnIsPositive ==
  ASSUME RowsInv
  PROVE  NextTurn \in Positive
  <1> DEFINE R == steps \union calls \union answered
             f == [x \in R |-> x.turn]
             g == [h \in Chatting |-> job[h].turn]
             S == {0} \union {x.turn : x \in steps \union calls \union answered}
                    \union {job[h].turn : h \in Chatting}
  <1>1. IsFiniteSet(R)
    BY FS_Union DEF RowsInv
  <1>2. IsFiniteSet({f[x] : x \in R}) /\ {x.turn : x \in R} = {f[x] : x \in R}
    BY <1>1, FiniteRange
  <1>3. /\ IsFiniteSet({g[h] : h \in Chatting})
        /\ {job[h].turn : h \in Chatting} = {g[h] : h \in Chatting}
    BY AnchorsAreFinite DEF Chatting
  <1>4. IsFiniteSet(S)
    BY <1>2, <1>3, FS_Singleton, FS_Union
  <1>5. \A h \in Chatting : job[h].turn \in Positive
    BY DEF RowsInv, JobOK, Chatting, AtWork, Truncating, Idle, UploadOK, EditOK, ResultOK,
       AskingOK, RoundOK
  <1>6. \A x \in R : x.turn \in Positive
    BY DEF RowsInv, StepOK, CallOK, AnswerOK
  <1>7. S \subseteq Nat /\ 0 \in S
    BY <1>5, <1>6 DEF Positive
  <1>8. Max(S) \in Nat
    <2> HIDE DEF S
    <2>1. S \subseteq Int /\ S # {}
      BY <1>7
    <2>2. Max(S) \in S
      BY <1>4, <2>1, MaxIsGreatest
    <2> QED
      BY <1>7, <2>2
  <1> QED
    BY <1>8 DEF NextTurn, Positive

(* The ids a request has taken for its round end where its blocks do.      *)
LEMMA ReservedIsNumber ==
  ASSUME RowsInv, NEW h \in Handlers, h \in Chatting
  PROVE  job[h].call \in Nat /\ Reserved(h) \in Nat /\ job[h].call <= Reserved(h)
  <1>1. job[h].call \in Nat /\ (Working(h) => job[h].todo \in Seq(Blocks))
    BY DEF RowsInv, JobOK, Chatting, AtWork, Truncating, Idle, UploadOK, EditOK, ResultOK,
       AskingOK, RoundOK, Positive, Working
  <1>2. Working(h) => Len(job[h].todo) \in Nat
    BY <1>1
  <1> QED
    BY <1>1, <1>2 DEF Reserved, Working

(* The next call id is above every use, every call and every id that a     *)
(* request still holds for its round.                                      *)
LEMMA NextCallIsFresh ==
  ASSUME RowsInv
  PROVE  /\ NextCall \in Positive
         /\ \A x \in steps : \A u \in x.uses : u < NextCall
         /\ \A c \in calls : c.id < NextCall
         /\ \A h \in Chatting : job[h].call < NextCall /\ Reserved(h) < NextCall
  <1> DEFINE A == UNION {x.uses : x \in steps}
             B == {x.id : x \in calls}
             C == {s.call : s \in sold}
             D == {Reserved(h) : h \in Chatting}
             E == UNION {job[h].cut : h \in Editing}
             S == {0} \union (UNION {x.uses : x \in steps}) \union {x.id : x \in calls}
                    \union {s.call : s \in sold} \union {Reserved(h) : h \in Chatting}
                    \union (UNION {job[h].cut : h \in Editing})
  <1>1. IsFiniteSet(A)
    <2> DEFINE f == [x \in steps |-> x.uses]
    <2>1. IsFiniteSet({f[x] : x \in steps}) /\ {x.uses : x \in steps} = {f[x] : x \in steps}
      BY FiniteRange DEF RowsInv
    <2>2. \A T \in {x.uses : x \in steps} : IsFiniteSet(T)
      BY DEF RowsInv, StepOK
    <2> QED
      BY <2>1, <2>2, FS_UNION
  <1>2. IsFiniteSet(B)
    <2> DEFINE f == [c \in calls |-> c.id]
    <2>1. IsFiniteSet({f[c] : c \in calls}) /\ B = {f[c] : c \in calls}
      BY FiniteRange DEF RowsInv
    <2> QED
      BY <2>1
  <1>3. IsFiniteSet(C)
    <2> DEFINE f == [s \in sold |-> s.call]
    <2>1. IsFiniteSet({f[s] : s \in sold}) /\ C = {f[s] : s \in sold}
      BY FiniteRange DEF RowsInv
    <2> QED
      BY <2>1
  <1>4. IsFiniteSet(D)
    <2> DEFINE f == [h \in Chatting |-> Reserved(h)]
    <2>1. IsFiniteSet({f[h] : h \in Chatting}) /\ D = {f[h] : h \in Chatting}
      BY AnchorsAreFinite DEF Chatting
    <2> QED
      BY <2>1
  <1>5. \A h \in Chatting :
           job[h].call \in Nat /\ Reserved(h) \in Nat /\ job[h].call <= Reserved(h)
    BY ReservedIsNumber DEF Chatting
  <1>6. A \subseteq Nat
    BY DEF RowsInv, StepOK, Positive
  <1>17. IsFiniteSet(E) /\ E \subseteq Nat
    <2>1. \A h \in Editing : EditOK(job[h])
      BY DEF RowsInv, JobOK, Editing, Truncating, Idle, UploadOK, ResultOK, AskingOK, RoundOK
    <2> DEFINE f == [h \in Editing |-> job[h].cut]
    <2>2. /\ IsFiniteSet({f[h] : h \in Editing})
          /\ {job[h].cut : h \in Editing} = {f[h] : h \in Editing}
      BY AnchorsAreFinite DEF Editing
    <2>3. \A T \in {job[h].cut : h \in Editing} : IsFiniteSet(T) /\ T \subseteq Nat
      BY <2>1 DEF EditOK, Positive
    <2>4. IsFiniteSet(E)
      BY <2>2, <2>3, FS_UNION
    <2> QED
      BY <2>3, <2>4
  <1>7. B \subseteq Nat /\ C \subseteq Nat
    BY DEF RowsInv, CallOK, Positive
  <1>8. D \subseteq Nat
    BY <1>5
  <1>9. /\ \A x \in steps : \A u \in x.uses : u \in A
        /\ \A c \in calls : c.id \in B
        /\ \A h \in Chatting : Reserved(h) \in D
    OBVIOUS
  <1>10. NextCall = 1 + Max(S)
    BY DEF NextCall
  <1>11. S = {0} \union A \union B \union C \union D \union E
    OBVIOUS
  <1> HIDE DEF A, B, C, D, E, S
  <1>12. S \subseteq Nat /\ S \subseteq Int /\ S # {} /\ IsFiniteSet(S)
    <2>1. IsFiniteSet({0}) /\ IsFiniteSet({0} \union A)
      BY <1>1, FS_Singleton, FS_Union
    <2>2. IsFiniteSet({0} \union A \union B)
      BY <1>2, <2>1, FS_Union
    <2>3. IsFiniteSet({0} \union A \union B \union C)
      BY <1>3, <2>2, FS_Union
    <2>4. IsFiniteSet({0} \union A \union B \union C \union D)
      BY <1>4, <2>3, FS_Union
    <2>5. IsFiniteSet(S)
      BY <1>11, <1>17, <2>4, FS_Union
    <2> QED
      BY <1>6, <1>7, <1>8, <1>11, <1>17, <2>5
  <1>13. Max(S) \in S /\ \A y \in S : Max(S) >= y
    BY <1>12, MaxIsGreatest
  <1>14. /\ NextCall \in Nat /\ NextCall \in Positive
         /\ \A y \in S : y \in Nat /\ y < NextCall
    <2>1. Max(S) \in Nat /\ \A y \in S : y \in Nat /\ Max(S) >= y
      BY <1>12, <1>13
    <2> QED
      BY <1>10, <2>1 DEF Positive
  <1>15. /\ \A y \in A : y < NextCall
         /\ \A y \in B : y < NextCall
         /\ \A y \in D : y < NextCall
    BY <1>14, <1>11
  <1>16. \A h \in Chatting : job[h].call < NextCall /\ Reserved(h) < NextCall
    <2>1. ASSUME NEW h \in Chatting PROVE Reserved(h) < NextCall
      BY <1>9, <1>15
    <2> QED
      BY <1>5, <1>14, <2>1
  <1> QED
    BY <1>9, <1>14, <1>15, <1>16

-----------------------------------------------------------------------------
(* What a step does to the chats: nothing, a request that touches no rows  *)
(* goes on, a website is resolved, a message or an answer is stored, an    *)
(* open transaction is undone, the result of a tool is stored; and the     *)
(* actions of Chats that are a kind of their own.                          *)
LiveStay == \A s \in Sessions : Live(s) => Live(s)'

Rests == UNCHANGED <<job, steps, calls, torn>> /\ LiveStay

Turns(h) ==
    /\ job[h].pc \in {"idle", "total", "store"}
    /\ \E j : job' = [job EXCEPT ![h] = j] /\ JobOK(j)
              /\ j.pc \in {"idle", "total", "store", "edit", "llm"}
              /\ (j.pc = "llm" => \E s, t : j = Generating(s, t))
    /\ UNCHANGED <<steps, calls, torn>> /\ LiveStay

Resolves(h) ==
    /\ AtTool(h, {"write"})
    /\ \E e : job' = [job EXCEPT ![h].pc = "write", ![h].row = e]
    /\ UNCHANGED <<steps, calls, torn>> /\ LiveStay

Says(h) ==
    /\ job[h] = Idle
    /\ \E s \in Sessions :
          /\ Live(s)'
          /\ steps' = steps \union {Step(NextSeq, s, NextTurn, "user", {}, Nobody)}
          /\ Proceeds(h, s, NextTurn)
    /\ UNCHANGED <<calls, torn>> /\ LiveStay

Reverts(h) ==
    /\ steps' = Without(h, steps) /\ calls' = Without(h, calls)
    /\ Returns(h)
    /\ UNCHANGED torn /\ LiveStay

Stores(h) ==
    /\ Working(h) /\ job[h].todo # <<>>
    /\ StoreResult(h)
    /\ LiveStay

Concludes(h) ==
    /\ job[h].pc = "llm" /\ CanStore(h)
    /\ StoreAnswer(h, "final") \/ StoreAnswer(h, "truncated")
    /\ Returns(h)
    /\ UNCHANGED <<calls, torn>> /\ LiveStay

Starts(h) == \E blocks \in world.rounds : StartRound(h, blocks)

Looks(h) == (\E c \in calls : ToolResult(h, c)) /\ LiveStay

Truncates(h) == FindCalls(h) \/ CutCalls(h) \/ FindSteps(h)

ChatEffect(h) ==
    \/ Turns(h) \/ Looks(h) \/ Resolves(h) \/ Says(h) \/ Reverts(h) \/ Stores(h)
    \/ Concludes(h) \/ Truncates(h) \/ CutSteps(h) \/ ApplyResult(h) \/ Starts(h)
    \/ LeaveToClient(h) \/ CommitRound(h)

(* A request that goes to the provider is well formed.                     *)
LEMMA GeneratingOK ==
  ASSUME RowsInv, NEW s \in Chatted, NEW t \in Positive
  PROVE  AskingOK(Generating(s, t)) /\ JobOK(Generating(s, t)) /\ JobOK(Idle)
  BY DEF AskingOK, Generating, JobOK, BillingPlan, Plans

(* Every step of the service is one of the above for a handler, the        *)
(* deletion of a chat, or leaves history and jobs alone.                   *)
LEMMA ChatSteps ==
  ASSUME RowsInv, SessionsOK, [Next]_serviceVars
  PROVE  \/ \E h \in Handlers : ChatEffect(h)
         \/ \E s \in Sessions : DeleteChat(s)
         \/ Rests
  <1>1. CASE Next
    <2>1. ASSUME NEW h \in Handlers, Arrival(h)
          PROVE  ChatEffect(h)
      <3>1. CASE ChatRun(h)
        <4>1. ASSUME NEW s \in Sessions, Resume(h, s)
              PROVE  Says(h)
          BY <4>1 DEF Resume, Resumable, Says, LiveStay, Live
        <4>2. ASSUME NEW s \in 1..world.chats, NEW w, Open(h, s, w, world.hasProject)
              PROVE  Says(h)
          <5>1. s \in Sessions
            BY WorldsAssumption, ChatsAssumption DEF RowsInv, Sessions
          <5>2. sessions' = [sessions EXCEPT ![s] =
                  [status |-> "live", updated |-> now, workspace |-> w,
                   hasProject |-> world.hasProject]]
            BY <4>2 DEF Open
          <5>3. Live(s)' /\ LiveStay
            BY <5>1, <5>2 DEF Live, LiveStay, SessionsOK
          <5> QED
            BY <4>2, <5>1, <5>3 DEF Open, Says
        <4> QED
          BY <3>1, <4>1, <4>2 DEF ChatRun, ChatEffect
      <3>2. CASE ChatTemporary(h)
        <4>1. RunTemporary(h)
          BY <3>2 DEF ChatTemporary
        <4>2. /\ AskingOK(Generating(NoSession, NextTurn)) /\ JobOK(Idle)
              /\ JobOK(Generating(NoSession, NextTurn))
          BY GeneratingOK, NextTurnIsPositive DEF Chatted
        <4>3. PICK j : j = IF Admitted THEN Generating(NoSession, NextTurn) ELSE Idle
          OBVIOUS
        <4>4. job' = [job EXCEPT ![h] = j]
          BY <4>1, <4>3 DEF RunTemporary, Proceeds
        <4>5. JobOK(j) /\ j.pc \in {"idle", "llm"}
          BY <4>2, <4>3 DEF AskingOK, Idle
        <4>6. UNCHANGED <<steps, calls, torn>> /\ LiveStay
          BY <4>1 DEF RunTemporary, chatVars, LiveStay, Live
        <4>7. job[h].pc = "idle"
          BY <4>1 DEF RunTemporary, Idle
        <4>8. j.pc = "llm" => \E s, t : j = Generating(s, t)
          BY <4>3 DEF Idle
        <4> QED
          BY <4>4, <4>5, <4>6, <4>7, <4>8 DEF Turns, ChatEffect
      <3>3. CASE ChatEdit(h)
        <4>1. PICK x \in steps : EditMessage(h, x.session, x.turn)
          BY <3>3 DEF ChatEdit
        <4> DEFINE messages == {y \in In(x.session, Committed(steps)) :
                                   y.turn = x.turn /\ y.kind = "user"}
                   j == [pc |-> "edit", session |-> x.session, turn |-> NextTurn,
                         call |-> 0, anchor |-> Min({y.seq : y \in messages}),
                         cut |-> {}, drop |-> {}]
        <4>2. messages # {} /\ job' = [job EXCEPT ![h] = j] /\ job[h] = Idle
          BY <4>1 DEF EditMessage
        <4>3. Min({y.seq : y \in messages}) \in Positive
          <5>1. {y.seq : y \in messages} \subseteq Positive /\ {y.seq : y \in messages} # {}
            BY <4>2 DEF RowsInv, StepOK, In, Committed
          <5> HIDE DEF messages
          <5>2. Min({y.seq : y \in messages}) \in {y.seq : y \in messages}
            BY <5>1, MinIsLeast DEF Positive
          <5> QED
            BY <5>1, <5>2
        <4>4. EditOK(j)
          <5>1. x.session \in Sessions /\ NextTurn \in Positive
            BY NextTurnIsPositive DEF RowsInv, StepOK
          <5> QED
            BY <4>3, <5>1, FS_EmptySet DEF EditOK, Truncating
        <4>5. j.pc = "edit" /\ JobOK(j)
          BY <4>4 DEF JobOK
        <4>6. UNCHANGED <<steps, calls, torn>> /\ LiveStay
          BY <4>1 DEF EditMessage, chatVars, LiveStay, Live
        <4>7. job[h].pc = "idle"
          BY <4>2 DEF Idle
        <4> HIDE DEF j
        <4> QED
          BY <4>2, <4>5, <4>6, <4>7 DEF Turns, ChatEffect
      <3>4. CASE ChatToolResult(h)
        BY <3>4 DEF ChatToolResult, ToolResult, Looks, chatVars, LiveStay, Live, ChatEffect
      <3>5. CASE UploadFile(h)
        <4>1. PICK w \in Workspaces, size \in world.sizes : Upload(h, w, size)
          BY <3>5 DEF UploadFile
        <4>2. size \in Nat
          BY WorldsAssumption DEF RowsInv
        <4>3. PICK j : j = [pc |-> "total", workspace |-> w, size |-> size]
          OBVIOUS
        <4>4. JobOK(j) /\ j.pc = "total"
          BY <4>2, <4>3 DEF JobOK, UploadOK
        <4>5. job' = [job EXCEPT ![h] = j] /\ job[h].pc = "idle"
          BY <4>1, <4>3 DEF Upload, Idle
        <4>6. UNCHANGED <<steps, calls, torn>> /\ LiveStay
          BY <3>5 DEF UploadFile, chatVars, LiveStay, Live
        <4> QED
          BY <4>4, <4>5, <4>6 DEF Turns, ChatEffect
      <3> QED
        BY <2>1, <3>1, <3>2, <3>3, <3>4, <3>5 DEF Arrival
    <2>2. ASSUME NEW h \in Handlers, Works(h)
          PROVE  ChatEffect(h)
      <3>1. ASSUME Rollback(h) PROVE Reverts(h)
        BY <3>1 DEF Rollback, Reverts, LiveStay, Live
      <3>2. CASE Abort(h) \/ StoreFails(h) \/ ImageUnpaid(h) \/ WriteFails(h)
                 \/ FinalizeUnpaid(h) \/ DeadlockVictim(h)
        BY <3>1, <3>2 DEF Abort, StoreFails, ImageUnpaid, WriteFails, FinalizeUnpaid,
           DeadlockVictim, ChatEffect
      <3>3. ASSUME StoreResult(h) PROVE LiveStay
        BY <3>3 DEF StoreResult, LiveStay, Live
      <3>4. CASE RunTool(h) \/ ImageRefused(h) \/ StoreImage(h) \/ DeleteSite(h)
        BY <3>3, <3>4 DEF RunTool, ImageRefused, StoreImage, DeleteSite, AtTool, Working,
           Stores, ChatEffect
      <3>5. CASE WriteSite(h)
        <4>1. job[h].todo # <<>>
          BY <3>5 DEF WriteSite, RowsInv, JobOK, Idle, UploadOK, EditOK, Truncating, ResultOK,
             AskingOK, RoundOK
        <4> QED
          BY <3>3, <3>5, <4>1 DEF WriteSite, Working, Stores, ChatEffect
      <3>6. CASE CheckSite(h)
        <4>1. \/ StoreResult(h)
              \/ /\ UNCHANGED chatVars
                 /\ \E e : job' = [job EXCEPT ![h].pc = "write", ![h].row = e]
          BY <3>6 DEF CheckSite
        <4>2. AtTool(h, {"write"})
          BY <3>6 DEF CheckSite
        <4> QED
          BY <3>3, <4>1, <4>2 DEF AtTool, Working, Stores, Resolves, chatVars, LiveStay,
             Live, ChatEffect
      <3>7. CASE Finalize(h)
        <4>1. LiveStay
          BY <3>7 DEF Finalize, Touched, LiveStay, Live, SessionsOK
        <4> QED
          BY <3>7, <4>1 DEF Finalize, Concludes, ChatEffect
      <3>8. CASE Truncate(h)
        BY <3>8 DEF Truncate, Concludes, LiveStay, Live, ChatEffect
      <3>9. CASE UploadStep(h)
        <4>1. UNCHANGED <<steps, calls, torn>> /\ LiveStay
          BY <3>9 DEF UploadStep, chatVars, LiveStay, Live
        <4>2. CASE CheckTotal(h)
          <5>1. UploadOK(job[h])
            BY <4>2 DEF CheckTotal, RowsInv, JobOK, Idle, UploadOK, EditOK, Truncating,
               ResultOK, AskingOK, RoundOK
          <5>2. PICK j : job' = [job EXCEPT ![h] = j]
                         /\ (j = Idle \/ j = [job[h] EXCEPT !.pc = "store"])
            BY <4>2 DEF CheckTotal
          <5>3. JobOK(j) /\ j.pc \in {"idle", "store"}
            BY <5>1, <5>2 DEF UploadOK, JobOK, Idle
          <5>4. job[h].pc = "total"
            BY <4>2 DEF CheckTotal
          <5> QED
            BY <4>1, <5>2, <5>3, <5>4 DEF Turns, ChatEffect
        <4>3. CASE StoreFile(h)
          <5>1. job' = [job EXCEPT ![h] = Idle] /\ job[h].pc = "store"
            BY <4>3 DEF StoreFile, Returns
          <5>2. JobOK(Idle) /\ Idle.pc = "idle"
            BY DEF JobOK, Idle
          <5> QED
            BY <4>1, <5>1, <5>2 DEF Turns, ChatEffect
        <4> QED
          BY <3>9, <4>2, <4>3 DEF UploadStep
      <3>10. CASE \/ FindCalls(h) \/ CutCalls(h) \/ FindSteps(h) \/ CutSteps(h)
                  \/ ApplyResult(h) \/ LeaveToClient(h)
                  \/ CommitRound(h) \/ \E blocks \in world.rounds : StartRound(h, blocks)
        BY <3>10 DEF ChatEffect, Starts, Truncates
      <3> QED
        BY <2>2, <3>2, <3>4, <3>5, <3>6, <3>7, <3>8, <3>9, <3>10 DEF Works, ChatStep
    <2>3. ASSUME NEW h \in Handlers, AskLimits(h) \/ LimitStep(h)
          PROVE  Rests
      BY <2>3 DEF AskLimits, LimitStep, chatVars, Rests, LiveStay, Live
    <2>4. CASE ManageChats
      <3>1. ASSUME NEW s \in Sessions, NEW w, UpdateMetadata(s, w)
            PROVE  Rests
        <4>1. LiveStay
          BY <3>1 DEF UpdateMetadata, Rebound, LiveStay, Live, SessionsOK
        <4> QED
          BY <3>1, <4>1 DEF UpdateMetadata, Rests
      <3> QED
        BY <2>4, <3>1 DEF ManageChats
    <2>5. CASE ManageImages
      BY <2>5 DEF ManageImages, chatVars, Rests, LiveStay, Live
    <2>6. CASE ManageWorkspaces
      <3>1. LiveStay
        BY <2>6 DEF ManageWorkspaces, Unbind, LiveStay, Live, SessionsOK
      <3>2. UNCHANGED job
        BY <2>6 DEF ManageWorkspaces, CreateWorkspace, DeleteWorkspace, DeleteFile
      <3> QED
        BY <2>6, <3>1, <3>2 DEF ManageWorkspaces, Rests
    <2>7. CASE TimePasses
      BY <2>7 DEF TimePasses, chatVars, Rests, LiveStay, Live
    <2> QED
      BY <1>1, <2>1, <2>2, <2>3, <2>4, <2>5, <2>6, <2>7 DEF Next
  <1>2. CASE UNCHANGED serviceVars
    BY <1>2 DEF serviceVars, vars, chatVars, Rests, LiveStay, Live
  <1> QED
    BY <1>1, <1>2

-----------------------------------------------------------------------------
(* Rows and work in progress stay what they look like.                     *)
LEMMA PlaceOK ==
  ASSUME RowsInv, NEW h \in Handlers
  PROVE  /\ job[h].pc \in {"total", "store"} => UploadOK(job[h])
         /\ job[h].pc \in Truncating => EditOK(job[h])
         /\ job[h].pc = "apply" => ResultOK(job[h])
         /\ job[h].pc = "llm" => AskingOK(job[h])
         /\ Working(h) => RoundOK(job[h])
         /\ job[h].pc = "idle" => job[h] = Idle
  BY DEF RowsInv, JobOK, Idle, UploadOK, EditOK, ResultOK, AskingOK, RoundOK, Working, Truncating

(* The round of h goes on to its next block.                               *)
GoesOn(h, places) ==
    /\ DOMAIN job' = Handlers /\ \A o \in Others(h) : job'[o] = job[o]
    /\ RoundOK(job'[h]) /\ job'[h].pc \in places
    /\ job'[h].session = job[h].session /\ job'[h].turn = job[h].turn
    /\ job'[h].plan = job[h].plan /\ job'[h].first = job[h].first

(* A request that is done with a block turns to the next one.              *)
LEMMA NextBlock ==
  ASSUME RowsInv, NEW h \in Handlers, Working(h), job[h].todo # <<>>,
         NextTool(h) \/ LeaveToClient(h)
  PROVE  /\ GoesOn(h, {"tools"})
         /\ job'[h].call = job[h].call + 1
         /\ job'[h].todo = Tail(job[h].todo)
         /\ Len(job'[h].todo) = Len(job[h].todo) - 1 /\ Len(job[h].todo) \in Nat \ {0}
  <1>1. RoundOK(job[h]) /\ DOMAIN job = Handlers
    BY PlaceOK DEF RowsInv
  <1>2. /\ DOMAIN job' = Handlers /\ \A o \in Others(h) : job'[o] = job[o]
        /\ job'[h].pc = "tools"
        /\ job'[h].session = job[h].session /\ job'[h].turn = job[h].turn
        /\ job'[h].plan = job[h].plan /\ job'[h].round = job[h].round
        /\ job'[h].first = job[h].first
        /\ job'[h].call = job[h].call + 1
        /\ job'[h].todo = Tail(job[h].todo)
    <2>1. CASE NextTool(h)
      BY <1>1, <2>1 DEF NextTool, RoundOK, Others
    <2>2. CASE LeaveToClient(h)
      BY <1>1, <2>2 DEF LeaveToClient, AtTool, RoundOK, Others
    <2> QED
      BY <2>1, <2>2
  <1>3. /\ job[h].todo \in Seq(Blocks) /\ job[h].todo # <<>>
        /\ Tail(job[h].todo) \in Seq(Blocks)
        /\ Len(Tail(job[h].todo)) = Len(job[h].todo) - 1
        /\ Len(job[h].todo) \in Nat \ {0}
        /\ \A i \in DOMAIN Tail(job[h].todo) :
              i + 1 \in DOMAIN job[h].todo /\ Tail(job[h].todo)[i] = job[h].todo[i + 1]
    BY <1>1 DEF RoundOK
  <1>4. job[h].call + 1 \in Positive
    BY <1>1 DEF RoundOK, Positive
  <1>5. RoundOK(job'[h])
    <2>1. PICK k : k = job[h]
      OBVIOUS
    <2>2. PICK d \in BOOLEAN : job'[h] = [pc |-> "tools", session |-> k.session,
              turn |-> k.turn, call |-> k.call + 1, round |-> k.round, plan |-> k.plan,
              first |-> k.first, todo |-> Tail(k.todo), handsOff |-> d, row |-> k.row]
      <3>1. CASE NextTool(h)
        <4>1. job'[h] = [[[k EXCEPT !.pc = "tools"] EXCEPT !.todo = Tail(k.todo)]
                            EXCEPT !.call = k.call + 1]
          BY <1>1, <2>1, <3>1 DEF NextTool, RoundOK
        <4>2. job'[h] = [pc |-> "tools", session |-> k.session,
              turn |-> k.turn, call |-> k.call + 1, round |-> k.round, plan |-> k.plan,
              first |-> k.first, todo |-> Tail(k.todo), handsOff |-> k.handsOff,
              row |-> k.row]
          BY <1>1, <2>1, <4>1 DEF RoundOK
        <4>3. k.handsOff \in BOOLEAN
          BY <1>1, <2>1 DEF RoundOK
        <4> QED
          BY <4>2, <4>3
      <3>2. CASE LeaveToClient(h)
        <4>1. job'[h] = [[[k EXCEPT !.todo = Tail(k.todo)] EXCEPT !.call = k.call + 1]
                            EXCEPT !.handsOff = TRUE]
          BY <1>1, <2>1, <3>2 DEF LeaveToClient, RoundOK
        <4>2. k.pc = "tools"
          BY <2>1, <3>2 DEF LeaveToClient, AtTool
        <4>3. job'[h] = [pc |-> "tools", session |-> k.session,
              turn |-> k.turn, call |-> k.call + 1, round |-> k.round, plan |-> k.plan,
              first |-> k.first, todo |-> Tail(k.todo), handsOff |-> TRUE, row |-> k.row]
          BY <1>1, <2>1, <4>1, <4>2 DEF RoundOK
        <4> QED
          BY <4>3
      <3> QED
        BY <3>1, <3>2
    <2> QED
      BY <1>1, <1>3, <1>4, <2>1, <2>2 DEF RoundOK
  <1> QED
    BY <1>2, <1>3, <1>5 DEF GoesOn

(* A request that looked at the site stays at its block.                   *)
LEMMA ResolvedJob ==
  ASSUME RowsInv, NEW h \in Handlers, Resolves(h)
  PROVE  /\ GoesOn(h, {"write"})
         /\ job'[h].call = job[h].call /\ job'[h].todo = job[h].todo
  <1>1. /\ RoundOK(job[h]) /\ DOMAIN job = Handlers
        /\ job[h].todo # <<>> /\ Head(job[h].todo).tool = "write"
    BY PlaceOK DEF RowsInv, Resolves, AtTool, Working
  <1>2. PICK e : job' = [job EXCEPT ![h].pc = "write", ![h].row = e]
    BY DEF Resolves
  <1>3. /\ DOMAIN job' = Handlers /\ \A o \in Others(h) : job'[o] = job[o]
        /\ job'[h] = [[job[h] EXCEPT !.pc = "write"] EXCEPT !.row = e]
    BY <1>1, <1>2 DEF RoundOK, Others
  <1>4. /\ RoundOK(job'[h]) /\ job'[h].pc = "write"
        /\ job'[h].session = job[h].session /\ job'[h].turn = job[h].turn
        /\ job'[h].call = job[h].call /\ job'[h].plan = job[h].plan
        /\ job'[h].first = job[h].first /\ job'[h].todo = job[h].todo
    BY <1>1, <1>3 DEF RoundOK
  <1> QED
    BY <1>3, <1>4 DEF GoesOn

(* A round starts at the first of its blocks, with ids nobody has.         *)
LEMMA RoundStarts ==
  ASSUME RowsInv, NEW h \in Handlers, NEW blocks \in world.rounds, StartRound(h, blocks)
  PROVE  /\ GoesOn(h, {"tools"})
         /\ job'[h].call = NextCall /\ job'[h].todo = blocks
         /\ blocks \in Seq(Blocks) /\ Len(blocks) \in Nat
  <1>1. AskingOK(job[h]) /\ DOMAIN job = Handlers
    BY PlaceOK DEF RowsInv, StartRound
  <1>2. blocks \in Seq(Blocks) /\ Len(blocks) \in Nat
    BY WorldsAssumption DEF RowsInv
  <1>3. PICK j : j = [pc |-> "tools", session |-> job[h].session, turn |-> job[h].turn,
                      call |-> NextCall, round |-> job[h].round, plan |-> job[h].plan,
                      first |-> job[h].first, todo |-> blocks, handsOff |-> FALSE, row |-> 0]
    OBVIOUS
  <1>4. job' = [job EXCEPT ![h] = j]
    BY <1>3 DEF StartRound
  <1>5. RoundOK(j)
    <2>1. j.session = NoSession => \A i \in DOMAIN j.todo : j.todo[i].tool # "client"
      BY <1>3 DEF StartRound, Offers, IsTemporary
    <2> QED
      BY <1>1, <1>2, <1>3, <2>1, NextCallIsFresh DEF AskingOK, RoundOK
  <1> QED
    BY <1>1, <1>2, <1>3, <1>4, <1>5 DEF GoesOn, Others

(* A truncation goes on to its next statement.                             *)
LEMMA EditGoesOn ==
  ASSUME RowsInv, NEW h \in Handlers, Truncates(h)
  PROVE  /\ DOMAIN job' = Handlers /\ \A o \in Others(h) : job'[o] = job[o]
         /\ EditOK(job[h]) /\ EditOK(job'[h])
         /\ job'[h].session = job[h].session /\ job'[h].turn = job[h].turn
         /\ job'[h].anchor = job[h].anchor
         /\ job[h].pc \in {"edit", "find", "cut"} /\ job'[h].pc \in {"find", "cut", "drop"}
         /\ FindCalls(h) => /\ job'[h].pc = "find"
                            /\ job'[h].cut = {c.id : c \in CallsToCut(h)}
         /\ CutCalls(h) => /\ job[h].pc = "find" /\ job'[h].pc = "cut"
                           /\ job'[h].cut = job[h].cut
         /\ FindSteps(h) => /\ job[h].pc = "cut" /\ job'[h].pc = "drop"
                            /\ job'[h].cut = job[h].cut
                            /\ job'[h].drop = {x.seq : x \in FromAnchor(h)}
  <1>1. EditOK(job[h]) /\ DOMAIN job = Handlers
    BY PlaceOK DEF RowsInv, Truncates, FindCalls, CutCalls, FindSteps, Truncating
  <1>2. PICK k : k = job[h]
    OBVIOUS
  <1>3. /\ k = [pc |-> k.pc, session |-> k.session, turn |-> k.turn, call |-> k.call,
                anchor |-> k.anchor, cut |-> k.cut, drop |-> k.drop]
        /\ k.session \in Sessions /\ k.turn \in Positive /\ k.call = 0
        /\ k.anchor \in Positive /\ k.cut \in SUBSET Positive /\ k.drop \in SUBSET Positive
        /\ IsFiniteSet(k.cut) /\ IsFiniteSet(k.drop)
    BY <1>1, <1>2 DEF EditOK
  <1>4. CASE FindCalls(h)
    <2>1. PICK ids : ids = {c.id : c \in CallsToCut(h)}
      OBVIOUS
    <2>2. ids \subseteq Positive
      BY <2>1 DEF CallsToCut, In, Committed, RowsInv, CallOK
    <2>3. IsFiniteSet(ids)
      <3>1. CallsToCut(h) \in SUBSET calls /\ IsFiniteSet(calls)
        BY DEF CallsToCut, In, Committed, RowsInv
      <3>2. IsFiniteSet(CallsToCut(h))
        BY <3>1, FS_Subset
      <3> DEFINE f == [c \in CallsToCut(h) |-> c.id]
      <3>3. IsFiniteSet({f[c] : c \in CallsToCut(h)}) /\ ids = {f[c] : c \in CallsToCut(h)}
        BY <2>1, <3>2, FiniteRange
      <3> QED
        BY <3>3
    <2>4. job' = [job EXCEPT ![h].pc = "find", ![h].cut = ids] /\ job[h].pc = "edit"
      BY <1>4, <2>1 DEF FindCalls
    <2>5. /\ DOMAIN job' = Handlers /\ \A o \in Others(h) : job'[o] = job[o]
          /\ job'[h] = [[k EXCEPT !.pc = "find"] EXCEPT !.cut = ids]
      BY <1>1, <1>2, <1>3, <2>4 DEF Others
    <2>6. job'[h] = [pc |-> "find", session |-> k.session, turn |-> k.turn, call |-> k.call,
                     anchor |-> k.anchor, cut |-> ids, drop |-> k.drop]
      BY <1>3, <2>5
    <2>7. EditOK(job'[h])
      BY <1>3, <2>2, <2>3, <2>6 DEF EditOK, Truncating
    <2>8. ~ CutCalls(h) /\ ~ FindSteps(h)
      BY <2>4 DEF CutCalls, FindSteps
    <2> QED
      BY <1>1, <1>2, <2>1, <2>4, <2>5, <2>6, <2>7, <2>8
  <1>5. CASE CutCalls(h)
    <2>1. job' = [job EXCEPT ![h].pc = "cut"] /\ job[h].pc = "find"
      BY <1>5 DEF CutCalls
    <2>2. /\ DOMAIN job' = Handlers /\ \A o \in Others(h) : job'[o] = job[o]
          /\ job'[h] = [k EXCEPT !.pc = "cut"]
      BY <1>1, <1>2, <1>3, <2>1 DEF Others
    <2>3. job'[h] = [pc |-> "cut", session |-> k.session, turn |-> k.turn, call |-> k.call,
                     anchor |-> k.anchor, cut |-> k.cut, drop |-> k.drop]
      BY <1>3, <2>2
    <2>4. EditOK(job'[h])
      BY <1>3, <2>3 DEF EditOK, Truncating
    <2>5. ~ FindCalls(h) /\ ~ FindSteps(h)
      BY <2>1 DEF FindCalls, FindSteps
    <2> QED
      BY <1>1, <1>2, <2>1, <2>2, <2>3, <2>4, <2>5
  <1>6. CASE FindSteps(h)
    <2>1. PICK ids : ids = {x.seq : x \in FromAnchor(h)}
      OBVIOUS
    <2>2. ids \subseteq Positive
      BY <2>1 DEF FromAnchor, In, Committed, RowsInv, StepOK
    <2>3. IsFiniteSet(ids)
      <3>1. FromAnchor(h) \in SUBSET steps /\ IsFiniteSet(steps)
        BY DEF FromAnchor, In, Committed, RowsInv
      <3>2. IsFiniteSet(FromAnchor(h))
        BY <3>1, FS_Subset
      <3> DEFINE f == [x \in FromAnchor(h) |-> x.seq]
      <3>3. IsFiniteSet({f[x] : x \in FromAnchor(h)}) /\ ids = {f[x] : x \in FromAnchor(h)}
        BY <2>1, <3>2, FiniteRange
      <3> QED
        BY <3>3
    <2>4. job' = [job EXCEPT ![h].pc = "drop", ![h].drop = ids] /\ job[h].pc = "cut"
      BY <1>6, <2>1 DEF FindSteps
    <2>5. /\ DOMAIN job' = Handlers /\ \A o \in Others(h) : job'[o] = job[o]
          /\ job'[h] = [[k EXCEPT !.pc = "drop"] EXCEPT !.drop = ids]
      BY <1>1, <1>2, <1>3, <2>4 DEF Others
    <2>6. job'[h] = [pc |-> "drop", session |-> k.session, turn |-> k.turn, call |-> k.call,
                     anchor |-> k.anchor, cut |-> k.cut, drop |-> ids]
      BY <1>3, <2>5
    <2>7. EditOK(job'[h])
      BY <1>3, <2>2, <2>3, <2>6 DEF EditOK, Truncating
    <2>8. ~ FindCalls(h) /\ ~ CutCalls(h)
      BY <2>4 DEF FindCalls, CutCalls
    <2> QED
      BY <1>1, <1>2, <2>1, <2>4, <2>5, <2>6, <2>7, <2>8
  <1> QED
    BY <1>4, <1>5, <1>6 DEF Truncates

(* The job of the handler that works is as it should be afterwards.        *)
LEMMA JobsKept ==
  ASSUME RowsInv, NEW h \in Handlers, ChatEffect(h)
  PROVE  /\ DOMAIN job' = Handlers
         /\ \A o \in Others(h) : job'[o] = job[o]
         /\ JobOK(job'[h])
  <1>1. DOMAIN job = Handlers
    BY DEF RowsInv
  <1>2. ASSUME NEW j, JobOK(j), job' = [job EXCEPT ![h] = j]
        PROVE  /\ DOMAIN job' = Handlers
               /\ \A o \in Others(h) : job'[o] = job[o]
               /\ JobOK(job'[h])
    BY <1>1, <1>2 DEF Others
  <1>3. JobOK(Idle)
    BY DEF JobOK
  <1>4. ASSUME NEW s \in Chatted, NEW t \in Positive, Proceeds(h, s, t)
        PROVE  \E j : JobOK(j) /\ job' = [job EXCEPT ![h] = j]
    BY <1>4, GeneratingOK DEF Proceeds
  <1>5. CASE Turns(h)
    BY <1>2, <1>5 DEF Turns
  <1>6. CASE Looks(h)
    <2>1. PICK c \in calls : ToolResult(h, c)
      BY <1>6 DEF Looks
    <2>2. PICK j : j = [pc |-> "apply", session |-> c.session, turn |-> c.turn,
                        call |-> c.id, wasDone |-> c.done]
      OBVIOUS
    <2>3. job' = [job EXCEPT ![h] = j]
      BY <2>1, <2>2 DEF ToolResult
    <2>4. ResultOK(j)
      BY <2>2 DEF RowsInv, CallOK, ResultOK
    <2> QED
      BY <1>2, <2>3, <2>4 DEF JobOK
  <1>7. CASE Resolves(h)
    BY <1>7, ResolvedJob DEF GoesOn, JobOK
  <1>8. CASE Says(h)
    <2>1. PICK s \in Sessions : Proceeds(h, s, NextTurn)
      BY <1>8 DEF Says
    <2> QED
      BY <1>2, <1>4, <2>1, NextTurnIsPositive DEF Chatted
  <1>9. CASE Reverts(h) \/ Concludes(h)
    BY <1>2, <1>3, <1>9 DEF Reverts, Concludes, Returns
  <1>10. CASE Stores(h)
    BY <1>10, NextBlock DEF Stores, StoreResult, GoesOn, JobOK
  <1>11. CASE LeaveToClient(h)
    BY <1>11, NextBlock DEF LeaveToClient, AtTool, Working, GoesOn, JobOK
  <1>12. CASE Starts(h)
    BY <1>12, RoundStarts DEF Starts, GoesOn, JobOK
  <1>13. CASE Truncates(h)
    BY <1>13, EditGoesOn DEF JobOK
  <1>14. CASE CutSteps(h)
    <2>1. EditOK(job[h])
      BY <1>14, PlaceOK DEF CutSteps, Truncating
    <2>2. Proceeds(h, job[h].session, job[h].turn)
      BY <1>14 DEF CutSteps
    <2> QED
      BY <1>2, <1>4, <2>1, <2>2 DEF EditOK, Chatted
  <1>15. CASE ApplyResult(h)
    <2>1. ResultOK(job[h])
      BY <1>15, PlaceOK DEF ApplyResult
    <2>2. Returns(h) \/ Proceeds(h, job[h].session, job[h].turn)
      BY <1>15 DEF ApplyResult
    <2> QED
      BY <1>2, <1>3, <1>4, <2>1, <2>2 DEF ResultOK, Chatted, Returns
  <1>16. CASE CommitRound(h)
    <2>1. RoundOK(job[h])
      BY <1>16, PlaceOK DEF CommitRound, Working
    <2>2. PICK j : j = [pc |-> "llm", session |-> job[h].session, turn |-> job[h].turn,
                        call |-> 0, round |-> job[h].round + 1, plan |-> job[h].plan,
                        first |-> job[h].first]
      OBVIOUS
    <2>3. AskingOK(j)
      BY <2>1, <2>2 DEF RoundOK, AskingOK
    <2>4. job' = [job EXCEPT ![h] = Idle] \/ job' = [job EXCEPT ![h] = j]
      BY <1>16, <2>2 DEF CommitRound
    <2> QED
      BY <1>2, <1>3, <2>3, <2>4 DEF JobOK
  <1> QED
    BY <1>5, <1>6, <1>7, <1>8, <1>9, <1>10, <1>11, <1>12, <1>13, <1>14, <1>15, <1>16
       DEF ChatEffect

-----------------------------------------------------------------------------
(* Rows of an open transaction are dropped or sealed.                      *)
LEMMA RowsOfTransaction ==
  ASSUME NEW S, IsFiniteSet(S), NEW h
  PROVE  IsFiniteSet(Without(h, S)) /\ IsFiniteSet(Sealed(h, S))
  <1>1. IsFiniteSet(Without(h, S))
    BY FS_Subset DEF Without
  <1>2. PICK f : f = [row \in S |-> [row EXCEPT !.by = IF @ = h THEN Nobody ELSE @]]
    OBVIOUS
  <1>3. Sealed(h, S) = {f[row] : row \in S}
    BY <1>2 DEF Sealed
  <1> QED
    BY <1>1, <1>3, FiniteRange

(* A commit changes nothing in a row but its owner.                        *)
LEMMA SealedStep ==
  ASSUME NEW x, StepOK(x), NEW h
  PROVE  /\ StepOK([x EXCEPT !.by = IF @ = h THEN Nobody ELSE @])
         /\ [x EXCEPT !.by = IF @ = h THEN Nobody ELSE @] =
               [seq |-> x.seq, session |-> x.session, turn |-> x.turn, kind |-> x.kind,
                uses |-> x.uses, by |-> IF x.by = h THEN Nobody ELSE x.by]
  BY DEF StepOK, Owners

(* A commit changes nothing in a call but its owner.                       *)
LEMMA SealedCall ==
  ASSUME NEW x, CallOK(x), NEW h
  PROVE  /\ CallOK([x EXCEPT !.by = IF @ = h THEN Nobody ELSE @])
         /\ [x EXCEPT !.by = IF @ = h THEN Nobody ELSE @] =
               [id |-> x.id, session |-> x.session, turn |-> x.turn, client |-> x.client,
                done |-> x.done, by |-> IF x.by = h THEN Nobody ELSE x.by]
  BY DEF CallOK, Owners

(* A row that is added is well formed.                                     *)
LEMMA NewStep ==
  ASSUME RowsInv, NEW s \in Sessions, NEW t \in Positive, NEW kind \in Kinds,
         NEW uses \in SUBSET Positive, IsFiniteSet(uses), kind = "tool" => uses # {},
         NEW o \in Owners
  PROVE  /\ StepOK(Step(NextSeq, s, t, kind, uses, o))
         /\ IsFiniteSet(steps \union {Step(NextSeq, s, t, kind, uses, o)})
  <1>1. StepOK(Step(NextSeq, s, t, kind, uses, o))
    BY NextSeqIsFresh DEF StepOK, Step
  <1> QED
    BY <1>1, FS_AddElement DEF RowsInv

(* The rows of the history stay well formed.                               *)
LEMMA StepsKept ==
  ASSUME RowsInv, NEW h \in Handlers, ChatEffect(h)
  PROVE  IsFiniteSet(steps') /\ \A x \in steps' : StepOK(x)
  <1>0. IsFiniteSet(steps) /\ \A x \in steps : StepOK(x)
    BY DEF RowsInv
  <1>1. /\ IsFiniteSet({}) /\ {} \in SUBSET Positive
        /\ {"user", "tool", "final", "truncated", "use"} \subseteq Kinds
        /\ h \in Owners /\ Nobody \in Owners
    BY FS_EmptySet DEF Kinds, Owners
  <1>2. CASE steps' = steps
    BY <1>0, <1>2
  <1>3. CASE Says(h)
    <2>1. PICK s \in Sessions :
             steps' = steps \union {Step(NextSeq, s, NextTurn, "user", {}, Nobody)}
      BY <1>3 DEF Says
    <2> QED
      BY <1>0, <1>1, <2>1, NewStep, NextTurnIsPositive
  <1>4. CASE Reverts(h)
    BY <1>0, <1>4, RowsOfTransaction DEF Reverts, Without
  <1>5. CASE Stores(h)
    <2>1. RoundOK(job[h])
      BY <1>5, PlaceOK DEF Stores
    <2>2. CASE IsTemporary(h)
      BY <1>2, <1>5, <2>2 DEF Stores, StoreResult, WithResult
    <2>3. CASE ~IsTemporary(h)
      <3>1. steps' = steps \union
               {Step(NextSeq, job[h].session, job[h].turn, "tool", {job[h].call}, h)}
        BY <1>5, <2>3 DEF Stores, StoreResult, WithResult
      <3>2. /\ job[h].session \in Sessions /\ job[h].turn \in Positive
            /\ {job[h].call} \in SUBSET Positive /\ IsFiniteSet({job[h].call})
        BY <2>1, <2>3, FS_Singleton DEF RoundOK, IsTemporary, Chatted
      <3> QED
        BY <1>0, <1>1, <3>1, <3>2, NewStep
    <2> QED
      BY <2>2, <2>3
  <1>6. CASE Concludes(h)
    <2>1. AskingOK(job[h])
      BY <1>6, PlaceOK DEF Concludes
    <2>2. CASE IsTemporary(h)
      BY <1>2, <1>6, <2>2 DEF Concludes, StoreAnswer
    <2>3. CASE ~IsTemporary(h)
      <3>1. PICK kind \in {"final", "truncated"} : steps' = steps \union
               {Step(NextSeq, job[h].session, job[h].turn, kind, {}, Nobody)}
        BY <1>6, <2>3 DEF Concludes, StoreAnswer
      <3>2. job[h].session \in Sessions /\ job[h].turn \in Positive
        BY <2>1, <2>3 DEF AskingOK, IsTemporary, Chatted
      <3> QED
        BY <1>0, <1>1, <3>1, <3>2, NewStep
    <2> QED
      BY <2>2, <2>3
  <1>7. CASE Starts(h)
    <2>1. PICK blocks \in world.rounds : StartRound(h, blocks)
      BY <1>7 DEF Starts
    <2>2. AskingOK(job[h])
      BY <2>1, PlaceOK DEF StartRound
    <2>3. CASE IsTemporary(h)
      BY <1>2, <2>1, <2>3 DEF StartRound
    <2>4. CASE ~IsTemporary(h)
      <3>1. PICK uses : uses = NextCall..(NextCall + Len(blocks) - 1)
        OBVIOUS
      <3>2. steps' = steps \union
               {Step(NextSeq, job[h].session, job[h].turn, "use", uses, h)}
        BY <2>1, <2>4, <3>1 DEF StartRound
      <3>3. NextCall \in Positive /\ Len(blocks) \in Nat
        BY <2>1, NextCallIsFresh, RoundStarts
      <3>4. uses \in SUBSET Positive /\ IsFiniteSet(uses)
        <4>1. NextCall \in Int /\ NextCall + Len(blocks) - 1 \in Int
          BY <3>3 DEF Positive
        <4>2. IsFiniteSet(uses)
          BY <3>1, <4>1, FS_Interval
        <4>3. uses \subseteq Positive
          BY <3>1, <3>3 DEF Positive
        <4> QED
          BY <4>2, <4>3
      <3>5. job[h].session \in Sessions /\ job[h].turn \in Positive
        BY <2>2, <2>4 DEF AskingOK, IsTemporary, Chatted
      <3> QED
        BY <1>0, <1>1, <3>2, <3>4, <3>5, NewStep
    <2> QED
      BY <2>3, <2>4
  <1>8. CASE CutSteps(h)
    <2>1. EditOK(job[h])
      BY <1>8, PlaceOK DEF CutSteps, Truncating
    <2>2. PICK x : x = Step(NextSeq, job[h].session, job[h].turn, "user", {}, Nobody)
      OBVIOUS
    <2>3. StepOK(x) /\ IsFiniteSet(steps \union {x})
      BY <1>1, <2>1, <2>2, NewStep DEF EditOK
    <2>4. steps' = {y \in steps : y.seq \notin job[h].drop} \union {x}
      BY <1>8, <2>2 DEF CutSteps
    <2>5. steps' \subseteq steps \union {x}
      BY <2>4
    <2> QED
      BY <1>0, <2>3, <2>5, FS_Subset
  <1>9. CASE ApplyResult(h)
    <2>1. ResultOK(job[h])
      BY <1>9, PlaceOK DEF ApplyResult
    <2>2. Transitions(h) \subseteq {job[h].call}
      BY DEF Transitions
    <2>3. PICK x : x = Step(NextSeq, job[h].session, job[h].turn, "tool", {job[h].call}, Nobody)
      OBVIOUS
    <2>4. steps' = steps \/ steps' = steps \union {x}
      BY <1>9, <2>2, <2>3 DEF ApplyResult
    <2>5. IsFiniteSet({job[h].call}) /\ {job[h].call} \in SUBSET Positive
      BY <2>1, FS_Singleton DEF ResultOK
    <2>6. StepOK(x) /\ IsFiniteSet(steps \union {x})
      BY <1>1, <2>1, <2>3, <2>5, NewStep DEF ResultOK
    <2> QED
      BY <1>0, <2>4, <2>6
  <1>10. CASE CommitRound(h)
    <2>1. steps' = Sealed(h, steps)
      BY <1>10 DEF CommitRound
    <2>2. IsFiniteSet(steps')
      BY <1>0, <2>1, RowsOfTransaction
    <2>3. ASSUME NEW x \in steps
          PROVE  StepOK([x EXCEPT !.by = IF @ = h THEN Nobody ELSE @])
      BY <1>0, SealedStep
    <2> QED
      BY <2>1, <2>2, <2>3 DEF Sealed
  <1> QED
    BY <1>2, <1>3, <1>4, <1>5, <1>6, <1>7, <1>8, <1>9, <1>10
       DEF ChatEffect, Turns, Looks, ToolResult, chatVars, Resolves, LeaveToClient,
           Truncates, FindCalls, CutCalls, FindSteps

(* The calls stay well formed.                                             *)
LEMMA CallsKept ==
  ASSUME RowsInv, NEW h \in Handlers, ChatEffect(h)
  PROVE  IsFiniteSet(calls') /\ \A c \in calls' : CallOK(c)
  <1>0. IsFiniteSet(calls) /\ \A c \in calls : CallOK(c)
    BY DEF RowsInv
  <1>2. CASE calls' = calls
    BY <1>0, <1>2
  <1>4. CASE Reverts(h)
    BY <1>0, <1>4, RowsOfTransaction DEF Reverts, Without
  <1>5. CASE Stores(h) \/ LeaveToClient(h)
    <2>1. RoundOK(job[h])
      BY <1>5, PlaceOK DEF Stores, LeaveToClient, AtTool, Working
    <2>2. PICK client \in BOOLEAN, done \in BOOLEAN :
             \/ calls' = calls
             \/ /\ ~IsTemporary(h)
                /\ calls' = calls \union
                   {Call(job[h].call, job[h].session, job[h].turn, client, done, h)}
      <3>1. CASE Stores(h)
        BY <3>1 DEF Stores, StoreResult, WithCall
      <3>2. CASE LeaveToClient(h)
        <4>1. 1 \in DOMAIN job[h].todo /\ job[h].todo[1].tool = "client"
          BY <2>1, <3>2 DEF LeaveToClient, AtTool, RoundOK
        <4>2. ~IsTemporary(h)
          BY <2>1, <4>1 DEF RoundOK, IsTemporary
        <4> QED
          BY <3>2, <4>2 DEF LeaveToClient
      <3> QED
        BY <1>5, <3>1, <3>2
    <2>3. PICK c : c = Call(job[h].call, job[h].session, job[h].turn, client, done, h)
      OBVIOUS
    <2>4. ~IsTemporary(h) => CallOK(c)
      BY <2>1, <2>3 DEF CallOK, Call, RoundOK, IsTemporary, Chatted, Owners
    <2>5. IsFiniteSet(calls \union {c})
      BY <1>0, FS_AddElement
    <2> QED
      BY <1>0, <2>2, <2>3, <2>4, <2>5
  <1>8. CASE CutSteps(h)
    <2>1. calls' \subseteq calls
      BY <1>8 DEF CutSteps
    <2> QED
      BY <1>0, <2>1, FS_Subset
  <1>9. CASE ApplyResult(h)
    <2>1. PICK f : f = [x \in calls |-> [x EXCEPT !.done = @ \/ x.id \in Transitions(h)]]
      OBVIOUS
    <2>2. calls' = {f[x] : x \in calls}
      BY <1>9, <2>1 DEF ApplyResult
    <2>3. ASSUME NEW x \in calls PROVE CallOK(f[x])
      <3>1. CallOK(x)
        BY <1>0
      <3>2. (x.done \/ x.id \in Transitions(h)) \in BOOLEAN
        OBVIOUS
      <3> QED
        BY <2>1, <3>1, <3>2 DEF CallOK
    <2> QED
      BY <1>0, <2>2, <2>3, FiniteRange
  <1>10. CASE CommitRound(h)
    <2>1. calls' = Sealed(h, calls)
      BY <1>10 DEF CommitRound
    <2>2. IsFiniteSet(calls')
      BY <1>0, <2>1, RowsOfTransaction
    <2>3. ASSUME NEW x \in calls
          PROVE  CallOK([x EXCEPT !.by = IF @ = h THEN Nobody ELSE @])
      BY <1>0, SealedCall
    <2> QED
      BY <2>1, <2>2, <2>3 DEF Sealed
  <1> QED
    BY <1>2, <1>4, <1>5, <1>8, <1>9, <1>10
       DEF ChatEffect, Turns, Looks, ToolResult, chatVars, Resolves, Says, Concludes,
           Starts, StartRound, Truncates, FindCalls, CutCalls, FindSteps

(* The answers, the images and the sales stay finitely many rows.          *)
LEMMA RestKept ==
  ASSUME RowsInv, [Next]_serviceVars
  PROVE  /\ IsFiniteSet(answered') /\ \A a \in answered' : AnswerOK(a)
         /\ IsFiniteSet(images') /\ \A i \in images' : ImageShape(i)
         /\ IsFiniteSet(sold') /\ \A s \in sold' : s.call \in Positive
  <1>0. /\ IsFiniteSet(answered) /\ \A a \in answered : AnswerOK(a)
        /\ IsFiniteSet(images) /\ \A i \in images : ImageShape(i)
        /\ IsFiniteSet(sold) /\ \A s \in sold : s.call \in Positive
    BY DEF RowsInv
  <1>1. ASSUME NEW h \in Handlers, Undoes(h)
        PROVE  /\ IsFiniteSet(images') /\ \A i \in images' : ImageShape(i)
               /\ UNCHANGED <<answered, sold>>
    BY <1>0, <1>1, RowsOfTransaction DEF Undoes, Without
  <1>2. ASSUME NEW h \in Handlers, Draws(h)
        PROVE  /\ IsFiniteSet(images') /\ \A i \in images' : ImageShape(i)
               /\ UNCHANGED <<answered, sold>>
    <2>1. job[h].call \in Positive
      BY <1>2, PlaceOK DEF Draws, Working, RoundOK
    <2>2. PICK s : images' = images \union {ImageRow(h, s, job[h].call)}
      BY <1>2 DEF Draws
    <2>3. ImageShape(ImageRow(h, s, job[h].call))
      BY <2>1 DEF ImageRow, ImageShape
    <2> QED
      BY <1>0, <1>2, <2>1, <2>2, <2>3, FS_AddElement DEF Draws
  <1>3. ASSUME NEW h \in Handlers, Seals(h)
        PROVE  /\ IsFiniteSet(images') /\ \A i \in images' : ImageShape(i)
               /\ IsFiniteSet(sold') /\ \A s \in sold' : s.call \in Positive
               /\ UNCHANGED answered
    <2>1. IsFiniteSet(images') /\ images' = Sealed(h, images)
      BY <1>0, <1>3, RowsOfTransaction DEF Seals
    <2>2. \A i \in images : ImageShape([i EXCEPT !.by = IF @ = h THEN Nobody ELSE @])
      BY <1>0 DEF ImageShape
    <2>3. PICK f : f = [i \in OpenRows(h, images) |-> [call |-> i.call, expires |-> i.expires]]
      OBVIOUS
    <2>4. PICK made : made = {f[i] : i \in OpenRows(h, images)}
      OBVIOUS
    <2>5. made = {[call |-> i.call, expires |-> i.expires] : i \in OpenRows(h, images)}
      BY <2>3, <2>4
    <2>6. sold' = sold \union made
      BY <1>3, <2>5 DEF Seals
    <2>7. IsFiniteSet(OpenRows(h, images)) /\ OpenRows(h, images) \subseteq images
      BY <1>0, FS_Subset DEF OpenRows
    <2>8. IsFiniteSet(sold')
      BY <1>0, <2>4, <2>6, <2>7, FiniteRange, FS_Union
    <2>9. \A s \in sold' : s.call \in Positive
      BY <1>0, <2>5, <2>6, <2>7 DEF ImageShape
    <2>10. \A i \in images' : ImageShape(i)
      BY <1>0, <2>1, <2>2 DEF Sealed
    <2> QED
      BY <1>3, <2>1, <2>8, <2>9, <2>10 DEF Seals
  <1>4. ASSUME NEW h \in Handlers, Pays(h)
        PROVE  /\ IsFiniteSet(answered') /\ \A a \in answered' : AnswerOK(a)
               /\ UNCHANGED <<images, sold>>
    <2>1. job[h].turn \in Positive
      BY <1>4, PlaceOK DEF Pays, AskingOK
    <2>2. PICK a : a = [turn |-> job[h].turn, plan |-> job[h].plan, round |-> job[h].round,
                        first |-> job[h].first]
      OBVIOUS
    <2>3. AnswerOK(a) /\ IsFiniteSet(answered \union {a})
      BY <1>0, <2>1, <2>2, FS_AddElement DEF AnswerOK
    <2> QED
      BY <1>0, <1>4, <2>2, <2>3 DEF Pays
  <1>5. ASSUME NEW s \in Sessions, Loses(s)
        PROVE  /\ IsFiniteSet(images') /\ \A i \in images' : ImageShape(i)
               /\ UNCHANGED <<answered, sold>>
    <2>1. PICK f : f = [i \in images |-> [i EXCEPT !.session = IF @ = s THEN NoSession ELSE @]]
      OBVIOUS
    <2>2. images' = {f[i] : i \in images}
      BY <1>5, <2>1 DEF Loses
    <2>3. \A i \in images : ImageShape(f[i])
      BY <1>0, <2>1 DEF ImageShape
    <2>4. IsFiniteSet({f[i] : i \in images})
      BY <1>0, FiniteRange
    <2>5. UNCHANGED <<answered, sold>>
      BY <1>5 DEF Loses
    <2> QED
      BY <2>2, <2>3, <2>4, <2>5
  <1>6. CASE Sheds
    <2>1. images' \subseteq images
      BY <1>6 DEF Sheds, FetchImages, DeleteImage
    <2>2. UNCHANGED <<answered, sold>>
      BY <1>6 DEF Sheds, FetchImages, DeleteImage
    <2> QED
      BY <1>0, <2>1, <2>2, FS_Subset
  <1>7. CASE Ages \/ UNCHANGED <<now, debits, images, sold, erased, answered>>
    BY <1>0, <1>7 DEF Ages
  <1> QED
    BY <1>0, <1>1, <1>2, <1>3, <1>4, <1>5, <1>6, <1>7, SalesStep

(* Nobody changes the world.                                               *)
LEMMA WorldStays ==
  ASSUME [Next]_serviceVars
  PROVE  world' = world
  <1>1. ASSUME NEW op, Arrives(op) PROVE world' = world
    BY <1>1 DEF Arrives
  <1>2. ASSUME NEW op, NEW h, ChatArrives(h, op) PROVE world' = world
    BY <1>1, <1>2 DEF ChatArrives
  <1>3. ASSUME NEW h \in Handlers, Arrival(h) PROVE world' = world
    BY <1>1, <1>2, <1>3 DEF Arrival, ChatRun, ChatTemporary, ChatEdit, ChatToolResult,
       UploadFile
  <1>4. ASSUME NEW h \in Handlers, Works(h) PROVE world' = world
    BY <1>4 DEF Works
  <1>5. CASE ManageChats \/ ManageImages \/ ManageWorkspaces
    BY <1>1, <1>5 DEF ManageChats, ManageImages, ManageWorkspaces
  <1>6. ASSUME NEW h, AskLimits(h) \/ LimitStep(h) PROVE world' = world
    BY <1>6 DEF AskLimits, LimitStep
  <1>7. CASE TimePasses \/ UNCHANGED serviceVars
    BY <1>7 DEF TimePasses, serviceVars, vars
  <1> QED
    BY <1>3, <1>4, <1>5, <1>6, <1>7 DEF Next

(* Rows, calls and jobs stay well formed in every step.                    *)
LEMMA RowsKept ==
  ASSUME RowsInv, SessionsOK, [Next]_serviceVars
  PROVE  RowsInv'
  <1>1. world' = world
    BY WorldStays
  <1>2. /\ DOMAIN job' = Handlers
        /\ \A o \in Handlers : JobOK(job'[o])
        /\ IsFiniteSet(steps') /\ \A x \in steps' : StepOK(x)
        /\ IsFiniteSet(calls') /\ \A c \in calls' : CallOK(c)
    <2>0. /\ DOMAIN job = Handlers
          /\ \A o \in Handlers : JobOK(job[o])
          /\ IsFiniteSet(steps) /\ \A x \in steps : StepOK(x)
          /\ IsFiniteSet(calls) /\ \A c \in calls : CallOK(c)
      BY DEF RowsInv
    <2>1. ASSUME NEW h \in Handlers, ChatEffect(h)
          PROVE  /\ DOMAIN job' = Handlers
                 /\ \A o \in Handlers : JobOK(job'[o])
                 /\ IsFiniteSet(steps') /\ \A x \in steps' : StepOK(x)
                 /\ IsFiniteSet(calls') /\ \A c \in calls' : CallOK(c)
      <3>1. /\ DOMAIN job' = Handlers
            /\ \A o \in Others(h) : job'[o] = job[o]
            /\ JobOK(job'[h])
        BY <2>1, JobsKept
      <3>2. \A o \in Handlers : JobOK(job'[o])
        BY <2>0, <3>1 DEF Others
      <3> QED
        BY <2>1, <3>1, <3>2, StepsKept, CallsKept
    <2>2. ASSUME NEW s \in Sessions, DeleteChat(s)
          PROVE  job' = job /\ steps' \subseteq steps /\ calls' \subseteq calls
      BY <2>2 DEF DeleteChat
    <2>3. CASE job' = job /\ steps' \subseteq steps /\ calls' \subseteq calls
      BY <2>0, <2>3, FS_Subset
    <2> QED
      BY <2>1, <2>2, <2>3, ChatSteps DEF Rests
  <1> QED
    BY <1>1, <1>2, RestKept DEF RowsInv

(* Chats stay well formed, and time within its bound.                      *)
LEMMA SessionsKept ==
  ASSUME SessionsOK, world \in Worlds, now \in Times, [Next]_serviceVars
  PROVE  SessionsOK' /\ (now \in Times)'
  <1>1. now' \in Times
    BY ThrottleAssumption, SalesStep DEF Undoes, Draws, Seals, Pays, Loses, Sheds, Ages, Tick,
       Times
  <1> SUFFICES SessionsOK'
    BY <1>1
  <1> DEFINE Rows == [status: {"none", "live", "gone"}, updated: Times,
                      workspace: Workspaces \union {NoWorkspace}, hasProject: BOOLEAN]
  <1>2. sessions \in [Sessions -> Rows]
    BY DEF SessionsOK
  <1>3. ASSUME NEW s \in Sessions, NEW row \in Rows, sessions' = [sessions EXCEPT ![s] = row]
        PROVE  SessionsOK'
    BY <1>2, <1>3 DEF SessionsOK
  <1>4. ASSUME sessions' = sessions
        PROVE  SessionsOK'
    BY <1>4 DEF SessionsOK
  <1>5. CASE UNCHANGED serviceVars
    BY <1>4, <1>5 DEF serviceVars, vars, chatVars
  <1>6. CASE Next
    <2>1. ASSUME NEW h \in Handlers, Arrival(h)
          PROVE  SessionsOK'
      <3>1. ASSUME NEW s \in Sessions, NEW w \in Workspaces \union {NoWorkspace},
                   Open(h, s, w, world.hasProject)
            PROVE  SessionsOK'
        <4>1. PICK row : row = [status |-> "live", updated |-> now, workspace |-> w,
                                hasProject |-> world.hasProject]
          OBVIOUS
        <4>2. row \in Rows
          BY <4>1, WorldsAssumption
        <4>3. sessions' = [sessions EXCEPT ![s] = row]
          BY <3>1, <4>1 DEF Open
        <4> QED
          BY <1>3, <4>2, <4>3
      <3>2. ASSUME NEW s \in Sessions, Resume(h, s)
            PROVE  SessionsOK'
        BY <1>4, <3>2 DEF Resume
      <3>3. 1..world.chats \subseteq Sessions
        BY WorldsAssumption, ChatsAssumption DEF Sessions
      <3>4. CASE ChatRun(h)
        BY <3>1, <3>2, <3>3, <3>4 DEF ChatRun
      <3>5. CASE ChatTemporary(h) \/ ChatEdit(h) \/ ChatToolResult(h) \/ UploadFile(h)
        BY <1>4, <3>5 DEF ChatTemporary, ChatEdit, ChatToolResult, UploadFile, RunTemporary,
           EditMessage, ToolResult, chatVars
      <3> QED
        BY <2>1, <3>4, <3>5 DEF Arrival
    <2>2. ASSUME NEW h \in Handlers, Works(h)
          PROVE  SessionsOK'
      <3>1. CASE Finalize(h)
        <4>1. CASE IsTemporary(h) \/ job[h].session \notin Sessions
          <5>1. sessions' = sessions
            BY <1>2, <3>1, <4>1 DEF Finalize, Touched
          <5> QED
            BY <1>4, <5>1
        <4>2. CASE ~IsTemporary(h) /\ job[h].session \in Sessions
          <5>1. PICK row : row = [sessions[job[h].session] EXCEPT !.updated = now]
            OBVIOUS
          <5>2. row \in Rows
            BY <1>2, <4>2, <5>1
          <5>3. sessions' = [sessions EXCEPT ![job[h].session] = row]
            BY <1>2, <3>1, <4>2, <5>1 DEF Finalize, Touched
          <5> QED
            BY <1>3, <4>2, <5>2, <5>3
        <4> QED
          BY <4>1, <4>2
      <3>2. CASE Abort(h) \/ StoreFails(h) \/ ImageUnpaid(h) \/ WriteFails(h)
                 \/ FinalizeUnpaid(h) \/ DeadlockVictim(h)
        BY <1>4, <3>2 DEF Abort, StoreFails, ImageUnpaid, WriteFails, FinalizeUnpaid,
           DeadlockVictim, Rollback
      <3>3. CASE RunTool(h) \/ ImageRefused(h) \/ StoreImage(h) \/ DeleteSite(h)
                 \/ WriteSite(h) \/ CheckSite(h)
        BY <1>4, <3>3 DEF RunTool, ImageRefused, StoreImage, DeleteSite, WriteSite, CheckSite,
           StoreResult, chatVars
      <3>4. CASE Truncate(h) \/ UploadStep(h) \/ Truncates(h) \/ CutSteps(h) \/ ApplyResult(h)
                 \/ LeaveToClient(h) \/ CommitRound(h)
                 \/ \E blocks \in world.rounds : StartRound(h, blocks)
        BY <1>4, <3>4 DEF Truncate, UploadStep, Truncates, FindCalls, CutCalls, FindSteps,
           CutSteps, ApplyResult, LeaveToClient, CommitRound, StartRound, chatVars
      <3> QED
        BY <2>2, <3>1, <3>2, <3>3, <3>4 DEF Works, ChatStep, Truncates
    <2>3. ASSUME NEW h \in Handlers, AskLimits(h) \/ LimitStep(h)
          PROVE  SessionsOK'
      BY <1>4, <2>3 DEF AskLimits, LimitStep, chatVars
    <2>4. CASE ManageChats
      <3>1. ASSUME NEW s \in Sessions, DeleteChat(s)
            PROVE  SessionsOK'
        <4>1. PICK row : row = [sessions[s] EXCEPT !.status = "gone"]
          OBVIOUS
        <4>2. row \in Rows /\ sessions' = [sessions EXCEPT ![s] = row]
          BY <1>2, <3>1, <4>1 DEF DeleteChat
        <4> QED
          BY <1>3, <4>2
      <3>2. ASSUME NEW s \in Sessions, NEW w \in Workspaces \union {NoWorkspace},
                   UpdateMetadata(s, w)
            PROVE  SessionsOK'
        <4>1. PICK row : row = [[sessions[s] EXCEPT !.updated = now] EXCEPT !.workspace = w]
          OBVIOUS
        <4>2. row \in Rows
          BY <1>2, <4>1
        <4>3. sessions' = [sessions EXCEPT ![s] = row]
          BY <1>2, <3>2, <4>1 DEF UpdateMetadata, Rebound
        <4> QED
          BY <1>3, <4>2, <4>3
      <3> QED
        BY <2>4, <3>1, <3>2 DEF ManageChats
    <2>5. CASE ManageWorkspaces
      <3>1. ASSUME NEW w, Unbind(w)
            PROVE  SessionsOK'
        BY <1>2, <3>1 DEF Unbind, SessionsOK
      <3> QED
        BY <1>4, <2>5, <3>1 DEF ManageWorkspaces
    <2>6. CASE ManageImages \/ TimePasses
      BY <1>4, <2>6 DEF ManageImages, TimePasses, chatVars
    <2> QED
      BY <1>6, <2>1, <2>2, <2>3, <2>4, <2>5, <2>6 DEF Next
  <1> QED
    BY <1>1, <1>5, <1>6

-----------------------------------------------------------------------------
(* The parts of a row that the history is about.                           *)
LEMMA RowShapes ==
  ASSUME RowsInv
  PROVE  /\ \A x \in steps : /\ x.seq \in Nat /\ x.session \in Sessions
                             /\ x.uses \subseteq Nat /\ x.by \in Handlers \union {Nobody}
         /\ \A c \in calls : /\ c.id \in Nat /\ c.session \in Sessions
                             /\ c.by \in Handlers \union {Nobody}
  BY DEF RowsInv, StepOK, CallOK, Owners, Positive

(* What a handler works on is its own job.                                 *)
LEMMA OthersRest ==
  ASSUME NEW h, \A o \in Others(h) : job'[o] = job[o]
  PROVE  \A o \in Others(h) : /\ Working(o)' <=> Working(o)
                              /\ Ahead(o)' = Ahead(o)
                              /\ IsTemporary(o)' <=> IsTemporary(o)
  BY DEF Working, Ahead, Reserved, IsTemporary

(* A request that is at no tools goes on, and at most a message or an      *)
(* answer is stored.                                                       *)
Plain(x) ==
    /\ ~Uses(x) /\ x.kind # "tool" /\ x.by = Nobody /\ x.seq = NextSeq

QuietAt(h) ==
    /\ ~Working(h)
    /\ \A o \in Others(h) : job'[o] = job[o]
    /\ job'[h].pc \notin {"tools", "write", "apply", "find", "cut", "drop"}
    /\ \/ steps' = steps
       \/ \E x : steps' = steps \union {x} /\ Plain(x) /\ Live(x.session)'
    /\ UNCHANGED <<calls, torn>> /\ LiveStay

(* Requests that arrive, go on to the provider or end are quiet.           *)
LEMMA QuietStep ==
  ASSUME RowsInv, NEW h \in Handlers,
         Turns(h) \/ Says(h) \/ Concludes(h)
  PROVE  QuietAt(h)
  <1>1. DOMAIN job = Handlers
    BY DEF RowsInv
  <1>2. ASSUME NEW s, NEW t, Proceeds(h, s, t)
        PROVE  /\ job'[h].pc \in {"idle", "llm"}
               /\ \A o \in Others(h) : job'[o] = job[o]
    BY <1>1, <1>2 DEF Proceeds, Generating, Idle, Others
  <1>3. CASE Turns(h)
    BY <1>1, <1>3 DEF Turns, QuietAt, Working, Others
  <1>4. CASE Says(h)
    <2>1. PICK s \in Sessions :
          /\ Live(s)'
          /\ steps' = steps \union {Step(NextSeq, s, NextTurn, "user", {}, Nobody)}
          /\ Proceeds(h, s, NextTurn)
      BY <1>4 DEF Says
    <2>2. PICK x : x = Step(NextSeq, s, NextTurn, "user", {}, Nobody)
      OBVIOUS
    <2>3. Plain(x) /\ x.session = s
      BY <2>2 DEF Plain, Uses, Step
    <2>4. ~Working(h)
      BY <1>4 DEF Says, Idle, Working
    <2>5. job'[h].pc \in {"idle", "llm"} /\ \A o \in Others(h) : job'[o] = job[o]
      BY <1>2, <2>1
    <2>6. steps' = steps \union {x} /\ Live(x.session)'
      BY <2>1, <2>2, <2>3
    <2>7. UNCHANGED <<calls, torn>> /\ LiveStay
      BY <1>4 DEF Says
    <2> QED
      BY <2>3, <2>4, <2>5, <2>6, <2>7 DEF QuietAt
  <1>5. CASE Concludes(h)
    <2>1. /\ ~Working(h) /\ LiveStay /\ UNCHANGED <<calls, torn>>
          /\ job'[h].pc = "idle" /\ \A o \in Others(h) : job'[o] = job[o]
      BY <1>1, <1>5 DEF Concludes, Returns, Working, Idle, Others
    <2>2. CASE IsTemporary(h)
      BY <1>5, <2>1, <2>2 DEF Concludes, StoreAnswer, QuietAt
    <2>3. CASE ~IsTemporary(h)
      <3>1. PICK kind \in {"final", "truncated"} : steps' = steps \union
               {Step(NextSeq, job[h].session, job[h].turn, kind, {}, Nobody)}
        BY <1>5, <2>3 DEF Concludes, StoreAnswer
      <3>2. PICK x : x = Step(NextSeq, job[h].session, job[h].turn, kind, {}, Nobody)
        OBVIOUS
      <3>3. Plain(x) /\ x.session = job[h].session
        BY <3>2 DEF Plain, Uses, Step
      <3>4. AskingOK(job[h])
        BY <1>5, PlaceOK DEF Concludes
      <3>5. job[h].session \in Sessions /\ Live(job[h].session)
        BY <1>5, <2>3, <3>4 DEF Concludes, CanStore, IsTemporary, AskingOK, Chatted
      <3>6. PICK s : s = job[h].session
        OBVIOUS
      <3>7. Live(s)' /\ x.session = s
        BY <2>1, <3>3, <3>5, <3>6 DEF LiveStay
      <3>8. steps' = steps \union {x} /\ Live(x.session)'
        BY <3>1, <3>2, <3>7
      <3> QED
        BY <2>1, <3>3, <3>8 DEF QuietAt
    <2> QED
      BY <2>2, <2>3
  <1> QED
    BY <1>3, <1>4, <1>5

(* The next row is not one that a truncation has found.                    *)
LEMMA FreshDrops ==
  ASSUME RowsInv
  PROVE  \A o \in Handlers : job[o].pc = "drop" => NextSeq \notin job[o].drop
  BY NextSeqIsFresh DEF Editing, Truncating

(* A quiet step adds no use, call or result, so it breaks no tie between   *)
(* them.                                                                   *)
LEMMA QuietKeepsHistory ==
  ASSUME RowsInv, HistoryInv, NEW h \in Handlers, QuietAt(h)
  PROVE  HistoryInv'
  <1>1. /\ \A o \in Others(h) : job'[o] = job[o]
        /\ ~Working(h) /\ ~Working(h)'
        /\ job'[h].pc \notin {"apply", "find", "cut", "drop"}
        /\ calls' = calls /\ torn' = torn /\ LiveStay
    BY DEF QuietAt, Working
  <1>2. \A o \in Others(h) : /\ Working(o)' <=> Working(o)
                             /\ Ahead(o)' = Ahead(o)
                             /\ IsTemporary(o)' <=> IsTemporary(o)
    BY <1>1, OthersRest
  <1>3. \A o \in Handlers : o = h \/ o \in Others(h)
    BY DEF Others
  <1>4. \A x \in steps : x \in steps' /\ x.session \in Sessions /\ x.seq # NextSeq
    BY RowShapes, NextSeqIsFresh DEF QuietAt, Positive
  <1>5. \A x \in steps' : x \in steps \/ (Plain(x) /\ Live(x.session)')
    BY DEF QuietAt
  <1>6. \A x, y \in steps' : x \notin steps /\ y \notin steps => x = y
    BY DEF QuietAt
  <1>7. \A c \in calls : c.session \in Sessions
    BY RowShapes
  <1>8. h # Nobody
    BY ImagesAssumption
  <1>9. OpenRowsOfRound'
    BY <1>1, <1>2, <1>3, <1>5, RowShapes DEF HistoryInv, OpenRowsOfRound, Plain
  <1>10. RowsLive'
    BY <1>1, <1>4, <1>5, <1>7 DEF HistoryInv, RowsLive, LiveStay
  <1>11. RoundStarted'
    BY <1>1, <1>2, <1>3, <1>4, <1>5 DEF HistoryInv, RoundStarted, Plain
  <1>12. IdsApart'
    <2>1. \A x, y \in steps' : x.seq = y.seq => x = y
      BY <1>4, <1>5, <1>6 DEF HistoryInv, IdsApart, Plain
    <2> QED
      BY <1>1, <1>2, <1>3, <2>1 DEF HistoryInv, IdsApart, Others
  <1>13. CallsLinked'
    BY <1>1, <1>5 DEF HistoryInv, CallsLinked, Plain
  <1>14. CallsTied'
    BY <1>1, <1>4 DEF HistoryInv, CallsTied
  <1>15. ResultsTied'
    BY <1>1, <1>4, <1>5 DEF HistoryInv, ResultsTied, Plain
  <1>16. ResultsAimed'
    BY <1>1, <1>3 DEF HistoryInv, ResultsAimed
  <1>17. CutsWhole' /\ UsesApart'
    BY <1>1, <1>3, <1>5 DEF HistoryInv, CutsWhole, UsesApart, Plain
  <1>18. DropsInv'
    BY <1>1, <1>3, <1>5, FreshDrops DEF HistoryInv, DropsInv, DropsWhole, Plain
  <1> QED
    BY <1>9, <1>10, <1>11, <1>12, <1>13, <1>14, <1>15, <1>16, <1>17, <1>18 DEF HistoryInv

(* A call is looked up.                                                    *)
LEMMA LookKeepsHistory ==
  ASSUME RowsInv, HistoryInv, NEW h \in Handlers, Looks(h)
  PROVE  HistoryInv'
  <1>1. PICK call \in calls : ToolResult(h, call)
    BY DEF Looks
  <1>2. /\ UNCHANGED <<steps, calls, torn>> /\ LiveStay
        /\ \A o \in Others(h) : job'[o] = job[o]
        /\ job'[h].pc = "apply" /\ job'[h].session = call.session
        /\ job'[h].turn = call.turn /\ job'[h].call = call.id
        /\ ~Working(h) /\ ~Working(h)'
    BY <1>1 DEF Looks, ToolResult, chatVars, RowsInv, Others, Idle, Working
  <1>3. \A o \in Others(h) : /\ Working(o)' <=> Working(o)
                             /\ Ahead(o)' = Ahead(o)
                             /\ IsTemporary(o)' <=> IsTemporary(o)
    BY <1>2, OthersRest
  <1>4. \A o \in Handlers : o = h \/ o \in Others(h)
    BY DEF Others
  <1>5. OpenRowsOfRound'
    BY <1>2, <1>3, <1>4, RowShapes, ImagesAssumption DEF HistoryInv, OpenRowsOfRound
  <1>6. RowsLive'
    BY <1>2, RowShapes DEF HistoryInv, RowsLive, LiveStay
  <1>7. RoundStarted'
    BY <1>2, <1>3, <1>4 DEF HistoryInv, RoundStarted
  <1>8. IdsApart'
    <2>1. \A o \in Handlers : Working(o)' =>
             /\ \A c \in calls' : c.id \notin Ahead(o)'
             /\ \A p \in Others(o) :
                   /\ job'[p].pc = "apply" => job'[p].call \notin Ahead(o)'
                   /\ Working(p)' => Ahead(p)' \intersect Ahead(o)' = {}
      BY <1>2, <1>3, <1>4 DEF HistoryInv, IdsApart, Others
    <2>2. /\ \A x, y \in steps' : x.seq = y.seq => x = y
          /\ \A c, d \in calls' : c.id = d.id => c = d
      BY <1>2 DEF HistoryInv, IdsApart
    <2> QED
      BY <2>1, <2>2 DEF IdsApart
  <1>9. CallsLinked' /\ CallsTied' /\ ResultsTied'
    BY <1>2 DEF HistoryInv, CallsLinked, CallsTied, ResultsTied, Uses
  <1>10. ResultsAimed'
    <2>1. ASSUME NEW o \in Handlers, NEW c \in calls', job'[o].pc = "apply",
                 c.id = job'[o].call
          PROVE  c.session = job'[o].session /\ c.turn = job'[o].turn
      <3>1. CASE o = h
        <4>1. c = call
          BY <1>2, <2>1, <3>1 DEF HistoryInv, IdsApart
        <4> QED
          BY <1>2, <3>1, <4>1
      <3>2. CASE o \in Others(h)
        BY <1>2, <2>1, <3>2 DEF HistoryInv, ResultsAimed
      <3> QED
        BY <1>4, <3>1, <3>2
    <2> QED
      BY <2>1 DEF ResultsAimed
  <1>11. CutsWhole' /\ UsesApart'
    BY <1>2, <1>4 DEF HistoryInv, CutsWhole, UsesApart, Uses
  <1>12. DropsInv'
    BY <1>2, <1>4 DEF HistoryInv, DropsInv, DropsWhole, Uses
  <1> QED
    BY <1>5, <1>6, <1>7, <1>8, <1>9, <1>10, <1>11, <1>12 DEF HistoryInv

(* A website is resolved.                                                  *)
LEMMA ResolvingKeepsHistory ==
  ASSUME RowsInv, HistoryInv, NEW h \in Handlers, Resolves(h)
  PROVE  HistoryInv'
  <1>1. /\ UNCHANGED <<steps, calls, torn>> /\ LiveStay
        /\ \A o \in Others(h) : job'[o] = job[o]
        /\ job'[h].pc = "write" /\ job'[h].session = job[h].session
        /\ job'[h].turn = job[h].turn /\ job'[h].call = job[h].call
        /\ job'[h].todo = job[h].todo
        /\ job[h].pc = "tools"
    BY ResolvedJob DEF Resolves, GoesOn, AtTool
  <1>2. /\ Working(h) /\ Working(h)'
        /\ Ahead(h)' = Ahead(h) /\ (IsTemporary(h)' <=> IsTemporary(h))
    BY <1>1 DEF Working, Ahead, Reserved, IsTemporary
  <1>3. \A o \in Others(h) : /\ Working(o)' <=> Working(o)
                             /\ Ahead(o)' = Ahead(o)
                             /\ IsTemporary(o)' <=> IsTemporary(o)
    BY <1>1, OthersRest
  <1>4. \A o \in Handlers : o = h \/ o \in Others(h)
    BY DEF Others
  <1>5. \A o \in Handlers : /\ Working(o)' <=> Working(o)
                            /\ Ahead(o)' = Ahead(o)
                            /\ IsTemporary(o)' <=> IsTemporary(o)
                            /\ job'[o].session = job[o].session /\ job'[o].turn = job[o].turn
                            /\ job'[o].call = job[o].call
    BY <1>1, <1>2, <1>3, <1>4
  <1>6. \A o \in Handlers :
           job'[o].pc \in {"apply", "find", "cut", "drop"} => job'[o] = job[o]
    BY <1>1, <1>4
  <1>7. OpenRowsOfRound'
    BY <1>1, <1>5, RowShapes DEF HistoryInv, OpenRowsOfRound
  <1>8. RowsLive'
    BY <1>1, RowShapes DEF HistoryInv, RowsLive, LiveStay
  <1>9. RoundStarted'
    BY <1>1, <1>5 DEF HistoryInv, RoundStarted, Uses
  <1>10. IdsApart'
    BY <1>1, <1>5, <1>6 DEF HistoryInv, IdsApart, Others
  <1>11. CallsLinked' /\ CallsTied' /\ ResultsTied'
    BY <1>1 DEF HistoryInv, CallsLinked, CallsTied, ResultsTied, Uses
  <1>12. ResultsAimed' /\ CutsWhole' /\ UsesApart'
    BY <1>1, <1>6 DEF HistoryInv, ResultsAimed, CutsWhole, UsesApart, Uses
  <1>13. DropsInv'
    BY <1>1, <1>6 DEF HistoryInv, DropsInv, DropsWhole, Uses
  <1> QED
    BY <1>7, <1>8, <1>9, <1>10, <1>11, <1>12, <1>13 DEF HistoryInv

(* An open transaction is undone.                                          *)
LEMMA UndoKeepsHistory ==
  ASSUME RowsInv, HistoryInv, NEW h \in Handlers, Reverts(h)
  PROVE  HistoryInv'
  <1>1. /\ UNCHANGED torn /\ LiveStay
        /\ \A o \in Others(h) : job'[o] = job[o]
        /\ job'[h].pc = "idle" /\ ~Working(h)'
    BY DEF Reverts, Returns, RowsInv, Others, Idle, Working
  <1>2. /\ \A x : x \in steps' <=> x \in steps /\ x.by # h
        /\ \A c : c \in calls' <=> c \in calls /\ c.by # h
    BY DEF Reverts, Without
  <1>3. \A o \in Others(h) : /\ Working(o)' <=> Working(o)
                             /\ Ahead(o)' = Ahead(o)
                             /\ IsTemporary(o)' <=> IsTemporary(o)
    BY <1>1, OthersRest
  <1>4. \A o \in Handlers : o = h \/ (o \in Others(h) /\ o # h)
    BY DEF Others
  <1>5. OpenRowsOfRound'
    BY <1>1, <1>2, <1>3, <1>4, RowShapes DEF HistoryInv, OpenRowsOfRound
  <1>6. RowsLive'
    BY <1>1, <1>2, RowShapes DEF HistoryInv, RowsLive, LiveStay
  <1>7. RoundStarted'
    BY <1>1, <1>2, <1>3, <1>4 DEF HistoryInv, RoundStarted, Uses
  <1>8. IdsApart'
    <2>1. \A o \in Handlers : Working(o)' =>
             /\ \A c \in calls' : c.id \notin Ahead(o)'
             /\ \A p \in Others(o) :
                   /\ job'[p].pc = "apply" => job'[p].call \notin Ahead(o)'
                   /\ Working(p)' => Ahead(p)' \intersect Ahead(o)' = {}
      BY <1>1, <1>2, <1>3, <1>4 DEF HistoryInv, IdsApart, Others
    <2>2. /\ \A x, y \in steps' : x.seq = y.seq => x = y
          /\ \A c, d \in calls' : c.id = d.id => c = d
      BY <1>2 DEF HistoryInv, IdsApart
    <2> QED
      BY <2>1, <2>2 DEF IdsApart
  <1>9. CallsLinked'
    BY <1>2 DEF HistoryInv, CallsLinked, Uses
  <1>10. CallsTied'
    BY <1>1, <1>2 DEF HistoryInv, CallsLinked, CallsTied, Uses
  <1>11. ResultsTied'
    BY <1>1, <1>2 DEF HistoryInv, ResultsTied, Uses
  <1>12. ResultsAimed' /\ CutsWhole' /\ UsesApart'
    BY <1>1, <1>2, <1>4 DEF HistoryInv, ResultsAimed, CutsWhole, UsesApart, Uses
  <1>13. DropsInv'
    BY <1>1, <1>2, <1>4 DEF HistoryInv, DropsInv, DropsWhole, Uses
  <1> QED
    BY <1>5, <1>6, <1>7, <1>8, <1>9, <1>10, <1>11, <1>12, <1>13 DEF HistoryInv

(* A chat is deleted.                                                      *)
LEMMA DeletionKeepsHistory ==
  ASSUME RowsInv, SessionsOK, HistoryInv, NEW s \in Sessions, DeleteChat(s)
  PROVE  HistoryInv'
  <1>1. UNCHANGED <<job, torn>>
    BY DEF DeleteChat
  <1>2. /\ \A x : x \in steps' <=> x \in steps /\ x.session # s
        /\ \A c : c \in calls' <=> c \in calls /\ c.session # s
        /\ \A row \in steps \union calls : row.session = s => row.by = Nobody
    BY DEF DeleteChat, In
  <1>3. \A o \in Sessions : o # s /\ Live(o) => Live(o)'
    BY DEF DeleteChat, Live, SessionsOK
  <1>4. \A o \in Handlers : /\ Working(o)' <=> Working(o)
                            /\ Ahead(o)' = Ahead(o)
                            /\ IsTemporary(o)' <=> IsTemporary(o)
                            /\ job'[o] = job[o]
    BY <1>1 DEF Working, Ahead, Reserved, IsTemporary
  <1>5. OpenRowsOfRound'
    BY <1>2, <1>4, RowShapes DEF HistoryInv, OpenRowsOfRound
  <1>6. RowsLive'
    BY <1>2, <1>3, RowShapes DEF HistoryInv, RowsLive
  <1>7. RoundStarted'
    BY <1>2, <1>4, ImagesAssumption DEF HistoryInv, RoundStarted, Uses
  <1>8. IdsApart'
    BY <1>2, <1>4 DEF HistoryInv, IdsApart, Others
  <1>9. CallsLinked'
    BY <1>2 DEF HistoryInv, CallsLinked, Uses
  <1>10. CallsTied'
    BY <1>1, <1>2 DEF HistoryInv, CallsLinked, CallsTied, Uses
  <1>11. ResultsTied'
    BY <1>1, <1>2 DEF HistoryInv, ResultsTied, Uses
  <1>12. ResultsAimed' /\ CutsWhole' /\ UsesApart'
    BY <1>1, <1>2 DEF HistoryInv, ResultsAimed, CutsWhole, UsesApart, Uses
  <1>13. DropsInv'
    BY <1>1, <1>2 DEF HistoryInv, DropsInv, DropsWhole, Uses
  <1> QED
    BY <1>5, <1>6, <1>7, <1>8, <1>9, <1>10, <1>11, <1>12, <1>13 DEF HistoryInv

(* The next tool of the round: its result and its call, or its call alone. *)
ResultAt(h, x) ==
    /\ x.kind = "tool" /\ ~Uses(x) /\ x.uses = {job[h].call} /\ x.by = h
    /\ x.session = job[h].session /\ x.seq = NextSeq

CallAt(h, c) ==
    /\ c.id = job[h].call /\ c.by = h
    /\ c.session = job[h].session /\ c.turn = job[h].turn

AdvancesAt(h) ==
    /\ Working(h) /\ Working(h)' /\ job'[h].pc = "tools"
    /\ \A o \in Others(h) : job'[o] = job[o]
    /\ job'[h].session = job[h].session /\ job'[h].turn = job[h].turn
    /\ job[h].call \in Ahead(h)
    /\ \A u : u \in Ahead(h)' <=> u \in Ahead(h) /\ u # job[h].call
    /\ \/ steps' = steps
       \/ ~IsTemporary(h) /\ \E x : steps' = steps \union {x} /\ ResultAt(h, x)
    /\ \/ calls' = calls
       \/ ~IsTemporary(h) /\ \E c : calls' = calls \union {c} /\ CallAt(h, c)
    /\ UNCHANGED torn /\ LiveStay

(* Running a tool here and leaving one to the client are both advances.    *)
LEMMA AdvanceStep ==
  ASSUME RowsInv, NEW h \in Handlers, Stores(h) \/ LeaveToClient(h)
  PROVE  AdvancesAt(h)
  <1>1. Working(h) /\ job[h].todo # <<>> /\ (NextTool(h) \/ LeaveToClient(h))
    BY DEF Stores, StoreResult, LeaveToClient, AtTool, Working
  <1>2. /\ GoesOn(h, {"tools"})
        /\ job'[h].call = job[h].call + 1
        /\ Len(job'[h].todo) = Len(job[h].todo) - 1 /\ Len(job[h].todo) \in Nat \ {0}
    BY <1>1, NextBlock
  <1>3. RoundOK(job[h]) /\ job[h].call \in Nat
    BY <1>1, PlaceOK DEF RoundOK, Positive
  <1>4. /\ job'[h].pc = "tools" /\ Working(h)'
        /\ \A o \in Others(h) : job'[o] = job[o]
        /\ job'[h].session = job[h].session /\ job'[h].turn = job[h].turn
    BY <1>2 DEF GoesOn, Working
  <1>5. /\ job[h].call \in Ahead(h)
        /\ \A u : u \in Ahead(h)' <=> u \in Ahead(h) /\ u # job[h].call
    <2>1. PICK c \in Nat, n \in Nat \ {0} : c = job[h].call /\ n = Len(job[h].todo)
      BY <1>2, <1>3
    <2>2. Reserved(h) = c + n
      BY <1>1, <2>1 DEF Reserved, Working
    <2>3. Reserved(h)' = (c + 1) + (n - 1)
      BY <1>2, <1>4, <2>1 DEF Reserved
    <2>4. Ahead(h) = c..(c + n - 1)
      BY <2>1, <2>2 DEF Ahead
    <2>5. Ahead(h)' = (c + 1)..(c + n - 1)
      <3>1. PICK r : r = Reserved(h)'
        OBVIOUS
      <3>2. r - 1 = c + n - 1
        BY <2>3, <3>1
      <3>3. job'[h].call = c + 1
        BY <1>2, <2>1
      <3>4. Ahead(h)' = job'[h].call..(r - 1)
        BY <3>1 DEF Ahead
      <3> QED
        BY <3>2, <3>3, <3>4
    <2> QED
      BY <2>1, <2>4, <2>5
  <1>6. \/ steps' = steps
        \/ ~IsTemporary(h) /\ \E x : steps' = steps \union {x} /\ ResultAt(h, x)
    <2>1. PICK x : x = Step(NextSeq, job[h].session, job[h].turn, "tool", {job[h].call}, h)
      OBVIOUS
    <2>2. steps' = steps \/ (~IsTemporary(h) /\ steps' = steps \union {x})
      BY <2>1 DEF Stores, StoreResult, WithResult, LeaveToClient
    <2>3. ResultAt(h, x)
      BY <2>1 DEF ResultAt, Step, Uses
    <2> QED
      BY <2>2, <2>3
  <1>7. \/ calls' = calls
        \/ ~IsTemporary(h) /\ \E c : calls' = calls \union {c} /\ CallAt(h, c)
    <2>1. PICK client \in BOOLEAN, done \in BOOLEAN :
             \/ calls' = calls
             \/ /\ ~IsTemporary(h)
                /\ calls' = calls \union
                   {Call(job[h].call, job[h].session, job[h].turn, client, done, h)}
      <3>1. CASE Stores(h)
        BY <3>1 DEF Stores, StoreResult, WithCall
      <3>2. CASE LeaveToClient(h)
        <4>1. 1 \in DOMAIN job[h].todo /\ job[h].todo[1].tool = "client"
          BY <1>3, <3>2 DEF LeaveToClient, AtTool, RoundOK
        <4>2. ~IsTemporary(h)
          BY <1>3, <4>1 DEF RoundOK, IsTemporary
        <4> QED
          BY <3>2, <4>2 DEF LeaveToClient
      <3> QED
        BY <3>1, <3>2
    <2>2. PICK c : c = Call(job[h].call, job[h].session, job[h].turn, client, done, h)
      OBVIOUS
    <2>3. CallAt(h, c)
      BY <2>2 DEF CallAt, Call
    <2> QED
      BY <2>1, <2>2, <2>3
  <1>8. UNCHANGED torn /\ LiveStay
    BY DEF Stores, StoreResult, LeaveToClient, LiveStay, Live
  <1> QED
    BY <1>1, <1>4, <1>5, <1>6, <1>7, <1>8 DEF AdvancesAt

(* An advance writes the result or the call of an id that the round has    *)
(* reserved, and that no other request can touch.                          *)
LEMMA AdvanceKeepsHistory ==
  ASSUME RowsInv, HistoryInv, NEW h \in Handlers, AdvancesAt(h)
  PROVE  HistoryInv'
  <1>1. /\ Working(h) /\ Working(h)' /\ job'[h].pc = "tools"
        /\ \A o \in Others(h) : job'[o] = job[o]
        /\ job'[h].session = job[h].session /\ job'[h].turn = job[h].turn
        /\ job[h].call \in Ahead(h)
        /\ \A u : u \in Ahead(h)' <=> u \in Ahead(h) /\ u # job[h].call
        /\ UNCHANGED torn /\ LiveStay
        /\ IsTemporary(h)' <=> IsTemporary(h)
        /\ h # Nobody
    BY ImagesAssumption DEF AdvancesAt, IsTemporary
  <1>2. \A o \in Others(h) : /\ Working(o)' <=> Working(o)
                             /\ Ahead(o)' = Ahead(o)
                             /\ IsTemporary(o)' <=> IsTemporary(o)
    BY <1>1, OthersRest
  <1>3. \A o \in Handlers : o = h \/ (o \in Others(h) /\ o # h)
    BY DEF Others
  <1>4. \A x \in steps : /\ x \in steps' /\ x.session \in Sessions
                         /\ x.seq < NextSeq /\ x.seq # NextSeq
    BY RowShapes, NextSeqIsFresh DEF AdvancesAt, Positive
  <1>5. /\ \A x \in steps' : x \in steps \/ (ResultAt(h, x) /\ ~IsTemporary(h))
        /\ \A x, y \in steps' : x \notin steps /\ y \notin steps => x = y
    BY DEF AdvancesAt
  <1>6. \A c \in calls : c \in calls' /\ c.session \in Sessions
    BY RowShapes DEF AdvancesAt
  <1>7. /\ \A c \in calls' : c \in calls \/ (CallAt(h, c) /\ ~IsTemporary(h))
        /\ \A c, d \in calls' : c \notin calls /\ d \notin calls => c = d
    BY DEF AdvancesAt
  <1>8. ~IsTemporary(h) =>
           \E y \in steps : /\ Uses(y) /\ y.by = h /\ y.session = job[h].session
                            /\ Ahead(h) \subseteq y.uses
    BY <1>1 DEF HistoryInv, RoundStarted, OpenRowsOfRound
  <1>9. ~IsTemporary(h) => job[h].session \in Sessions /\ Live(job[h].session)
    BY <1>4, <1>8 DEF HistoryInv, RowsLive
  <1>10. OpenRowsOfRound'
    <2>1. \A o \in Handlers : job'[o].session = job[o].session /\ (Working(o)' <=> Working(o))
      BY <1>1, <1>2, <1>3
    <2> QED
      BY <1>1, <1>5, <1>7, <2>1, RowShapes
         DEF HistoryInv, OpenRowsOfRound, ResultAt, CallAt
  <1>11. RowsLive'
    <2>1. PICK s : s = job[h].session
      OBVIOUS
    <2>2. ~IsTemporary(h) => Live(s)'
      BY <1>1, <1>9, <2>1 DEF LiveStay
    <2> QED
      BY <1>1, <1>4, <1>5, <1>6, <1>7, <2>1, <2>2
         DEF HistoryInv, RowsLive, LiveStay, ResultAt, CallAt
  <1>12. RoundStarted'
    <2>1. ASSUME NEW o \in Handlers, Working(o)'
          PROVE  /\ \A y \in steps' : Uses(y) /\ y.uses \intersect Ahead(o)' # {} =>
                       y.session = job'[o].session /\ y.turn = job'[o].turn /\ y.by = o
                 /\ ~IsTemporary(o)' =>
                       \E y \in steps' : Uses(y) /\ y.by = o /\ Ahead(o)' \subseteq y.uses
      <3>1. CASE o = h
        BY <1>1, <1>4, <1>5, <3>1 DEF HistoryInv, RoundStarted, ResultAt
      <3>2. CASE o \in Others(h)
        BY <1>1, <1>2, <1>4, <1>5, <2>1, <3>2 DEF HistoryInv, RoundStarted, ResultAt
      <3> QED
        BY <1>3, <3>1, <3>2
    <2> QED
      BY <2>1 DEF RoundStarted, Uses
  <1>13. IdsApart'
    <2>1. \A x, y \in steps' : x.seq = y.seq => x = y
      BY <1>4, <1>5 DEF HistoryInv, IdsApart, ResultAt
    <2>2. \A c, d \in calls' : c.id = d.id => c = d
      BY <1>1, <1>7 DEF HistoryInv, IdsApart, CallAt
    <2>3. ASSUME NEW o \in Handlers, Working(o)'
          PROVE  /\ \A c \in calls' : c.id \notin Ahead(o)'
                 /\ \A p \in Others(o) :
                       /\ job'[p].pc = "apply" => job'[p].call \notin Ahead(o)'
                       /\ Working(p)' => Ahead(p)' \intersect Ahead(o)' = {}
      <3>1. CASE o = h
        BY <1>1, <1>2, <1>7, <3>1 DEF HistoryInv, IdsApart, CallAt, Others
      <3>2. CASE o \in Others(h)
        <4>1. Working(o) /\ Ahead(o)' = Ahead(o) /\ h \in Others(o)
          BY <1>2, <2>3, <3>2 DEF Others
        <4>2. Ahead(h) \intersect Ahead(o) = {} /\ \A c \in calls : c.id \notin Ahead(o)
          BY <1>1, <4>1 DEF HistoryInv, IdsApart
        <4>3. \A c \in calls' : c.id \notin Ahead(o)'
          BY <1>1, <1>7, <4>1, <4>2 DEF CallAt
        <4>4. ASSUME NEW p \in Others(o)
              PROVE  /\ job'[p].pc = "apply" => job'[p].call \notin Ahead(o)'
                     /\ Working(p)' => Ahead(p)' \intersect Ahead(o)' = {}
          <5>1. CASE p = h
            BY <1>1, <4>1, <4>2, <5>1
          <5>2. CASE p \in Others(h)
            BY <1>1, <1>2, <4>1, <4>4, <5>2 DEF HistoryInv, IdsApart
          <5> QED
            BY <5>1, <5>2 DEF Others
        <4> QED
          BY <4>3, <4>4
      <3> QED
        BY <1>3, <3>1, <3>2
    <2> QED
      BY <2>1, <2>2, <2>3 DEF IdsApart
  <1>14. CallsLinked'
    BY <1>1, <1>5, <1>7 DEF HistoryInv, CallsLinked, RoundStarted, ResultAt, CallAt, Uses
  <1>15. CallsTied'
    BY <1>1, <1>4, <1>7, <1>8 DEF HistoryInv, CallsTied, CallAt, Uses
  <1>16. ResultsTied'
    BY <1>1, <1>4, <1>5, <1>8 DEF HistoryInv, ResultsTied, ResultAt, Uses
  <1>17. ResultsAimed'
    <2>1. \A o \in Handlers : job'[o].pc = "apply" =>
             job'[o] = job[o] /\ job[o].call # job[h].call
      BY <1>1, <1>3 DEF HistoryInv, IdsApart
    <2> QED
      BY <1>7, <2>1 DEF HistoryInv, ResultsAimed, CallAt
  <1>18. CutsWhole' /\ UsesApart'
    BY <1>1, <1>3, <1>5, <1>7
       DEF HistoryInv, CutsWhole, UsesApart, ResultAt, CallAt, Uses
  <1>19. DropsInv'
    <2>1. ASSUME NEW o \in Handlers, job'[o].pc = "drop"
          PROVE  DropsWhole(o)'
      <3>1. job'[o] = job[o] /\ DropsWhole(o) /\ NextSeq \notin job[o].drop
        BY <1>1, <1>3, <2>1, FreshDrops DEF HistoryInv, DropsInv
      <3>2. \A y \in steps : Uses(y) /\ job[h].call \in y.uses => y.seq \notin job[o].drop
        BY <1>1, <3>1 DEF HistoryInv, RoundStarted, DropsWhole
      <3>3. \A y \in steps' : Uses(y) => y \in steps
        BY <1>5 DEF ResultAt
      <3>4. \A y \in steps' : y.seq \in job[o].drop => y.by = Nobody
        BY <1>5, <3>1 DEF ResultAt, DropsWhole
      <3>5. \A c \in calls', y \in steps' :
               /\ c.session \notin torn /\ c.id \notin job[o].cut
               /\ Uses(y) /\ c.id \in y.uses
               => y.seq \notin job[o].drop
        BY <1>7, <3>1, <3>2, <3>3 DEF CallAt, DropsWhole
      <3>6. \A x, y \in steps' :
               /\ x.kind = "tool" /\ x.session \notin torn
               /\ Uses(y) /\ x.uses \subseteq y.uses /\ y.seq \in job[o].drop
               => x.seq \in job[o].drop
        BY <1>5, <3>1, <3>2, <3>3 DEF ResultAt, DropsWhole
      <3> QED
        BY <1>1, <3>1, <3>4, <3>5, <3>6 DEF DropsWhole, Uses
    <2> QED
      BY <2>1 DEF DropsInv
  <1> QED
    BY <1>10, <1>11, <1>12, <1>13, <1>14, <1>15, <1>16, <1>17, <1>18, <1>19 DEF HistoryInv

(* A truncation finds its calls, deletes them and finds its steps.         *)
LEMMA TruncationKeepsHistory ==
  ASSUME RowsInv, HistoryInv, NEW h \in Handlers, Truncates(h)
  PROVE  HistoryInv'
  <1>1. /\ UNCHANGED <<steps, calls, torn>> /\ LiveStay
        /\ \A o \in Others(h) : job'[o] = job[o]
        /\ EditOK(job[h]) /\ job'[h].pc \in {"find", "cut", "drop"}
        /\ job'[h].session = job[h].session /\ job'[h].anchor = job[h].anchor
        /\ ~Working(h) /\ ~Working(h)'
    <2>1. UNCHANGED <<steps, calls, torn>> /\ LiveStay
      BY DEF Truncates, FindCalls, CutCalls, FindSteps, chatVars, LiveStay, Live
    <2> QED
      BY <2>1, EditGoesOn DEF Working
  <1>2. \A o \in Others(h) : /\ Working(o)' <=> Working(o)
                             /\ Ahead(o)' = Ahead(o)
                             /\ IsTemporary(o)' <=> IsTemporary(o)
    BY <1>1, OthersRest
  <1>3. \A o \in Handlers : o = h \/ (o \in Others(h) /\ o # h)
    BY DEF Others
  <1>4. OpenRowsOfRound'
    BY <1>1, <1>2, <1>3, RowShapes, ImagesAssumption DEF HistoryInv, OpenRowsOfRound
  <1>5. RowsLive'
    BY <1>1, RowShapes DEF HistoryInv, RowsLive, LiveStay
  <1>6. RoundStarted'
    BY <1>1, <1>2, <1>3 DEF HistoryInv, RoundStarted
  <1>7. IdsApart'
    <2>1. \A o \in Handlers : Working(o)' =>
             /\ \A c \in calls' : c.id \notin Ahead(o)'
             /\ \A p \in Others(o) :
                   /\ job'[p].pc = "apply" => job'[p].call \notin Ahead(o)'
                   /\ Working(p)' => Ahead(p)' \intersect Ahead(o)' = {}
      BY <1>1, <1>2, <1>3 DEF HistoryInv, IdsApart, Others
    <2>2. /\ \A x, y \in steps' : x.seq = y.seq => x = y
          /\ \A c, d \in calls' : c.id = d.id => c = d
      BY <1>1 DEF HistoryInv, IdsApart
    <2> QED
      BY <2>1, <2>2 DEF IdsApart
  <1>8. CallsLinked' /\ CallsTied' /\ ResultsTied' /\ UsesApart'
    BY <1>1 DEF HistoryInv, CallsLinked, CallsTied, ResultsTied, UsesApart, Uses
  <1>9. ResultsAimed'
    BY <1>1, <1>3 DEF HistoryInv, ResultsAimed
  <1>10. CutsWhole'
    <2>1. ASSUME NEW c \in calls, NEW y \in steps, job'[h].pc \in {"find", "cut"},
                 c.by = Nobody, c.session = job[h].session, c.session \notin torn,
                 c.id \notin job'[h].cut, Uses(y), c.id \in y.uses
          PROVE  y.seq < job[h].anchor
      <3>1. CASE FindCalls(h)
        <4>1. y.session = c.session /\ y.turn = c.turn /\ y.by = c.by
          BY <2>1 DEF HistoryInv, CallsLinked
        <4>2. y.seq >= job[h].anchor => y \in FromAnchor(h)
          BY <2>1, <4>1 DEF FromAnchor, In, Committed
        <4>3. c \notin CallsToCut(h)
          <5>1. job'[h].cut = {d.id : d \in CallsToCut(h)}
            BY <3>1, EditGoesOn
          <5> QED
            BY <2>1, <5>1
        <4>4. y \notin FromAnchor(h)
          BY <2>1, <4>1, <4>3 DEF CallsToCut, In, Committed
        <4>5. y.seq \in Int /\ job[h].anchor \in Int
          BY <1>1, RowShapes DEF EditOK, Positive
        <4> QED
          BY <4>2, <4>4, <4>5
      <3>2. CASE CutCalls(h)
        <4>1. job[h].pc = "find" /\ job'[h].cut = job[h].cut
          BY <3>2, EditGoesOn
        <4> QED
          BY <2>1, <4>1 DEF HistoryInv, CutsWhole
      <3>3. CASE FindSteps(h)
        BY <2>1, <3>3, EditGoesOn
      <3> QED
        BY <3>1, <3>2, <3>3 DEF Truncates
    <2> QED
      BY <1>1, <1>3, <2>1 DEF HistoryInv, CutsWhole, Uses
  <1>11. DropsInv'
    <2>1. ASSUME job'[h].pc = "drop"
          PROVE  /\ \A x \in steps : x.seq \in job'[h].drop => x.by = Nobody
                 /\ \A c \in calls, y \in steps :
                       /\ c.session \notin torn /\ c.id \notin job'[h].cut
                       /\ Uses(y) /\ c.id \in y.uses
                       => y.seq \notin job'[h].drop
                 /\ \A x, y \in steps :
                       /\ x.kind = "tool" /\ x.session \notin torn
                       /\ Uses(y) /\ x.uses \subseteq y.uses /\ y.seq \in job'[h].drop
                       => x.seq \in job'[h].drop
      <3>1. /\ job[h].pc = "cut" /\ job'[h].cut = job[h].cut
            /\ job'[h].drop = {x.seq : x \in FromAnchor(h)}
        BY <2>1, EditGoesOn DEF Truncates
      <3>2. \A y \in steps : y \in FromAnchor(h) <=>
               y.by = Nobody /\ y.session = job[h].session /\ y.seq >= job[h].anchor
        BY DEF FromAnchor, In, Committed
      <3>3. \A y \in steps : y.seq \in job'[h].drop <=> y \in FromAnchor(h)
        BY <3>1 DEF HistoryInv, IdsApart, FromAnchor, In, Committed
      <3>4. job[h].anchor \in Int /\ \A y \in steps : y.seq \in Int
        BY <1>1, RowShapes DEF EditOK, Positive
      <3>5. ASSUME NEW c \in calls, NEW y \in steps, c.session \notin torn,
                   c.id \notin job[h].cut, Uses(y), c.id \in y.uses
            PROVE  y \notin FromAnchor(h)
        <4>1. y.session = c.session /\ y.by = c.by
          BY <3>5 DEF HistoryInv, CallsLinked
        <4>2. c.by = Nobody /\ c.session = job[h].session => y.seq < job[h].anchor
          BY <3>1, <3>5 DEF HistoryInv, CutsWhole
        <4> QED
          BY <3>2, <3>4, <4>1, <4>2
      <3>6. ASSUME NEW x \in steps, NEW y \in steps, x.kind = "tool", x.session \notin torn,
                   Uses(y), x.uses \subseteq y.uses, y \in FromAnchor(h)
            PROVE  x \in FromAnchor(h)
        <4>1. PICK z \in steps : /\ Uses(z) /\ x.uses \subseteq z.uses /\ z.seq < x.seq
                                 /\ z.session = x.session /\ z.by = x.by
          BY <3>6 DEF HistoryInv, ResultsTied
        <4>2. x.uses # {}
          BY <3>6 DEF RowsInv, StepOK
        <4>3. z = y
          BY <3>6, <4>1, <4>2 DEF HistoryInv, UsesApart
        <4> QED
          BY <3>2, <3>4, <3>6, <4>1, <4>3
      <3> QED
        BY <3>1, <3>2, <3>3, <3>5, <3>6
    <2> QED
      BY <1>1, <1>3, <2>1 DEF HistoryInv, DropsInv, DropsWhole, Uses
  <1> QED
    BY <1>4, <1>5, <1>6, <1>7, <1>8, <1>9, <1>10, <1>11 DEF HistoryInv

(* It deletes them, and the new message takes their place.                 *)
LEMMA CutStepsKeepsHistory ==
  ASSUME RowsInv, HistoryInv, NEW h \in Handlers, CutSteps(h)
  PROVE  HistoryInv'
  <1>1. PICK x : x = Step(NextSeq, job[h].session, job[h].turn, "user", {}, Nobody)
    OBVIOUS
  <1>2. /\ x.seq = NextSeq /\ x.session = job[h].session /\ ~Uses(x)
        /\ x.kind # "tool" /\ x.by = Nobody
    BY <1>1 DEF Step, Uses
  <1>3. /\ EditOK(job[h]) /\ job[h].pc = "drop" /\ Live(job[h].session)
        /\ DOMAIN job = Handlers /\ DropsWhole(h)
    BY PlaceOK DEF CutSteps, RowsInv, Truncating, HistoryInv, DropsInv
  <1>4. /\ torn' = torn /\ sessions' = sessions /\ LiveStay
        /\ \A o \in Others(h) : job'[o] = job[o]
        /\ job'[h].pc \in {"idle", "llm"}
        /\ ~Working(h) /\ ~Working(h)'
    BY <1>3 DEF CutSteps, Proceeds, Generating, Idle, Others, Working, LiveStay, Live
  <1>5. /\ \A y \in steps : /\ y \in steps' \/ y.seq \in job[h].drop
                            /\ y.seq # NextSeq
        /\ \A y \in steps' : (y \in steps /\ y.seq \notin job[h].drop) \/ y = x
    <2>1. steps' = {y \in steps : y.seq \notin job[h].drop} \union {x}
      BY <1>1 DEF CutSteps
    <2> QED
      BY <2>1, RowShapes, NextSeqIsFresh DEF Positive
  <1>6. \A c : c \in calls' <=> c \in calls /\ c.id \notin job[h].cut
    BY <1>3 DEF CutSteps, Cut
  <1>7. \A y \in steps : y.seq \in job[h].drop => y.by = Nobody
    BY <1>3 DEF DropsWhole
  <1>8. \A o \in Others(h) : /\ Working(o)' <=> Working(o)
                             /\ Ahead(o)' = Ahead(o)
                             /\ IsTemporary(o)' <=> IsTemporary(o)
    BY <1>4, OthersRest
  <1>9. \A o \in Handlers : o = h \/ (o \in Others(h) /\ o # h)
    BY DEF Others
  <1>10. OpenRowsOfRound'
    BY <1>2, <1>4, <1>5, <1>6, <1>8, <1>9, RowShapes, ImagesAssumption
       DEF HistoryInv, OpenRowsOfRound
  <1>11. RowsLive'
    BY <1>2, <1>3, <1>4, <1>5, <1>6 DEF HistoryInv, RowsLive, Live
  <1>12. RoundStarted'
    BY <1>2, <1>4, <1>5, <1>7, <1>8, <1>9, ImagesAssumption DEF HistoryInv, RoundStarted, Uses
  <1>13. IdsApart'
    <2>1. \A o \in Handlers : Working(o)' =>
             /\ \A c \in calls' : c.id \notin Ahead(o)'
             /\ \A p \in Others(o) :
                   /\ job'[p].pc = "apply" => job'[p].call \notin Ahead(o)'
                   /\ Working(p)' => Ahead(p)' \intersect Ahead(o)' = {}
      BY <1>4, <1>6, <1>8, <1>9 DEF HistoryInv, IdsApart, Others
    <2>2. \A y, z \in steps' : y.seq = z.seq => y = z
      BY <1>2, <1>5 DEF HistoryInv, IdsApart
    <2>3. \A c, d \in calls' : c.id = d.id => c = d
      BY <1>6 DEF HistoryInv, IdsApart
    <2> QED
      BY <2>1, <2>2, <2>3 DEF IdsApart
  <1>14. CallsLinked'
    BY <1>2, <1>5, <1>6 DEF HistoryInv, CallsLinked, Uses
  <1>15. CallsTied'
    <2>1. ASSUME NEW c \in calls, c.id \notin job[h].cut, c.session \notin torn
          PROVE  \E y \in steps' : Uses(y) /\ c.id \in y.uses
      <3>1. PICK y \in steps : Uses(y) /\ c.id \in y.uses
        BY <2>1 DEF HistoryInv, CallsTied
      <3>2. y.seq \notin job[h].drop
        BY <1>3, <2>1, <3>1 DEF DropsWhole
      <3> QED
        BY <1>5, <3>1, <3>2
    <2> QED
      BY <1>4, <1>6, <2>1 DEF CallsTied, Uses
  <1>16. ResultsTied'
    <2>1. ASSUME NEW r \in steps, r.seq \notin job[h].drop, r.kind = "tool",
                 r.session \notin torn
          PROVE  \E y \in steps' : /\ Uses(y) /\ r.uses \subseteq y.uses /\ y.seq < r.seq
                                   /\ y.session = r.session /\ y.by = r.by
      <3>1. PICK y \in steps : /\ Uses(y) /\ r.uses \subseteq y.uses /\ y.seq < r.seq
                               /\ y.session = r.session /\ y.by = r.by
        BY <2>1 DEF HistoryInv, ResultsTied
      <3>2. y.seq \notin job[h].drop
        BY <1>3, <2>1, <3>1 DEF DropsWhole
      <3> QED
        BY <1>5, <3>1, <3>2
    <2> QED
      BY <1>2, <1>4, <1>5, <2>1 DEF ResultsTied, Uses
  <1>17. ResultsAimed'
    BY <1>4, <1>6, <1>9 DEF HistoryInv, ResultsAimed
  <1>18. CutsWhole' /\ UsesApart'
    BY <1>2, <1>4, <1>5, <1>6, <1>9 DEF HistoryInv, CutsWhole, UsesApart, Uses
  <1>19. DropsInv'
    BY <1>2, <1>4, <1>5, <1>6, <1>9, FreshDrops DEF HistoryInv, DropsInv, DropsWhole, Uses
  <1> QED
    BY <1>10, <1>11, <1>12, <1>13, <1>14, <1>15, <1>16, <1>17, <1>18, <1>19 DEF HistoryInv

(* A result of the client is applied.                                      *)
LEMMA ApplyKeepsHistory ==
  ASSUME RowsInv, HistoryInv, NEW h \in Handlers, ApplyResult(h)
  PROVE  HistoryInv'
  <1>1. PICK x : x = Step(NextSeq, job[h].session, job[h].turn, "tool", {job[h].call}, Nobody)
    OBVIOUS
  <1>2. /\ x.seq = NextSeq /\ x.session = job[h].session /\ ~Uses(x)
        /\ x.uses = {job[h].call} /\ x.by = Nobody
    BY <1>1 DEF Step, Uses
  <1>3. ResultOK(job[h]) /\ job[h].pc = "apply" /\ Live(job[h].session) /\ DOMAIN job = Handlers
    BY PlaceOK DEF ApplyResult, RowsInv
  <1>4. /\ torn' = torn /\ sessions' = sessions
        /\ \A o \in Others(h) : job'[o] = job[o]
        /\ job'[h].pc \in {"idle", "llm"}
        /\ ~Working(h) /\ ~Working(h)'
    <2>1. PICK j : j = Generating(job[h].session, job[h].turn)
      OBVIOUS
    <2>2. job' = [job EXCEPT ![h] = j] \/ job' = [job EXCEPT ![h] = Idle]
      BY <2>1 DEF ApplyResult, Proceeds, Returns
    <2>3. j.pc = "llm" /\ Idle.pc = "idle"
      BY <2>1 DEF Generating, Idle
    <2>4. /\ \A o \in Others(h) : job'[o] = job[o]
          /\ job'[h].pc \in {"idle", "llm"}
      BY <1>3, <2>2, <2>3 DEF Others
    <2>5. torn' = torn /\ sessions' = sessions
      BY DEF ApplyResult
    <2> QED
      BY <1>3, <2>4, <2>5 DEF Working
  <1>5. \/ steps' = steps
        \/ /\ steps' = steps \union {x}
           /\ \E c \in calls : c.id = job[h].call /\ c.by = Nobody
    <2>1. \A i \in Transitions(h) : /\ i = job[h].call
                                    /\ \E c \in calls : c.id = job[h].call /\ c.by = Nobody
      BY DEF Transitions, Committed
    <2>2. steps' = steps \union
             {Step(NextSeq, job[h].session, job[h].turn, "tool", {i}, Nobody) : i \in Transitions(h)}
      BY DEF ApplyResult
    <2> QED
      BY <1>1, <2>1, <2>2
  <1>6. /\ \A y \in steps : y \in steps' /\ y.seq < NextSeq /\ y.seq # NextSeq
        /\ \A y \in steps' : \/ y \in steps
                             \/ /\ y = x
                                /\ \E c \in calls : c.id = job[h].call /\ c.by = Nobody
    BY <1>5, RowShapes, NextSeqIsFresh DEF Positive
  <1>7. \A d \in calls' : \E c \in calls :
           d.id = c.id /\ d.session = c.session /\ d.turn = c.turn /\ d.by = c.by
    <2>1. calls' = {[c EXCEPT !.done = @ \/ c.id \in Transitions(h)] : c \in calls}
      BY DEF ApplyResult
    <2>2. \A c \in calls : CallOK(c)
      BY DEF RowsInv
    <2> QED
      BY <2>1, <2>2 DEF CallOK
  <1>8. \A c, d \in calls' : c.id = d.id => c = d
    <2>1. PICK f : f = [c \in calls |-> [c EXCEPT !.done = @ \/ c.id \in Transitions(h)]]
      OBVIOUS
    <2>2. calls' = {f[c] : c \in calls}
      BY <2>1 DEF ApplyResult
    <2>3. \A c \in calls : f[c].id = c.id
      BY <2>1 DEF RowsInv, CallOK
    <2> QED
      BY <2>2, <2>3 DEF HistoryInv, IdsApart
  <1>9. \A o \in Others(h) : /\ Working(o)' <=> Working(o)
                             /\ Ahead(o)' = Ahead(o)
                             /\ IsTemporary(o)' <=> IsTemporary(o)
    BY <1>4, OthersRest
  <1>10. \A o \in Handlers : o = h \/ (o \in Others(h) /\ o # h)
    BY DEF Others
  <1>11. OpenRowsOfRound'
    BY <1>2, <1>4, <1>6, <1>7, <1>9, <1>10, RowShapes, ImagesAssumption
       DEF HistoryInv, OpenRowsOfRound
  <1>12. RowsLive'
    BY <1>2, <1>3, <1>4, <1>6, <1>7 DEF HistoryInv, RowsLive, Live
  <1>13. RoundStarted'
    BY <1>2, <1>4, <1>6, <1>9, <1>10 DEF HistoryInv, RoundStarted, Uses
  <1>14. IdsApart'
    <2>1. \A o \in Handlers : Working(o)' =>
             /\ \A c \in calls' : c.id \notin Ahead(o)'
             /\ \A p \in Others(o) :
                   /\ job'[p].pc = "apply" => job'[p].call \notin Ahead(o)'
                   /\ Working(p)' => Ahead(p)' \intersect Ahead(o)' = {}
      BY <1>4, <1>7, <1>9, <1>10 DEF HistoryInv, IdsApart, Others
    <2>2. \A y, z \in steps' : y.seq = z.seq => y = z
      BY <1>2, <1>6 DEF HistoryInv, IdsApart
    <2> QED
      BY <1>8, <2>1, <2>2 DEF IdsApart
  <1>15. CallsLinked'
    BY <1>2, <1>6, <1>7 DEF HistoryInv, CallsLinked, Uses
  <1>16. CallsTied'
    BY <1>4, <1>6, <1>7 DEF HistoryInv, CallsTied, Uses
  <1>17. ResultsTied'
    <2>1. ASSUME NEW c \in calls, c.id = job[h].call, c.by = Nobody, job[h].session \notin torn
          PROVE  \E y \in steps : /\ Uses(y) /\ job[h].call \in y.uses
                                  /\ y.session = job[h].session /\ y.by = Nobody
      <3>1. c.session = job[h].session
        BY <1>3, <2>1 DEF HistoryInv, ResultsAimed
      <3>2. PICK y \in steps : Uses(y) /\ c.id \in y.uses
        BY <2>1, <3>1 DEF HistoryInv, CallsTied
      <3> QED
        BY <2>1, <3>1, <3>2 DEF HistoryInv, CallsLinked
    <2> QED
      BY <1>2, <1>4, <1>6, <2>1 DEF HistoryInv, ResultsTied, Uses
  <1>18. ResultsAimed'
    BY <1>4, <1>7, <1>10 DEF HistoryInv, ResultsAimed
  <1>19. CutsWhole' /\ UsesApart'
    BY <1>2, <1>4, <1>6, <1>7, <1>10 DEF HistoryInv, CutsWhole, UsesApart, Uses
  <1>20. DropsInv'
    <2>1. ASSUME NEW o \in Handlers, job'[o].pc = "drop"
          PROVE  DropsWhole(o)'
      <3>1. /\ o \in Others(h) /\ job'[o] = job[o] /\ DropsWhole(o)
            /\ NextSeq \notin job[o].drop
        BY <1>4, <1>10, <2>1, FreshDrops DEF HistoryInv, DropsInv
      <3>2. job[h].call \notin job[o].cut
        BY <2>1, <3>1 DEF ApplyResult, Cut
      <3>3. \A y \in steps' : y.seq \in job[o].drop => y \in steps /\ y.by = Nobody
        BY <1>2, <1>6, <3>1 DEF DropsWhole
      <3>4. \A c \in calls', y \in steps :
               /\ c.session \notin torn /\ c.id \notin job[o].cut
               /\ Uses(y) /\ c.id \in y.uses
               => y.seq \notin job[o].drop
        BY <1>7, <3>1 DEF DropsWhole
      <3>5. ASSUME NEW c \in calls, c.id = job[h].call, job[h].session \notin torn,
                   NEW y \in steps, Uses(y), job[h].call \in y.uses
            PROVE  y.seq \notin job[o].drop
        <4>1. c.session = job[h].session
          BY <1>3, <3>5 DEF HistoryInv, ResultsAimed
        <4> QED
          BY <3>1, <3>2, <3>5, <4>1 DEF DropsWhole
      <3>6. ASSUME NEW r \in steps', NEW y \in steps, r.kind = "tool", r.session \notin torn,
                   Uses(y), r.uses \subseteq y.uses, y.seq \in job[o].drop
            PROVE  r.seq \in job[o].drop
        <4>1. CASE r \in steps
          BY <3>1, <3>6, <4>1 DEF DropsWhole
        <4>2. CASE r \notin steps
          BY <1>2, <1>6, <3>5, <3>6, <4>2
        <4> QED
          BY <4>1, <4>2
      <3> QED
        BY <1>4, <3>1, <3>3, <3>4, <3>6 DEF DropsWhole, Uses
    <2> QED
      BY <2>1 DEF DropsInv
  <1> QED
    BY <1>11, <1>12, <1>13, <1>14, <1>15, <1>16, <1>17, <1>18, <1>19, <1>20 DEF HistoryInv

(* The provider asks for tools.                                            *)
LEMMA StartKeepsHistory ==
  ASSUME RowsInv, HistoryInv, NEW h \in Handlers, Starts(h)
  PROVE  HistoryInv'
  <1>1. PICK blocks \in world.rounds : StartRound(h, blocks)
    BY DEF Starts
  <1>2. /\ GoesOn(h, {"tools"})
        /\ job'[h].call = NextCall /\ job'[h].todo = blocks
        /\ Len(blocks) \in Nat
    BY <1>1, RoundStarts
  <1>3. PICK x : x = Step(NextSeq, job[h].session, job[h].turn, "use",
                          NextCall..(NextCall + Len(blocks) - 1), h)
    OBVIOUS
  <1>4. /\ x.seq = NextSeq /\ x.session = job[h].session /\ x.turn = job[h].turn
        /\ Uses(x) /\ x.kind = "use" /\ x.uses = NextCall..(NextCall + Len(blocks) - 1)
        /\ x.by = h
    BY <1>3 DEF Step, Uses
  <1>5. AskingOK(job[h]) /\ ~Working(h) /\ h \in Chatting
    BY <1>1, PlaceOK DEF StartRound, Working, Chatting, AtWork
  <1>6. /\ UNCHANGED <<calls, torn, sessions>>
        /\ \A o \in Others(h) : job'[o] = job[o]
        /\ Working(h)' /\ job'[h].pc = "tools"
        /\ job'[h].session = job[h].session /\ job'[h].turn = job[h].turn
        /\ (IsTemporary(h)' <=> IsTemporary(h))
    BY <1>1, <1>2 DEF StartRound, GoesOn, Working, IsTemporary
  <1>7. steps' = steps \/ (~IsTemporary(h) /\ steps' = steps \union {x})
    BY <1>1, <1>3 DEF StartRound
  <1>8. ~IsTemporary(h) => steps' = steps \union {x} /\ Live(job[h].session)
    BY <1>1, <1>3, <1>5 DEF StartRound, CanStore
  <1>9. Ahead(h)' = x.uses
    <2>1. Reserved(h)' = NextCall + Len(blocks)
      BY <1>2, <1>6 DEF Reserved
    <2>2. PICK r : r = Reserved(h)'
      OBVIOUS
    <2>3. Ahead(h)' = job'[h].call..(r - 1)
      BY <2>2 DEF Ahead
    <2>4. PICK m : m = NextCall + Len(blocks) - 1
      OBVIOUS
    <2>5. x.uses = NextCall..m
      BY <1>4, <2>4
    <2>6. r = NextCall + Len(blocks)
      BY <2>1, <2>2
    <2>7. r - 1 = m
      BY <1>2, <2>4, <2>6, NextCallIsFresh DEF Positive
    <2> QED
      BY <1>2, <2>3, <2>5, <2>7
  <1>10. \A u \in x.uses : u \in Nat /\ u >= NextCall /\ NextCall \in Nat
    BY <1>2, <1>4, NextCallIsFresh DEF Positive
  <1>11. /\ \A y \in steps : y \in steps' /\ y.seq # NextSeq /\ y.uses \intersect x.uses = {}
         /\ \A y \in steps' : y \in steps \/ (y = x /\ ~IsTemporary(h))
         /\ \A c \in calls : c.id \notin x.uses
    <2>1. \A y \in steps : y.seq # NextSeq
      BY RowShapes, NextSeqIsFresh DEF Positive
    <2>2. \A y \in steps : y.uses \intersect x.uses = {}
      <3>1. \A y \in steps : \A u \in y.uses : u \in Nat /\ u < NextCall
        BY RowShapes, NextCallIsFresh
      <3> QED
        BY <1>10, <3>1
    <2>3. \A c \in calls : c.id \notin x.uses
      <3>1. \A c \in calls : c.id \in Nat /\ c.id < NextCall
        BY RowShapes, NextCallIsFresh
      <3> QED
        BY <1>10, <3>1
    <2> QED
      BY <1>7, <2>1, <2>2, <2>3
  <1>12. \A o \in Others(h) : /\ Working(o)' <=> Working(o)
                              /\ Ahead(o)' = Ahead(o)
                              /\ IsTemporary(o)' <=> IsTemporary(o)
    BY <1>6, OthersRest
  <1>13. \A o \in Others(h) : Working(o) => Ahead(o) \intersect x.uses = {}
    <2>1. ASSUME NEW o \in Others(h), Working(o)
          PROVE  Ahead(o) \intersect x.uses = {}
      <3>1. o \in Handlers /\ o \in Chatting
        BY <2>1 DEF Others, Working, Chatting, AtWork
      <3>2. Reserved(o) \in Nat /\ Reserved(o) < NextCall /\ job[o].call \in Nat
        BY <3>1, NextCallIsFresh, ReservedIsNumber
      <3>3. \A u \in Ahead(o) : u \in Nat /\ u < NextCall
        BY <3>2, NextCallIsFresh DEF Ahead, Positive
      <3> QED
        BY <1>10, <3>3
    <2> QED
      BY <2>1
  <1>14. \A o \in Others(h) : job[o].pc = "apply" => job[o].call \notin x.uses
    <2>1. ASSUME NEW o \in Others(h), job[o].pc = "apply"
          PROVE  job[o].call \notin x.uses
      <3>1. o \in Handlers /\ o \in Chatting
        BY <2>1 DEF Others, Chatting, AtWork
      <3>2. job[o].call \in Nat /\ job[o].call < NextCall
        BY <3>1, NextCallIsFresh, ReservedIsNumber
      <3> QED
        BY <1>10, <3>2
    <2> QED
      BY <2>1
  <1>15. \A o \in Handlers : o = h \/ (o \in Others(h) /\ o # h)
    BY DEF Others
  <1>16. OpenRowsOfRound'
    BY <1>4, <1>5, <1>6, <1>11, <1>12, <1>15, RowShapes DEF HistoryInv, OpenRowsOfRound
  <1>17. RowsLive'
    BY <1>4, <1>6, <1>8, <1>11 DEF HistoryInv, RowsLive, Live
  <1>18. RoundStarted'
    <2>1. ASSUME NEW o \in Handlers, Working(o)'
          PROVE  /\ \A y \in steps' : Uses(y) /\ y.uses \intersect Ahead(o)' # {} =>
                       y.session = job'[o].session /\ y.turn = job'[o].turn /\ y.by = o
                 /\ ~IsTemporary(o)' =>
                       \E y \in steps' : Uses(y) /\ y.by = o /\ Ahead(o)' \subseteq y.uses
      <3>1. CASE o = h
        BY <1>4, <1>6, <1>8, <1>9, <1>11, <3>1
      <3>2. CASE o \in Others(h)
        BY <1>6, <1>11, <1>12, <1>13, <2>1, <3>2 DEF HistoryInv, RoundStarted
      <3> QED
        BY <1>15, <3>1, <3>2
    <2> QED
      BY <2>1 DEF RoundStarted, Uses
  <1>19. IdsApart'
    <2>1. \A y, z \in steps' : y.seq = z.seq => y = z
      BY <1>4, <1>11 DEF HistoryInv, IdsApart
    <2>2. \A c, d \in calls' : c.id = d.id => c = d
      BY <1>6 DEF HistoryInv, IdsApart
    <2>3. ASSUME NEW o \in Handlers, Working(o)'
          PROVE  /\ \A c \in calls' : c.id \notin Ahead(o)'
                 /\ \A p \in Others(o) :
                       /\ job'[p].pc = "apply" => job'[p].call \notin Ahead(o)'
                       /\ Working(p)' => Ahead(p)' \intersect Ahead(o)' = {}
      <3>1. CASE o = h
        BY <1>6, <1>9, <1>11, <1>12, <1>13, <1>14, <3>1
      <3>2. CASE o \in Others(h)
        <4>1. Working(o) /\ Ahead(o)' = Ahead(o)
          BY <1>12, <2>3, <3>2
        <4>2. ASSUME NEW p \in Others(o)
              PROVE  /\ job'[p].pc = "apply" => job'[p].call \notin Ahead(o)'
                     /\ Working(p)' => Ahead(p)' \intersect Ahead(o)' = {}
          <5>1. CASE p = h
            BY <1>6, <1>9, <1>13, <3>2, <4>1, <5>1
          <5>2. CASE p \in Others(h)
            BY <1>6, <1>12, <4>1, <4>2, <5>2 DEF HistoryInv, IdsApart
          <5> QED
            BY <5>1, <5>2 DEF Others
        <4>3. \A c \in calls' : c.id \notin Ahead(o)'
          BY <1>6, <4>1 DEF HistoryInv, IdsApart
        <4> QED
          BY <4>2, <4>3
      <3> QED
        BY <1>15, <3>1, <3>2
    <2> QED
      BY <2>1, <2>2, <2>3 DEF IdsApart
  <1>20. CallsLinked'
    BY <1>6, <1>11 DEF HistoryInv, CallsLinked, Uses
  <1>21. CallsTied'
    BY <1>6, <1>11 DEF HistoryInv, CallsTied, Uses
  <1>22. ResultsTied'
    BY <1>4, <1>6, <1>11 DEF HistoryInv, ResultsTied, Uses
  <1>23. ResultsAimed'
    BY <1>6, <1>15 DEF HistoryInv, ResultsAimed
  <1>24. CutsWhole'
    BY <1>6, <1>11, <1>15 DEF HistoryInv, CutsWhole, Uses
  <1>25. UsesApart'
    BY <1>11 DEF HistoryInv, UsesApart, Uses
  <1>26. DropsInv'
    <2>1. ASSUME NEW o \in Handlers, job'[o].pc = "drop"
          PROVE  DropsWhole(o)'
      <3>1. job'[o] = job[o] /\ DropsWhole(o) /\ NextSeq \notin job[o].drop
        BY <1>6, <1>15, <2>1, FreshDrops DEF HistoryInv, DropsInv
      <3>2. \A y \in steps' : y.seq \in job[o].drop => y \in steps
        BY <1>4, <1>11, <3>1
      <3>3. \A y \in steps' : y.kind = "tool" => y \in steps
        BY <1>4, <1>11
      <3> QED
        BY <1>6, <3>1, <3>2, <3>3 DEF DropsWhole, Uses
    <2> QED
      BY <2>1 DEF DropsInv
  <1> QED
    BY <1>16, <1>17, <1>18, <1>19, <1>20, <1>21, <1>22, <1>23, <1>24, <1>25, <1>26
       DEF HistoryInv

(* A round is committed: its rows are Nobody's from then on.               *)
LEMMA CommitKeepsHistory ==
  ASSUME RowsInv, HistoryInv, NEW h \in Handlers, CommitRound(h)
  PROVE  HistoryInv'
  <1> DEFINE Owner(o) == IF o = h THEN Nobody ELSE o
             SealedFrom(y, x) == /\ y.seq = x.seq /\ y.session = x.session /\ y.turn = x.turn
                                 /\ y.kind = x.kind /\ y.uses = x.uses /\ y.by = Owner(x.by)
             SealedOf(d, c) == /\ d.id = c.id /\ d.session = c.session /\ d.turn = c.turn
                               /\ d.by = Owner(c.by)
  <1>1. RoundOK(job[h]) /\ Working(h) /\ DOMAIN job = Handlers /\ h # Nobody
    BY PlaceOK, ImagesAssumption DEF CommitRound, Working, RowsInv
  <1>2. /\ sessions' = sessions
        /\ \A o \in Others(h) : job'[o] = job[o]
        /\ job'[h].pc \in {"idle", "llm"} /\ ~Working(h)'
    <2>1. PICK j : j = [pc |-> "llm", session |-> job[h].session, turn |-> job[h].turn,
                        call |-> 0, round |-> job[h].round + 1, plan |-> job[h].plan,
                        first |-> job[h].first]
      OBVIOUS
    <2>2. job' = [job EXCEPT ![h] = Idle] \/ job' = [job EXCEPT ![h] = j]
      BY <2>1 DEF CommitRound
    <2>3. j.pc = "llm" /\ Idle.pc = "idle"
      BY <2>1 DEF Idle
    <2>4. /\ \A o \in Others(h) : job'[o] = job[o]
          /\ job'[h].pc \in {"idle", "llm"}
      BY <1>1, <2>2, <2>3 DEF Others
    <2> QED
      BY <2>4 DEF CommitRound, Working
  <1>3. /\ \A s : s \in torn => s \in torn'
        /\ \A o \in Others(h) :
              job[o].pc \in {"find", "cut"} /\ job[o].session = job[h].session =>
                 job[h].session \in torn'
    BY DEF CommitRound
  <1>4. /\ \A y \in steps' : \E x \in steps : SealedFrom(y, x)
        /\ \A x \in steps : \E y \in steps' : SealedFrom(y, x)
        /\ \A y, z \in steps', x \in steps : SealedFrom(y, x) /\ SealedFrom(z, x) => y = z
    <2>1. PICK f : f = [x \in steps |-> [x EXCEPT !.by = IF @ = h THEN Nobody ELSE @]]
      OBVIOUS
    <2>2. steps' = {f[x] : x \in steps}
      BY <2>1 DEF CommitRound, Sealed
    <2>3. \A x \in steps : f[x] = [seq |-> x.seq, session |-> x.session, turn |-> x.turn,
             kind |-> x.kind, uses |-> x.uses, by |-> Owner(x.by)]
      <3>1. \A x \in steps : StepOK(x)
        BY DEF RowsInv
      <3> QED
        BY <2>1, <3>1, SealedStep
    <2>4. ASSUME NEW x \in steps PROVE SealedFrom(f[x], x)
      <3>1. PICK y : y = f[x]
        OBVIOUS
      <3>2. y = [seq |-> x.seq, session |-> x.session, turn |-> x.turn,
             kind |-> x.kind, uses |-> x.uses, by |-> Owner(x.by)]
        BY <2>3, <3>1
      <3>3. SealedFrom(y, x)
        BY <3>2
      <3> QED
        BY <3>1, <3>3
    <2>5. ASSUME NEW y \in steps', NEW x \in steps, SealedFrom(y, x)
          PROVE  y = f[x]
      <3>1. PICK z \in steps : y = f[z]
        BY <2>2
      <3> QED
        BY <2>3, <2>5, <3>1
    <2> QED
      BY <2>2, <2>4, <2>5
  <1>5. /\ \A d \in calls' : \E c \in calls : SealedOf(d, c)
        /\ \A c, d \in calls' : c.id = d.id => c = d
    <2>1. PICK f : f = [c \in calls |-> [c EXCEPT !.by = IF @ = h THEN Nobody ELSE @]]
      OBVIOUS
    <2>2. calls' = {f[c] : c \in calls}
      BY <2>1 DEF CommitRound, Sealed
    <2>3. \A c \in calls : CallOK(c)
      BY DEF RowsInv
    <2>4. ASSUME NEW c \in calls PROVE SealedOf(f[c], c)
      <3>1. PICK d : d = f[c]
        OBVIOUS
      <3>2. d = [c EXCEPT !.by = IF @ = h THEN Nobody ELSE @]
        BY <2>1, <3>1
      <3>3. d = [id |-> c.id, session |-> c.session, turn |-> c.turn, client |-> c.client,
                 done |-> c.done, by |-> Owner(c.by)]
        BY <2>3, <3>2, SealedCall
      <3>4. SealedOf(d, c)
        BY <3>3
      <3> QED
        BY <3>1, <3>4
    <2> QED
      BY <2>2, <2>4 DEF HistoryInv, IdsApart
  <1>6. \A o \in Others(h) : /\ Working(o)' <=> Working(o)
                             /\ Ahead(o)' = Ahead(o)
                             /\ IsTemporary(o)' <=> IsTemporary(o)
    BY <1>2, OthersRest
  <1>7. \A o \in Handlers : o = h \/ (o \in Others(h) /\ o # h)
    BY DEF Others
  <1> HIDE DEF SealedFrom, SealedOf
  <1>8. OpenRowsOfRound'
    BY <1>2, <1>4, <1>5, <1>6, <1>7, RowShapes
       DEF HistoryInv, OpenRowsOfRound, SealedFrom, SealedOf
  <1>9. RowsLive'
    BY <1>2, <1>4, <1>5 DEF HistoryInv, RowsLive, Live, SealedFrom, SealedOf
  <1>10. RoundStarted'
    <2>1. ASSUME NEW o \in Handlers, Working(o)'
          PROVE  /\ \A y \in steps' : Uses(y) /\ y.uses \intersect Ahead(o)' # {} =>
                       y.session = job'[o].session /\ y.turn = job'[o].turn /\ y.by = o
                 /\ ~IsTemporary(o)' =>
                       \E y \in steps' : Uses(y) /\ y.by = o /\ Ahead(o)' \subseteq y.uses
      <3>1. o # h /\ job'[o] = job[o] /\ Working(o) /\ Ahead(o)' = Ahead(o)
            /\ (IsTemporary(o)' <=> IsTemporary(o))
        BY <1>2, <1>6, <1>7, <2>1
      <3>2. /\ \A x \in steps : Uses(x) /\ x.uses \intersect Ahead(o) # {} =>
                  x.session = job[o].session /\ x.turn = job[o].turn /\ x.by = o
            /\ ~IsTemporary(o) =>
                  \E x \in steps : Uses(x) /\ x.by = o /\ Ahead(o) \subseteq x.uses
        BY <3>1 DEF HistoryInv, RoundStarted
      <3>3. \A y \in steps' : Uses(y) /\ y.uses \intersect Ahead(o)' # {} =>
               y.session = job'[o].session /\ y.turn = job'[o].turn /\ y.by = o
        BY <1>4, <3>1, <3>2 DEF SealedFrom, Uses
      <3>4. ~IsTemporary(o)' =>
               \E y \in steps' : Uses(y) /\ y.by = o /\ Ahead(o)' \subseteq y.uses
        BY <1>4, <3>1, <3>2 DEF SealedFrom, Uses
      <3> QED
        BY <3>3, <3>4
    <2> QED
      BY <2>1 DEF RoundStarted, Uses
  <1>11. IdsApart'
    <2>1. \A y, z \in steps' : y.seq = z.seq => y = z
      <3>1. ASSUME NEW y \in steps', NEW z \in steps', y.seq = z.seq
            PROVE  y = z
        <4>1. PICK x \in steps : SealedFrom(y, x)
          BY <1>4
        <4>2. PICK w \in steps : SealedFrom(z, w)
          BY <1>4
        <4>3. w = x
          BY <3>1, <4>1, <4>2 DEF SealedFrom, HistoryInv, IdsApart
        <4> QED
          BY <1>4, <4>1, <4>2, <4>3
      <3> QED
        BY <3>1
    <2>2. \A o \in Handlers : Working(o)' =>
             /\ \A c \in calls' : c.id \notin Ahead(o)'
             /\ \A p \in Others(o) :
                   /\ job'[p].pc = "apply" => job'[p].call \notin Ahead(o)'
                   /\ Working(p)' => Ahead(p)' \intersect Ahead(o)' = {}
      BY <1>2, <1>5, <1>6, <1>7 DEF HistoryInv, IdsApart, Others, SealedOf
    <2> QED
      BY <1>5, <2>1, <2>2 DEF IdsApart
  <1>12. CallsLinked'
    BY <1>4, <1>5 DEF HistoryInv, CallsLinked, Uses, SealedFrom, SealedOf
  <1>13. CallsTied'
    <2>1. ASSUME NEW d \in calls', d.session \notin torn'
          PROVE  \E y \in steps' : Uses(y) /\ d.id \in y.uses
      <3>1. PICK c \in calls : d.id = c.id /\ d.session = c.session
        BY <1>5 DEF SealedOf
      <3>2. PICK x \in steps : Uses(x) /\ c.id \in x.uses
        BY <1>3, <2>1, <3>1 DEF HistoryInv, CallsTied
      <3>3. PICK y \in steps' : SealedFrom(y, x)
        BY <1>4
      <3> QED
        BY <3>1, <3>2, <3>3 DEF SealedFrom, Uses
    <2> QED
      BY <2>1 DEF CallsTied, Uses
  <1>14. ResultsTied'
    <2>1. ASSUME NEW r \in steps', r.kind = "tool", r.session \notin torn'
          PROVE  \E y \in steps' : /\ Uses(y) /\ r.uses \subseteq y.uses /\ y.seq < r.seq
                                   /\ y.session = r.session /\ y.by = r.by
      <3>1. PICK q \in steps : SealedFrom(r, q)
        BY <1>4
      <3>2. PICK x \in steps : /\ Uses(x) /\ q.uses \subseteq x.uses /\ x.seq < q.seq
                               /\ x.session = q.session /\ x.by = q.by
        BY <1>3, <2>1, <3>1 DEF HistoryInv, ResultsTied, SealedFrom
      <3>3. PICK y \in steps' : SealedFrom(y, x)
        BY <1>4
      <3> QED
        BY <3>1, <3>2, <3>3 DEF SealedFrom, Uses
    <2> QED
      BY <2>1 DEF ResultsTied, Uses
  <1>15. ResultsAimed'
    <2>1. ASSUME NEW o \in Handlers, NEW d \in calls', job'[o].pc = "apply", d.id = job'[o].call
          PROVE  d.session = job'[o].session /\ d.turn = job'[o].turn
      <3>1. job'[o] = job[o]
        BY <1>2, <1>7, <2>1
      <3>2. PICK c \in calls : SealedOf(d, c)
        BY <1>5
      <3> QED
        BY <2>1, <3>1, <3>2 DEF HistoryInv, ResultsAimed, SealedOf
    <2> QED
      BY <2>1 DEF ResultsAimed
  <1>16. CutsWhole'
    <2>1. ASSUME NEW o \in Handlers, NEW d \in calls', NEW y \in steps',
                 job'[o].pc \in {"find", "cut"}, d.by = Nobody,
                 d.session = job'[o].session, d.session \notin torn', d.id \notin job'[o].cut, Uses(y), d.id \in y.uses
          PROVE  y.seq < job'[o].anchor
      <3>1. job'[o] = job[o] /\ o \in Others(h)
        BY <1>2, <1>7, <2>1
      <3>2. PICK c \in calls : SealedOf(d, c)
        BY <1>5
      <3>3. PICK x \in steps : SealedFrom(y, x)
        BY <1>4
      <3>4. CASE c.by = h
        <4>1. c.session = job[h].session
          BY <1>1, <3>4 DEF HistoryInv, OpenRowsOfRound
        <4>2. c.session \in torn'
          BY <1>3, <2>1, <3>1, <3>2, <4>1 DEF SealedOf
        <4> QED
          BY <2>1, <3>2, <4>2 DEF SealedOf
      <3>5. CASE c.by # h
        BY <1>3, <2>1, <3>1, <3>2, <3>3, <3>5
           DEF HistoryInv, CutsWhole, SealedOf, SealedFrom, Uses
      <3> QED
        BY <3>4, <3>5
    <2> QED
      BY <2>1 DEF CutsWhole, Uses
  <1>17. UsesApart'
    <2>1. ASSUME NEW y \in steps', NEW z \in steps', Uses(y), Uses(z),
                 y.uses \intersect z.uses # {}
          PROVE  y = z
      <3>1. PICK x \in steps : SealedFrom(y, x)
        BY <1>4
      <3>2. PICK w \in steps : SealedFrom(z, w)
        BY <1>4
      <3>3. w = x
        BY <2>1, <3>1, <3>2 DEF SealedFrom, HistoryInv, UsesApart, Uses
      <3> QED
        BY <1>4, <3>1, <3>2, <3>3
    <2> QED
      BY <2>1 DEF UsesApart, Uses
  <1>18. DropsInv'
    <2>1. ASSUME NEW o \in Handlers, job'[o].pc = "drop"
          PROVE  DropsWhole(o)'
      <3>1. job'[o] = job[o] /\ DropsWhole(o)
        BY <1>2, <1>7, <2>1 DEF HistoryInv, DropsInv
      <3>2. \A y \in steps' : y.seq \in job[o].drop => y.by = Nobody
        BY <1>4, <3>1 DEF SealedFrom, DropsWhole
      <3>3. \A d \in calls', y \in steps' :
               /\ d.session \notin torn' /\ d.id \notin job[o].cut
               /\ Uses(y) /\ d.id \in y.uses
               => y.seq \notin job[o].drop
        BY <1>3, <1>4, <1>5, <3>1 DEF SealedFrom, SealedOf, DropsWhole, Uses
      <3>4. \A r, y \in steps' :
               /\ r.kind = "tool" /\ r.session \notin torn'
               /\ Uses(y) /\ r.uses \subseteq y.uses /\ y.seq \in job[o].drop
               => r.seq \in job[o].drop
        BY <1>3, <1>4, <3>1 DEF SealedFrom, DropsWhole, Uses
      <3> QED
        BY <3>1, <3>2, <3>3, <3>4 DEF DropsWhole, Uses
    <2> QED
      BY <2>1 DEF DropsInv
  <1> QED
    BY <1>8, <1>9, <1>10, <1>11, <1>12, <1>13, <1>14, <1>15, <1>16, <1>17, <1>18
       DEF HistoryInv

-----------------------------------------------------------------------------
(* Every step keeps the rows, the sessions and the history in order.       *)
ChatInv == RowsInv /\ SessionsOK /\ now \in Times /\ HistoryInv

(* No chat has a history at first.                                         *)
LEMMA InitialChats == Init => ChatInv
  <1> SUFFICES ASSUME Init PROVE ChatInv
    OBVIOUS
  <1>1. /\ job = [h \in Handlers |-> Idle] /\ steps = {} /\ calls = {} /\ answered = {}
        /\ images = {} /\ sold = {} /\ world \in Worlds /\ now = 0
    BY DEF Init, ThrottleInit, FilesInit, ImagesInit, ChatsInit
  <1>2. RowsInv
    BY <1>1, FS_EmptySet DEF RowsInv, JobOK
  <1>3. now \in Times
    BY <1>1, ThrottleAssumption DEF Times
  <1>4. SessionsOK
    BY <1>1, <1>3 DEF Init, ChatsInit, SessionsOK
  <1>5. \A h \in Handlers : ~Working(h) /\ job[h].pc = "idle"
    BY <1>1 DEF Working, Idle
  <1>6. HistoryInv
    BY <1>1, <1>5 DEF HistoryInv, OpenRowsOfRound, RowsLive, RoundStarted, IdsApart, CallsLinked,
       CallsTied, ResultsTied, ResultsAimed, UsesApart, CutsWhole, DropsInv
  <1> QED
    BY <1>2, <1>3, <1>4, <1>6 DEF ChatInv

(* A step of another component leaves the history as it is.                *)
LEMMA RestKeepsHistory ==
  ASSUME RowsInv, HistoryInv, Rests
  PROVE  HistoryInv'
  <1>1. UNCHANGED <<job, steps, calls, torn>> /\ LiveStay
    BY DEF Rests
  <1>2. \A o \in Handlers : /\ Working(o)' <=> Working(o)
                            /\ Ahead(o)' = Ahead(o)
                            /\ IsTemporary(o)' <=> IsTemporary(o)
    BY <1>1 DEF Working, Ahead, Reserved, IsTemporary
  <1>3. OpenRowsOfRound'
    BY <1>1, <1>2, RowShapes DEF HistoryInv, OpenRowsOfRound
  <1>4. RowsLive'
    BY <1>1, RowShapes DEF HistoryInv, RowsLive, LiveStay
  <1>5. RoundStarted'
    BY <1>1, <1>2 DEF HistoryInv, RoundStarted, Uses
  <1>6. IdsApart'
    BY <1>1, <1>2 DEF HistoryInv, IdsApart, Others
  <1>7. CallsLinked' /\ CallsTied' /\ ResultsTied' /\ ResultsAimed' /\ CutsWhole'
    BY <1>1 DEF HistoryInv, CallsLinked, CallsTied, ResultsTied, ResultsAimed, CutsWhole, Uses
  <1>8. UsesApart' /\ DropsInv'
    BY <1>1 DEF HistoryInv, UsesApart, DropsInv, DropsWhole, Uses
  <1> QED
    BY <1>3, <1>4, <1>5, <1>6, <1>7, <1>8 DEF HistoryInv

(* Every step keeps rows, chats and their history in order.                *)
LEMMA ChatsKept ==
  ASSUME ChatInv, [Next]_serviceVars
  PROVE  ChatInv'
  <1>1. RowsInv /\ SessionsOK /\ now \in Times /\ HistoryInv /\ world \in Worlds
    BY DEF ChatInv, RowsInv
  <1>2. RowsInv' /\ SessionsOK' /\ (now \in Times)'
    BY <1>1, RowsKept, SessionsKept
  <1>3. ASSUME NEW h \in Handlers, ChatEffect(h)
        PROVE  HistoryInv'
    <2>1. CASE Turns(h) \/ Says(h) \/ Concludes(h)
      BY <1>1, <2>1, QuietStep, QuietKeepsHistory
    <2>2. CASE Looks(h)
      BY <1>1, <2>2, LookKeepsHistory
    <2>3. CASE Resolves(h)
      BY <1>1, <2>3, ResolvingKeepsHistory
    <2>4. CASE Reverts(h)
      BY <1>1, <2>4, UndoKeepsHistory
    <2>5. CASE Stores(h) \/ LeaveToClient(h)
      BY <1>1, <2>5, AdvanceStep, AdvanceKeepsHistory
    <2>6. CASE Truncates(h)
      BY <1>1, <2>6, TruncationKeepsHistory
    <2>7. CASE CutSteps(h)
      BY <1>1, <2>7, CutStepsKeepsHistory
    <2>8. CASE ApplyResult(h)
      BY <1>1, <2>8, ApplyKeepsHistory
    <2>9. CASE Starts(h)
      BY <1>1, <2>9, StartKeepsHistory
    <2>10. CASE CommitRound(h)
      BY <1>1, <2>10, CommitKeepsHistory
    <2> QED
      BY <1>3, <2>1, <2>2, <2>3, <2>4, <2>5, <2>6, <2>7, <2>8, <2>9, <2>10 DEF ChatEffect
  <1>4. HistoryInv'
    BY <1>1, <1>3, ChatSteps, DeletionKeepsHistory, RestKeepsHistory
  <1> QED
    BY <1>2, <1>4 DEF ChatInv

(* The rows, the calls and the work in progress of all chats are well      *)
(* formed and tied together in every reachable state: the invariant that   *)
(* the theorems about orphans and uses below, and the one about types,     *)
(* rest on. (chat/orchestrator.py _generate_loop, _truncate_from,          *)
(* _apply_tool_result; chats/repository.py)                                *)
THEOREM ChatsStayInOrder == Spec => []ChatInv
  <1>1. ChatInv /\ [Next]_serviceVars => ChatInv'
    BY ChatsKept
  <1> QED
    BY InitialChats, <1>1, PTL DEF Spec

(* A result in the history of a chat stands after the tool use it answers  *)
(* (repository.py truncate_from_message_step, orchestrator.py              *)
(* _apply_tool_result), unless a round was committed inside a truncation.  *)
THEOREM NoResultIsOrphaned == Spec => []NoOrphanResult
  <1>1. ChatInv => NoOrphanResult
    <2> SUFFICES ASSUME ChatInv PROVE NoOrphanResult
      OBVIOUS
    <2>1. ResultsTied
      BY DEF ChatInv, HistoryInv
    <2> QED
      BY <2>1 DEF ResultsTied, NoOrphanResult, Committed, In, Uses
  <1> QED
    BY <1>1, ChatsStayInOrder, PTL

(* No tool call is left behind in a chat that is deleted or without its    *)
(* tool use (ADR-040 2.3), with the same exception.                        *)
THEOREM CallsKeepTheirUses == Spec => []CallsHaveUses
  <1>1. ChatInv => CallsHaveUses
    <2> SUFFICES ASSUME ChatInv PROVE CallsHaveUses
      OBVIOUS
    <2>1. CallsTied /\ CallsLinked /\ RowsLive
      BY DEF ChatInv, HistoryInv
    <2> QED
      BY <2>1 DEF CallsTied, CallsLinked, RowsLive, CallsHaveUses, Committed, In, Uses
  <1> QED
    BY <1>1, ChatsStayInOrder, PTL

-----------------------------------------------------------------------------
(* Who is being answered on trial was admitted before a trial was answered *)
(* and is, with the answers there are, all that ever will be.              *)
OnTrial(h) == job[h].pc \in {"llm", "tools", "write"} /\ job[h].plan = "trial"

TrialInv ==
    /\ \A a \in TrialAnswers : a.first
    /\ TrialAnswers # {} => trialUsed
    /\ \A h \in Handlers : OnTrial(h) => job[h].first

(* The trial is consumed by an answer, and by nothing else.                *)
LEMMA TrialStep ==
  ASSUME [Next]_serviceVars
  PROVE  \/ \E h \in Handlers : Finalize(h)
         \/ UNCHANGED <<trialUsed, answered>>
  <1>1. CASE Next
    <2>1. ASSUME NEW h \in Handlers, Arrival(h)
          PROVE  UNCHANGED <<trialUsed, answered>>
      <3>1. CASE ChatRun(h)
        BY <3>1 DEF ChatRun, Resume, Open
      <3>2. CASE ChatTemporary(h) \/ ChatEdit(h) \/ ChatToolResult(h) \/ UploadFile(h)
        BY <3>2 DEF ChatTemporary, ChatEdit, ChatToolResult, RunTemporary, EditMessage,
           ToolResult, UploadFile, chatVars
      <3> QED
        BY <2>1, <3>1, <3>2 DEF Arrival
    <2>2. ASSUME NEW h \in Handlers, Works(h), ~Finalize(h)
          PROVE  UNCHANGED <<trialUsed, answered>>
      <3>1. CASE Abort(h) \/ StoreFails(h) \/ ImageUnpaid(h) \/ WriteFails(h)
                 \/ FinalizeUnpaid(h) \/ DeadlockVictim(h)
        BY <3>1 DEF Abort, StoreFails, ImageUnpaid, WriteFails, FinalizeUnpaid,
           DeadlockVictim, Rollback
      <3>2. CASE RunTool(h) \/ ImageRefused(h) \/ StoreImage(h) \/ DeleteSite(h)
                 \/ WriteSite(h) \/ CheckSite(h)
        BY <3>2 DEF RunTool, ImageRefused, StoreImage, DeleteSite, WriteSite, CheckSite,
           StoreResult, chatVars
      <3>3. CASE Truncate(h) \/ UploadStep(h) \/ Truncates(h) \/ CutSteps(h) \/ ApplyResult(h)
                 \/ LeaveToClient(h) \/ CommitRound(h)
                 \/ \E blocks \in world.rounds : StartRound(h, blocks)
        BY <3>3 DEF Truncate, UploadStep, Truncates, FindCalls, CutCalls, FindSteps, CutSteps,
           ApplyResult, LeaveToClient, CommitRound, StartRound, chatVars
      <3> QED
        BY <2>2, <3>1, <3>2, <3>3 DEF Works, ChatStep, Truncates
    <2>3. ASSUME NEW h \in Handlers, AskLimits(h) \/ LimitStep(h)
          PROVE  UNCHANGED <<trialUsed, answered>>
      BY <2>3 DEF AskLimits, LimitStep, chatVars
    <2>4. CASE ManageChats \/ ManageWorkspaces
      BY <2>4 DEF ManageChats, DeleteChat, UpdateMetadata, ManageWorkspaces
    <2>5. CASE ManageImages \/ TimePasses
      BY <2>5 DEF ManageImages, TimePasses, chatVars
    <2> QED
      BY <1>1, <2>1, <2>2, <2>3, <2>4, <2>5 DEF Next
  <1>2. CASE UNCHANGED serviceVars
    BY <1>2 DEF serviceVars, vars, chatVars
  <1> QED
    BY <1>1, <1>2

(* A request is admitted on trial while no trial answer has been given,    *)
(* and keeps that it was.                                                  *)
LEMMA FirstKept ==
  ASSUME RowsInv, SessionsOK, TrialInv, [Next]_serviceVars
  PROVE  \A h \in Handlers : OnTrial(h)' => job'[h].first
  <1>1. CASE UNCHANGED job
    BY <1>1 DEF OnTrial, TrialInv
  <1>2. ASSUME NEW h \in Handlers, ChatEffect(h)
        PROVE  /\ \A o \in Others(h) : job'[o] = job[o]
               /\ OnTrial(h)' => job'[h].first
    <2>1. DOMAIN job = Handlers /\ \A o \in Others(h) : job'[o] = job[o]
      BY <1>2, JobsKept DEF RowsInv
    <2>2. ASSUME NEW s, NEW t
          PROVE  Generating(s, t).plan = "trial" => Generating(s, t).first
      BY DEF Generating, BillingPlan, Account, TrialInv
    <2>3. ASSUME NEW s, NEW t, Proceeds(h, s, t)
          PROVE  OnTrial(h)' => job'[h].first
      <3>1. PICK j : j = Generating(s, t)
        OBVIOUS
      <3>2. job' = [job EXCEPT ![h] = j] \/ job' = [job EXCEPT ![h] = Idle]
        BY <2>3, <3>1 DEF Proceeds
      <3>3. j.plan = "trial" => j.first
        BY <2>2, <3>1
      <3> QED
        BY <2>1, <3>2, <3>3 DEF OnTrial, Idle
    <2>4. CASE Turns(h)
      <3>1. PICK j : /\ job' = [job EXCEPT ![h] = j]
                     /\ j.pc \in {"idle", "total", "store", "edit", "llm"}
                     /\ j.pc = "llm" => \E s, t : j = Generating(s, t)
        BY <2>4 DEF Turns
      <3>2. j.pc = "llm" /\ j.plan = "trial" => j.first
        BY <2>2, <3>1
      <3> QED
        BY <2>1, <3>1, <3>2 DEF OnTrial
    <2>5. CASE Says(h) \/ CutSteps(h) \/ ApplyResult(h)
      <3>1. (\E s, t : Proceeds(h, s, t)) \/ Returns(h)
        BY <2>5 DEF Says, CutSteps, ApplyResult
      <3> QED
        BY <2>1, <2>3, <3>1 DEF Returns, Idle, OnTrial
    <2>6. CASE Reverts(h) \/ Concludes(h) \/ Looks(h)
      BY <2>1, <2>6 DEF Reverts, Concludes, Looks, ToolResult, Returns, Idle, OnTrial
    <2>7. CASE Truncates(h)
      BY <2>7, EditGoesOn DEF OnTrial
    <2>8. ASSUME OnTrial(h)' => OnTrial(h), job'[h].first = job[h].first
          PROVE  OnTrial(h)' => job'[h].first
      BY <2>8 DEF TrialInv
    <2>9. CASE Resolves(h)
      BY <2>8, <2>9, ResolvedJob DEF Resolves, AtTool, GoesOn, OnTrial
    <2>10. CASE Stores(h) \/ LeaveToClient(h)
      <3>1. Working(h) /\ job[h].todo # <<>> /\ (NextTool(h) \/ LeaveToClient(h))
        BY <2>10 DEF Stores, StoreResult, LeaveToClient, AtTool, Working
      <3> QED
        BY <2>8, <3>1, NextBlock DEF Working, GoesOn, OnTrial
    <2>11. CASE Starts(h)
      BY <2>8, <2>11, RoundStarts DEF Starts, StartRound, GoesOn, OnTrial
    <2>12. CASE CommitRound(h)
      <3>1. PICK j : j = [pc |-> "llm", session |-> job[h].session, turn |-> job[h].turn,
                          call |-> 0, round |-> job[h].round + 1, plan |-> job[h].plan,
                          first |-> job[h].first]
        OBVIOUS
      <3>2. job' = [job EXCEPT ![h] = Idle] \/ job' = [job EXCEPT ![h] = j]
        BY <2>12, <3>1 DEF CommitRound
      <3>3. job[h].pc = "tools"
        BY <2>12 DEF CommitRound
      <3> QED
        BY <2>1, <3>1, <3>2, <3>3 DEF OnTrial, TrialInv, Idle
    <2> QED
      BY <1>2, <2>1, <2>4, <2>5, <2>6, <2>7, <2>9, <2>10, <2>11, <2>12 DEF ChatEffect
  <1>3. CASE \E h \in Handlers : ChatEffect(h)
    BY <1>2, <1>3 DEF OnTrial, TrialInv, Others
  <1> QED
    BY <1>1, <1>3, ChatSteps DEF Rests, DeleteChat

(* Only requests that were admitted before the trial was spent can answer  *)
(* on it.                                                                  *)
LEMMA TrialsKept ==
  ASSUME RowsInv, SessionsOK, TrialInv, [Next]_serviceVars
  PROVE  TrialInv'
  <1>1. \A h \in Handlers : OnTrial(h)' => job'[h].first
    BY FirstKept
  <1>2. CASE UNCHANGED <<trialUsed, answered>>
    BY <1>1, <1>2 DEF TrialInv, TrialAnswers
  <1>3. ASSUME NEW h \in Handlers, Finalize(h)
        PROVE  TrialInv'
    <2>1. PICK a : a = [turn |-> job[h].turn, plan |-> job[h].plan, round |-> job[h].round,
                        first |-> job[h].first]
      OBVIOUS
    <2>2. /\ answered' = answered \union {a}
          /\ trialUsed' = (trialUsed \/ job[h].plan = "trial")
          /\ job[h].pc = "llm"
      BY <1>3, <2>1 DEF Finalize, ConsumeTrial
    <2>3. a.plan = "trial" => a.first /\ trialUsed'
      BY <2>1, <2>2 DEF OnTrial, TrialInv
    <2>4. TrialAnswers' \subseteq TrialAnswers \union {a}
      BY <2>2 DEF TrialAnswers
    <2>5. TrialAnswers' # {} => TrialAnswers # {} \/ a.plan = "trial"
      BY <2>2 DEF TrialAnswers
    <2>6. \A b \in TrialAnswers' : b.first
      BY <2>3, <2>4 DEF TrialAnswers, TrialInv
    <2> QED
      BY <1>1, <2>2, <2>3, <2>5, <2>6 DEF TrialInv
  <1> QED
    BY <1>2, <1>3, TrialStep

(* Every trial answer, in normal and temporary chats together, goes to a   *)
(* request that was admitted when none had been given: a second one only   *)
(* to a request that overlaps the first, never to a later one              *)
(* (orchestrator.py _finalize_assistant, repository.py mark_trial_used).   *)
THEOREM FreeAnswersAreEarly == Spec => []FreeAnswersOverlap
  <1>1. Init => TrialInv
    BY DEF Init, FilesInit, ChatsInit, TrialInv, TrialAnswers, OnTrial, Idle
  <1>2. ChatInv /\ TrialInv /\ [Next]_serviceVars => TrialInv'
    BY TrialsKept DEF ChatInv
  <1>3. TrialInv => FreeAnswersOverlap
    BY DEF TrialInv, FreeAnswersOverlap
  <1> QED
    BY <1>1, <1>2, <1>3, ChatsStayInOrder, PTL DEF Spec

-----------------------------------------------------------------------------
(* All debits together, those of open transactions included, are covered   *)
(* by the credits.                                                         *)
Spent == Total([d \in debits |-> d.amount], debits)

IsDebit(d) == d.amount \in Nat /\ d = [key |-> d.key, amount |-> d.amount, by |-> d.by]

FundsInv ==
    /\ IsFiniteSet(debits) /\ \A d \in debits : IsDebit(d)
    /\ Spent <= world.credits

(* A debit is added within the balance of a wallet that is free.           *)
LEMMA DebitWithinBalance ==
  ASSUME FundsInv, NEW h, WalletFree(h), NEW d, IsDebit(d),
         Balance(h) >= d.amount, world.credits \in Nat,
         debits' = debits \union {d}, world' = world
  PROVE  FundsInv'
  <1> DEFINE f == [e \in debits |-> e.amount]
             g == [e \in debits' |-> e.amount]
  <1>1. /\ IsFiniteSet(debits) /\ IsFiniteSet(debits')
        /\ \A e \in debits' : IsDebit(e) /\ e.amount \in Nat
    BY FS_AddElement DEF FundsInv, IsDebit
  <1>2. Balance(h) = world.credits - Spent
    <2>1. {e \in debits : e.by \in {Nobody, h}} = debits
      BY DEF WalletFree
    <2> QED
      BY <2>1 DEF Balance, Spent
  <1>3. \A e \in debits : f[e] \in Nat /\ f[e] = g[e]
    BY <1>1
  <1>4. Total(f, debits) = Total(g, debits) /\ Total(f, debits) \in Int
    <2> HIDE DEF f, g
    <2> QED
      BY <1>1, <1>3, TotalSame, TotalIsInt
  <1>5. CASE d \in debits
    <2>1. debits' = debits
      BY <1>5
    <2> QED
      BY <2>1 DEF FundsInv, Spent
  <1>6. CASE d \notin debits
    <2>1. \A y \in debits \union {d} : g[y] \in Int
      BY <1>1
    <2>2. Total(g, debits \union {d}) = g[d] + Total(g, debits)
      <3> HIDE DEF g
      <3> QED
        BY <1>1, <1>6, <2>1, TotalAdd
    <2>3. g[d] = d.amount /\ d.amount \in Nat
      BY DEF IsDebit
    <2>4. Total(g, debits') <= world.credits
      <3>1. Spent = Total(f, debits)
        BY DEF Spent
      <3> HIDE DEF f, g
      <3> QED
        BY <1>2, <1>4, <2>2, <2>3, <3>1
    <2>5. Spent' = Total(g, debits')
      BY DEF Spent
    <2> QED
      BY <1>1, <2>4, <2>5 DEF FundsInv
  <1> QED
    BY <1>5, <1>6

(* Rows that are undone free what they took, sealed ones take no more.     *)
LEMMA FewerDebits ==
  ASSUME FundsInv, NEW D, world.credits \in Nat, debits' = D, world' = world,
         D \subseteq debits \/ \E h : D = Sealed(h, debits)
  PROVE  FundsInv'
  <1> DEFINE f == [e \in debits |-> e.amount]
             g == [e \in D |-> e.amount]
  <1>1. /\ IsFiniteSet(debits) /\ Spent = Total(f, debits)
        /\ \A e \in debits : IsDebit(e) /\ e.amount \in Nat
    BY DEF FundsInv, Spent, IsDebit
  <1>2. Total(f, debits) \in Int /\ \A e \in debits : f[e] \in Nat
    <2>1. \A e \in debits : f[e] \in Nat
      BY <1>1
    <2> HIDE DEF f
    <2> QED
      BY <1>1, <2>1, TotalIsInt
  <1>3. /\ IsFiniteSet(D) /\ \A e \in D : IsDebit(e)
        /\ Total(g, D) \in Int /\ Total(g, D) <= Total(f, debits)
    <2>1. CASE D \subseteq debits
      <3>1. IsFiniteSet(D) /\ \A e \in D : IsDebit(e) /\ f[e] = g[e] /\ g[e] \in Int
        BY <1>1, <2>1, FS_Subset
      <3>2. Total(g, D) = Total(f, D) /\ Total(g, D) \in Int /\ Total(f, D) <= Total(f, debits)
        <4> HIDE DEF f, g
        <4> QED
          BY <1>1, <1>2, <2>1, <3>1, TotalSame, TotalPart, TotalIsInt
      <3> QED
        BY <3>1, <3>2
    <2>2. ASSUME NEW h, D = Sealed(h, debits)
          PROVE  /\ IsFiniteSet(D) /\ \A e \in D : IsDebit(e)
                 /\ Total(g, D) \in Int /\ Total(g, D) <= Total(f, debits)
      <3>1. PICK m : m = [e \in debits |-> [e EXCEPT !.by = IF @ = h THEN Nobody ELSE @]]
        OBVIOUS
      <3>2. D = {m[e] : e \in debits}
        BY <2>2, <3>1 DEF Sealed
      <3>3. \A e \in debits : m[e].amount = e.amount /\ IsDebit(m[e])
        <4>1. ASSUME NEW e \in debits
              PROVE  m[e].amount = e.amount /\ IsDebit(m[e])
          <5>1. PICK k, n, b : e = [key |-> k, amount |-> n, by |-> b] /\ n \in Nat
            BY <1>1 DEF IsDebit
          <5>2. m[e] = [key |-> k, amount |-> n, by |-> IF b = h THEN Nobody ELSE b]
            BY <3>1, <5>1
          <5> QED
            BY <5>1, <5>2 DEF IsDebit
        <4> QED
          BY <4>1
      <3>4. \A e \in debits : f[e] \in Nat /\ g[m[e]] = f[e]
        BY <1>1, <3>2, <3>3
      <3>5. IsFiniteSet(D) /\ Total(g, D) <= Total(f, debits)
        <4> HIDE DEF f, g
        <4> QED
          BY <1>1, <3>2, <3>4, TotalImage
      <3>6. \A e \in D : IsDebit(e) /\ g[e] \in Int
        BY <1>1, <3>2, <3>3
      <3>7. Total(g, D) \in Int
        <4> HIDE DEF g
        <4> QED
          BY <3>5, <3>6, TotalIsInt
      <3> QED
        BY <3>5, <3>6, <3>7
    <2> QED
      BY <2>1, <2>2
  <1>4. Spent' = Total(g, D)
    BY DEF Spent
  <1>5. Total(g, D) <= world.credits
    <2>1. Total(f, debits) <= world.credits
      BY <1>1 DEF FundsInv
    <2> HIDE DEF f, g
    <2> QED
      BY <1>2, <1>3, <2>1
  <1> QED
    BY <1>3, <1>4, <1>5 DEF FundsInv

(* Nobody spends what is not there.                                        *)
LEMMA FundsKept ==
  ASSUME FundsInv, world \in Worlds, [Next]_serviceVars
  PROVE  FundsInv'
  <1>1. world' = world /\ world.credits \in Nat /\ ImageCost \in Nat
    BY WorldStays, WorldsAssumption, ImagesAssumption
  <1>2. ASSUME NEW h \in Handlers, Undoes(h) \/ Seals(h)
        PROVE  FundsInv'
    <2>1. PICK D : debits' = D
      OBVIOUS
    <2>2. D \subseteq debits \/ D = Sealed(h, debits)
      BY <1>2, <2>1 DEF Undoes, Seals, Without
    <2> QED
      BY <1>1, <2>1, <2>2, FewerDebits
  <1>3. ASSUME NEW h \in Handlers, Draws(h)
        PROVE  FundsInv'
    <2>1. PICK c : debits' = debits \union
             {[key |-> ImageKey(c), amount |-> ImageCost, by |-> h]}
      BY <1>3 DEF Draws
    <2>2. PICK d : d = [key |-> ImageKey(c), amount |-> ImageCost, by |-> h]
      OBVIOUS
    <2>3. d.amount = ImageCost /\ IsDebit(d) /\ debits' = debits \union {d}
      BY <1>1, <2>1, <2>2 DEF IsDebit
    <2> QED
      BY <1>1, <1>3, <2>3, DebitWithinBalance DEF Draws
  <1>4. ASSUME NEW h \in Handlers, Pays(h)
        PROVE  FundsInv'
    <2>1. PICK d : d = [key |-> TurnKey(job[h].turn), amount |-> 1, by |-> Nobody]
      OBVIOUS
    <2>2. \/ debits' = debits
          \/ debits' = debits \union {d} /\ WalletFree(h) /\ Balance(h) >= 1
      BY <1>4, <2>1 DEF Pays, ChargeAnswer, Payable
    <2>3. d.amount = 1 /\ IsDebit(d)
      BY <2>1 DEF IsDebit
    <2>4. CASE debits' = debits
      BY <1>1, <2>4 DEF FundsInv, Spent
    <2> QED
      BY <1>1, <2>2, <2>3, <2>4, DebitWithinBalance
  <1>5. CASE debits' = debits
    BY <1>1, <1>5 DEF FundsInv, Spent
  <1>6. ASSUME (\E s \in Sessions : Loses(s)) \/ Sheds \/ Ages
        PROVE  debits' = debits
    BY <1>6 DEF Loses, Sheds, FetchImages, DeleteImage, Ages
  <1> QED
    BY <1>2, <1>3, <1>4, <1>5, <1>6, SalesStep

-----------------------------------------------------------------------------
(* Chats are bound to workspaces that exist.                               *)
BindingsInv ==
    /\ workspaces \in [Workspaces -> {"none", "live", "gone"}]
    /\ \A s \in Sessions : sessions[s].workspace # NoWorkspace
                             => workspaces[sessions[s].workspace] = "live"

(* A chat is bound to live workspaces only: deleting one unbinds its chats *)
(* in the same transaction.                                                *)
LEMMA BindingsKept ==
  ASSUME BindingsInv, SessionsOK, [Next]_serviceVars
  PROVE  BindingsInv'
  <1>1. ASSUME workspaces' = workspaces,
               \A s \in Sessions : \/ sessions'[s].workspace = sessions[s].workspace
                                   \/ sessions'[s].workspace \in Bindable
        PROVE  BindingsInv'
    BY <1>1 DEF BindingsInv, Bindable
  <1>2. ASSUME workspaces' = workspaces, sessions' = sessions
        PROVE  BindingsInv'
    BY <1>1, <1>2
  <1>3. CASE UNCHANGED serviceVars
    BY <1>2, <1>3 DEF serviceVars, vars, chatVars, fileVars
  <1>4. CASE Next
    <2>1. ASSUME NEW h \in Handlers, Arrival(h)
          PROVE  BindingsInv'
      <3>1. ASSUME NEW s \in Sessions, NEW w \in Workspaces \union {NoWorkspace},
                   Open(h, s, w, world.hasProject)
            PROVE  BindingsInv'
        <4>1. /\ workspaces' = workspaces /\ w \in Bindable
              /\ sessions' = [sessions EXCEPT ![s] =
                    [status |-> "live", updated |-> now, workspace |-> w,
                     hasProject |-> world.hasProject]]
          BY <3>1 DEF Open, fileVars
        <4>2. \A o \in Sessions : \/ sessions'[o].workspace = sessions[o].workspace
                                  \/ sessions'[o].workspace = w
          BY <4>1 DEF SessionsOK
        <4> QED
          BY <1>1, <4>1, <4>2
      <3>2. ASSUME NEW s \in Sessions, Resume(h, s)
            PROVE  BindingsInv'
        BY <1>2, <3>2 DEF Resume, fileVars
      <3>3. CASE ChatRun(h)
        <4>1. \A s \in 1..world.chats, w \in Workspaces \union {NoWorkspace} :
                 Open(h, s, w, world.hasProject) /\ s \notin Sessions => BindingsInv'
          <5>1. ASSUME NEW s, s \notin Sessions, NEW w, Open(h, s, w, world.hasProject)
                PROVE  BindingsInv'
            <6>1. workspaces' = workspaces
              BY <5>1 DEF Open, fileVars
            <6>2. sessions' = sessions
              BY <5>1 DEF Open, SessionsOK
            <6> QED
              BY <1>2, <6>1, <6>2
          <5> QED
            BY <5>1
        <4> QED
          BY <3>1, <3>2, <3>3, <4>1 DEF ChatRun
      <3>4. CASE ChatTemporary(h) \/ ChatEdit(h) \/ ChatToolResult(h)
        BY <1>2, <3>4 DEF ChatTemporary, ChatEdit, ChatToolResult, RunTemporary,
           EditMessage, ToolResult, chatVars, fileVars
      <3>5. CASE UploadFile(h)
        BY <1>2, <3>5 DEF UploadFile, Upload, chatVars, fileVars
      <3> QED
        BY <2>1, <3>3, <3>4, <3>5 DEF Arrival
    <2>2. ASSUME NEW h \in Handlers, Works(h)
          PROVE  BindingsInv'
      <3>1. CASE Finalize(h)
        <4>1. workspaces' = workspaces
          BY <3>1 DEF Finalize, fileVars
        <4>2. \A s \in Sessions : sessions'[s].workspace = sessions[s].workspace
          BY <3>1 DEF Finalize, Touched, SessionsOK
        <4> QED
          BY <1>1, <4>1, <4>2
      <3>2. CASE Abort(h) \/ StoreFails(h) \/ ImageUnpaid(h) \/ WriteFails(h)
                 \/ FinalizeUnpaid(h) \/ DeadlockVictim(h)
        BY <1>2, <3>2 DEF Abort, StoreFails, ImageUnpaid, WriteFails, FinalizeUnpaid,
           DeadlockVictim, Rollback
      <3>3. CASE RunTool(h) \/ ImageRefused(h) \/ StoreImage(h) \/ DeleteSite(h)
                 \/ WriteSite(h) \/ CheckSite(h)
        BY <1>2, <3>3 DEF RunTool, ImageRefused, StoreImage, DeleteSite, WriteSite, CheckSite,
           StoreResult, chatVars, fileVars
      <3>4. CASE UploadStep(h)
        BY <1>2, <3>4 DEF UploadStep, CheckTotal, StoreFile, chatVars, fileVars
      <3>5. CASE Truncate(h) \/ Truncates(h) \/ CutSteps(h) \/ ApplyResult(h)
                 \/ LeaveToClient(h) \/ CommitRound(h)
                 \/ \E blocks \in world.rounds : StartRound(h, blocks)
        BY <1>2, <3>5 DEF Truncate, Truncates, FindCalls, CutCalls, FindSteps, CutSteps,
           ApplyResult, LeaveToClient, CommitRound, StartRound, chatVars, fileVars
      <3> QED
        BY <2>2, <3>1, <3>2, <3>3, <3>4, <3>5 DEF Works, ChatStep, Truncates
    <2>3. ASSUME NEW h \in Handlers, AskLimits(h) \/ LimitStep(h)
          PROVE  BindingsInv'
      BY <1>2, <2>3 DEF AskLimits, LimitStep, chatVars, fileVars
    <2>4. CASE ManageChats
      <3>1. ASSUME NEW s \in Sessions, DeleteChat(s)
            PROVE  BindingsInv'
        <4>1. workspaces' = workspaces
          BY <3>1 DEF DeleteChat, fileVars
        <4>2. \A o \in Sessions : sessions'[o].workspace = sessions[o].workspace
          BY <3>1 DEF DeleteChat, SessionsOK
        <4> QED
          BY <1>1, <4>1, <4>2
      <3>2. ASSUME NEW s \in Sessions, NEW w \in Workspaces \union {NoWorkspace},
                   UpdateMetadata(s, w)
            PROVE  BindingsInv'
        <4>1. workspaces' = workspaces /\ w \in Bindable
          BY <3>2 DEF UpdateMetadata, fileVars
        <4>2. \A o \in Sessions : \/ sessions'[o].workspace = sessions[o].workspace
                                  \/ sessions'[o].workspace = w
          BY <3>2 DEF UpdateMetadata, Rebound, SessionsOK
        <4> QED
          BY <1>1, <4>1, <4>2
      <3> QED
        BY <2>4, <3>1, <3>2 DEF ManageChats
    <2>5. CASE ManageWorkspaces
      <3>1. ASSUME NEW w \in Workspaces, CreateWorkspace(w), UNCHANGED sessions
            PROVE  BindingsInv'
        BY <3>1, ChatsAssumption DEF CreateWorkspace, BindingsInv, SessionsOK
      <3>2. ASSUME NEW w \in Workspaces, DeleteWorkspace(w), Unbind(w)
            PROVE  BindingsInv'
        <4>1. workspaces' = [workspaces EXCEPT ![w] = "gone"]
          BY <3>2 DEF DeleteWorkspace
        <4>2. \A s \in Sessions :
                 sessions'[s].workspace = IF sessions[s].workspace = w THEN NoWorkspace
                                          ELSE sessions[s].workspace
          BY <3>2 DEF Unbind, SessionsOK
        <4>3. \A s \in Sessions : sessions[s].workspace \in Workspaces \union {NoWorkspace}
          BY DEF SessionsOK
        <4> QED
          BY <4>1, <4>2, <4>3 DEF BindingsInv
      <3>3. ASSUME NEW f, DeleteFile(f), UNCHANGED sessions
            PROVE  BindingsInv'
        BY <1>2, <3>3 DEF DeleteFile
      <3> QED
        BY <2>5, <3>1, <3>2, <3>3 DEF ManageWorkspaces
    <2>6. CASE ManageImages \/ TimePasses
      BY <1>2, <2>6 DEF ManageImages, TimePasses, chatVars, fileVars
    <2> QED
      BY <1>4, <2>1, <2>2, <2>3, <2>4, <2>5, <2>6 DEF Next
  <1> QED
    BY <1>3, <1>4

(* The rows of the chats have their types, their numbers and ids are       *)
(* unique, a chat is bound to a workspace that exists, and the balance     *)
(* never falls below zero.                                                 *)
THEOREM ChatsAreTyped == Spec => []ChatTypeOK
  <1>1. Init => FundsInv /\ BindingsInv
    <2> SUFFICES ASSUME Init PROVE FundsInv /\ BindingsInv
      OBVIOUS
    <2>1. debits = {} /\ world.credits \in Nat
      BY WorldsAssumption DEF Init, ImagesInit
    <2>2. FundsInv
      BY <2>1, FS_EmptySet, TotalOfNone DEF FundsInv, Spent
    <2> QED
      BY <2>2 DEF Init, FilesInit, ChatsInit, BindingsInv
  <1>2. ChatInv /\ FundsInv /\ BindingsInv /\ [Next]_serviceVars => (FundsInv /\ BindingsInv)'
    BY FundsKept, BindingsKept DEF ChatInv, RowsInv
  <1>3. ChatInv /\ FundsInv /\ BindingsInv => ChatTypeOK
    <2> SUFFICES ASSUME ChatInv, FundsInv, BindingsInv PROVE ChatTypeOK
      OBVIOUS
    <2>1. /\ \A x \in steps : /\ x.seq \in Nat \ {0} /\ x.session \in Sessions
                              /\ x.by \in Handlers \union {Nobody}
          /\ \A c \in calls : c.session \in Sessions /\ c.turn \in Nat \ {0}
      BY DEF ChatInv, RowsInv, StepOK, CallOK, Positive, Owners
    <2>2. /\ \A x, y \in steps : x.seq = y.seq => x = y
          /\ \A c, d \in calls : c.id = d.id => c = d
      BY DEF ChatInv, HistoryInv, IdsApart
    <2>3. \A h \in Handlers : job[h].pc \in {"idle", "total", "store"} \union AtWork
      BY DEF ChatInv, RowsInv, JobOK, Idle, UploadOK, EditOK, ResultOK, AskingOK, RoundOK,
         AtWork, Truncating
    <2>4. Balance(Nobody) >= 0
      <3> DEFINE f == [d \in debits |-> d.amount]
                 R == {d \in debits : d.by \in {Nobody}}
                 g == [d \in R |-> d.amount]
      <3>1. IsFiniteSet(debits) /\ IsFiniteSet(R) /\ R \in SUBSET debits
        BY FS_Subset DEF FundsInv
      <3>2. /\ \A d \in debits : f[d] \in Nat
            /\ \A d \in R : f[d] = g[d]
        BY DEF FundsInv, IsDebit
      <3>3. Total(f, debits) <= world.credits /\ world.credits \in Nat
        BY WorldsAssumption DEF FundsInv, Spent, ChatInv, RowsInv
      <3>4. Balance(Nobody) = world.credits - Total(g, R)
        <4>1. {d \in debits : d.by \in {Nobody, Nobody}} = R
          OBVIOUS
        <4> QED
          BY <4>1 DEF Balance
      <3> HIDE DEF f, R, g
      <3>5. /\ Total(f, R) = Total(g, R) /\ Total(f, R) <= Total(f, debits)
            /\ Total(f, R) \in Int /\ Total(f, debits) \in Int
        BY <3>1, <3>2, TotalSame, TotalPart, TotalIsInt
      <3> QED
        BY <3>3, <3>4, <3>5
    <2> QED
      BY <2>1, <2>2, <2>3, <2>4 DEF ChatTypeOK, ChatInv, SessionsOK, BindingsInv
  <1> QED
    BY <1>1, <1>2, <1>3, ChatsStayInOrder, PTL DEF Spec

-----------------------------------------------------------------------------
(* What a handler does to files, website and work in progress.             *)
Away(h) == job[h].pc \notin {"total", "store", "write"}

(* It works elsewhere.                                                     *)
Elsewhere(h) ==
    /\ Away(h) /\ Away(h)'
    /\ \A o \in Others(h) : job'[o] = job[o]
    /\ UNCHANGED <<files, site, draft, contended>>

(* It gives up.                                                            *)
GivesUp(h) ==
    /\ Returns(h)
    /\ draft' = [draft EXCEPT ![h] = <<>>]
    /\ UNCHANGED <<files, site, contended>>

FileEffect(h) ==
    \/ \E w \in Workspaces, size \in Nat : Upload(h, w, size)
    \/ CheckTotal(h) \/ StoreFile(h)
    \/ CheckSite(h) \/ WriteSite(h) \/ DeleteSite(h) \/ CommitRound(h)
    \/ GivesUp(h) \/ Elsewhere(h)

(* Every step is one of these, removes files, or leaves them alone.        *)
LEMMA FileSteps ==
  ASSUME RowsInv, [Next]_serviceVars
  PROVE  \/ \E h \in Handlers : FileEffect(h)
         \/ files' \subseteq files /\ UNCHANGED <<job, site, draft, contended>>
  <1>1. ASSUME NEW h \in Handlers, NEW j, job' = [job EXCEPT ![h] = j],
               Away(h), j.pc \notin {"total", "store", "write"},
               UNCHANGED <<files, site, draft, contended>>
        PROVE  FileEffect(h)
    BY <1>1 DEF Elsewhere, Away, FileEffect, Others, RowsInv
  <1>2. ASSUME NEW h \in Handlers, NEW s, NEW t, Proceeds(h, s, t), Away(h),
               UNCHANGED <<files, site, draft, contended>>
        PROVE  FileEffect(h)
    <2>1. PICK j : j = IF Admitted THEN Generating(s, t) ELSE Idle
      OBVIOUS
    <2>2. job' = [job EXCEPT ![h] = j] /\ j.pc \in {"llm", "idle"}
      BY <1>2, <2>1 DEF Proceeds, Generating, Idle
    <2> QED
      BY <1>1, <1>2, <2>2
  <1>3. ASSUME NEW h \in Handlers, Returns(h), Away(h),
               UNCHANGED <<files, site, draft, contended>>
        PROVE  FileEffect(h)
    BY <1>1, <1>3 DEF Returns, Idle
  <1>4. CASE Next
    <2>1. ASSUME NEW h \in Handlers, Arrival(h)
          PROVE  FileEffect(h)
      <3>1. ASSUME NEW s, Resume(h, s) PROVE FileEffect(h)
        BY <1>2, <3>1 DEF Resume, fileVars, Away, Idle
      <3>2. ASSUME NEW s, NEW w, Open(h, s, w, world.hasProject) PROVE FileEffect(h)
        BY <1>2, <3>2 DEF Open, fileVars, Away, Idle
      <3>3. CASE ChatRun(h)
        BY <3>1, <3>2, <3>3 DEF ChatRun
      <3>4. CASE ChatTemporary(h)
        BY <1>2, <3>4 DEF ChatTemporary, RunTemporary, fileVars, Away, Idle
      <3>5. CASE ChatEdit(h)
        <4>1. PICK x \in steps : EditMessage(h, x.session, x.turn)
          BY <3>5 DEF ChatEdit
        <4>2. PICK j : job' = [job EXCEPT ![h] = j] /\ j.pc = "edit"
          <5>1. PICK n : n = Min({y.seq : y \in {y \in In(x.session, Committed(steps)) :
                                                  y.turn = x.turn /\ y.kind = "user"}})
            OBVIOUS
          <5>2. PICK j : j = [pc |-> "edit", session |-> x.session, turn |-> NextTurn,
                              call |-> 0, anchor |-> n, cut |-> {}, drop |-> {}]
            OBVIOUS
          <5>3. job' = [job EXCEPT ![h] = j]
            BY <4>1, <5>1, <5>2 DEF EditMessage
          <5>4. j.pc = "edit"
            BY <5>2
          <5> QED
            BY <5>3, <5>4
        <4> QED
          BY <1>1, <4>1, <4>2 DEF EditMessage, fileVars, Away, Idle
      <3>6. CASE ChatToolResult(h)
        <4>1. PICK c \in calls : ToolResult(h, c)
          BY <3>6 DEF ChatToolResult
        <4>2. PICK j : j = [pc |-> "apply", session |-> c.session, turn |-> c.turn,
                            call |-> c.id, wasDone |-> c.done]
          OBVIOUS
        <4>3. job' = [job EXCEPT ![h] = j] /\ j.pc = "apply"
          BY <4>1, <4>2 DEF ToolResult
        <4>4. Away(h) /\ UNCHANGED <<files, site, draft, contended>>
          BY <4>1 DEF ToolResult, fileVars, Away, Idle
        <4> QED
          BY <1>1, <4>3, <4>4
      <3>7. CASE UploadFile(h)
        <4>1. \A size \in world.sizes : size \in Nat
          BY WorldsAssumption DEF RowsInv
        <4> QED
          BY <3>7, <4>1 DEF UploadFile, FileEffect
      <3> QED
        BY <2>1, <3>3, <3>4, <3>5, <3>6, <3>7 DEF Arrival
    <2>2. ASSUME NEW h \in Handlers, Works(h)
          PROVE  FileEffect(h)
      <3>1. ASSUME Rollback(h) PROVE FileEffect(h)
        BY <3>1 DEF Rollback, Discard, GivesUp, FileEffect
      <3>2. CASE Abort(h) \/ StoreFails(h) \/ ImageUnpaid(h) \/ WriteFails(h)
                 \/ FinalizeUnpaid(h) \/ DeadlockVictim(h)
        BY <3>1, <3>2 DEF Abort, StoreFails, ImageUnpaid, WriteFails, FinalizeUnpaid,
           DeadlockVictim
      <3>3. CASE Truncates(h)
        <4>1. UNCHANGED <<files, site, draft, contended>>
          BY <3>3 DEF Truncates, FindCalls, CutCalls, FindSteps, fileVars
        <4> QED
          BY <3>3, <4>1, EditGoesOn DEF Away, Elsewhere, FileEffect
      <3>4. CASE CutSteps(h)
        BY <1>2, <3>4 DEF CutSteps, fileVars, Away
      <3>5. CASE ApplyResult(h)
        BY <1>2, <1>3, <3>5 DEF ApplyResult, fileVars, Away
      <3>6. ASSUME NEW blocks \in world.rounds, StartRound(h, blocks)
            PROVE  FileEffect(h)
        <4>1. job[h].pc = "llm" /\ UNCHANGED <<files, site, draft, contended>>
          BY <3>6 DEF StartRound, fileVars
        <4>2. GoesOn(h, {"tools"})
          BY <3>6, RoundStarts
        <4> QED
          BY <4>1, <4>2 DEF GoesOn, Elsewhere, Away, FileEffect
      <3>7. CASE RunTool(h) \/ ImageRefused(h) \/ StoreImage(h) \/ LeaveToClient(h)
        <4>1. /\ job[h].pc = "tools" /\ job[h].todo # <<>>
              /\ UNCHANGED <<files, site, draft, contended>>
              /\ NextTool(h) \/ LeaveToClient(h)
          BY <3>7 DEF RunTool, ImageRefused, StoreImage, LeaveToClient, AtTool, StoreResult,
             fileVars
        <4>2. GoesOn(h, {"tools"})
          BY <4>1, NextBlock DEF Working
        <4> QED
          BY <4>1, <4>2 DEF GoesOn, Elsewhere, Away, FileEffect
      <3>8. CASE CheckSite(h) \/ WriteSite(h) \/ DeleteSite(h) \/ CommitRound(h)
        BY <3>8 DEF FileEffect
      <3>9. CASE Finalize(h) \/ Truncate(h)
        BY <1>3, <3>9 DEF Finalize, Truncate, fileVars, Away
      <3>10. CASE UploadStep(h)
        BY <3>10 DEF UploadStep, FileEffect
      <3> QED
        BY <2>2, <3>2, <3>3, <3>4, <3>5, <3>6, <3>7, <3>8, <3>9, <3>10
           DEF Works, ChatStep, Truncates
    <2>3. ASSUME NEW h \in Handlers, AskLimits(h) \/ LimitStep(h)
          PROVE  UNCHANGED <<job, files, site, draft, contended>>
      BY <2>3 DEF AskLimits, LimitStep, fileVars
    <2>4. CASE ManageChats
      BY <2>4 DEF ManageChats, DeleteChat, UpdateMetadata, fileVars
    <2>5. CASE ManageImages \/ TimePasses
      BY <2>5 DEF ManageImages, TimePasses, fileVars
    <2>6. CASE ManageWorkspaces
      BY <2>6 DEF ManageWorkspaces, CreateWorkspace, DeleteWorkspace, DeleteFile
    <2> QED
      BY <1>4, <2>1, <2>2, <2>3, <2>4, <2>5, <2>6 DEF Next
  <1>5. CASE UNCHANGED serviceVars
    BY <1>5 DEF serviceVars, vars, chatVars, fileVars
  <1> QED
    BY <1>4, <1>5

(* A round at a file goes on to the next block, or to the write it has     *)
(* checked.                                                                *)
LEMMA WritersGoOn ==
  ASSUME RowsInv, NEW h \in Handlers, CheckSite(h) \/ WriteSite(h) \/ DeleteSite(h)
  PROVE  /\ \A o \in Others(h) : job'[o] = job[o]
         /\ \/ job'[h].pc = "tools"
            \/ /\ CheckSite(h) /\ job'[h].pc = "write" /\ job'[h].todo = job[h].todo
               /\ SiteFits(h, Head(job[h].todo).path, Head(job[h].todo).size)
  <1>1. ASSUME Working(h), job[h].todo # <<>>, StoreResult(h)
        PROVE  (\A o \in Others(h) : job'[o] = job[o]) /\ job'[h].pc = "tools"
    BY <1>1, NextBlock DEF StoreResult, GoesOn
  <1>2. CASE WriteSite(h)
    <2>1. Working(h) /\ RoundOK(job[h])
      BY <1>2, PlaceOK DEF WriteSite, Working
    <2> QED
      BY <1>1, <1>2, <2>1 DEF WriteSite, RoundOK
  <1>3. CASE DeleteSite(h)
    BY <1>1, <1>3 DEF DeleteSite, AtTool, Working
  <1>4. CASE CheckSite(h)
    <2>1. Working(h) /\ job[h].todo # <<>>
      BY <1>4 DEF CheckSite, AtTool, Working
    <2>2. PICK e : e = SiteView(h)[Head(job[h].todo).path].row
      OBVIOUS
    <2>3. \/ StoreResult(h)
          \/ /\ SiteFits(h, Head(job[h].todo).path, Head(job[h].todo).size)
             /\ UNCHANGED chatVars
             /\ job' = [job EXCEPT ![h].pc = "write", ![h].row = e]
      BY <1>4, <2>2 DEF CheckSite
    <2>4. ASSUME UNCHANGED chatVars, job' = [job EXCEPT ![h].pc = "write", ![h].row = e]
          PROVE  /\ \A o \in Others(h) : job'[o] = job[o]
                 /\ job'[h].pc = "write" /\ job'[h].todo = job[h].todo
      <3>1. Resolves(h)
        BY <1>4, <2>4 DEF Resolves, CheckSite, chatVars, LiveStay, Live
      <3> QED
        BY <3>1, ResolvedJob DEF GoesOn
    <2> QED
      BY <1>1, <1>4, <2>1, <2>3, <2>4
  <1> QED
    BY <1>2, <1>3, <1>4

(* A round that commits is at no file any more.                            *)
LEMMA CommitEnds ==
  ASSUME RowsInv, NEW h \in Handlers, CommitRound(h)
  PROVE  job'[h].pc \in {"idle", "llm"} /\ \A o \in Others(h) : job'[o] = job[o]
  <1>1. PICK j : j = [pc |-> "llm", session |-> job[h].session, turn |-> job[h].turn,
                      call |-> 0, round |-> job[h].round + 1, plan |-> job[h].plan,
                      first |-> job[h].first]
    OBVIOUS
  <1>2. job' = [job EXCEPT ![h] = Idle] \/ job' = [job EXCEPT ![h] = j]
    BY <1>1 DEF CommitRound
  <1>3. j.pc = "llm" /\ Idle.pc = "idle" /\ DOMAIN job = Handlers
    BY <1>1 DEF Idle, RowsInv
  <1> QED
    BY <1>2, <1>3 DEF Others

-----------------------------------------------------------------------------
(* The files of the workspaces.  What is in flight counts with what is     *)
(* stored: a request that passed the check is about to store its file.     *)
Storing(w) == {h \in Uploading(w) : job[h].pc = "store"}

InFlight(w) == Total([h \in Storing(w) |-> job[h].size], Storing(w))

Room(w) ==
    /\ Cardinality(FilesOf(w)) + Cardinality(Uploading(w)) <= WorkspaceMax.files + Slack(w)
    /\ BytesOf(FilesOf(w)) + InFlight(w) <= WorkspaceMax.bytes * (1 + Slack(w))
    /\ w \notin contended => \A a, b \in Uploading(w) : a = b

UploadInv ==
    /\ IsFiniteSet(files) /\ \A f \in files : f.size \in Nat /\ f.id \in Nat
    /\ \A h \in Handlers : job[h].pc = "store" => job[h].size <= WorkspaceMax.bytes
    /\ \A w \in Workspaces : Room(w)

(* The numbers Room is about.                                              *)
LEMMA RoomIsFinite ==
  ASSUME RowsInv, IsFiniteSet(files), \A f \in files : f.size \in Nat, NEW w
  PROVE  /\ IsFiniteSet(FilesOf(w)) /\ IsFiniteSet(Uploading(w)) /\ IsFiniteSet(Storing(w))
         /\ Cardinality(FilesOf(w)) \in Nat /\ Cardinality(Uploading(w)) \in Nat
         /\ BytesOf(FilesOf(w)) \in Int /\ InFlight(w) \in Int
         /\ \A h \in Storing(w) : job[h].size \in Nat
         /\ \A h \in Uploading(w) : job[h].size \in Nat
  <1>1. IsFiniteSet(Handlers)
    BY ThrottleAssumption
  <1>2. IsFiniteSet(FilesOf(w)) /\ IsFiniteSet(Uploading(w)) /\ IsFiniteSet(Storing(w))
    <2>1. FilesOf(w) \subseteq files /\ Uploading(w) \subseteq Handlers
          /\ Storing(w) \subseteq Handlers
      BY DEF FilesOf, Uploading, Storing
    <2> QED
      BY <1>1, <2>1, FS_Subset
  <1>3. \A h \in Uploading(w) : job[h].size \in Nat
    BY PlaceOK DEF Uploading, UploadOK
  <1>4. \A h \in Storing(w) : job[h].size \in Nat
    BY <1>3 DEF Storing
  <1>5. BytesOf(FilesOf(w)) \in Int
    <2>1. PICK g : g = [f \in FilesOf(w) |-> f.size]
      OBVIOUS
    <2>2. \A f \in FilesOf(w) : g[f] \in Int
      BY <2>1 DEF FilesOf
    <2> QED
      BY <1>2, <2>1, <2>2, TotalIsInt DEF BytesOf
  <1>6. InFlight(w) \in Int
    <2>1. PICK g : g = [h \in Storing(w) |-> job[h].size]
      OBVIOUS
    <2>2. \A h \in Storing(w) : g[h] \in Int
      BY <1>4, <2>1
    <2> QED
      BY <1>2, <2>1, <2>2, TotalIsInt DEF InFlight
  <1> QED
    BY <1>2, <1>3, <1>4, <1>5, <1>6, FS_CardinalityType

(* The sizes of a part of the files are no more than those of all.         *)
LEMMA FewerBytes ==
  ASSUME NEW S, IsFiniteSet(S), \A f \in S : f.size \in Nat, NEW R, R \subseteq S
  PROVE  /\ BytesOf(R) <= BytesOf(S) /\ BytesOf(R) \in Int /\ BytesOf(S) \in Int
         /\ BytesOf(R) >= 0
  <1>1. PICK g, k : g = [f \in S |-> f.size] /\ k = [f \in R |-> f.size]
    OBVIOUS
  <1>2. IsFiniteSet(R) /\ \A f \in S : g[f] \in Nat /\ g[f] \in Int
    BY <1>1, FS_Subset
  <1>3. \A f \in R : g[f] = k[f] /\ k[f] \in Int
    BY <1>1, <1>2
  <1>4. Total(g, {}) = 0 /\ Total(g, {}) <= Total(g, R)
    BY <1>2, TotalOfNone, TotalPart
  <1> QED
    BY <1>1, <1>2, <1>3, <1>4, TotalPart, TotalSame, TotalIsInt DEF BytesOf

(* One file more.                                                          *)
LEMMA OneFileMore ==
  ASSUME NEW S, IsFiniteSet(S), \A f \in S : f.size \in Nat,
         NEW d, d.size \in Nat, d \notin S
  PROVE  BytesOf(S \union {d}) = BytesOf(S) + d.size
  <1>1. PICK g, k : g = [f \in S |-> f.size] /\ k = [f \in S \union {d} |-> f.size]
    OBVIOUS
  <1>2. \A f \in S \union {d} : k[f] \in Int
    BY <1>1
  <1>3. \A f \in S : g[f] = k[f]
    BY <1>1
  <1>4. Total(k, S \union {d}) = k[d] + Total(k, S) /\ Total(k, S) = Total(g, S)
    BY <1>2, <1>3, TotalAdd, TotalSame
  <1>5. k[d] = d.size /\ Total(k, S) \in Int
    BY <1>1, <1>2, TotalIsInt
  <1> QED
    BY <1>1, <1>4, <1>5 DEF BytesOf

(* More slack, more room.                                                  *)
LEMMA MoreRoom ==
  ASSUME NEW m \in Nat, NEW s \in Int, NEW t \in Int, s <= t
  PROVE  m * (1 + s) <= m * (1 + t) /\ m * (1 + s) \in Int /\ m * (1 + t) \in Int
  OBVIOUS

(* Contention makes slack.                                                 *)
LEMMA SlackGrows ==
  ASSUME NEW h \in Handlers, contended \subseteq contended', NEW w
  PROVE  /\ Slack(w) \in Nat /\ Slack(w)' \in Nat /\ Slack(w) <= Slack(w)'
         /\ w \in contended' => Slack(w)' = Cardinality(Handlers) - 1
         /\ Cardinality(Handlers) \in Nat \ {0}
  <1>1. Cardinality(Handlers) \in Nat \ {0}
    BY ThrottleAssumption, FS_CardinalityType, FS_EmptySet
  <1> QED
    BY <1>1 DEF Slack

(* What only loses files and uploads keeps its room.                       *)
LEMMA RoomStays ==
  ASSUME RowsInv, UploadInv, NEW w \in Workspaces,
         FilesOf(w)' \subseteq FilesOf(w), Uploading(w)' \subseteq Uploading(w),
         Storing(w)' \subseteq Storing(w),
         \A h \in Storing(w)' : job'[h].size = job[h].size,
         Slack(w) \in Int, Slack(w)' \in Int, Slack(w) <= Slack(w)',
         contended \subseteq contended'
  PROVE  Room(w)'
  <1>1. /\ IsFiniteSet(FilesOf(w)) /\ IsFiniteSet(Uploading(w)) /\ IsFiniteSet(Storing(w))
        /\ Cardinality(FilesOf(w)) \in Nat /\ Cardinality(Uploading(w)) \in Nat
        /\ BytesOf(FilesOf(w)) \in Int /\ InFlight(w) \in Int
        /\ \A h \in Storing(w) : job[h].size \in Nat
    BY RoomIsFinite DEF UploadInv
  <1>2. Room(w) /\ WorkspaceMax.files \in Nat /\ WorkspaceMax.bytes \in Nat
    BY FilesAssumption DEF UploadInv
  <1>3. PICK F, U, S : F = FilesOf(w)' /\ U = Uploading(w)' /\ S = Storing(w)'
    OBVIOUS
  <1>4. /\ Cardinality(F) <= Cardinality(FilesOf(w)) /\ Cardinality(F) \in Nat
        /\ Cardinality(U) <= Cardinality(Uploading(w)) /\ Cardinality(U) \in Nat
    BY <1>1, <1>3, FS_Subset, FS_CardinalityType
  <1>5. BytesOf(F) <= BytesOf(FilesOf(w)) /\ BytesOf(F) \in Int
    <2>1. \A f \in FilesOf(w) : f.size \in Nat
      BY DEF UploadInv, FilesOf
    <2> QED
      BY <1>1, <1>3, <2>1, FewerBytes
  <1>6. InFlight(w)' <= InFlight(w) /\ InFlight(w)' \in Int
    <2>1. PICK g, k : /\ g = [h \in Storing(w) |-> job[h].size]
                      /\ k = [h \in S |-> job'[h].size]
      OBVIOUS
    <2>2. InFlight(w) = Total(g, Storing(w)) /\ InFlight(w)' = Total(k, S)
      BY <1>3, <2>1 DEF InFlight
    <2>3. (\A h \in Storing(w) : g[h] \in Nat) /\ \A h \in S : g[h] = k[h] /\ k[h] \in Int
      BY <1>1, <1>3, <2>1
    <2>4. IsFiniteSet(S) /\ S \in SUBSET Storing(w)
      BY <1>1, <1>3, FS_Subset
    <2> QED
      BY <1>1, <2>2, <2>3, <2>4, TotalSame, TotalPart, TotalIsInt
  <1>7. PICK b, c : b = WorkspaceMax.bytes * (1 + Slack(w)) /\ c = WorkspaceMax.bytes * (1 + Slack(w)')
    OBVIOUS
  <1>8. b <= c /\ b \in Int /\ c \in Int
    BY <1>2, <1>7, MoreRoom
  <1>9. Cardinality(F) + Cardinality(U) <= WorkspaceMax.files + Slack(w)'
    BY <1>1, <1>2, <1>4 DEF Room
  <1>10. BytesOf(F) + InFlight(w)' <= c
    <2>1. BytesOf(FilesOf(w)) + InFlight(w) <= b
      BY <1>2, <1>7 DEF Room
    <2> QED
      BY <1>1, <1>5, <1>6, <1>8, <2>1
  <1>11. BytesOf(FilesOf(w))' = BytesOf(F)
    BY <1>3 DEF BytesOf
  <1>12. w \notin contended' => \A x, y \in U : x = y
    BY <1>2, <1>3 DEF Room
  <1> QED
    BY <1>3, <1>7, <1>9, <1>10, <1>11, <1>12 DEF Room

(* An upload that is admitted.                                             *)
LEMMA UploadFits ==
  ASSUME RowsInv, UploadInv, NEW h \in Handlers, NEW w \in Workspaces,
         CountFits(w), files' = files,
         Uploading(w)' = Uploading(w) \union {h}, h \notin Uploading(w),
         Storing(w)' = Storing(w), \A o \in Storing(w) : job'[o].size = job[o].size,
         contended' = contended \union IF Uploading(w) # {} THEN {w} ELSE {}
  PROVE  Room(w)'
  <1>1. /\ IsFiniteSet(FilesOf(w)) /\ IsFiniteSet(Uploading(w))
        /\ Cardinality(FilesOf(w)) \in Nat /\ Cardinality(Uploading(w)) \in Nat
        /\ BytesOf(FilesOf(w)) \in Int /\ InFlight(w) \in Int
    BY RoomIsFinite DEF UploadInv
  <1>2. /\ Room(w) /\ WorkspaceMax.files \in Nat /\ WorkspaceMax.bytes \in Nat
        /\ Cardinality(FilesOf(w)) < WorkspaceMax.files
    BY FilesAssumption DEF UploadInv, CountFits
  <1>3. /\ Slack(w) \in Nat /\ Slack(w)' \in Nat /\ Slack(w) <= Slack(w)'
        /\ w \in contended' => Slack(w)' = Cardinality(Handlers) - 1
        /\ Cardinality(Handlers) \in Nat \ {0}
    BY SlackGrows
  <1>4. PICK U : U = Uploading(w)' /\ U = Uploading(w) \union {h}
    OBVIOUS
  <1>5. Cardinality(U) = Cardinality(Uploading(w)) + 1
    BY <1>1, <1>4, FS_AddElement
  <1>6. Cardinality(U) <= 1 + Slack(w)'
    <2>1. CASE w \in contended'
      <3>1. U \subseteq Handlers /\ IsFiniteSet(Handlers)
        BY <1>4, ThrottleAssumption DEF Uploading
      <3>2. Cardinality(U) <= Cardinality(Handlers)
        BY <3>1, FS_Subset
      <3> QED
        BY <1>1, <1>3, <1>5, <2>1, <3>2
    <2>2. CASE w \notin contended'
      <3>1. Uploading(w) = {}
        BY <2>2
      <3>2. Cardinality(U) = 1
        BY <1>5, <3>1, FS_EmptySet
      <3> QED
        BY <1>3, <3>2
    <2> QED
      BY <2>1, <2>2
  <1>7. FilesOf(w)' = FilesOf(w)
    BY DEF FilesOf
  <1>8. BytesOf(FilesOf(w))' = BytesOf(FilesOf(w)) /\ InFlight(w)' = InFlight(w)
    <2>1. PICK F, S : F = FilesOf(w) /\ S = Storing(w)
      OBVIOUS
    <2>2. BytesOf(FilesOf(w))' = BytesOf(F) /\ BytesOf(FilesOf(w)) = BytesOf(F)
      BY <1>7, <2>1 DEF BytesOf
    <2>3. [o \in S |-> job[o].size] = [o \in S |-> job'[o].size]
      BY <2>1
    <2>4. InFlight(w)' = Total([o \in S |-> job'[o].size], S)
      BY <2>1 DEF InFlight
    <2>5. InFlight(w) = Total([o \in S |-> job[o].size], S)
      BY <2>1 DEF InFlight
    <2> QED
      BY <2>2, <2>3, <2>4, <2>5
  <1>9. PICK b, c : b = WorkspaceMax.bytes * (1 + Slack(w)) /\ c = WorkspaceMax.bytes * (1 + Slack(w)')
    OBVIOUS
  <1>10. BytesOf(FilesOf(w)) + InFlight(w) <= c
    <2>1. BytesOf(FilesOf(w)) + InFlight(w) <= b
      BY <1>2, <1>9 DEF Room
    <2>2. b <= c /\ b \in Int /\ c \in Int
      BY <1>2, <1>3, <1>9, MoreRoom
    <2> QED
      BY <1>1, <2>1, <2>2
  <1>11. Cardinality(FilesOf(w)) + Cardinality(U) <= WorkspaceMax.files + Slack(w)'
    BY <1>1, <1>2, <1>3, <1>5, <1>6
  <1>12. w \notin contended' => \A x, y \in U : x = y
    BY <1>4
  <1> QED
    BY <1>4, <1>7, <1>8, <1>9, <1>10, <1>11, <1>12 DEF Room

(* A file whose size fits is about to be stored.                           *)
LEMMA SizeFits ==
  ASSUME RowsInv, UploadInv, NEW h \in Handlers, NEW w \in Workspaces,
         BytesOf(FilesOf(w)) + job[h].size <= WorkspaceMax.bytes,
         job[h].pc = "total", h \in Uploading(w),
         files' = files, contended' = contended, Uploading(w)' = Uploading(w),
         Storing(w)' = Storing(w) \union {h}, \A o \in Uploading(w) : job'[o].size = job[o].size
  PROVE  Room(w)' /\ job[h].size <= WorkspaceMax.bytes
  <1>1. /\ IsFiniteSet(FilesOf(w)) /\ IsFiniteSet(Uploading(w)) /\ IsFiniteSet(Storing(w))
        /\ Cardinality(FilesOf(w)) \in Nat /\ Cardinality(Uploading(w)) \in Nat
        /\ BytesOf(FilesOf(w)) \in Int /\ InFlight(w) \in Int
        /\ \A o \in Uploading(w) : job[o].size \in Nat
    BY RoomIsFinite DEF UploadInv
  <1>2. /\ Room(w) /\ WorkspaceMax.files \in Nat /\ WorkspaceMax.bytes \in Nat
    BY FilesAssumption DEF UploadInv
  <1>3. /\ Slack(w) \in Nat /\ Slack(w)' = Slack(w)
        /\ w \in contended => Slack(w) = Cardinality(Handlers) - 1
        /\ Cardinality(Handlers) \in Nat \ {0}
    BY SlackGrows DEF Slack
  <1>4. BytesOf(FilesOf(w)) >= 0
    <2>1. \A f \in FilesOf(w) : f.size \in Nat
      BY DEF UploadInv, FilesOf
    <2> QED
      BY <1>1, <2>1, FewerBytes
  <1>5. h \notin Storing(w) /\ Storing(w) \subseteq Uploading(w)
    BY DEF Storing
  <1>6. PICK S, k : S = Storing(w) /\ k = [o \in S \union {h} |-> job[o].size]
    OBVIOUS
  <1>7. /\ \A o \in S \union {h} : k[o] \in Nat /\ k[o] \in Int
        /\ \A o \in S : k[o] <= WorkspaceMax.bytes
    <2>1. \A o \in S \union {h} : o \in Uploading(w)
      BY <1>5, <1>6
    <2>2. \A o \in S : job[o].size <= WorkspaceMax.bytes
      BY <1>6 DEF Storing, Uploading, UploadInv
    <2> QED
      BY <1>1, <1>6, <2>1, <2>2
  <1>8. InFlight(w)' = job[h].size + Total(k, S) /\ Total(k, S) \in Int
    <2>1. [o \in S \union {h} |-> job'[o].size] = k
      <3>1. \A o \in S \union {h} : job'[o].size = job[o].size
        BY <1>5, <1>6
      <3> QED
        BY <1>6, <3>1
    <2>2. InFlight(w)' = Total([o \in S \union {h} |-> job'[o].size], S \union {h})
      BY <1>6 DEF InFlight
    <2>3. Total(k, S \union {h}) = k[h] + Total(k, S) /\ Total(k, S) \in Int
      BY <1>1, <1>5, <1>6, <1>7, TotalAdd, TotalIsInt
    <2>4. k[h] = job[h].size
      BY <1>6
    <2> QED
      BY <2>1, <2>2, <2>3, <2>4
  <1>9. Total(k, S) <= WorkspaceMax.bytes * Slack(w)
    <2>1. Total(k, S) <= WorkspaceMax.bytes * Cardinality(S) /\ Cardinality(S) \in Nat
      BY <1>1, <1>2, <1>6, <1>7, TotalAtMost, FS_CardinalityType
    <2>2. Cardinality(S) <= Slack(w)
      <3>1. CASE w \in contended
        <4>1. S \union {h} \subseteq Handlers /\ IsFiniteSet(Handlers)
          BY <1>5, <1>6, ThrottleAssumption DEF Uploading
        <4>2. Cardinality(S \union {h}) <= Cardinality(Handlers)
          BY <4>1, FS_Subset
        <4>3. Cardinality(S \union {h}) = Cardinality(S) + 1
          BY <1>1, <1>5, <1>6, FS_AddElement
        <4> QED
          BY <1>3, <2>1, <3>1, <4>2, <4>3
      <3>2. CASE w \notin contended
        <4>1. S = {}
          BY <1>2, <1>5, <1>6, <3>2 DEF Room
        <4> QED
          BY <1>3, <4>1, FS_EmptySet
      <3> QED
        BY <3>1, <3>2
    <2>3. \A m, c, s \in Nat : c <= s => m * c <= m * s
      OBVIOUS
    <2>4. WorkspaceMax.bytes * Cardinality(S) <= WorkspaceMax.bytes * Slack(w)
      BY <1>2, <1>3, <2>1, <2>2, <2>3
    <2>5. WorkspaceMax.bytes * Cardinality(S) \in Int /\ WorkspaceMax.bytes * Slack(w) \in Int
      BY <1>2, <1>3, <2>1
    <2> QED
      BY <1>8, <2>1, <2>4, <2>5
  <1>10. BytesOf(FilesOf(w)) + InFlight(w)' <= WorkspaceMax.bytes * (1 + Slack(w)')
    <2>1. WorkspaceMax.bytes * (1 + Slack(w)) = WorkspaceMax.bytes + WorkspaceMax.bytes * Slack(w)
      BY <1>2, <1>3
    <2>2. WorkspaceMax.bytes * Slack(w) \in Int /\ job[h].size \in Int
      BY <1>1, <1>2, <1>3
    <2> QED
      BY <1>1, <1>2, <1>3, <1>8, <1>9, <2>1, <2>2
  <1>11. FilesOf(w)' = FilesOf(w)
    BY DEF FilesOf
  <1>12. BytesOf(FilesOf(w))' = BytesOf(FilesOf(w))
    <2>1. PICK F : F = FilesOf(w)
      OBVIOUS
    <2> QED
      BY <1>11, <2>1 DEF BytesOf
  <1>13. PICK U : U = Uploading(w)' /\ U = Uploading(w)
    OBVIOUS
  <1>14. Room(w)'
    BY <1>2, <1>3, <1>10, <1>11, <1>12, <1>13 DEF Room
  <1>15. job[h].size <= WorkspaceMax.bytes
    BY <1>1, <1>2, <1>4
  <1> QED
    BY <1>14, <1>15

(* The file is stored, and no longer in flight.                            *)
LEMMA FileLands ==
  ASSUME RowsInv, UploadInv, NEW h \in Handlers, NEW w \in Workspaces,
         h \in Storing(w), NEW file, file.size = job[h].size,
         FilesOf(w)' = FilesOf(w) \union {file}, file \notin FilesOf(w),
         contended' = contended, Uploading(w)' = Uploading(w) \ {h},
         Storing(w)' = Storing(w) \ {h}, \A o \in Storing(w)' : job'[o].size = job[o].size
  PROVE  Room(w)'
  <1>1. /\ IsFiniteSet(FilesOf(w)) /\ IsFiniteSet(Uploading(w)) /\ IsFiniteSet(Storing(w))
        /\ Cardinality(FilesOf(w)) \in Nat /\ Cardinality(Uploading(w)) \in Nat
        /\ BytesOf(FilesOf(w)) \in Int /\ InFlight(w) \in Int
        /\ \A o \in Storing(w) : job[o].size \in Nat
    BY RoomIsFinite DEF UploadInv
  <1>2. /\ Room(w) /\ h \in Uploading(w) /\ Slack(w)' = Slack(w)
    BY DEF UploadInv, Slack, Storing
  <1>3. PICK F, U, S, k : /\ F = FilesOf(w) \union {file} /\ F = FilesOf(w)'
                          /\ U = Uploading(w)' /\ S = Storing(w) \ {h} /\ S = Storing(w)'
                          /\ k = [o \in Storing(w) |-> job[o].size]
    OBVIOUS
  <1>4. /\ Cardinality(F) = Cardinality(FilesOf(w)) + 1
        /\ Cardinality(U) = Cardinality(Uploading(w)) - 1
    <2>1. Cardinality(F) = Cardinality(FilesOf(w)) + 1
      BY <1>1, <1>3, FS_AddElement
    <2>2. U = Uploading(w) \ {h}
      BY <1>3
    <2>3. Cardinality(U) = Cardinality(Uploading(w)) - 1
      BY <1>1, <1>2, <2>2, FS_RemoveElement
    <2> QED
      BY <2>1, <2>3
  <1>5. BytesOf(F) = BytesOf(FilesOf(w)) + job[h].size
    <2>1. (\A f \in FilesOf(w) : f.size \in Nat) /\ file.size \in Nat
      BY <1>1 DEF UploadInv, FilesOf
    <2> QED
      BY <1>1, <1>3, <2>1, OneFileMore
  <1>6. InFlight(w) = job[h].size + InFlight(w)' /\ InFlight(w)' \in Int
    <2>1. InFlight(w) = Total(k, Storing(w))
      BY <1>3 DEF InFlight
    <2>2. InFlight(w)' = Total([o \in S |-> job'[o].size], S)
      BY <1>3 DEF InFlight
    <2>3. /\ \A o \in Storing(w) : k[o] \in Int
          /\ \A o \in S : k[o] = [q \in S |-> job'[q].size][o]
      BY <1>1, <1>3
    <2>4. IsFiniteSet(S)
      BY <1>1, <1>3, FS_Subset
    <2>5. Total(k, S) = Total([o \in S |-> job'[o].size], S)
      BY <2>3, <2>4, TotalSame
    <2>6. Total(k, Storing(w)) = k[h] + Total(k, S) /\ Total(k, S) \in Int
      BY <1>1, <1>3, <2>3, <2>4, TotalRemove, TotalIsInt
    <2>7. k[h] = job[h].size
      BY <1>3
    <2> QED
      BY <2>1, <2>2, <2>5, <2>6, <2>7
  <1>7. BytesOf(FilesOf(w))' = BytesOf(F)
    BY <1>3 DEF BytesOf
  <1>8. job[h].size \in Int
    BY <1>1
  <1>9. Cardinality(F) + Cardinality(U) = Cardinality(FilesOf(w)) + Cardinality(Uploading(w))
    BY <1>1, <1>4
  <1>10. BytesOf(F) + InFlight(w)' = BytesOf(FilesOf(w)) + InFlight(w)
    BY <1>1, <1>5, <1>6, <1>8
  <1>11. w \notin contended' => \A x, y \in U : x = y
    BY <1>2, <1>3 DEF Room
  <1> QED
    BY <1>2, <1>3, <1>7, <1>9, <1>10, <1>11 DEF Room

(* Every step leaves room in the workspaces.                               *)
LEMMA UploadsKept ==
  ASSUME RowsInv, UploadInv, [Next]_serviceVars
  PROVE  UploadInv'
  <1>1. /\ IsFiniteSet(files) /\ \A f \in files : f.size \in Nat /\ f.id \in Nat
        /\ \A o \in Handlers : job[o].pc = "store" => job[o].size <= WorkspaceMax.bytes
        /\ DOMAIN job = Handlers
    BY DEF UploadInv, RowsInv
  <1>2. ASSUME files' \subseteq files,
               \A o \in Handlers : job'[o].pc = "store" => job'[o].size <= WorkspaceMax.bytes,
               \A w \in Workspaces : Room(w)'
        PROVE  UploadInv'
    BY <1>1, <1>2, FS_Subset DEF UploadInv
  (* Uploads end, or nothing happens to them. *)
  <1>3. ASSUME NEW h \in Handlers, files' \subseteq files, contended \subseteq contended',
               \A o \in Handlers : \/ job'[o].pc \notin {"total", "store"}
                                   \/ job'[o] = job[o]
        PROVE  UploadInv'
    <2>1. ASSUME NEW w \in Workspaces
          PROVE  Room(w)'
      <3>1. /\ FilesOf(w)' \subseteq FilesOf(w) /\ Uploading(w)' \subseteq Uploading(w)
            /\ Storing(w)' \subseteq Storing(w)
            /\ \A o \in Storing(w)' : job'[o].size = job[o].size
        BY <1>3 DEF FilesOf, Uploading, Storing
      <3>2. Slack(w) \in Nat /\ Slack(w)' \in Nat /\ Slack(w) <= Slack(w)'
        BY <1>3, SlackGrows
      <3>3. Slack(w) \in Int /\ Slack(w)' \in Int
        BY <3>2
      <3> QED
        BY <1>3, <3>1, <3>2, <3>3, RoomStays
    <2>2. \A o \in Handlers : job'[o].pc = "store" => job'[o].size <= WorkspaceMax.bytes
      BY <1>1, <1>3
    <2> QED
      BY <1>2, <1>3, <2>1, <2>2
  <1>4. ASSUME files' \subseteq files, UNCHANGED <<job, contended>>
        PROVE  UploadInv'
    <2>1. ASSUME NEW w \in Workspaces
          PROVE  Room(w)'
      <3>1. /\ FilesOf(w)' \subseteq FilesOf(w) /\ Uploading(w)' \subseteq Uploading(w)
            /\ Storing(w)' \subseteq Storing(w)
            /\ \A o \in Storing(w)' : job'[o].size = job[o].size
        BY <1>4 DEF FilesOf, Uploading, Storing
      <3>2. Slack(w)' = Slack(w) /\ Slack(w) \in Int
        <4>1. Cardinality(Handlers) \in Nat
          BY ThrottleAssumption, FS_CardinalityType
        <4> QED
          BY <1>4, <4>1 DEF Slack
      <3>3. Slack(w)' \in Int /\ Slack(w) <= Slack(w)'
        BY <3>2
      <3> QED
        BY <1>4, <3>1, <3>2, <3>3, RoomStays
    <2> QED
      BY <1>1, <1>2, <1>4, <2>1
  <1>5. ASSUME NEW h \in Handlers, FileEffect(h)
        PROVE  UploadInv'
    <2>1. CASE Elsewhere(h)
      <3>1. \A o \in Handlers : job'[o].pc \notin {"total", "store"} \/ job'[o] = job[o]
        BY <2>1 DEF Elsewhere, Away, Others
      <3> QED
        BY <1>3, <2>1, <3>1 DEF Elsewhere
    <2>2. CASE GivesUp(h)
      <3>1. \A o \in Handlers : job'[o].pc \notin {"total", "store"} \/ job'[o] = job[o]
        BY <1>1, <2>2 DEF GivesUp, Returns, Idle
      <3> QED
        BY <1>3, <2>2, <3>1 DEF GivesUp
    <2>3. CASE CheckSite(h) \/ WriteSite(h) \/ DeleteSite(h)
      <3>1. \A o \in Handlers : job'[o].pc \notin {"total", "store"} \/ job'[o] = job[o]
        BY <2>3, WritersGoOn DEF Others
      <3>2. files' = files /\ contended \subseteq contended'
        BY <2>3 DEF CheckSite, WriteSite, DeleteSite
      <3> QED
        BY <1>3, <3>1, <3>2
    <2>4. CASE CommitRound(h)
      <3>1. job'[h].pc \in {"idle", "llm"} /\ \A o \in Others(h) : job'[o] = job[o]
        BY <1>1, <2>4, CommitEnds
      <3>2. files' = files /\ contended' = contended
        BY <2>4 DEF CommitRound
      <3> QED
        BY <1>3, <3>1, <3>2 DEF Others
    <2>5. ASSUME NEW w \in Workspaces, NEW size \in Nat, Upload(h, w, size)
          PROVE  UploadInv'
      <3>1. PICK j : j = [pc |-> "total", workspace |-> w, size |-> size]
        OBVIOUS
      <3>2. /\ job[h].pc = "idle" /\ job' = [job EXCEPT ![h] = j]
            /\ files' = files /\ CountFits(w)
            /\ contended' = contended \union IF Uploading(w) # {} THEN {w} ELSE {}
        BY <2>5, <3>1 DEF Upload, Idle, fileVars
      <3>3. /\ job'[h] = j /\ j.pc = "total" /\ j.workspace = w
            /\ \A o \in Others(h) : job'[o] = job[o]
        BY <1>1, <3>1, <3>2 DEF Others
      <3>4. h \notin Uploading(w) /\ \A v \in Workspaces : Uploading(v)' = Uploading(v) \union IF v = w THEN {h} ELSE {}
        BY <3>2, <3>3 DEF Uploading, Others
      <3>5. ASSUME NEW v \in Workspaces
            PROVE  /\ Storing(v)' = Storing(v)
                   /\ \A o \in Storing(v) : job'[o].size = job[o].size
        <4>1. \A o \in Uploading(v) : o \in Others(h)
          BY <3>2 DEF Uploading, Others
        <4> QED
          BY <3>3, <3>4, <4>1 DEF Storing
      <3>6. Room(w)'
        <4>1. Uploading(w)' = Uploading(w) \union {h}
          BY <3>4
        <4> QED
          BY <3>2, <3>4, <3>5, <4>1, UploadFits
      <3>7. ASSUME NEW v \in Workspaces, v # w
            PROVE  Room(v)'
        <4>1. Slack(v)' = Slack(v) /\ Slack(v) \in Int /\ Slack(v)' \in Int /\ contended \subseteq contended'
          <5>1. contended \subseteq contended' /\ (v \in contended' <=> v \in contended)
            BY <3>2, <3>7
          <5>2. Slack(v)' = Slack(v)
            BY <5>1 DEF Slack
          <5> QED
            BY <5>1, <5>2, SlackGrows
        <4>2. FilesOf(v)' = FilesOf(v) /\ Uploading(v)' = Uploading(v) /\ Slack(v) <= Slack(v)'
          <5>1. Uploading(v)' = Uploading(v) \union {}
            BY <3>4, <3>7
          <5>2. FilesOf(v)' = FilesOf(v)
            BY <3>2 DEF FilesOf
          <5> QED
            BY <4>1, <5>1, <5>2
        <4> QED
          BY <3>5, <4>1, <4>2, RoomStays
      <3>8. \A o \in Handlers : job'[o].pc = "store" => job'[o].size <= WorkspaceMax.bytes
        BY <1>1, <3>3 DEF Others
      <3> QED
        BY <1>2, <3>2, <3>6, <3>7, <3>8
    <2>6. CASE CheckTotal(h)
      <3>1. PICK k : k = job[h]
        OBVIOUS
      <3>2. k.pc = "total" /\ files' = files /\ contended' = contended
        BY <2>6, <3>1 DEF CheckTotal, fileVars
      <3>3. UploadOK(k)
        BY <3>1, <3>2, PlaceOK
      <3>4. PICK j : j = [pc |-> "store", workspace |-> k.workspace, size |-> k.size]
        OBVIOUS
      <3>5. [k EXCEPT !.pc = "store"] = j
        BY <3>3, <3>4 DEF UploadOK
      <3>6. CASE BytesOf(FilesOf(k.workspace)) + k.size <= WorkspaceMax.bytes
        <4>1. job' = [job EXCEPT ![h] = j]
          BY <2>6, <3>1, <3>5, <3>6 DEF CheckTotal
        <4>2. PICK w \in Workspaces : w = k.workspace
          BY <3>3 DEF UploadOK
        <4>3. /\ job'[h] = j /\ j.pc = "store" /\ j.workspace = w /\ j.size = k.size
              /\ \A o \in Others(h) : job'[o] = job[o]
          BY <1>1, <3>4, <4>1, <4>2 DEF Others
        <4>4. h \in Uploading(w) /\ \A v \in Workspaces : Uploading(v)' = Uploading(v)
          BY <3>1, <3>2, <4>2, <4>3 DEF Uploading, Others
        <4>5. \A v \in Workspaces : Storing(v)' = Storing(v) \union IF v = w THEN {h} ELSE {}
          <5>1. ASSUME NEW v \in Workspaces, NEW o \in Uploading(v)
                PROVE  o \in Storing(v)' <=> o \in Storing(v) \/ (o = h /\ v = w)
            <6>1. CASE o = h
              <7>1. v = w
                BY <3>1, <4>2, <5>1, <6>1 DEF Uploading
              <7> QED
                BY <4>3, <4>4, <5>1, <6>1, <7>1 DEF Storing
            <6>2. CASE o # h
              <7>1. job'[o] = job[o]
                BY <4>3, <5>1, <6>2 DEF Others, Uploading
              <7> QED
                BY <4>4, <5>1, <6>2, <7>1 DEF Storing
            <6> QED
              BY <6>1, <6>2
          <5>2. \A v \in Workspaces : Storing(v)' \subseteq Uploading(v) /\ Storing(v) \subseteq Uploading(v)
            BY <4>4 DEF Storing
          <5> QED
            BY <4>4, <5>1, <5>2
        <4>6. \A v \in Workspaces : \A o \in Uploading(v) : job'[o].size = job[o].size
          BY <3>1, <4>3 DEF Others, Uploading
        <4>7. Room(w)' /\ k.size <= WorkspaceMax.bytes
          <5>1. Storing(w)' = Storing(w) \union {h} /\ Uploading(w)' = Uploading(w)
            BY <4>4, <4>5
          <5> QED
            BY <3>1, <3>2, <3>6, <4>2, <4>4, <4>6, <5>1, SizeFits
        <4>8. ASSUME NEW v \in Workspaces, v # w
              PROVE  Room(v)'
          <5>1. Slack(v)' = Slack(v) /\ Slack(v) \in Int /\ Slack(v)' \in Int
            BY <3>2, SlackGrows DEF Slack
          <5>2. /\ FilesOf(v)' = FilesOf(v) /\ Uploading(v)' = Uploading(v)
                /\ Storing(v)' = Storing(v) /\ Slack(v) <= Slack(v)'
                /\ \A o \in Storing(v)' : job'[o].size = job[o].size
            BY <3>2, <4>4, <4>5, <4>6, <4>8, <5>1 DEF FilesOf, Storing
          <5> QED
            BY <3>2, <5>1, <5>2, RoomStays
        <4>9. \A o \in Handlers : job'[o].pc = "store" => job'[o].size <= WorkspaceMax.bytes
          BY <1>1, <4>3, <4>7 DEF Others
        <4> QED
          BY <1>2, <3>2, <4>7, <4>8, <4>9
      <3>7. CASE ~ (BytesOf(FilesOf(k.workspace)) + k.size <= WorkspaceMax.bytes)
        <4>1. job' = [job EXCEPT ![h] = Idle]
          BY <2>6, <3>1, <3>7 DEF CheckTotal
        <4>2. \A o \in Handlers : job'[o].pc \notin {"total", "store"} \/ job'[o] = job[o]
          BY <1>1, <4>1 DEF Idle
        <4> QED
          BY <1>3, <3>2, <4>2
      <3> QED
        BY <3>6, <3>7
    <2>7. CASE StoreFile(h)
      <3>1. PICK k : k = job[h]
        OBVIOUS
      <3>2. /\ k.pc = "store" /\ contended' = contended /\ job' = [job EXCEPT ![h] = Idle]
        BY <2>7, <3>1 DEF StoreFile, Returns
      <3>3. UploadOK(k)
        BY <3>1, <3>2, PlaceOK
      <3>4. job'[h] = Idle /\ Idle.pc = "idle" /\ \A o \in Others(h) : job'[o] = job[o]
        BY <1>1, <3>2 DEF Others, Idle
      <3>5. \A o \in Handlers : job'[o].pc \notin {"total", "store"} \/ job'[o] = job[o]
        BY <3>4 DEF Others
      <3>6. CASE workspaces[k.workspace] # "live"
        <4>1. files' = files
          BY <2>7, <3>1, <3>6 DEF StoreFile
        <4> QED
          BY <1>3, <3>2, <3>5, <4>1
      <3>7. CASE workspaces[k.workspace] = "live"
        <4>1. PICK n : n = 1 + Max({0} \union {f.id : f \in files})
          OBVIOUS
        <4>2. n \in Nat /\ \A f \in files : f.id < n
          <5>1. PICK I : I = {0} \union {f.id : f \in files}
            OBVIOUS
          <5>2. I \subseteq Int /\ I # {} /\ 0 \in I /\ \A f \in files : f.id \in I
            BY <1>1, <5>1
          <5>3. IsFiniteSet(I)
            <6>1. PICK g : g = [f \in files |-> f.id]
              OBVIOUS
            <6>2. {f.id : f \in files} = {g[f] : f \in files}
              BY <6>1
            <6>3. IsFiniteSet({g[f] : f \in files})
              BY <1>1, FiniteRange
            <6> QED
              BY <5>1, <6>2, <6>3, FS_Singleton, FS_Union
          <5>4. Max(I) \in Int /\ \A i \in I : Max(I) >= i
            BY <5>2, <5>3, MaxIsGreatest
          <5>5. n = 1 + Max(I)
            BY <4>1, <5>1
          <5>6. PICK m \in Int : m = Max(I)
            BY <5>4
          <5>7. n = 1 + m /\ m >= 0 /\ \A f \in files : m >= f.id
            BY <5>2, <5>4, <5>5, <5>6
          <5> QED
            BY <1>1, <5>7
        <4>3. PICK w \in Workspaces : w = k.workspace
          BY <3>3 DEF UploadOK
        <4>4. PICK file : file = [workspace |-> w, size |-> k.size, id |-> n]
          OBVIOUS
        <4>5. files' = files \union {file}
          BY <2>7, <3>1, <3>7, <4>1, <4>3, <4>4 DEF StoreFile
        <4>6. /\ file.size = k.size /\ file.size \in Nat /\ file.workspace = w
              /\ file.id \in Nat /\ file \notin files
          BY <3>3, <4>2, <4>4 DEF UploadOK
        <4>7. h \in Storing(w) /\ \A v \in Workspaces : Uploading(v)' = Uploading(v) \ {h}
          BY <3>1, <3>2, <3>4, <4>3 DEF Uploading, Storing, Others
        <4>8. /\ \A v \in Workspaces : Storing(v)' = Storing(v) \ {h}
              /\ \A v \in Workspaces : \A o \in Storing(v)' : job'[o].size = job[o].size
          <5>1. \A v \in Workspaces : \A o \in Uploading(v)' : job'[o] = job[o]
            BY <3>4, <4>7 DEF Uploading, Others
          <5> QED
            BY <4>7, <5>1 DEF Storing
        <4>9. Room(w)'
          <5>1. /\ FilesOf(w)' = FilesOf(w) \union {file} /\ file \notin FilesOf(w)
                /\ file.size = job[h].size
            BY <3>1, <4>5, <4>6 DEF FilesOf
          <5>2. Uploading(w)' = Uploading(w) \ {h} /\ Storing(w)' = Storing(w) \ {h}
            BY <4>7, <4>8
          <5> QED
            BY <3>2, <4>7, <4>8, <5>1, <5>2, FileLands
        <4>10. ASSUME NEW v \in Workspaces, v # w
               PROVE  Room(v)'
          <5>1. Slack(v)' = Slack(v) /\ Slack(v) \in Int /\ Slack(v)' \in Int
            BY <3>2, SlackGrows DEF Slack
          <5>2. FilesOf(v)' = FilesOf(v) /\ Slack(v) <= Slack(v)'
            BY <4>5, <4>6, <4>10, <5>1 DEF FilesOf
          <5> QED
            BY <3>2, <4>7, <4>8, <5>1, <5>2, RoomStays
        <4>11. IsFiniteSet(files') /\ \A f \in files' : f.size \in Nat /\ f.id \in Nat
          BY <1>1, <4>5, <4>6, FS_AddElement
        <4>12. \A o \in Handlers : job'[o].pc = "store" => job'[o].size <= WorkspaceMax.bytes
          BY <1>1, <3>5
        <4> QED
          BY <4>9, <4>10, <4>11, <4>12 DEF UploadInv
      <3> QED
        BY <3>6, <3>7
    <2> QED
      BY <1>5, <2>1, <2>2, <2>3, <2>4, <2>5, <2>6, <2>7 DEF FileEffect
  <1> QED
    BY <1>4, <1>5, FileSteps

-----------------------------------------------------------------------------
(* The website.  A file takes one more than its bytes of space, so that an *)
(* empty file takes some and no file takes none.                           *)
Space(f) == IF f = NoFile THEN 0 ELSE 1 + f.size

OnDisk == [p \in Paths |-> Space(site[p])]

(* A handler changes the paths it has written, and the one it has checked  *)
(* and is about to write.                                                  *)
Pending(h) == IF job[h].pc = "write" THEN {Head(job[h].todo).path} ELSE {}

Changes(h) == DOMAIN draft[h] \union Pending(h)

NewSpace(h, p) ==
    IF p \in Pending(h) THEN 1 + Head(job[h].todo).size ELSE Space(draft[h][p])

Own(h) == [p \in Paths |-> IF p \in Changes(h) THEN NewSpace(h, p) ELSE 0]

(* A website that the commits of the handlers of T can lead to.            *)
Mix(T, v) ==
    \A p \in Paths : \/ \E h \in T : p \in Changes(h) /\ v[p] = NewSpace(h, p)
                     \/ (\A h \in T : p \notin Changes(h)) /\ v[p] = OnDisk[p]

Held(v) == {p \in Paths : v[p] > 0}

Bytes(v) == [p \in Paths |-> IF v[p] > 0 THEN v[p] - 1 ELSE 0]

(* n websites of the largest size.                                         *)
Within(v, n) ==
    /\ Cardinality(Held(v)) <= SiteMax.files * n
    /\ Total(Bytes(v), Paths) <= SiteMax.bytes * n

SiteInv ==
    /\ \A p \in Paths : site[p].size \in Nat
    /\ DOMAIN draft = Handlers
    /\ \A h \in Handlers : DOMAIN draft[h] \subseteq Paths
                             /\ \A p \in DOMAIN draft[h] : draft[h][p].size \in Nat
    /\ \A h \in Handlers : Within(Own(h), 1)
    /\ \A T \in SUBSET Handlers : \A v \in [Paths -> Nat] :
          Mix(T, v) => Within(v, 1 + Slack("site"))

(* The space says whether there is a file, and how large it is.            *)
LEMMA SpaceOK ==
  ASSUME NEW f, f.size \in Nat
  PROVE  /\ Space(f) \in Nat /\ (Space(f) > 0 <=> f # NoFile)
         /\ f.size = IF Space(f) > 0 THEN Space(f) - 1 ELSE 0
  <1>1. CASE f = NoFile
    BY <1>1 DEF Space, NoFile
  <1>2. CASE f # NoFile
    <2>1. PICK n \in Nat : n = f.size
      OBVIOUS
    <2>2. Space(f) = 1 + n
      BY <1>2, <2>1 DEF Space
    <2> QED
      BY <1>2, <2>1, <2>2
  <1> QED
    BY <1>1, <1>2

(* The space of the committed files.                                       *)
LEMMA OnDiskOK ==
  ASSUME \A p \in Paths : site[p].size \in Nat
  PROVE  OnDisk \in [Paths -> Nat]
  BY SpaceOK DEF OnDisk

Ones(v) == [p \in Paths |-> IF v[p] > 0 THEN 1 ELSE 0]

(* Counting files is adding ones.                                          *)
LEMMA FilesAreOnes ==
  ASSUME NEW v \in [Paths -> Nat]
  PROVE  /\ Cardinality(Held(v)) = Total(Ones(v), Paths)
         /\ Cardinality(Held(v)) \in Nat /\ Total(Bytes(v), Paths) \in Int
         /\ IsFiniteSet(Held(v)) /\ Bytes(v) \in [Paths -> Nat]
  <1>1. IsFiniteSet(Paths) /\ Held(v) \subseteq Paths
    BY FilesAssumption DEF Held
  <1>2. \A p \in Paths : Ones(v)[p] \in {0, 1} /\ Bytes(v)[p] \in Int
    BY DEF Ones, Bytes
  <1>3. Held(v) = {p \in Paths : Ones(v)[p] = 1}
    BY DEF Held, Ones
  <1>4. Total(Ones(v), Paths) = Cardinality({p \in Paths : Ones(v)[p] = 1})
    BY <1>1, <1>2, TotalCounts
  <1>5. Bytes(v) \in [Paths -> Nat]
    BY DEF Bytes
  <1> QED
    BY <1>1, <1>2, <1>3, <1>4, <1>5, TotalIsInt, FS_Subset, FS_CardinalityType

(* A smaller website has no more files and bytes.                          *)
LEMMA WithinBelow ==
  ASSUME NEW v \in [Paths -> Nat], NEW w \in [Paths -> Nat], NEW n \in Int, NEW m \in Int,
         \A p \in Paths : v[p] <= w[p], n <= m, Within(w, n)
  PROVE  Within(v, m)
  <1>1. /\ Cardinality(Held(v)) \in Nat /\ Total(Bytes(v), Paths) \in Int
        /\ Cardinality(Held(w)) \in Nat /\ Total(Bytes(w), Paths) \in Int
        /\ IsFiniteSet(Held(w))
    BY FilesAreOnes
  <1>2. Held(v) \subseteq Held(w)
    BY DEF Held
  <1>3. Cardinality(Held(v)) <= Cardinality(Held(w))
    BY <1>1, <1>2, FS_Subset
  <1>4. Total(Bytes(v), Paths) <= Total(Bytes(w), Paths)
    <2>1. \A p \in Paths :
             Bytes(v)[p] \in Int /\ Bytes(w)[p] \in Int /\ Bytes(v)[p] <= Bytes(w)[p]
      BY DEF Bytes
    <2> QED
      BY <2>1, FilesAssumption, TotalOrder
  <1>5. SiteMax.files \in Nat /\ SiteMax.bytes \in Nat
    BY FilesAssumption
  <1>6. \A k \in Nat : k * n <= k * m /\ k * n \in Int /\ k * m \in Int
    OBVIOUS
  <1> QED
    BY <1>1, <1>3, <1>4, <1>5, <1>6 DEF Within

(* One website and the changes of some handlers.                           *)
LEMMA WithinComposed ==
  ASSUME NEW O, IsFiniteSet(O), NEW a \in [Paths -> Nat], NEW e, NEW v \in [Paths -> Nat],
         Within(a, 1), \A o \in O : e[o] \in [Paths -> Nat] /\ Within(e[o], 1),
         Composed(v, a, e, O, Paths)
  PROVE  Within(v, 1 + Cardinality(O))
  <1>1. SiteMax.files \in Nat /\ SiteMax.bytes \in Nat /\ IsFiniteSet(Paths)
    BY FilesAssumption
  <1>2. SiteMax.files * 1 = SiteMax.files /\ SiteMax.bytes * 1 = SiteMax.bytes
    BY <1>1
  <1>3. Total(Bytes(v), Paths) <= SiteMax.bytes * (1 + Cardinality(O))
    <2>1. PICK f : f = [o \in O |-> Bytes(e[o])]
      OBVIOUS
    <2>2. Bytes(v) \in [Paths -> Nat] /\ \A p \in Paths : Bytes(a)[p] \in Nat
      BY DEF Bytes
    <2>3. Total(Bytes(a), Paths) <= SiteMax.bytes
      BY <1>2 DEF Within
    <2>4. \A o \in O : Total(f[o], Paths) <= SiteMax.bytes /\ \A p \in Paths : f[o][p] \in Nat
      <3>1. ASSUME NEW o \in O
            PROVE  f[o] = Bytes(e[o]) /\ Total(Bytes(e[o]), Paths) <= SiteMax.bytes
        BY <1>2, <2>1 DEF Within
      <3>2. \A o \in O : \A p \in Paths : Bytes(e[o])[p] \in Nat
        BY DEF Bytes
      <3> QED
        BY <3>1, <3>2
    <2>5. Composed(Bytes(v), Bytes(a), f, O, Paths)
      BY <2>1 DEF Bytes, Composed
    <2> QED
      BY <1>1, <2>2, <2>3, <2>4, <2>5, TotalComposed
  <1>4. Cardinality(Held(v)) <= SiteMax.files * (1 + Cardinality(O))
    <2>1. PICK f : f = [o \in O |-> Ones(e[o])]
      OBVIOUS
    <2>2. Ones(v) \in [Paths -> Nat] /\ \A p \in Paths : Ones(a)[p] \in Nat
      BY DEF Ones
    <2>3. Total(Ones(a), Paths) <= SiteMax.files
      BY <1>2, FilesAreOnes DEF Within
    <2>4. \A o \in O : Total(f[o], Paths) <= SiteMax.files /\ \A p \in Paths : f[o][p] \in Nat
      <3>1. ASSUME NEW o \in O
            PROVE  f[o] = Ones(e[o]) /\ Total(Ones(e[o]), Paths) <= SiteMax.files
        BY <1>2, <2>1, FilesAreOnes DEF Within
      <3>2. \A o \in O : \A p \in Paths : Ones(e[o])[p] \in Nat
        BY DEF Ones
      <3> QED
        BY <3>1, <3>2
    <2>5. Composed(Ones(v), Ones(a), f, O, Paths)
      BY <2>1 DEF Ones, Composed
    <2>6. Total(Ones(v), Paths) <= SiteMax.files * (1 + Cardinality(O))
      BY <1>1, <2>2, <2>3, <2>4, <2>5, TotalComposed
    <2> QED
      BY <2>6, FilesAreOnes
  <1> QED
    BY <1>3, <1>4 DEF Within

(* What is pending is a page of the site.                                  *)
LEMMA PendingOK ==
  ASSUME RowsInv, SiteInv, NEW h \in Handlers
  PROVE  /\ Changes(h) \subseteq Paths
         /\ \A p \in Changes(h) : NewSpace(h, p) \in Nat
         /\ Own(h) \in [Paths -> Nat]
  <1>0. \A p \in DOMAIN draft[h] : Space(draft[h][p]) \in Nat
    BY SpaceOK DEF SiteInv
  <1>1. CASE job[h].pc = "write"
    <2>1. job[h].todo \in Seq(Blocks) /\ job[h].todo # <<>> /\ Head(job[h].todo).tool = "write"
      BY <1>1, PlaceOK DEF Working, RoundOK
    <2>2. Head(job[h].todo) \in Blocks
      BY <2>1
    <2>3. Head(job[h].todo).path \in Paths /\ Head(job[h].todo).size \in Nat
      BY <2>1, <2>2 DEF Blocks
    <2> QED
      BY <1>0, <1>1, <2>3 DEF SiteInv, Changes, Pending, NewSpace, Own
  <1>2. CASE job[h].pc # "write"
    BY <1>0, <1>2 DEF SiteInv, Changes, Pending, NewSpace, Own
  <1> QED
    BY <1>1, <1>2

(* A step that leads to no website that was not in sight.                  *)
LEMMA SiteStays ==
  ASSUME RowsInv, SiteInv, RowsInv',
         \A q \in Paths : site'[q].size \in Nat, DOMAIN draft' = Handlers,
         \A h \in Handlers : /\ DOMAIN draft'[h] \subseteq Paths
                             /\ \A p \in DOMAIN draft'[h] : draft'[h][p].size \in Nat
                             /\ Changes(h)' \subseteq Paths
                             /\ \A p \in Changes(h)' : NewSpace(h, p)' \in Nat
                             /\ \A p \in Paths : Own(h)'[p] <= Own(h)[p],
         \A T \in SUBSET Handlers : \A v \in [Paths -> Nat] :
            Mix(T, v)' => \E R \in SUBSET Handlers : \E w \in [Paths -> Nat] :
                             Mix(R, w) /\ \A p \in Paths : v[p] <= w[p],
         Slack("site") \in Int, Slack("site")' \in Int, Slack("site") <= Slack("site")'
  PROVE  SiteInv'
  <1>1. ASSUME NEW h \in Handlers
        PROVE  Within(Own(h), 1)'
    <2>1. PICK k : k = Own(h)'
      OBVIOUS
    <2>2. k \in [Paths -> Nat]
      BY <2>1 DEF Own
    <2>3. Own(h) \in [Paths -> Nat] /\ Within(Own(h), 1)
      BY PendingOK DEF SiteInv
    <2>4. \A p \in Paths : k[p] <= Own(h)[p]
      BY <2>1
    <2>5. Within(k, 1)
      BY <2>2, <2>3, <2>4, WithinBelow
    <2> QED
      BY <2>1, <2>5 DEF Within, Held, Bytes
  <1>2. ASSUME NEW T \in SUBSET Handlers, NEW v \in [Paths -> Nat], Mix(T, v)'
        PROVE  Within(v, 1 + Slack("site"))'
    <2>1. PICK R \in SUBSET Handlers, w \in [Paths -> Nat] :
             Mix(R, w) /\ \A p \in Paths : v[p] <= w[p]
      BY <1>2
    <2>2. Within(w, 1 + Slack("site"))
      BY <2>1 DEF SiteInv
    <2>3. PICK n \in Int, m \in Int : n = 1 + Slack("site") /\ m = 1 + Slack("site")' /\ n <= m
      OBVIOUS
    <2>4. Within(v, m)
      BY <2>1, <2>2, <2>3, WithinBelow
    <2> QED
      BY <2>3, <2>4 DEF Within, Held, Bytes
  <1> QED
    BY <1>1, <1>2 DEF SiteInv

(* A file that fits, in the sight of the handler that writes it.           *)
LEMMA SiteGrows ==
  ASSUME RowsInv, SiteInv, RowsInv', NEW h \in Handlers, CheckSite(h), job'[h].pc = "write"
  PROVE  SiteInv'
  <1>1. PICK p, n : p = Head(job[h].todo).path /\ n = Head(job[h].todo).size
    OBVIOUS
  <1>2. /\ job[h].pc = "tools" /\ job'[h].todo = job[h].todo /\ SiteFits(h, p, n)
        /\ \A o \in Others(h) : job'[o] = job[o]
    BY <1>1, WritersGoOn DEF CheckSite, AtTool
  <1>3. p \in Paths /\ n \in Nat
    <2>1. job[h].todo \in Seq(Blocks) /\ job[h].todo # <<>> /\ Head(job[h].todo).tool = "write"
      BY <1>2, PlaceOK DEF Working, RoundOK, CheckSite, AtTool
    <2>2. Head(job[h].todo) \in Blocks
      BY <2>1
    <2> QED
      BY <1>1, <2>1, <2>2 DEF Blocks
  <1>4. /\ UNCHANGED <<site, draft>>
        /\ contended' = contended \union IF \E o \in Others(h) : OnSite(o) THEN {"site"} ELSE {}
    BY DEF CheckSite
  <1>5. /\ \A o \in Others(h) : Changes(o)' = Changes(o)
        /\ \A o \in Others(h) : \A q : NewSpace(o, q)' = NewSpace(o, q)
    BY <1>2, <1>4 DEF Changes, Pending, NewSpace
  <1>6. /\ Changes(h)' = DOMAIN draft[h] \union {p} /\ Changes(h) = DOMAIN draft[h]
        /\ \A q : NewSpace(h, q)' = IF q = p THEN 1 + n ELSE Space(draft[h][q])
    BY <1>1, <1>2, <1>4 DEF Changes, Pending, NewSpace
  <1>7. PICK view, a : /\ view = SiteView(h)
                       /\ a = [q \in Paths |-> IF q = p THEN 1 + n ELSE Space(view[q])]
    OBVIOUS
  <1>7a. ASSUME NEW q \in Paths
         PROVE  /\ view[q] = IF q \in DOMAIN draft[h] THEN draft[h][q] ELSE site[q]
                /\ view[q].size \in Nat
    BY <1>7 DEF SiteView, SiteInv
  <1>8. /\ a \in [Paths -> Nat]
        /\ \A q \in Paths : a[q] = IF q \in Changes(h)' THEN NewSpace(h, q)' ELSE OnDisk[q]
    <2>1. \A q \in Paths : Space(view[q]) \in Nat
      BY <1>7a, SpaceOK
    <2>2. a \in [Paths -> Nat]
      BY <1>3, <1>7, <2>1
    <2> QED
      BY <1>3, <1>6, <1>7, <1>7a, <2>2 DEF OnDisk
  <1>9. SiteMax.files \in Nat /\ SiteMax.bytes \in Nat
    BY FilesAssumption
  <1>10. Within(a, 1)
    <2>1. Held(a) = Stored(view) \union {p}
      BY <1>3, <1>7, <1>7a, SpaceOK DEF Held, Stored
    <2>2. Bytes(a) = [Sizes(view) EXCEPT ![p] = n]
      <3>1. ASSUME NEW q \in Paths
            PROVE  Bytes(a)[q] = IF q = p THEN n ELSE view[q].size
        <4>1. CASE q = p
          BY <1>3, <1>7, <4>1 DEF Bytes
        <4>2. CASE q # p
          <5>1. a[q] = Space(view[q])
            BY <1>7, <4>2
          <5> QED
            BY <1>7a, <4>2, <5>1, SpaceOK DEF Bytes
        <4> QED
          BY <4>1, <4>2
      <3> QED
        BY <3>1 DEF Bytes, Sizes
    <2>3. Cardinality(Held(a)) <= SiteMax.files /\ Total(Bytes(a), Paths) <= SiteMax.bytes
      BY <1>2, <1>7, <2>1, <2>2 DEF SiteFits
    <2> QED
      BY <1>9, <2>3 DEF Within
  <1>11. /\ Slack("site") \in Nat /\ Slack("site")' \in Nat /\ Slack("site") <= Slack("site")'
         /\ "site" \in contended' => Slack("site")' = Cardinality(Handlers) - 1
         /\ Cardinality(Handlers) \in Nat \ {0}
    BY <1>4, SlackGrows
  <1>12. ASSUME NEW o \in Handlers
         PROVE  Within(Own(o), 1)'
    <2>1. PICK k : k = Own(o)'
      OBVIOUS
    <2>2. CASE o # h
      <3>1. k = Own(o)
        BY <1>5, <2>1, <2>2 DEF Own, Others
      <3> QED
        BY <2>1, <3>1 DEF SiteInv, Within, Held, Bytes
    <2>3. CASE o = h
      <3>1. \A q \in Paths : k[q] = IF q \in Changes(h)' THEN NewSpace(h, q)' ELSE 0
        BY <2>1, <2>3 DEF Own
      <3>2. k \in [Paths -> Nat] /\ \A q \in Paths : k[q] <= a[q]
        <4>1. k = [q \in Paths |-> k[q]]
          BY <2>1 DEF Own
        <4>2. \A q \in Paths : OnDisk[q] \in Nat /\ a[q] \in Nat
          BY <1>8, OnDiskOK DEF SiteInv
        <4> QED
          BY <1>8, <3>1, <4>1, <4>2
      <3>3. Within(k, 1)
        BY <1>8, <1>10, <3>2, WithinBelow
      <3> QED
        BY <2>1, <3>3 DEF Within, Held, Bytes
    <2> QED
      BY <2>2, <2>3
  <1>13. ASSUME NEW T \in SUBSET Handlers, NEW v \in [Paths -> Nat], Mix(T, v)'
         PROVE  Within(v, 1 + Slack("site"))'
    <2>1. PICK s \in Nat : s = Slack("site")'
      BY <1>11
    <2>2. CASE h \notin T
      <3>1. \A o \in T : o \in Others(h)
        BY <2>2 DEF Others
      <3>2. Mix(T, v)
        BY <1>4, <1>5, <1>13, <3>1 DEF Mix, OnDisk
      <3>3. Within(v, 1 + Slack("site"))
        BY <3>2 DEF SiteInv
      <3>4. PICK t \in Int, m \in Int : t = 1 + Slack("site") /\ m = 1 + s /\ t <= m
        BY <1>11, <2>1
      <3>5. Within(v, m)
        BY <3>3, <3>4, WithinBelow
      <3> QED
        BY <2>1, <3>4, <3>5 DEF Within, Held, Bytes
    <2>3. CASE h \in T
      <3>1. PICK O : O = T \ {h}
        OBVIOUS
      <3>2. PICK e : e = [o \in O |-> Own(o)]
        OBVIOUS
      <3>3. O \subseteq Handlers /\ (\A o \in O : o \in Others(h)) /\ IsFiniteSet(O)
        BY <3>1, ThrottleAssumption, FS_Subset DEF Others
      <3>4. \A o \in O : e[o] \in [Paths -> Nat] /\ Within(e[o], 1)
        <4>1. ASSUME NEW o \in O
              PROVE  e[o] = Own(o) /\ Own(o) \in [Paths -> Nat] /\ Within(Own(o), 1)
          BY <3>2, <3>3, PendingOK DEF SiteInv
        <4> QED
          BY <4>1
      <3>5. ASSUME NEW q \in Paths
            PROVE  v[q] = a[q] \/ \E o \in O : q \in Changes(o) /\ v[q] = e[o][q]
        <4>1. ASSUME NEW o \in T, q \in Changes(o)', v[q] = NewSpace(o, q)'
              PROVE  v[q] = a[q] \/ \E x \in O : q \in Changes(x) /\ v[q] = e[x][q]
          <5>1. CASE o = h
            BY <1>8, <4>1, <5>1
          <5>2. CASE o # h
            <6>1. o \in O /\ q \in Changes(o) /\ v[q] = NewSpace(o, q)
              BY <1>5, <3>1, <3>3, <4>1, <5>2
            <6>2. e[o][q] = NewSpace(o, q)
              BY <3>2, <6>1 DEF Own
            <6> QED
              BY <6>1, <6>2
          <5> QED
            BY <5>1, <5>2
        <4>2. CASE (\A o \in T : q \notin Changes(o)') /\ v[q] = OnDisk[q]
          BY <1>8, <2>3, <4>2
        <4>3. \/ \E o \in T : q \in Changes(o)' /\ v[q] = NewSpace(o, q)'
              \/ (\A o \in T : q \notin Changes(o)') /\ v[q] = OnDisk[q]
          BY <1>4, <1>13 DEF Mix, OnDisk
        <4> QED
          BY <4>1, <4>2, <4>3
      <3>6. CASE "site" \in contended'
        <4>1. Composed(v, a, e, O, Paths)
          BY <3>5 DEF Composed
        <4>2. Within(v, 1 + Cardinality(O))
          BY <1>8, <1>10, <3>3, <3>4, <4>1, WithinComposed
        <4>3. Cardinality(O) = Cardinality(Handlers) - 1 \/ Cardinality(O) < Cardinality(Handlers) - 1
          <5>1. /\ O \union {h} \subseteq Handlers /\ IsFiniteSet(Handlers) /\ h \notin O
            BY <3>1, ThrottleAssumption
          <5>2. Cardinality(O \union {h}) <= Cardinality(Handlers)
            BY <5>1, FS_Subset
          <5>3. Cardinality(O \union {h}) = Cardinality(O) + 1 /\ Cardinality(O) \in Nat
            BY <3>3, <5>1, FS_AddElement, FS_CardinalityType
          <5> QED
            BY <1>11, <5>2, <5>3
        <4>4. PICK t \in Int, m \in Int : t = 1 + Cardinality(O) /\ m = 1 + s /\ t <= m
          BY <1>11, <2>1, <3>3, <3>6, <4>3, FS_CardinalityType
        <4>5. Within(v, m)
          BY <4>2, <4>4, WithinBelow
        <4> QED
          BY <2>1, <4>4, <4>5 DEF Within, Held, Bytes
      <3>7. CASE "site" \notin contended'
        <4>1. \A o \in Others(h) : ~ OnSite(o)
          BY <1>4, <3>7
        <4>2. \A o \in O : Changes(o) = {}
          BY <3>3, <4>1 DEF OnSite, Changes, Pending
        <4>3. \A q \in Paths : v[q] = a[q]
          BY <3>5, <4>2
        <4>4. PICK m \in Int : m = 1 + s /\ 1 <= m
          OBVIOUS
        <4>5. Within(v, m)
          <5>1. \A q \in Paths : v[q] <= a[q]
            BY <1>8, <4>3
          <5> QED
            BY <1>8, <1>10, <4>4, <5>1, WithinBelow
        <4> QED
          BY <2>1, <4>4, <4>5 DEF Within, Held, Bytes
      <3> QED
        BY <3>6, <3>7
    <2> QED
      BY <2>2, <2>3
  <1> QED
    BY <1>4, <1>12, <1>13 DEF SiteInv

(* A step by which each handler keeps its changes or drops them all.       *)
LEMMA SiteKept ==
  ASSUME RowsInv, SiteInv, RowsInv', NEW x \in Handlers,
         site' = site, DOMAIN draft' = Handlers,
         contended \subseteq contended',
         \A h \in Handlers : /\ DOMAIN draft'[h] \subseteq Paths
                             /\ \A p \in DOMAIN draft'[h] : draft'[h][p].size \in Nat,
         \A h \in Handlers : \/ Changes(h)' = {}
                             \/ /\ Changes(h)' = Changes(h)
                                /\ \A p \in Changes(h) : NewSpace(h, p)' = NewSpace(h, p)
  PROVE  SiteInv'
  <1>1. ASSUME NEW h \in Handlers
        PROVE  /\ DOMAIN draft'[h] \subseteq Paths
               /\ \A p \in DOMAIN draft'[h] : draft'[h][p].size \in Nat
               /\ Changes(h)' \subseteq Paths
               /\ \A p \in Changes(h)' : NewSpace(h, p)' \in Nat
               /\ \A p \in Paths : Own(h)'[p] <= Own(h)[p]
    <2>1. Changes(h) \subseteq Paths /\ \A p \in Changes(h) : NewSpace(h, p) \in Nat
      BY PendingOK
    <2>2. \A p \in Paths : Own(h)'[p] <= Own(h)[p]
      BY <2>1 DEF Own
    <2>3. Changes(h)' \subseteq Paths /\ \A p \in Changes(h)' : NewSpace(h, p)' \in Nat
      BY <2>1
    <2> QED
      BY <2>2, <2>3
  <1>2. ASSUME NEW T \in SUBSET Handlers, NEW v \in [Paths -> Nat], Mix(T, v)'
        PROVE  \E R \in SUBSET Handlers : \E w \in [Paths -> Nat] :
                  Mix(R, w) /\ \A p \in Paths : v[p] <= w[p]
    <2>1. PICK R : R = {h \in T : Changes(h)' = Changes(h)}
      OBVIOUS
    <2>2. R \in SUBSET Handlers /\ R \subseteq T
      BY <2>1
    <2>3. \A h \in T : h \notin R => Changes(h)' = {}
      BY <2>1
    <2>4. \A h \in R : Changes(h)' = Changes(h)
      BY <2>1
    <2>5. \A h \in R : \A p \in Changes(h) : NewSpace(h, p)' = NewSpace(h, p)
      BY <2>2, <2>4
    <2>6. Mix(R, v)
      BY <1>2, <2>2, <2>3, <2>4, <2>5 DEF Mix, OnDisk
    <2> QED
      BY <2>2, <2>6
  <1>3. Slack("site") \in Int /\ Slack("site")' \in Int /\ Slack("site") <= Slack("site")'
    BY SlackGrows
  <1>4. \A q \in Paths : site'[q].size \in Nat
    BY DEF SiteInv
  <1> QED
    BY <1>1, <1>2, <1>3, <1>4, SiteStays

(* No file is no larger than what it replaces, or would have been.         *)
LEMMA SiteShrinks ==
  ASSUME RowsInv, SiteInv, RowsInv', NEW h \in Handlers, NEW p \in Paths,
         site' = site, contended' = contended, Draft(h, p, NoFile),
         Pending(h) \subseteq {p}, job'[h].pc = "tools",
         \A o \in Others(h) : job'[o] = job[o]
  PROVE  SiteInv'
  <1>1. /\ DOMAIN draft' = Handlers
        /\ \A o \in Others(h) : draft'[o] = draft[o]
        /\ DOMAIN draft'[h] = DOMAIN draft[h] \union {p}
        /\ \A q \in DOMAIN draft'[h] : draft'[h][q] = IF q = p THEN NoFile ELSE draft[h][q]
    BY DEF Draft, SiteInv, Others
  <1>2. /\ \A o \in Others(h) : Changes(o)' = Changes(o)
        /\ \A o \in Others(h) : \A q : NewSpace(o, q)' = NewSpace(o, q)
    BY <1>1 DEF Changes, Pending, NewSpace
  <1>3. /\ Changes(h)' = Changes(h) \union {p}
        /\ \A q \in Changes(h)' : NewSpace(h, q)' = IF q = p THEN 0 ELSE NewSpace(h, q)
    <2>1. Pending(h)' = {} /\ Changes(h)' = DOMAIN draft[h] \union {p}
      BY <1>1 DEF Changes, Pending
    <2>2. \A q \in Changes(h)' : NewSpace(h, q)' = Space(draft'[h][q])
      BY <2>1 DEF NewSpace, Space
    <2>3. \A q : q # p => NewSpace(h, q) = Space(draft[h][q])
      BY DEF NewSpace
    <2>4. Space(NoFile) = 0
      BY DEF Space
    <2>5. \A q \in Changes(h)' : draft'[h][q] = IF q = p THEN NoFile ELSE draft[h][q]
      BY <1>1, <2>1
    <2> QED
      BY <2>1, <2>2, <2>3, <2>4, <2>5 DEF Changes
  <1>4. ASSUME NEW o \in Handlers
        PROVE  /\ DOMAIN draft'[o] \subseteq Paths
               /\ \A q \in DOMAIN draft'[o] : draft'[o][q].size \in Nat
               /\ Changes(o)' \subseteq Paths
               /\ \A q \in Changes(o)' : NewSpace(o, q)' \in Nat
               /\ \A q \in Paths : Own(o)'[q] <= Own(o)[q]
    <2>1. Changes(o) \subseteq Paths /\ \A q \in Changes(o) : NewSpace(o, q) \in Nat
      BY PendingOK
    <2>2. o = h \/ o \in Others(h)
      BY DEF Others
    <2>3. \A q \in Paths : Own(o)'[q] <= Own(o)[q]
      BY <1>2, <1>3, <2>1, <2>2 DEF Own
    <2>4. Changes(o)' \subseteq Paths /\ \A q \in Changes(o)' : NewSpace(o, q)' \in Nat
      BY <1>2, <1>3, <2>1, <2>2
    <2>5. DOMAIN draft'[o] \subseteq Paths
          /\ \A q \in DOMAIN draft'[o] : draft'[o][q].size \in Nat
      BY <1>1, <2>2 DEF SiteInv, NoFile
    <2> QED
      BY <2>3, <2>4, <2>5
  <1>5. ASSUME NEW T \in SUBSET Handlers, NEW v \in [Paths -> Nat], Mix(T, v)'
        PROVE  \E R \in SUBSET Handlers : \E w \in [Paths -> Nat] :
                  Mix(R, w) /\ \A q \in Paths : v[q] <= w[q]
    <2>1. ASSUME NEW q \in Paths, v[q] # 0 \/ q # p
          PROVE  \/ \E o \in T : q \in Changes(o) /\ v[q] = NewSpace(o, q)
                 \/ (\A o \in T : q \notin Changes(o)) /\ v[q] = OnDisk[q]
      <3>1. \A o \in T : q \in Changes(o)' /\ v[q] = NewSpace(o, q)' =>
               q \in Changes(o) /\ v[q] = NewSpace(o, q)
        BY <1>2, <1>3, <2>1 DEF Others
      <3>2. \A o \in T : q \notin Changes(o)' => q \notin Changes(o)
        BY <1>2, <1>3 DEF Others
      <3> QED
        BY <1>5, <3>1, <3>2 DEF Mix, OnDisk
    <2>2. CASE v[p] # 0
      <3>1. Mix(T, v)
        BY <2>1, <2>2 DEF Mix
      <3> QED
        BY <3>1
    <2>3. CASE v[p] = 0
      <3>1. PICK x \in Nat : \/ \E o \in T : p \in Changes(o) /\ x = NewSpace(o, p)
                             \/ (\A o \in T : p \notin Changes(o)) /\ x = OnDisk[p]
        <4>1. \A o \in T : p \in Changes(o) => NewSpace(o, p) \in Nat
          BY PendingOK
        <4>2. OnDisk[p] \in Nat
          BY OnDiskOK DEF SiteInv
        <4> QED
          BY <4>1, <4>2
      <3>2. PICK w : w = [v EXCEPT ![p] = x]
        OBVIOUS
      <3>3. w \in [Paths -> Nat] /\ w[p] = x /\ \A q \in Paths : q # p => w[q] = v[q]
        BY <3>2
      <3>4. Mix(T, w)
        BY <2>1, <3>1, <3>3 DEF Mix
      <3>5. \A q \in Paths : v[q] <= w[q]
        BY <2>3, <3>3
      <3> QED
        BY <3>3, <3>4, <3>5
    <2> QED
      BY <2>2, <2>3
  <1>6. Slack("site") \in Int /\ Slack("site")' \in Int /\ Slack("site") <= Slack("site")'
    BY SlackGrows
  <1>7. \A q \in Paths : site'[q].size \in Nat
    BY DEF SiteInv
  <1> QED
    BY <1>1, <1>4, <1>5, <1>6, <1>7, SiteStays

(* A committed website is one that was in sight.                           *)
LEMMA SiteCommits ==
  ASSUME RowsInv, SiteInv, RowsInv', NEW h \in Handlers, CommitRound(h)
  PROVE  SiteInv'
  <1>1. /\ job[h].pc = "tools" /\ contended' = contended
        /\ site' = SiteView(h) /\ draft' = [draft EXCEPT ![h] = <<>>]
    BY DEF CommitRound, Publish
  <1>2. job'[h].pc # "write" /\ \A o \in Others(h) : job'[o] = job[o]
    BY CommitEnds
  <1>3. /\ DOMAIN draft' = Handlers /\ draft'[h] = <<>>
        /\ \A o \in Others(h) : draft'[o] = draft[o]
    BY <1>1 DEF SiteInv, Others
  <1>4. /\ \A o \in Others(h) : Changes(o)' = Changes(o)
        /\ \A o \in Others(h) : \A q : NewSpace(o, q)' = NewSpace(o, q)
    BY <1>2, <1>3 DEF Changes, Pending, NewSpace
  <1>5. /\ Changes(h)' = {} /\ Changes(h) = DOMAIN draft[h]
        /\ \A q : NewSpace(h, q) = Space(draft[h][q])
    BY <1>1, <1>2, <1>3 DEF Changes, Pending, NewSpace
  <1>6. ASSUME NEW o \in Handlers
        PROVE  /\ DOMAIN draft'[o] \subseteq Paths
               /\ \A q \in DOMAIN draft'[o] : draft'[o][q].size \in Nat
               /\ Changes(o)' \subseteq Paths
               /\ \A q \in Changes(o)' : NewSpace(o, q)' \in Nat
               /\ \A q \in Paths : Own(o)'[q] <= Own(o)[q]
    <2>1. Changes(o) \subseteq Paths /\ \A q \in Changes(o) : NewSpace(o, q) \in Nat
      BY PendingOK
    <2>2. o = h \/ o \in Others(h)
      BY DEF Others
    <2>3. \A q \in Paths : Own(o)'[q] <= Own(o)[q]
      BY <1>4, <1>5, <2>1, <2>2 DEF Own
    <2>4. Changes(o)' \subseteq Paths /\ \A q \in Changes(o)' : NewSpace(o, q)' \in Nat
      BY <1>4, <1>5, <2>1, <2>2
    <2>5. DOMAIN draft'[o] \subseteq Paths
          /\ \A q \in DOMAIN draft'[o] : draft'[o][q].size \in Nat
      BY <1>3, <2>2 DEF SiteInv
    <2> QED
      BY <2>3, <2>4, <2>5
  <1>7. /\ \A q \in Paths : site'[q].size \in Nat
        /\ \A q \in Paths : OnDisk'[q] = IF q \in Changes(h) THEN NewSpace(h, q) ELSE OnDisk[q]
    <2>1. \A q \in Paths : site'[q] = IF q \in DOMAIN draft[h] THEN draft[h][q] ELSE site[q]
      BY <1>1 DEF SiteView
    <2>2. \A q \in Paths : OnDisk'[q] = Space(site'[q]) /\ OnDisk[q] = Space(site[q])
      BY DEF OnDisk, Space
    <2> QED
      BY <1>5, <2>1, <2>2 DEF SiteInv
  <1>8. ASSUME NEW T \in SUBSET Handlers, NEW v \in [Paths -> Nat], Mix(T, v)'
        PROVE  \E R \in SUBSET Handlers : \E w \in [Paths -> Nat] :
                  Mix(R, w) /\ \A q \in Paths : v[q] <= w[q]
    <2>1. PICK R : R = T \union {h}
      OBVIOUS
    <2>2. ASSUME NEW q \in Paths
          PROVE  \/ \E o \in R : q \in Changes(o) /\ v[q] = NewSpace(o, q)
                 \/ (\A o \in R : q \notin Changes(o)) /\ v[q] = OnDisk[q]
      <3>1. ASSUME NEW o \in T, q \in Changes(o)', v[q] = NewSpace(o, q)'
            PROVE  o \in R /\ q \in Changes(o) /\ v[q] = NewSpace(o, q)
        BY <1>4, <1>5, <2>1, <3>1 DEF Others
      <3>2. CASE (\A o \in T : q \notin Changes(o)') /\ v[q] = OnDisk'[q]
        <4>1. CASE q \in Changes(h)
          BY <1>7, <2>1, <3>2, <4>1
        <4>2. CASE q \notin Changes(h)
          <5>1. \A o \in R : o = h \/ (o \in T /\ o \in Others(h))
            BY <1>8, <2>1 DEF Others
          <5>2. \A o \in Others(h) : q \notin Changes(o)' => q \notin Changes(o)
            BY <1>4
          <5>3. \A o \in R : q \notin Changes(o)
            BY <3>2, <4>2, <5>1, <5>2
          <5>4. v[q] = OnDisk[q]
            BY <1>7, <3>2, <4>2
          <5> QED
            BY <5>3, <5>4
        <4> QED
          BY <4>1, <4>2
      <3>3. \/ \E o \in T : q \in Changes(o)' /\ v[q] = NewSpace(o, q)'
            \/ (\A o \in T : q \notin Changes(o)') /\ v[q] = OnDisk'[q]
        BY <1>8 DEF Mix
      <3> QED
        BY <3>1, <3>2, <3>3
    <2>3. Mix(R, v) /\ R \in SUBSET Handlers
      BY <2>1, <2>2 DEF Mix
    <2> QED
      BY <2>3
  <1>9. Slack("site") \in Int /\ Slack("site")' \in Int /\ Slack("site") <= Slack("site")'
    BY <1>1, SlackGrows
  <1> QED
    BY <1>3, <1>6, <1>7, <1>8, <1>9, SiteStays

(* A handler that neither has nor gets something pending.                  *)
LEMMA SiteRests ==
  ASSUME RowsInv, SiteInv, RowsInv', NEW h \in Handlers,
         UNCHANGED <<site, draft>>, contended \subseteq contended',
         job[h].pc # "write", job'[h].pc # "write",
         \A o \in Others(h) : job'[o] = job[o]
  PROVE  SiteInv'
  <1>1. ASSUME NEW o \in Handlers
        PROVE  /\ Changes(o)' = Changes(o)
               /\ \A p \in Changes(o) : NewSpace(o, p)' = NewSpace(o, p)
    BY DEF Changes, Pending, NewSpace, Others
  <1>2. /\ DOMAIN draft' = Handlers
        /\ \A o \in Handlers : /\ DOMAIN draft'[o] \subseteq Paths
                               /\ \A p \in DOMAIN draft'[o] : draft'[o][p].size \in Nat
    BY DEF SiteInv
  <1> QED
    BY <1>1, <1>2, SiteKept

(* No step leads to a website that is too large.                           *)
LEMMA SitesKept ==
  ASSUME RowsInv, SiteInv, RowsInv', [Next]_serviceVars
  PROVE  SiteInv'
  <1>1. CASE files' \subseteq files /\ UNCHANGED <<job, site, draft, contended>>
    <2>1. /\ \A h \in Handlers : Changes(h)' = Changes(h)
          /\ \A h \in Handlers : \A p : NewSpace(h, p)' = NewSpace(h, p)
      BY <1>1 DEF Changes, Pending, NewSpace
    <2>2. ASSUME NEW h \in Handlers
          PROVE  Within(Own(h), 1)'
      <3>1. Own(h)' = Own(h)
        BY <2>1 DEF Own
      <3> QED
        BY <3>1 DEF SiteInv, Within, Held, Bytes
    <2>3. ASSUME NEW T \in SUBSET Handlers, NEW v \in [Paths -> Nat], Mix(T, v)'
          PROVE  Within(v, 1 + Slack("site"))'
      <3>1. \A h \in T : h \in Handlers
        BY <2>3
      <3>2. Mix(T, v)
        BY <1>1, <2>1, <2>3, <3>1 DEF Mix, OnDisk
      <3>3. Within(v, 1 + Slack("site"))
        BY <3>2 DEF SiteInv
      <3> QED
        BY <1>1, <3>3 DEF Within, Held, Bytes, Slack
    <2> QED
      BY <1>1, <2>2, <2>3 DEF SiteInv
  <1>2. ASSUME NEW h \in Handlers, FileEffect(h)
        PROVE  SiteInv'
    <2>0. DOMAIN job = Handlers /\ DOMAIN draft = Handlers
      BY DEF RowsInv, SiteInv
    <2>1. CASE Elsewhere(h)
      <3>1. CASE job[h].pc # "write" /\ job'[h].pc # "write"
        BY <2>1, <3>1, SiteRests DEF Elsewhere
      <3> QED
        BY <2>1, <3>1 DEF Elsewhere, Away
    <2>2. ASSUME NEW w \in Workspaces, NEW size \in Nat, Upload(h, w, size)
          PROVE  SiteInv'
      <3>1. PICK j : j = [pc |-> "total", workspace |-> w, size |-> size]
        OBVIOUS
      <3>2. job' = [job EXCEPT ![h] = j] /\ j.pc = "total" /\ job[h].pc = "idle"
        BY <2>2, <3>1 DEF Upload, Idle
      <3>3. UNCHANGED <<site, draft>> /\ contended \subseteq contended'
        BY <2>2 DEF Upload, fileVars
      <3> QED
        BY <2>0, <3>2, <3>3, SiteRests DEF Others
    <2>3. CASE CheckTotal(h)
      <3>1. PICK j : j = [job[h] EXCEPT !.pc = "store"]
        OBVIOUS
      <3>2. UploadOK(job[h])
        BY <2>3, PlaceOK DEF CheckTotal
      <3>3. job[h].pc = "total" /\ j.pc = "store" /\ Idle.pc = "idle"
        BY <2>3, <3>1, <3>2 DEF CheckTotal, UploadOK, Idle
      <3>4. job' = [job EXCEPT ![h] = j] \/ job' = [job EXCEPT ![h] = Idle]
        BY <2>3, <3>1 DEF CheckTotal
      <3>5. UNCHANGED <<site, draft, contended>>
        BY <2>3 DEF CheckTotal, fileVars
      <3> QED
        BY <2>0, <3>3, <3>4, <3>5, SiteRests DEF Others
    <2>4. CASE StoreFile(h)
      <3>1. job[h].pc = "store" /\ Idle.pc = "idle" /\ Returns(h)
        BY <2>4 DEF StoreFile, Idle
      <3>2. UNCHANGED <<site, draft, contended>>
        BY <2>4 DEF StoreFile
      <3> QED
        BY <2>0, <3>1, <3>2, SiteRests DEF Others, Returns
    <2>5. CASE GivesUp(h)
      <3>1. /\ site' = site /\ contended' = contended /\ DOMAIN draft' = Handlers
            /\ draft'[h] = <<>> /\ job'[h].pc = "idle"
            /\ \A o \in Others(h) : job'[o] = job[o] /\ draft'[o] = draft[o]
        BY <2>0, <2>5 DEF GivesUp, Returns, Idle, Others
      <3>2. Changes(h)' = {}
        BY <3>1 DEF Changes, Pending
      <3>3. ASSUME NEW o \in Handlers, o # h
            PROVE  /\ Changes(o)' = Changes(o)
                   /\ \A p \in Changes(o) : NewSpace(o, p)' = NewSpace(o, p)
        BY <3>1, <3>3 DEF Changes, Pending, NewSpace, Others
      <3>4. ASSUME NEW o \in Handlers
            PROVE  /\ DOMAIN draft'[o] \subseteq Paths
                   /\ \A p \in DOMAIN draft'[o] : draft'[o][p].size \in Nat
        BY <3>1 DEF SiteInv, Others
      <3> QED
        BY <3>1, <3>2, <3>3, <3>4, SiteKept
    <2>6. CASE CheckSite(h)
      <3>1. CASE job'[h].pc = "write"
        BY <2>6, <3>1, SiteGrows
      <3>2. CASE job'[h].pc = "tools"
        <4>1. job[h].pc = "tools" /\ \A o \in Others(h) : job'[o] = job[o]
          BY <2>6, WritersGoOn DEF CheckSite, AtTool
        <4>2. UNCHANGED <<site, draft>> /\ contended \subseteq contended'
          BY <2>6 DEF CheckSite
        <4> QED
          BY <3>2, <4>1, <4>2, SiteRests
      <3> QED
        BY <2>6, <3>1, <3>2, WritersGoOn
    <2>7. CASE WriteSite(h)
      <3>1. PICK p, n, file : /\ p = Head(job[h].todo).path /\ n = Head(job[h].todo).size
                              /\ file.size = n /\ Draft(h, p, file)
        BY <2>7 DEF WriteSite
      <3>2. job[h].pc = "write" /\ site' = site /\ contended' = contended
        BY <2>7 DEF WriteSite
      <3>3. job'[h].pc = "tools" /\ \A o \in Others(h) : job'[o] = job[o]
        <4>1. ~ CheckSite(h)
          BY <3>2 DEF CheckSite, AtTool
        <4> QED
          BY <2>7, <4>1, WritersGoOn
      <3>4. /\ DOMAIN draft' = Handlers
            /\ \A o \in Others(h) : draft'[o] = draft[o]
            /\ DOMAIN draft'[h] = DOMAIN draft[h] \union {p}
            /\ \A q \in DOMAIN draft'[h] : draft'[h][q] = IF q = p THEN file ELSE draft[h][q]
        BY <2>0, <3>1 DEF Draft, Others
      <3>5. /\ Changes(h) = DOMAIN draft[h] \union {p} /\ Changes(h)' = DOMAIN draft'[h]
            /\ \A q : NewSpace(h, q) = IF q = p THEN 1 + n ELSE Space(draft[h][q])
        BY <3>1, <3>2, <3>3 DEF Changes, Pending, NewSpace
      <3>5a. \A q : NewSpace(h, q)' = Space(draft'[h][q])
        BY <3>3 DEF Pending, NewSpace, Space
      <3>6. p \in Paths /\ n \in Nat
        <4>1. job[h].todo \in Seq(Blocks) /\ job[h].todo # <<>> /\ Head(job[h].todo).tool = "write"
          BY <3>2, PlaceOK DEF Working, RoundOK
        <4>2. Head(job[h].todo) \in Blocks
          BY <4>1
        <4> QED
          BY <3>1, <4>1, <4>2 DEF Blocks
      <3>7. ASSUME NEW o \in Handlers, o # h
            PROVE  /\ Changes(o)' = Changes(o)
                   /\ \A q \in Changes(o) : NewSpace(o, q)' = NewSpace(o, q)
        BY <3>3, <3>4, <3>7 DEF Changes, Pending, NewSpace, Others
      <3>8. ASSUME NEW o \in Handlers
            PROVE  /\ DOMAIN draft'[o] \subseteq Paths
                   /\ \A q \in DOMAIN draft'[o] : draft'[o][q].size \in Nat
        <4>1. CASE o = h
          BY <3>1, <3>4, <3>6, <4>1 DEF SiteInv
        <4>2. CASE o # h
          BY <3>4, <4>2 DEF SiteInv, Others
        <4> QED
          BY <4>1, <4>2
      <3>9. CASE file # NoFile
        <4>1. Space(file) = 1 + n
          BY <3>1, <3>9 DEF Space
        <4>2. /\ Changes(h)' = Changes(h)
              /\ \A q \in Changes(h) : NewSpace(h, q)' = NewSpace(h, q)
          BY <3>4, <3>5, <3>5a, <4>1
        <4> QED
          BY <3>2, <3>4, <3>7, <3>8, <4>2, SiteKept
      <3>10. CASE file = NoFile
        <4>1. Pending(h) \subseteq {p}
          BY <3>1 DEF Pending
        <4> QED
          BY <3>1, <3>2, <3>3, <3>6, <3>10, <4>1, SiteShrinks
      <3> QED
        BY <3>9, <3>10
    <2>8. CASE DeleteSite(h)
      <3>1. PICK p : p = Head(job[h].todo).path
        OBVIOUS
      <3>2. /\ job[h].pc = "tools" /\ site' = site /\ contended' = contended
            /\ (OnPage(h, p) /\ Draft(h, p, NoFile)) \/ draft' = draft
        BY <2>8, <3>1 DEF DeleteSite, AtTool
      <3>3. job'[h].pc = "tools" /\ \A o \in Others(h) : job'[o] = job[o]
        <4>1. ~ (CheckSite(h) /\ job'[h].pc = "write")
          <5>1. StoreResult(h) /\ Working(h) /\ job[h].todo # <<>>
            BY <2>8 DEF DeleteSite, AtTool, Working
          <5> QED
            BY <5>1, NextBlock DEF StoreResult, GoesOn
        <4> QED
          BY <2>8, <4>1, WritersGoOn
      <3>4. CASE draft' = draft
        BY <3>2, <3>3, <3>4, SiteRests
      <3>5. CASE OnPage(h, p) /\ Draft(h, p, NoFile)
        <4>1. p \in Paths
          <5>1. job[h].todo \in Seq(Blocks) /\ job[h].todo # <<>>
                /\ Head(job[h].todo).tool = "delete"
            BY <2>8, PlaceOK DEF Working, RoundOK, DeleteSite, AtTool
          <5>2. Head(job[h].todo) \in Blocks
            BY <5>1
          <5> QED
            BY <3>1, <5>1, <5>2 DEF Blocks
        <4>2. Pending(h) \subseteq {p}
          BY <3>2 DEF Pending
        <4> QED
          BY <3>2, <3>3, <3>5, <4>1, <4>2, SiteShrinks
      <3> QED
        BY <3>2, <3>4, <3>5
    <2>9. CASE CommitRound(h)
      BY <2>9, SiteCommits
    <2> QED
      BY <1>2, <2>1, <2>2, <2>3, <2>4, <2>5, <2>6, <2>7, <2>8, <2>9 DEF FileEffect
  <1> QED
    BY <1>1, <1>2, FileSteps

(* The program starts without files.                                       *)
LEMMA InitialFiles ==
  ASSUME Init
  PROVE  UploadInv /\ SiteInv
  <1>1. /\ files = {} /\ contended = {} /\ site = [p \in Paths |-> NoFile]
        /\ draft = [h \in Handlers |-> <<>>] /\ \A h \in Handlers : job[h] = Idle
    BY DEF Init, FilesInit
  <1>2. WorkspaceMax.files \in Nat /\ WorkspaceMax.bytes \in Nat
        /\ SiteMax.files \in Nat /\ SiteMax.bytes \in Nat
    BY FilesAssumption
  <1>3. ASSUME NEW w \in Workspaces
        PROVE  Room(w)
    <2>1. FilesOf(w) = {} /\ Uploading(w) = {} /\ Storing(w) = {} /\ Slack(w) = 0
      BY <1>1 DEF FilesOf, Uploading, Storing, Slack, Idle
    <2>2. Cardinality({}) = 0 /\ BytesOf({}) = 0 /\ InFlight(w) = 0
      BY <2>1, FS_EmptySet, TotalOfNone DEF BytesOf, InFlight
    <2>3. WorkspaceMax.bytes * (1 + 0) = WorkspaceMax.bytes
      BY <1>2
    <2> QED
      BY <1>2, <2>1, <2>2, <2>3 DEF Room
  <1>4. UploadInv
    BY <1>1, <1>3, FS_EmptySet DEF UploadInv, Idle
  <1>5. \A h \in Handlers : Changes(h) = {}
    BY <1>1 DEF Changes, Pending, Idle
  <1>6. ASSUME NEW v \in [Paths -> Nat], \A p \in Paths : v[p] = 0
        PROVE  Within(v, 1)
    <2>1. Held(v) = {}
      BY <1>6 DEF Held
    <2>2. Total(Bytes(v), Paths) = 0
      <3>1. \A p \in Paths : Bytes(v)[p] = 0
        BY <1>6 DEF Bytes
      <3> QED
        BY <3>1, FilesAssumption, TotalZero
    <2> QED
      BY <1>2, <2>1, <2>2, FS_EmptySet DEF Within
  <1>7. \A h \in Handlers : Within(Own(h), 1)
    <2>1. ASSUME NEW h \in Handlers
          PROVE  Own(h) \in [Paths -> Nat] /\ \A p \in Paths : Own(h)[p] = 0
      BY <1>5 DEF Own
    <2> QED
      BY <1>6, <2>1
  <1>8. ASSUME NEW T \in SUBSET Handlers, NEW v \in [Paths -> Nat], Mix(T, v)
        PROVE  Within(v, 1 + Slack("site"))
    <2>1. \A h \in T : Changes(h) = {}
      BY <1>5, <1>8
    <2>2. \A p \in Paths : v[p] = 0
      BY <1>1, <1>8, <2>1 DEF Mix, OnDisk, Space
    <2>3. Slack("site") = 0 /\ 1 + 0 = 1
      BY <1>1 DEF Slack
    <2> QED
      BY <1>6, <2>2, <2>3
  <1> QED
    BY <1>1, <1>4, <1>7, <1>8 DEF SiteInv, NoFile

(* What the limits leave room for.                                         *)
LEMMA QuotasKept ==
  ASSUME RowsInv, UploadInv, SiteInv
  PROVE  WithinQuota
  <1>1. ASSUME NEW w \in Workspaces
        PROVE  /\ Cardinality(FilesOf(w)) <= WorkspaceMax.files + Slack(w)
               /\ BytesOf(FilesOf(w)) <= WorkspaceMax.bytes * (1 + Slack(w))
    <2>1. Room(w) /\ IsFiniteSet(files) /\ \A f \in files : f.size \in Nat
      BY DEF UploadInv
    <2>2. /\ Cardinality(FilesOf(w)) \in Nat /\ Cardinality(Uploading(w)) \in Nat
          /\ BytesOf(FilesOf(w)) \in Int /\ InFlight(w) \in Int
          /\ IsFiniteSet(Storing(w)) /\ \A h \in Storing(w) : job[h].size \in Nat
      BY <2>1, RoomIsFinite
    <2>3. InFlight(w) >= 0
      <3>1. PICK g : g = [h \in Storing(w) |-> job[h].size]
        OBVIOUS
      <3>2. \A h \in Storing(w) : g[h] \in Nat
        BY <2>2, <3>1
      <3>3. Total(g, {}) <= Total(g, Storing(w)) /\ Total(g, {}) = 0
        BY <2>2, <3>2, TotalPart, TotalOfNone
      <3> QED
        BY <3>1, <3>3 DEF InFlight
    <2>4. /\ WorkspaceMax.files \in Nat /\ WorkspaceMax.bytes \in Nat
          /\ Slack(w) \in Int
      BY FilesAssumption, ThrottleAssumption, FS_CardinalityType DEF Slack
    <2>5. WorkspaceMax.bytes * (1 + Slack(w)) \in Int
      BY <2>4
    <2> QED
      BY <2>1, <2>2, <2>3, <2>4, <2>5 DEF Room
  <1>2. Within(OnDisk, 1 + Slack("site"))
    <2>1. Mix({}, OnDisk) /\ {} \in SUBSET Handlers /\ OnDisk \in [Paths -> Nat]
      BY OnDiskOK DEF Mix, SiteInv
    <2> QED
      BY <2>1 DEF SiteInv
  <1>3. Held(OnDisk) = Stored(site) /\ Bytes(OnDisk) = Sizes(site)
    <2>1. \A p \in Paths : /\ OnDisk[p] > 0 <=> site[p] # NoFile
                           /\ site[p].size = IF OnDisk[p] > 0 THEN OnDisk[p] - 1 ELSE 0
      BY SpaceOK DEF OnDisk, SiteInv
    <2> QED
      BY <2>1 DEF Held, Bytes, Stored, Sizes
  <1> QED
    BY <1>1, <1>2, <1>3 DEF WithinQuota, Within

(* A workspace and the website hold no more than their limits allow, empty *)
(* files counted, as long as no check of theirs ran while another request  *)
(* was between its check and its commit.  From the first that did on, what *)
(* may be over is what all other handlers can have in flight at once, and  *)
(* no more however often they meet                                         *)
(* (workspaces/service.py upload_file, website/service.py write_file).     *)
THEOREM QuotasAreKept == Spec => []WithinQuota
  <1> DEFINE FilesInv == ChatInv /\ UploadInv /\ SiteInv
  <1>1. Init => FilesInv
    BY InitialChats, InitialFiles
  <1>2. FilesInv /\ [Next]_serviceVars => FilesInv'
    <2> SUFFICES ASSUME ChatInv, UploadInv, SiteInv, [Next]_serviceVars
                 PROVE  ChatInv' /\ UploadInv' /\ SiteInv'
      OBVIOUS
    <2>1. ChatInv' /\ RowsInv /\ RowsInv'
      BY ChatsKept DEF ChatInv
    <2> QED
      BY <2>1, UploadsKept, SitesKept
  <1>3. FilesInv => WithinQuota
    BY QuotasKept DEF ChatInv
  <1> QED
    BY <1>1, <1>2, <1>3, PTL DEF Spec
=============================================================================
