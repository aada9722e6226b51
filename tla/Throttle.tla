------------------------------ MODULE Throttle ------------------------------
(***************************************************************************)
(* The clock, the outside world and the request limits kept in Redis       *)
(* (api_gateway/rate_limit.py).  Each limit is a sliding window over a     *)
(* sorted set: one member for every request, scored with its time.  A      *)
(* request reads the clock first and waits for Redis then, once for each   *)
(* of its keys, so that the sets are written out of the order of their     *)
(* scores.  When Redis fails, every request is let through.                *)
(***************************************************************************)
EXTENDS Integers, Sequences, FiniteSets, FiniteSetsExt

CONSTANTS
    Handlers,       \* the request handlers that may run at the same time
    Worlds,         \* what users, provider and Redis do: one record for each
                    \* kind of behaviour that is looked at
    Keys,           \* the keys of the windows: a user, a device, an address
    Limit,          \* Limit[k]: rate_limit_chat_per_user, _device, _ip
    Window,         \* rate_limit_window_seconds
    MaxTime         \* bound: where the clock stops

Times == 0..MaxTime

ASSUME ThrottleAssumption ==
    /\ IsFiniteSet(Handlers)
    /\ Limit \in [Keys -> Nat] /\ Window \in Nat \ {0} /\ MaxTime \in Nat

VARIABLES
    world,          \* the world of this behaviour
    now,            \* the clock
    marks,          \* marks[k][t]: the members of window k scored t
    expires,        \* expires[k]: when the set of window k expires
    asks,           \* asks[h]: the check that h waits for
    passed,         \* passed[k][t]: the requests window k let through that
                    \* had read t (observation only)
    late,           \* late[k][t]: those among them that were executed when
                    \* marks of their time were gone (observation only)
    trimmed         \* trimmed[k]: the latest time for which window k was
                    \* cleared of what is older (observation only)

limitVars == <<marks, expires, asks, passed, late, trimmed>>

(* Redis answers ("up"), fails now and then ("flaky"), or always ("down"). *)
RedisStates == {"up", "flaky", "down"}

NotAsking == [at |-> "none"]

LetIn == [at |-> "admitted"]

NoMarks == [t \in Times |-> 0]

ThrottleInit ==
    /\ now = 0
    /\ marks = [k \in Keys |-> NoMarks]
    /\ expires = [k \in Keys |-> 0]
    /\ asks = [h \in Handlers |-> NotAsking]
    /\ passed = [k \in Keys |-> NoMarks]
    /\ late = [k \in Keys |-> NoMarks]
    /\ trimmed = [k \in Keys |-> 0]

Total(f, S) == MapThenSumSet(LAMBDA x : f[x], S)

Tick ==
    /\ world.clock /\ now < MaxTime
    /\ now' = now + 1

-----------------------------------------------------------------------------
(* Faulty: the window is a second too short.                               *)
FreshEarly(t, read) == t > read - Window + 1

(* What ZREMRANGEBYSCORE key 0 (read - window) leaves.                     *)
Fresh(t, read) == t > read - Window

Lapsed(k) == now >= expires[k]

(* The window with the request in it: it counts even if it is refused.     *)
Marked(k, read) ==
    [t \in Times |-> (IF Fresh(t, read) /\ ~Lapsed(k) THEN marks[k][t] ELSE 0)
                     + (IF t = read THEN 1 ELSE 0)]

Allows(k, read) == Total(Marked(k, read), Times) <= Limit[k]

(* What may be missing in the set is not younger than this minus Window.   *)
TrimmedTo(k) == IF Lapsed(k) THEN Max({trimmed[k], expires[k]}) ELSE trimmed[k]

(* _allow, up to its await; left are the keys that are not done.           *)
ReadsClock(h, left) ==
    /\ asks' = [asks EXCEPT ![h] = [at |-> "execute", left |-> left, read |-> now]]
    /\ UNCHANGED <<marks, expires, passed, late, trimmed>>

(* enforce_chat_limits begins: checks are the keys of the request.         *)
Ask(h, checks) == asks[h] = NotAsking /\ ReadsClock(h, checks)

(* It goes on with the next key.                                           *)
AskNext(h) == asks[h].at = "next" /\ ReadsClock(h, asks[h].left)

(* What a key that lets the request through leads to.                      *)
Onward(left) == IF left = <<>> THEN LetIn ELSE [at |-> "next", left |-> left]

(* The four commands are one MULTI/EXEC.                                   *)
Mark(k, read) ==
    /\ marks' = [marks EXCEPT ![k] = Marked(k, read)]
    /\ expires' = [expires EXCEPT ![k] = now + Window]
    /\ trimmed' = [trimmed EXCEPT ![k] = Max({read, TrimmedTo(k)})]

Execute(h) ==
    LET k == Head(asks[h].left)
        read == asks[h].read
        lets == IF Allows(k, read) THEN 1 ELSE 0
        misses == IF read < TrimmedTo(k) THEN lets ELSE 0
    IN  /\ asks[h].at = "execute" /\ world.redis # "down"
        /\ Mark(k, read)
        /\ passed' = [passed EXCEPT ![k][read] = @ + lets]
        /\ late' = [late EXCEPT ![k][read] = @ + misses]
        /\ asks' = [asks EXCEPT ![h] =
              IF Allows(k, read) THEN Onward(Tail(@.left)) ELSE NotAsking]

(* The first failure lets the request through, whatever keys are left; the *)
(* commands may have been executed.                                        *)
RedisFails(h) ==
    /\ asks[h].at = "execute" /\ world.redis # "up"
    /\ \/ Mark(Head(asks[h].left), asks[h].read)
       \/ UNCHANGED <<marks, expires, trimmed>>
    /\ asks' = [asks EXCEPT ![h] = LetIn]
    /\ UNCHANGED <<passed, late>>

(* The request is over before it has begun to work: it finds nothing to    *)
(* work on, or the process dies.                                           *)
Leave(h) ==
    /\ asks[h] # NotAsking
    /\ asks' = [asks EXCEPT ![h] = NotAsking]
    /\ UNCHANGED <<marks, expires, passed, late, trimmed>>

-----------------------------------------------------------------------------
WindowOf(t) == {u \in Times : t - Window < u /\ u <= t}

(* While Redis answers, a window, wherever it starts, lets through more    *)
(* requests than its limit only by those that had read the clock and were  *)
(* overtaken, before Redis executed them, by what drops the marks of their *)
(* time (a request with a later time, or the expiry of the set), and never *)
(* by more than there are handlers.  (rate_limit.py, _allow)               *)
WindowBound ==
    \A k \in Keys, t \in Times :
        LET let == Total(passed[k], WindowOf(t))
        IN  /\ let <= Limit[k] + Total(late[k], WindowOf(t))
            /\ let <= Limit[k] + Cardinality(Handlers)
=============================================================================
