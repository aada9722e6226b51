------------------------------- MODULE Images -------------------------------
(***************************************************************************)
(* What a user pays for with credits, and the images among it: the debits  *)
(* of answers and images (chat/orchestrator.py over wallet.consume), the   *)
(* rows of generated_images, their deletion by the owner                   *)
(* (api_gateway/routers/images.py) and the sweep of expired ones           *)
(* (chat/image_sweep.py).  The wallet is used as Ledger promises it: one   *)
(* posting per key, never below zero; a debit locks the wallet of the user *)
(* until its transaction ends.                                             *)
(***************************************************************************)
EXTENDS Files

CONSTANTS
    Nobody,         \* no handler: the row is committed
    ImageCost,      \* image_credits_cost
    ImageTtl,       \* temporary_image_ttl_seconds
    SweepInterval,  \* image_sweep_min_interval_seconds
    SweepBatch      \* image_sweep_batch_size

ASSUME ImagesAssumption ==
    /\ Nobody \notin Handlers
    /\ {ImageCost, ImageTtl, SweepInterval, SweepBatch} \subseteq Nat

VARIABLES
    debits,         \* the debits: [key, amount, by]
    images,         \* the rows of generated_images: [call, session, expires, by]
    lockedUntil,    \* when the Redis key img:sweep:lock expires
    sold,           \* the images that were stored and charged, and when they
                    \* may go (observation only)
    erased          \* those their owner deleted (observation only)

NoSession == 0

Unlimited == -1

ImagesInit ==
    /\ debits = {}
    /\ images = {}
    /\ lockedUntil = 0
    /\ sold = {}
    /\ erased = {}

Committed(S) == {row \in S : row.by = Nobody}

(* The rows of S once the transaction of h is committed, or undone.        *)
Sealed(h, S) == {[row EXCEPT !.by = IF @ = h THEN Nobody ELSE @] : row \in S}

Without(h, S) == {row \in S : row.by # h}

OpenRows(h, S) == S \ Without(h, S)

-----------------------------------------------------------------------------
(* The balance as h sees it, and as everybody does.                        *)
Balance(h) ==
    LET seen == {d \in debits : d.by \in {Nobody, h}}
    IN  world.credits - Total([d \in seen |-> d.amount], seen)

WalletFree(h) == \A d \in debits : d.by \in {Nobody, h}

TurnKey(t) == [of |-> "turn", id |-> t]

ImageKey(c) == [of |-> "image", id |-> c]

Debited(key) == \E d \in debits : d.key = key

-----------------------------------------------------------------------------
Expired(image) == image.expires # Unlimited /\ image.expires <= now

(* _insert_generated_image: an image of a temporary chat belongs to no     *)
(* session and may be swept after a while.                                 *)
ImageRow(h, session, c) ==
    [call |-> c, session |-> session, by |-> h,
     expires |-> IF session = NoSession THEN now + ImageTtl ELSE Unlimited]

Sweepable == {i \in Committed(images) : Expired(i)}

(* maybe_sweep_expired_images: SET NX EX admits one sweep in an interval;  *)
(* without Redis there is none.  left is what remains of the images.       *)
Sweeps(left) ==
    LET batch == Min({SweepBatch, Cardinality(Sweepable)})
    IN  \/ /\ world.redis # "down" /\ now >= lockedUntil
           /\ \E S \in kSubset(batch, Sweepable) : left = images \ S
           /\ lockedUntil' = now + SweepInterval
        \/ /\ world.redis # "up" \/ now < lockedUntil
           /\ left = images
           /\ UNCHANGED lockedUntil

(* GET /v1/images, GET /v1/images/{id} and a turn that made images.        *)
FetchImages ==
    \E left \in SUBSET images :
        /\ Sweeps(left)
        /\ images' = left
        /\ UNCHANGED <<debits, sold, erased>>

(* DELETE /v1/images/{id}: an expired image is not there any more.         *)
DeleteImage(image) ==
    \E left \in SUBSET images :
        /\ Sweeps(left)
        /\ image \in Committed(left) /\ ~Expired(image)
        /\ images' = left \ {image}
        /\ erased' = erased \union {image.call}
        /\ UNCHANGED <<debits, sold>>

-----------------------------------------------------------------------------
(* Every stored image was charged, and an image that was charged stays     *)
(* until its owner deletes it or its temporary chat's grace period is      *)
(* over: neither the deletion of its chat nor a sweep takes it, and no     *)
(* rollback leaves one without the other (ADR-058; orchestrator.py         *)
(* _execute_image_generate_tool, image_sweep.py).                          *)
ImagesPaidAndKept ==
    /\ \A image \in Committed(images) :
          \E d \in Committed(debits) :
             d.key = ImageKey(image.call) /\ d.amount = ImageCost
    /\ \A d \in Committed(debits) :
          d.key.of = "image" => \E s \in sold : s.call = d.key.id
    /\ \A s \in sold :
          \/ s.call \in erased
          \/ Expired(s)
          \/ \E image \in Committed(images) : image.call = s.call
=============================================================================
