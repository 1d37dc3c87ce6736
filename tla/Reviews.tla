------------------------------ MODULE Reviews ------------------------------
(***************************************************************************)
(* Reviews of one product and the rating kept on its row: ReviewsService,  *)
(* rating.ts, and what a refund does to them (markRefunded).               *)
(*                                                                         *)
(* ratingSum and ratingCount are never counted again: every write adds the *)
(* difference between what the review counted for when it was read and     *)
(* what it counts for once written.  The increments are atomic; the reads  *)
(* they rest on are not locked.                                            *)
(***************************************************************************)
EXTENDS Integers, FiniteSets, FiniteSetsExt

CONSTANTS
    Purchase,       \* OrderItem rows of the product, each of a paid order
    Rating,         \* the stars a buyer may give
    Writer,         \* HTTP requests and webhooks served at the same time
    MaxStale        \* bound: how many writes rest on a read that no longer holds

ASSUME ReviewsAssumption ==
    /\ IsFiniteSet(Purchase)
    /\ Rating \subseteq Nat \ {0}
    /\ MaxStale \in Nat

VARIABLES
    order,         \* Order.status of each purchase
    review,        \* the Review row of each purchase
    ratingSum,     \* Product.ratingSum
    ratingCount,   \* Product.ratingCount
    work,          \* what each request is doing
    stale,         \* how many writes have rested on a read that no longer held
    late           \* purchases reviewed during their refund, or after it

reviewsVars == <<order, review, ratingSum, ratingCount, work, stale, late>>
rating == <<order, review, ratingSum, ratingCount, stale, late>>

NoReview == [stars |-> 0, hidden |-> FALSE]
Row == [stars : Rating \union {0}, hidden : BOOLEAN]
Nothing == [pc |-> "idle", purchase |-> {}, stars |-> 0, hide |-> FALSE, before |-> NoReview]
Work == [pc : {"idle", "checked", "upsert", "hide", "refund"}, purchase : SUBSET Purchase,
         stars : Rating \union {0}, hide : BOOLEAN, before : Row]

\* A request that is under way is about one purchase, and only refunds and
\* first reviews meet no row.
ReviewsTypeOK ==
    /\ order \in [Purchase -> {"PAID", "REFUNDED"}]
    /\ review \in [Purchase -> Row]
    /\ \A o \in Purchase : review[o].hidden => review[o].stars \in Rating
    /\ ratingSum \in Int
    /\ ratingCount \in Int
    /\ work \in [Writer -> Work]
    /\ \A w \in Writer : work[w] # Nothing => Cardinality(work[w].purchase) = 1
    /\ \A w \in Writer : work[w].pc = "hide" => work[w].before.stars \in Rating
    /\ stale \in 0 .. MaxStale
    /\ late \subseteq Purchase

ReviewsInit ==
    /\ order = [o \in Purchase |-> "PAID"]
    /\ review = [o \in Purchase |-> NoReview]
    /\ ratingSum = 0
    /\ ratingCount = 0
    /\ work = [w \in Writer |-> Nothing]
    /\ stale = 0
    /\ late = {}

-----------------------------------------------------------------------------
\* What a review counts for.

Visible(r) == IF r.stars # 0 /\ ~ r.hidden THEN 1 ELSE 0
Stars(r) == Visible(r) * r.stars

\* UPDATE "Product" SET ratingSum = ratingSum + ..., in the same transaction.
CountsAgain(before, after) ==                 \* mutant: an edited review counts twice
    /\ ratingSum' = ratingSum + Stars(after)
    /\ ratingCount' = ratingCount + Visible(after)
ApplyRatingDelta(before, after) ==
    /\ ratingSum' = ratingSum + Stars(after) - Stars(before)
    /\ ratingCount' = ratingCount + Visible(after) - Visible(before)

Refunding(o) == \E w \in Writer : work[w].pc = "refund" /\ work[w].purchase = {o}

\* What w has read of the review still holds, or the bound allows that not.
Counts(w, o) ==
    IF work[w].before = review[o] THEN stale' = stale
    ELSE stale < MaxStale /\ stale' = stale + 1

Ends(w) == work' = [work EXCEPT ![w] = Nothing]

-----------------------------------------------------------------------------
\* upsert: the order is checked, and read no more; then the transaction reads
\* the review, and writes.

CheckPurchase(w, o, stars) ==
    /\ work[w] = Nothing
    /\ order[o] = "PAID"
    /\ work' = [work EXCEPT ![w] = [Nothing EXCEPT !.pc = "checked", !.purchase = {o},
                                                   !.stars = stars]]
    /\ UNCHANGED rating

ReadReview(w, o) ==
    /\ work[w].pc = "checked"
    /\ work[w].purchase = {o}
    /\ work' = [work EXCEPT ![w].pc = "upsert", ![w].before = review[o]]
    /\ UNCHANGED rating

\* The row that was read is updated and must still be there; a row that was not
\* there must not have been created meanwhile.  A hidden review stays hidden.
WriteReview(w, o) ==
    LET after == [review[o] EXCEPT !.stars = work[w].stars]
    IN  /\ work[w].pc = "upsert"
        /\ work[w].purchase = {o}
        /\ (work[w].before = NoReview) <=> (review[o] = NoReview)
        /\ review' = [review EXCEPT ![o] = after]
        /\ ApplyRatingDelta(work[w].before, after)
        /\ Counts(w, o)
        /\ late' = IF order[o] = "REFUNDED" \/ Refunding(o) THEN late \union {o} ELSE late
        /\ Ends(w)
        /\ UNCHANGED order

\* setHidden: one transaction, which reads and then writes.
ReadHidden(w, o, hide) ==
    /\ work[w] = Nothing
    /\ review[o] # NoReview
    /\ review[o].hidden # hide
    /\ work' = [work EXCEPT ![w] = [Nothing EXCEPT !.pc = "hide", !.purchase = {o},
                                                   !.hide = hide, !.before = review[o]]]
    /\ UNCHANGED rating

WriteHidden(w, o) ==
    LET after == [review[o] EXCEPT !.hidden = work[w].hide]
    IN  /\ work[w].pc = "hide"
        /\ work[w].purchase = {o}
        /\ review[o] # NoReview
        /\ review' = [review EXCEPT ![o] = after]
        /\ ApplyRatingDelta(work[w].before, after)
        /\ Counts(w, o)
        /\ Ends(w)
        /\ UNCHANGED <<order, late>>

\* markRefunded claims the order under its row lock, reads the reviews, takes
\* them out of the rating and deletes them, and commits.
ClaimRefundedPurchase(w, o) ==
    /\ work[w] = Nothing
    /\ order[o] = "PAID"
    /\ ~ Refunding(o)
    /\ work' = [work EXCEPT ![w] = [Nothing EXCEPT !.pc = "refund", !.purchase = {o},
                                                   !.before = review[o]]]
    /\ UNCHANGED rating

KeepsReview(before, current) == current       \* mutant: the review of a refunded purchase stays
EmptiesReview(before, current) == [current EXCEPT !.stars = 0]    \* mutant: it stays, empty
LeavesWithRefund(before, current) == IF before = NoReview THEN current ELSE NoReview

RefundPurchase(w, o) ==
    /\ work[w].pc = "refund"
    /\ work[w].purchase = {o}
    /\ order' = [order EXCEPT ![o] = "REFUNDED"]
    /\ review' = [review EXCEPT ![o] = LeavesWithRefund(work[w].before, review[o])]
    /\ ApplyRatingDelta(work[w].before, NoReview)
    /\ IF work[w].before = NoReview THEN stale' = stale ELSE Counts(w, o)
    /\ Ends(w)
    /\ UNCHANGED late

\* The transaction rolls back, or the request ends before it.
WorkFails(w) ==
    /\ work[w] # Nothing
    /\ Ends(w)
    /\ UNCHANGED rating

\* The first statements of a request, and the others.
Opens(w, o) ==
    \/ \E stars \in Rating : CheckPurchase(w, o, stars)
    \/ \E hide \in BOOLEAN : ReadHidden(w, o, hide)
    \/ ClaimRefundedPurchase(w, o)

Goes(w, o) == ReadReview(w, o) \/ WriteReview(w, o) \/ WriteHidden(w, o) \/ RefundPurchase(w, o)

ReviewsNext ==
    \E w \in Writer :
        \/ work[w] = Nothing /\ \E o \in Purchase : Opens(w, o)
        \/ \E o \in work[w].purchase : Goes(w, o)
        \/ WorkFails(w)

ReviewsSpec == ReviewsInit /\ [][ReviewsNext]_reviewsVars

-----------------------------------------------------------------------------
\* The product's rating is that of its visible reviews, after any sequence of
\* reviews, edits, moderation and refunds; a write whose review was changed
\* since it was read is the only thing that takes it away from them, and by no
\* more than that one review.
RatingIsOfVisible ==
    /\ stale = 0 => ratingSum = MapThenSumSet(LAMBDA o : Stars(review[o]), Purchase)
    /\ ratingCount - Cardinality({o \in Purchase : Visible(review[o]) = 1}) \in -stale .. stale

\* A refunded purchase has no review, except one that was written by a request
\* which had checked the order before the refund was committed.
RefundedIsNotReviewed ==
    \A o \in Purchase : order[o] = "REFUNDED" /\ o \notin late => review[o] = NoReview

=============================================================================
