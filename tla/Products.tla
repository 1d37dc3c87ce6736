------------------------------ MODULE Products ------------------------------
(***************************************************************************)
(* A seller's products: ProductsService, ProductFilesService and           *)
(* VendorsService.setStatus, moved by the seller, by admins and by buyers  *)
(* at once.                                                                *)
(*                                                                         *)
(* Nearly every operation reads the row, decides, and updates it by id in  *)
(* a later statement; what it decided is in call[h] between the two.  The  *)
(* names are this module's own, so that MCCatalog can extend it.             *)
(***************************************************************************)
EXTENDS Integers, FiniteSets

CONSTANTS
    Product,        \* rows of the Product table, all of one seller
    File,           \* ProductFile rows a product may have
    Handler,        \* HTTP requests served at the same time
    None,           \* a call without an argument
    PlanLimits,     \* maxProducts of the plans the seller may hold
    LargestLimit,
    Prepared,       \* bound: products that are complete drafts at first
    Traded,         \* bound: products that are bought, deleted, or have their files changed
    AdminSets       \* bound: what admins set the seller to

ASSUME ProductsAssumption ==
    /\ IsFiniteSet(Product)
    /\ IsFiniteSet(Handler) /\ Handler # {}
    /\ LargestLimit \in Nat
    /\ PlanLimits \subseteq 0 .. LargestLimit
    /\ File # {}
    /\ AdminSets \subseteq {"PENDING", "ACTIVE", "SUSPENDED"}

VARIABLES
    status,      \* Product.status; "NONE" before the row, "GONE" once deleted
    published,   \* products whose publishedAt is set
    files,       \* the ProductFile rows of each product
    thumbnail,   \* products whose thumbnailKey is set
    sold,        \* products with an OrderItem
    vendor,      \* Vendor.status
    restored,    \* listed products that an admin's unblock has put back
    call         \* what each request is about to write

productsVars == <<status, published, files, thumbnail, sold, vendor, restored, call>>
columns == <<published, files, thumbnail, sold, vendor>>

Missing == {"NONE", "GONE"}
Status == {"DRAFT", "PENDING_REVIEW", "APPROVED", "REJECTED", "UNPUBLISHED", "BLOCKED"}
LISTED_STATUSES == {"APPROVED", "PENDING_REVIEW"}
SUBMITTABLE_STATUSES == {"DRAFT", "REJECTED", "UNPUBLISHED"}
PRODUCT_TRANSITIONS ==
    ({"DRAFT", "REJECTED"} \X {"PENDING_REVIEW", "BLOCKED"})
    \union ({"PENDING_REVIEW"} \X {"APPROVED", "REJECTED"})
    \union ({"APPROVED"} \X {"UNPUBLISHED", "BLOCKED"})
    \union ({"UNPUBLISHED"} \X {"PENDING_REVIEW", "APPROVED", "BLOCKED"})
    \union ({"BLOCKED"} \X {"APPROVED", "DRAFT"})

Idle == [op |-> "idle", product |-> None, arg |-> None]
Moves == {"submit", "review", "unblock", "restore"}
Ops == {"insert", "submit", "delete", "unblock", "review", "restore", "unpublish",
        "removeFile", "buy"}

\* A request that is under way has a product, and an argument of the right kind.
ProductsTypeOK ==
    /\ status \in [Product -> Status \union Missing]
    /\ published \subseteq Product
    /\ files \in [Product -> SUBSET File]
    /\ thumbnail \subseteq Product
    /\ sold \subseteq Product
    /\ vendor \in {"PENDING", "ACTIVE", "SUSPENDED"}
    /\ restored \subseteq Product
    /\ call \in [Handler -> [op : Ops \union {"idle"}, product : Product \union {None},
                            arg : Status \union File \union {None}]]
    /\ \A h \in Handler : call[h] = Idle \/ (call[h].op \in Ops /\ call[h].product \in Product)
    /\ \A h \in Handler : call[h].op \in Moves => call[h].arg \in Status
    /\ \A p \in Product : status[p] \in Missing => files[p] = {}

ProductsInit ==
    /\ status = [p \in Product |-> IF p \in Prepared THEN "DRAFT" ELSE "NONE"]
    /\ published = {}
    /\ files = [p \in Product |-> IF p \in Prepared THEN File ELSE {}]
    /\ thumbnail = Prepared \intersect Product
    /\ sold = {}
    /\ vendor = "ACTIVE"
    /\ restored = {}
    /\ call = [h \in Handler |-> Idle]

-----------------------------------------------------------------------------
\* Helpers.

ExistedOnce(p) == status[p] # "NONE"          \* mutant: deleted rows still take files
Exists(p) == status[p] \notin Missing
ListedProducts == {p \in Product : status[p] \in LISTED_STATUSES}
CountsOnSale ==                               \* mutant: products under review take no room
    Cardinality({p \in Product : status[p] = "APPROVED"})
CountListed == Cardinality(ListedProducts)
CanTransition(from, to) == <<from, to>> \in PRODUCT_TRANSITIONS

\* Request h has read the row of p and is going to write.
Decides(h, op, p, arg) ==
    /\ call[h] = Idle
    /\ call' = [call EXCEPT ![h] = [op |-> op, product |-> p, arg |-> arg]]

Writes(h, op, p) ==
    /\ call[h].op = op
    /\ call[h].product = p
    /\ call' = [call EXCEPT ![h] = Idle]

\* UPDATE ... SET status WHERE id: whatever the status is by now.
MovesTo(p, next) ==
    /\ Exists(p)
    /\ status' = [status EXCEPT ![p] = next]
    /\ restored' = restored \intersect ListedProducts'

-----------------------------------------------------------------------------
\* The seller.

AskCreate(h, p) ==
    /\ status[p] = "NONE"
    /\ vendor # "SUSPENDED"
    /\ Decides(h, "insert", p, None)
    /\ UNCHANGED <<status, restored, columns>>

Create(h, p) ==
    /\ status[p] = "NONE"
    /\ Writes(h, "insert", p)
    /\ status' = [status EXCEPT ![p] = "DRAFT"]
    /\ UNCHANGED <<restored, columns>>

\* A published product goes straight back online.
NextOnSubmit(p) ==
    IF status[p] = "UNPUBLISHED" /\ p \in published THEN "APPROVED" ELSE "PENDING_REVIEW"

\* The reads of the transaction: the product, the seller's plan, and the count
\* of what is listed.
CheckSubmit(h, p, limit) ==
    /\ status[p] \in SUBMITTABLE_STATUSES
    /\ files[p] # {}
    /\ p \in thumbnail
    /\ vendor # "SUSPENDED"
    /\ CountListed < limit
    /\ CanTransition(status[p], NextOnSubmit(p))
    /\ Decides(h, "submit", p, NextOnSubmit(p))
    /\ UNCHANGED <<status, restored, columns>>

Submit(h, p) ==
    /\ Writes(h, "submit", p)
    /\ MovesTo(p, call[h].arg)
    /\ UNCHANGED columns

CheckUnpublish(h, p) ==
    /\ Exists(p)
    /\ CanTransition(status[p], "UNPUBLISHED")
    /\ Decides(h, "unpublish", p, None)
    /\ UNCHANGED <<status, restored, columns>>

Unpublish(h, p) ==
    /\ Writes(h, "unpublish", p)
    /\ MovesTo(p, "UNPUBLISHED")
    /\ UNCHANGED columns

CheckRemove(h, p) ==
    /\ p \in Traded
    /\ Exists(p)
    /\ p \notin sold
    /\ Decides(h, "delete", p, None)
    /\ UNCHANGED <<status, restored, columns>>

\* The order items' foreign key refuses the deletion of a product that has been
\* sold meanwhile; its files and cart lines go with it.
CascadesToSales(p) == TRUE                    \* mutant: ON DELETE CASCADE on the order items
Unreferenced(p) == p \notin sold
CanDelete(p) == Exists(p) /\ Unreferenced(p)

Remove(h, p) ==
    /\ CanDelete(p)
    /\ Writes(h, "delete", p)
    /\ status' = [status EXCEPT ![p] = "GONE"]
    /\ files' = [files EXCEPT ![p] = {}]
    /\ restored' = restored \ {p}
    /\ UNCHANGED <<published, thumbnail, sold, vendor>>

-----------------------------------------------------------------------------
\* The admin.

\* approve, reject and block; block returns early when there is nothing to do,
\* which the table says too.
Verdicts == {"APPROVED", "REJECTED", "BLOCKED"}

CheckReview(h, p, next) ==
    /\ Exists(p)
    /\ CanTransition(status[p], next)
    /\ Decides(h, "review", p, next)
    /\ UNCHANGED <<status, restored, columns>>

\* What an admin puts online beside the plan's limit.
AdminMovesTo(p, next) ==
    /\ Exists(p)
    /\ status' = [status EXCEPT ![p] = next]
    /\ restored' = IF p \in ListedProducts THEN restored \intersect ListedProducts'
                   ELSE (restored \union {p}) \intersect ListedProducts'

\* approve also sets publishedAt.
Review(h, p) ==
    /\ Writes(h, "review", p)
    /\ AdminMovesTo(p, call[h].arg)
    /\ published' = IF call[h].arg = "APPROVED" THEN published \union {p} ELSE published
    /\ UNCHANGED <<files, thumbnail, sold, vendor>>

\* unblock reads the row, decides, and hands over to review, which reads it again.
AlwaysOnline(p) == "APPROVED"                 \* mutant: a blocked draft comes back online
NextOnUnblock(p) == IF p \in published THEN "APPROVED" ELSE "DRAFT"

CheckUnblock(h, p) ==
    /\ status[p] = "BLOCKED"
    /\ Decides(h, "unblock", p, NextOnUnblock(p))
    /\ UNCHANGED <<status, restored, columns>>

CheckAgain(h, p) ==
    /\ call[h].op = "unblock"
    /\ call[h].product = p
    /\ Exists(p)
    /\ CanTransition(status[p], call[h].arg)
    /\ call' = [call EXCEPT ![h].op = "restore"]
    /\ UNCHANGED <<status, restored, columns>>

Unblock(h, p) ==
    /\ Writes(h, "restore", p)
    /\ AdminMovesTo(p, call[h].arg)
    /\ UNCHANGED columns

\* One transaction: suspending a seller blocks what is online.
SetStatus(next) ==
    /\ vendor # next
    /\ vendor' = next
    /\ status' = [p \in Product |-> IF next = "SUSPENDED" /\ status[p] = "APPROVED"
                                    THEN "BLOCKED" ELSE status[p]]
    /\ restored' = restored \intersect ListedProducts'
    /\ UNCHANGED <<published, files, thumbnail, sold, call>>

-----------------------------------------------------------------------------
\* Files and images.

ConfirmFile(p, f) ==
    /\ p \in Traded
    /\ Exists(p)
    /\ f \notin files[p]
    /\ files' = [files EXCEPT ![p] = @ \union {f}]
    /\ UNCHANGED <<status, published, thumbnail, sold, vendor, restored, call>>

\* The last file of a product with sales stays.
CheckRemoveFile(h, p, f) ==
    /\ p \in Traded
    /\ f \in files[p]
    /\ p \in sold => Cardinality(files[p]) > 1
    /\ Decides(h, "removeFile", p, f)
    /\ UNCHANGED <<status, restored, columns>>

RemoveFile(h, p) ==
    /\ call[h].arg \in files[p]
    /\ Writes(h, "removeFile", p)
    /\ files' = [files EXCEPT ![p] = @ \ {call[h].arg}]
    /\ UNCHANGED <<status, published, thumbnail, sold, vendor, restored>>

ConfirmImage(p) ==
    /\ p \in Traded
    /\ Exists(p)
    /\ p \notin thumbnail
    /\ thumbnail' = thumbnail \union {p}
    /\ UNCHANGED <<status, published, files, sold, vendor, restored, call>>

RemoveImage(p) ==
    /\ p \in Traded
    /\ Exists(p)
    /\ p \in thumbnail
    /\ thumbnail' = thumbnail \ {p}
    /\ UNCHANGED <<status, published, files, sold, vendor, restored, call>>

-----------------------------------------------------------------------------
\* The buyers: a checkout reads what is on sale, then inserts the order items.

CheckSale(h, p) ==
    /\ p \in Traded
    /\ status[p] = "APPROVED"
    /\ vendor = "ACTIVE"
    /\ Decides(h, "buy", p, None)
    /\ UNCHANGED <<status, restored, columns>>

Sell(h, p) ==
    /\ Exists(p)
    /\ Writes(h, "buy", p)
    /\ sold' = sold \union {p}
    /\ UNCHANGED <<status, published, files, thumbnail, vendor, restored>>

\* The row is gone, a key refused the write, or the connection was lost.
CallFails(h) ==
    /\ call[h] # Idle
    /\ call' = [call EXCEPT ![h] = Idle]
    /\ UNCHANGED <<status, restored, columns>>

-----------------------------------------------------------------------------
\* The first statements of a request, and the others.
Starts(h, p) ==
    \/ AskCreate(h, p)
    \/ \E limit \in PlanLimits : CheckSubmit(h, p, limit)
    \/ CheckUnpublish(h, p) \/ CheckRemove(h, p)
    \/ \E f \in File : CheckRemoveFile(h, p, f)
    \/ \E next \in Verdicts : CheckReview(h, p, next)
    \/ CheckUnblock(h, p)
    \/ CheckSale(h, p)

Continues(h, p) ==
    \/ Create(h, p) \/ Submit(h, p) \/ Unpublish(h, p) \/ Remove(h, p) \/ RemoveFile(h, p)
    \/ Review(h, p) \/ CheckAgain(h, p) \/ Unblock(h, p)
    \/ Sell(h, p)

ProductsNext ==
    \/ \E h \in Handler : call[h] = Idle /\ \E p \in Product : Starts(h, p)
    \/ \E h \in Handler, p \in Product : call[h].product = p /\ Continues(h, p)
    \/ \E p \in Product :
        \/ \E f \in File : ConfirmFile(p, f)
        \/ ConfirmImage(p) \/ RemoveImage(p)
    \/ \E next \in AdminSets : SetStatus(next)
    \/ \E h \in Handler : CallFails(h)

ProductsSpec == ProductsInit /\ [][ProductsNext]_productsVars

-----------------------------------------------------------------------------
\* Requests that overlap list more than the plan allows, since each counts
\* before the others write; never by more than the requests that were under
\* way, and what an admin has put back.
ListedWithinPlan ==
    Cardinality(ListedProducts \ restored) <= LargestLimit + Cardinality(Handler) - 1

\* Nothing is on sale that no admin has approved, however blocks, unblocks,
\* unpublishing and suspensions overlap.
OnSaleWasApproved == \A p \in Product : status[p] = "APPROVED" => p \in published

\* A product somebody has bought is never deleted, although the sales are
\* counted in one statement and the row deleted in another.
SoldIsKept == \A p \in sold : status[p] # "GONE"

\* A message of removeFile (product-files.service.ts:99): a product with sales
\* keeps at least one downloadable file.
SoldHasFile == \A p \in sold : files[p] # {}

=============================================================================
