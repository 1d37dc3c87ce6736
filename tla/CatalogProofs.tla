---------------------------- MODULE CatalogProofs ----------------------------
(***************************************************************************)
(* The safety of Products for any number of products, files, overlapping   *)
(* requests and plans, and of Reviews for any number of purchases,         *)
(* requests and writes that rest on an old read.                           *)
(***************************************************************************)
EXTENDS MCCatalog, SetSums

\* What a request has decided to put online has been approved before.
ApprovedBefore ==
    \A h \in Handler :
        call[h].op \in {"submit", "unblock", "restore"} /\ call[h].arg = "APPROVED"
            => call[h].product \in published

\* The products that requests under way are going to submit.
Submitted(c) == {c[h].product : h \in {g \in Handler : c[g].op = "submit"}}

\* What takes room in the plan, or is about to.
Room == (ListedProducts \ restored) \union Submitted(call)
Most == LargestLimit + Cardinality(Handler) - 1

RoomFits == Cardinality(Room) <= Most

-----------------------------------------------------------------------------
\* Helpers.

LEMMA DecidesFacts ==
    ASSUME ProductsTypeOK, NEW h \in Handler, NEW op, NEW p, NEW arg, Decides(h, op, p, arg)
    PROVE  /\ call[h] = Idle
           /\ call'[h] = [op |-> op, product |-> p, arg |-> arg]
           /\ \A g \in Handler : g # h => call'[g] = call[g]
           /\ DOMAIN call' = Handler
           /\ call' = [g \in Handler |-> call'[g]]
BY DEF ProductsTypeOK, Decides

LEMMA WritesFacts ==
    ASSUME ProductsTypeOK, NEW h \in Handler, NEW op \in Ops, NEW p \in Product, Writes(h, op, p)
    PROVE  /\ call[h].op = op /\ call[h].product = p
           /\ call'[h] = Idle
           /\ \A g \in Handler : g # h => call'[g] = call[g]
           /\ call' = [g \in Handler |-> call'[g]]
BY DEF ProductsTypeOK, Writes

\* Requests that begin keep the calls well-formed.
LEMMA DecidesType ==
    ASSUME ProductsTypeOK, NEW h \in Handler, NEW op \in Ops, NEW p \in Product,
           NEW arg \in Status \union File \union {None}, op \in Moves => arg \in Status,
           Decides(h, op, p, arg), UNCHANGED <<status, restored, columns>>
    PROVE  ProductsTypeOK'
<1>1. /\ call'[h] = [op |-> op, product |-> p, arg |-> arg]
      /\ \A g \in Handler : g # h => call'[g] = call[g]
      /\ call' = [g \in Handler |-> call'[g]]
  BY DecidesFacts
<1>2. \A g \in Handler : call'[g] \in [op : Ops \union {"idle"}, product : Product \union {None},
                                      arg : Status \union File \union {None}]
  BY <1>1 DEF ProductsTypeOK
<1>3. \A g \in Handler : /\ call'[g] = Idle \/ (call'[g].op \in Ops /\ call'[g].product \in Product)
                         /\ call'[g].op \in Moves => call'[g].arg \in Status
  BY <1>1 DEF ProductsTypeOK
<1>4. call' \in [Handler -> [op : Ops \union {"idle"}, product : Product \union {None},
                            arg : Status \union File \union {None}]]
  BY <1>1, <1>2
<1> QED
  BY <1>3, <1>4 DEF ProductsTypeOK, columns

\* Requests that end do as well.
LEMMA IdleType ==
    ASSUME ProductsTypeOK, NEW h \in Handler, call'[h] = Idle,
           \A g \in Handler : g # h => call'[g] = call[g],
           call' = [g \in Handler |-> call'[g]]
    PROVE  /\ call' \in [Handler -> [op : Ops \union {"idle"}, product : Product \union {None},
                                    arg : Status \union File \union {None}]]
           /\ \A g \in Handler : /\ call'[g] = Idle \/ (call'[g].op \in Ops /\ call'[g].product \in Product)
                                 /\ call'[g].op \in Moves => call'[g].arg \in Status
<1>1. Idle \in [op : Ops \union {"idle"}, product : Product \union {None},
                arg : Status \union File \union {None}]
  BY DEF Idle
<1>2. Idle.op \notin Moves
  BY DEF Idle, Moves
<1> QED
  BY <1>1, <1>2 DEF ProductsTypeOK

\* A row that is moved exists, before and after.
LEMMA MovedType ==
    ASSUME ProductsTypeOK, NEW p \in Product, NEW next \in Status, Exists(p),
           status' = [status EXCEPT ![p] = next]
    PROVE  /\ status' \in [Product -> Status \union Missing]
           /\ \A q \in Product : status'[q] \in Missing => status[q] \in Missing
BY DEF ProductsTypeOK, Exists, Missing, Status

LEMMA InitType == ProductsInit => ProductsTypeOK
BY DEF ProductsInit, ProductsTypeOK, Idle, Missing, Status, Ops, Moves

\* A next status is a status.
LEMMA NextIsStatus ==
    /\ \A p \in Product : NextOnSubmit(p) \in Status /\ NextOnUnblock(p) \in Status
    /\ Verdicts \subseteq Status
BY DEF NextOnSubmit, NextOnUnblock, Verdicts, Status

LEMMA StartsType ==
    ASSUME ProductsTypeOK, NEW h \in Handler, NEW p \in Product, Starts(h, p)
    PROVE  ProductsTypeOK'
<1>1. CASE AskCreate(h, p)
  BY <1>1, DecidesType DEF AskCreate, Ops, Moves
<1>2. CASE \E limit \in PlanLimits : CheckSubmit(h, p, limit)
  BY <1>2, DecidesType, NextIsStatus DEF CheckSubmit, Ops
<1>3. CASE CheckUnpublish(h, p)
  BY <1>3, DecidesType DEF CheckUnpublish, Ops, Moves
<1>4. CASE CheckRemove(h, p)
  BY <1>4, DecidesType DEF CheckRemove, Ops, Moves
<1>5. CASE \E f \in File : CheckRemoveFile(h, p, f)
  BY <1>5, DecidesType DEF CheckRemoveFile, Ops, Moves
<1>6. CASE \E next \in Verdicts : CheckReview(h, p, next)
  BY <1>6, DecidesType, NextIsStatus DEF CheckReview, Ops
<1>7. CASE CheckUnblock(h, p)
  BY <1>7, DecidesType, NextIsStatus DEF CheckUnblock, Ops
<1>8. CASE CheckSale(h, p)
  BY <1>8, DecidesType DEF CheckSale, Ops, Moves
<1> QED
  BY <1>1, <1>2, <1>3, <1>4, <1>5, <1>6, <1>7, <1>8 DEF Starts

LEMMA ContinuesType ==
    ASSUME ProductsTypeOK, NEW h \in Handler, NEW p \in Product, Continues(h, p)
    PROVE  ProductsTypeOK'
<1> USE DEF Ops
<1>1. CASE Create(h, p)
  <2>1. status' \in [Product -> Status \union Missing]
        /\ \A q \in Product : status'[q] \in Missing => status[q] \in Missing
    BY <1>1 DEF Create, ProductsTypeOK, Missing, Status
  <2> QED
    BY <1>1, <2>1, WritesFacts, IdleType DEF Create, ProductsTypeOK, columns
<1>2. CASE Submit(h, p)
  <2>1. call[h].arg \in Status
    BY <1>2, WritesFacts DEF Submit, ProductsTypeOK, Moves
  <2>2. status' \in [Product -> Status \union Missing]
        /\ \A q \in Product : status'[q] \in Missing => status[q] \in Missing
    BY <1>2, <2>1, MovedType DEF Submit, MovesTo
  <2>3. restored' \subseteq Product
    BY <1>2 DEF Submit, MovesTo, ProductsTypeOK
  <2> QED
    BY <1>2, <2>2, <2>3, WritesFacts, IdleType DEF Submit, ProductsTypeOK, columns
<1>3. CASE Unpublish(h, p)
  <2>1. status' \in [Product -> Status \union Missing]
        /\ \A q \in Product : status'[q] \in Missing => status[q] \in Missing
    BY <1>3, MovedType DEF Unpublish, MovesTo, Status
  <2>2. restored' \subseteq Product
    BY <1>3 DEF Unpublish, MovesTo, ProductsTypeOK
  <2> QED
    BY <1>3, <2>1, <2>2, WritesFacts, IdleType DEF Unpublish, ProductsTypeOK, columns
<1>4. CASE Remove(h, p)
  <2>1. /\ status' \in [Product -> Status \union Missing]
        /\ files' \in [Product -> SUBSET File]
        /\ \A q \in Product : status'[q] \in Missing => files'[q] = {}
    BY <1>4 DEF Remove, ProductsTypeOK, Missing
  <2> QED
    BY <1>4, <2>1, WritesFacts, IdleType DEF Remove, ProductsTypeOK
<1>5. CASE RemoveFile(h, p)
  <2>1. /\ files' \in [Product -> SUBSET File]
        /\ \A q \in Product : files'[q] \subseteq files[q]
    BY <1>5 DEF RemoveFile, ProductsTypeOK
  <2> QED
    BY <1>5, <2>1, WritesFacts, IdleType DEF RemoveFile, ProductsTypeOK
<1>6. CASE Review(h, p)
  <2>1. call[h].arg \in Status
    BY <1>6, WritesFacts DEF Review, ProductsTypeOK, Moves
  <2>2. status' \in [Product -> Status \union Missing]
        /\ \A q \in Product : status'[q] \in Missing => status[q] \in Missing
    BY <1>6, <2>1, MovedType DEF Review, AdminMovesTo
  <2>3. restored' \subseteq Product /\ published' \subseteq Product
    BY <1>6 DEF Review, AdminMovesTo, ProductsTypeOK
  <2> QED
    BY <1>6, <2>2, <2>3, WritesFacts, IdleType DEF Review, ProductsTypeOK
<1>7. CASE CheckAgain(h, p)
  <2>1. /\ call'[h] = [call[h] EXCEPT !.op = "restore"]
        /\ \A g \in Handler : g # h => call'[g] = call[g]
        /\ call' = [g \in Handler |-> call'[g]]
    BY <1>7 DEF CheckAgain, ProductsTypeOK
  <2>2. call[h].product \in Product /\ call[h].arg \in Status
    BY <1>7 DEF CheckAgain, ProductsTypeOK, Moves, Idle
  <2>3. /\ call'[h].op = "restore" /\ call'[h].product \in Product /\ call'[h].arg \in Status
        /\ call'[h] \in [op : Ops \union {"idle"}, product : Product \union {None},
                         arg : Status \union File \union {None}]
    BY <2>1, <2>2 DEF ProductsTypeOK
  <2>4. call' \in [Handler -> [op : Ops \union {"idle"}, product : Product \union {None},
                              arg : Status \union File \union {None}]]
    BY <2>1, <2>3 DEF ProductsTypeOK
  <2>5. \A g \in Handler : /\ call'[g] = Idle \/ (call'[g].op \in Ops /\ call'[g].product \in Product)
                           /\ call'[g].op \in Moves => call'[g].arg \in Status
    BY <2>1, <2>3 DEF ProductsTypeOK
  <2> QED
    BY <1>7, <2>4, <2>5 DEF CheckAgain, ProductsTypeOK, columns
<1>8. CASE Unblock(h, p)
  <2>1. call[h].arg \in Status
    BY <1>8, WritesFacts DEF Unblock, ProductsTypeOK, Moves
  <2>2. status' \in [Product -> Status \union Missing]
        /\ \A q \in Product : status'[q] \in Missing => status[q] \in Missing
    BY <1>8, <2>1, MovedType DEF Unblock, AdminMovesTo
  <2>3. restored' \subseteq Product
    BY <1>8 DEF Unblock, AdminMovesTo, ProductsTypeOK
  <2> QED
    BY <1>8, <2>2, <2>3, WritesFacts, IdleType DEF Unblock, ProductsTypeOK, columns
<1>9. CASE Sell(h, p)
  BY <1>9, WritesFacts, IdleType DEF Sell, ProductsTypeOK
<1> QED
  BY <1>1, <1>2, <1>3, <1>4, <1>5, <1>6, <1>7, <1>8, <1>9 DEF Continues

LEMMA StepType ==
    ASSUME ProductsTypeOK, [ProductsNext]_productsVars
    PROVE  ProductsTypeOK'
<1>1. CASE \E h \in Handler : call[h] = Idle /\ \E p \in Product : Starts(h, p)
  BY <1>1, StartsType
<1>2. CASE \E h \in Handler, p \in Product : call[h].product = p /\ Continues(h, p)
  BY <1>2, ContinuesType
<1>3. CASE \E p \in Product : \E f \in File : ConfirmFile(p, f)
  BY <1>3 DEF ConfirmFile, ProductsTypeOK, Exists
<1>4. CASE \E p \in Product : ConfirmImage(p) \/ RemoveImage(p)
  BY <1>4 DEF ConfirmImage, RemoveImage, ProductsTypeOK
<1>5. CASE \E next \in AdminSets : SetStatus(next)
  BY <1>5, ProductsAssumption DEF SetStatus, ProductsTypeOK, Status, Missing
<1>6. CASE \E h \in Handler : CallFails(h)
  <2>1. PICK h \in Handler : CallFails(h)
    BY <1>6
  <2>2. /\ call'[h] = Idle
        /\ \A g \in Handler : g # h => call'[g] = call[g]
        /\ call' = [g \in Handler |-> call'[g]]
    BY <2>1 DEF CallFails, ProductsTypeOK
  <2> QED
    BY <2>1, <2>2, IdleType DEF CallFails, ProductsTypeOK, columns
<1>7. CASE UNCHANGED productsVars
  BY <1>7 DEF productsVars, ProductsTypeOK
<1> QED
  BY <1>1, <1>2, <1>3, <1>4, <1>5, <1>6, <1>7 DEF ProductsNext

\* Every variable stays in its type, a request under way keeps a product and an
\* argument it can use, and a product without a row has no files.
THEOREM ProductsTypeCorrect == ProductsSpec => []ProductsTypeOK
BY InitType, StepType, PTL DEF ProductsSpec

-----------------------------------------------------------------------------
\* A product that has been sold stays.

LEMMA StepSoldIsKept ==
    ASSUME ProductsTypeOK, SoldIsKept, [ProductsNext]_productsVars
    PROVE  SoldIsKept'
<1>1. CASE \E h \in Handler : call[h] = Idle /\ \E p \in Product : Starts(h, p)
  <2>1. UNCHANGED <<status, sold>>
    BY <1>1 DEF Starts, AskCreate, CheckSubmit, CheckUnpublish, CheckRemove, CheckRemoveFile,
                CheckReview, CheckUnblock, CheckSale, columns
  <2> QED
    BY <2>1 DEF SoldIsKept
<1>2. CASE \E h \in Handler, p \in Product : call[h].product = p /\ Continues(h, p)
  <2>1. PICK h \in Handler, p \in Product : Continues(h, p)
    BY <1>2
  <2>2. CASE Create(h, p)
    BY <2>2 DEF Create, SoldIsKept, ProductsTypeOK, columns
  <2>3. CASE Submit(h, p)
    <3>1. call[h].arg \in Status
      BY <2>3, WritesFacts DEF Submit, ProductsTypeOK, Moves, Ops
    <3> QED
      BY <2>3, <3>1 DEF Submit, MovesTo, SoldIsKept, ProductsTypeOK, columns, Status
  <2>4. CASE Unpublish(h, p)
    BY <2>4 DEF Unpublish, MovesTo, SoldIsKept, ProductsTypeOK, columns
  <2>5. CASE Remove(h, p)
    BY <2>5 DEF Remove, CanDelete, Unreferenced, SoldIsKept, ProductsTypeOK
  <2>6. CASE RemoveFile(h, p) \/ CheckAgain(h, p)
    BY <2>6 DEF RemoveFile, CheckAgain, SoldIsKept, columns
  <2>7. CASE Review(h, p)
    <3>1. call[h].arg \in Status
      BY <2>7, WritesFacts DEF Review, ProductsTypeOK, Moves, Ops
    <3> QED
      BY <2>7, <3>1 DEF Review, AdminMovesTo, SoldIsKept, ProductsTypeOK, Status
  <2>8. CASE Unblock(h, p)
    <3>1. call[h].arg \in Status
      BY <2>8, WritesFacts DEF Unblock, ProductsTypeOK, Moves, Ops
    <3> QED
      BY <2>8, <3>1 DEF Unblock, AdminMovesTo, SoldIsKept, ProductsTypeOK, columns, Status
  <2>9. CASE Sell(h, p)
    BY <2>9 DEF Sell, Exists, Missing, SoldIsKept
  <2> QED
    BY <2>1, <2>2, <2>3, <2>4, <2>5, <2>6, <2>7, <2>8, <2>9 DEF Continues
<1>3. CASE \E p \in Product : (\E f \in File : ConfirmFile(p, f)) \/ ConfirmImage(p) \/ RemoveImage(p)
  BY <1>3 DEF ConfirmFile, ConfirmImage, RemoveImage, SoldIsKept
<1>4. CASE \E next \in AdminSets : SetStatus(next)
  BY <1>4 DEF SetStatus, SoldIsKept, ProductsTypeOK
<1>5. CASE \E h \in Handler : CallFails(h)
  BY <1>5 DEF CallFails, SoldIsKept, columns
<1>6. CASE UNCHANGED productsVars
  BY <1>6 DEF productsVars, SoldIsKept
<1> QED
  BY <1>1, <1>2, <1>3, <1>4, <1>5, <1>6 DEF ProductsNext

\* A product that somebody has bought is never deleted.
THEOREM SoldProductsStay == ProductsSpec => []SoldIsKept
<1>1. ProductsInit => SoldIsKept
  BY DEF ProductsInit, SoldIsKept
<1> QED
  BY <1>1, ProductsTypeCorrect, StepSoldIsKept, PTL DEF ProductsSpec

-----------------------------------------------------------------------------
\* What is on sale has been approved.

LEMMA DecidesApproved ==
    ASSUME ProductsTypeOK, ApprovedBefore, NEW h \in Handler, NEW op, NEW p \in Product, NEW arg,
           Decides(h, op, p, arg), published' = published,
           op \in {"submit", "unblock", "restore"} /\ arg = "APPROVED" => p \in published
    PROVE  ApprovedBefore'
<1>1. /\ call'[h] = [op |-> op, product |-> p, arg |-> arg]
      /\ \A g \in Handler : g # h => call'[g] = call[g]
  BY DecidesFacts
<1>2. ASSUME NEW g \in Handler, call'[g].op \in {"submit", "unblock", "restore"},
             call'[g].arg = "APPROVED"
      PROVE  call'[g].product \in published
  <2>1. CASE g = h
    BY <1>1, <1>2, <2>1
  <2>2. CASE g # h
    BY <1>1, <1>2, <2>2 DEF ApprovedBefore
  <2> QED
    BY <2>1, <2>2
<1> QED
  BY <1>2 DEF ApprovedBefore

LEMMA StepApproved ==
    ASSUME ProductsTypeOK, OnSaleWasApproved, ApprovedBefore, [ProductsNext]_productsVars
    PROVE  OnSaleWasApproved' /\ ApprovedBefore'
<1> USE DEF OnSaleWasApproved, ApprovedBefore
<1>1. CASE \E h \in Handler : call[h] = Idle /\ \E p \in Product : Starts(h, p)
  <2>1. PICK h \in Handler, p \in Product : Starts(h, p)
    BY <1>1
  <2>2. UNCHANGED <<status, published>>
    BY <2>1 DEF Starts, AskCreate, CheckSubmit, CheckUnpublish, CheckRemove, CheckRemoveFile,
                CheckReview, CheckUnblock, CheckSale, columns
  <2>4. CASE \E limit \in PlanLimits : CheckSubmit(h, p, limit)
    BY <2>2, <2>4, DecidesApproved DEF CheckSubmit, NextOnSubmit
  <2>5. CASE CheckUnblock(h, p)
    BY <2>2, <2>5, DecidesApproved DEF CheckUnblock, NextOnUnblock
  <2>6. CASE ~ (\E limit \in PlanLimits : CheckSubmit(h, p, limit)) /\ ~ CheckUnblock(h, p)
    <3>1. \E op \in Ops \ {"submit", "unblock", "restore"} : \E arg : Decides(h, op, p, arg)
      BY <2>1, <2>6 DEF Starts, AskCreate, CheckUnpublish, CheckRemove, CheckRemoveFile,
                        CheckReview, CheckSale, Ops
    <3> QED
      BY <2>2, <3>1, DecidesApproved
  <2> QED
    BY <2>2, <2>4, <2>5, <2>6
<1>2. CASE \E h \in Handler, p \in Product : call[h].product = p /\ Continues(h, p)
  <2>1. PICK h \in Handler, p \in Product : Continues(h, p)
    BY <1>2
  <2>2. CASE ~ CheckAgain(h, p)
    <3>1. \E op \in Ops : Writes(h, op, p)
      BY <2>1, <2>2 DEF Continues, Create, Submit, Unpublish, Remove, RemoveFile, Review,
                        Unblock, Sell, Ops
    <3>2. call'[h] = Idle /\ \A g \in Handler : g # h => call'[g] = call[g]
      BY <3>1, WritesFacts
    <3>3. published \subseteq published'
      BY <2>1 DEF Continues, Create, Submit, Unpublish, Remove, RemoveFile, Review, CheckAgain,
                  Unblock, Sell, columns
    <3>4. ApprovedBefore'
      BY <3>2, <3>3 DEF Idle
    <3>5. \A q \in Product : status'[q] = "APPROVED" => status[q] = "APPROVED" \/ q \in published'
      <4>1. CASE Create(h, p) \/ Remove(h, p) \/ RemoveFile(h, p) \/ Sell(h, p) \/ Unpublish(h, p)
        BY <4>1 DEF Create, Remove, RemoveFile, Sell, Unpublish, MovesTo, ProductsTypeOK
      <4>2. CASE Submit(h, p)
        BY <4>2, WritesFacts DEF Submit, MovesTo, ProductsTypeOK, columns, Ops
      <4>3. CASE Review(h, p)
        BY <4>3 DEF Review, AdminMovesTo, ProductsTypeOK
      <4>4. CASE Unblock(h, p)
        BY <4>4, WritesFacts DEF Unblock, AdminMovesTo, ProductsTypeOK, columns, Ops
      <4> QED
        BY <2>1, <2>2, <4>1, <4>2, <4>3, <4>4 DEF Continues
    <3> QED
      BY <3>3, <3>4, <3>5
  <2>3. CASE CheckAgain(h, p)
    <3>1. /\ call[h].op = "unblock"
          /\ call'[h] = [call[h] EXCEPT !.op = "restore"]
          /\ \A g \in Handler : g # h => call'[g] = call[g]
          /\ UNCHANGED <<status, published>>
      BY <2>3 DEF CheckAgain, ProductsTypeOK, columns
    <3>2. call'[h].arg = call[h].arg /\ call'[h].product = call[h].product
      BY <3>1 DEF ProductsTypeOK
    <3> QED
      BY <3>1, <3>2
  <2> QED
    BY <2>2, <2>3
<1>3. CASE \E p \in Product : (\E f \in File : ConfirmFile(p, f)) \/ ConfirmImage(p) \/ RemoveImage(p)
  BY <1>3 DEF ConfirmFile, ConfirmImage, RemoveImage
<1>4. CASE \E next \in AdminSets : SetStatus(next)
  BY <1>4 DEF SetStatus, ProductsTypeOK
<1>5. CASE \E h \in Handler : CallFails(h)
  <2>1. PICK h \in Handler : CallFails(h)
    BY <1>5
  <2>2. call'[h] = Idle /\ \A g \in Handler : g # h => call'[g] = call[g]
    BY <2>1 DEF CallFails, ProductsTypeOK
  <2> QED
    BY <2>1, <2>2 DEF CallFails, columns, Idle
<1>6. CASE UNCHANGED productsVars
  BY <1>6 DEF productsVars
<1> QED
  BY <1>1, <1>2, <1>3, <1>4, <1>5, <1>6 DEF ProductsNext

\* Nothing is on sale that no admin has approved.
THEOREM OnlyApprovedIsOnSale == ProductsSpec => []OnSaleWasApproved
<1>1. ProductsInit => OnSaleWasApproved /\ ApprovedBefore
  BY DEF ProductsInit, OnSaleWasApproved, ApprovedBefore, Idle
<1> QED
  BY <1>1, ProductsTypeCorrect, StepApproved, PTL DEF ProductsSpec

-----------------------------------------------------------------------------
\* The plan's limit.

\* There are no more products about to be submitted than requests.
LEMMA FewSubmitted ==
    ASSUME NEW c
    PROVE  /\ IsFiniteSet(Submitted(c))
           /\ Cardinality(Submitted(c)) <= Cardinality(Handler)
           /\ Cardinality(Submitted(c)) \in Nat /\ Cardinality(Handler) \in Nat
<1> DEFINE R == {g \in Handler : c[g].op = "submit"}
           f == [h \in R |-> c[h].product]
<1>1. IsFiniteSet(R) /\ Cardinality(R) <= Cardinality(Handler)
  BY ProductsAssumption, FS_Subset
<1>2. f \in Surjection(R, Submitted(c))
  BY DEF Surjection, Submitted
<1>3. IsFiniteSet(Submitted(c)) /\ Cardinality(Submitted(c)) <= Cardinality(R)
  BY <1>1, <1>2, FS_Surjection
<1> QED
  BY <1>1, <1>3, ProductsAssumption, FS_CardinalityType

LEMMA RoomFinite ==
    ASSUME ProductsTypeOK
    PROVE  /\ IsFiniteSet(ListedProducts) /\ Cardinality(ListedProducts) \in Nat
           /\ IsFiniteSet(Room) /\ Cardinality(Room) \in Nat
<1>1. ListedProducts \subseteq Product
  BY DEF ListedProducts
<1>2. IsFiniteSet(ListedProducts) /\ IsFiniteSet(ListedProducts \ restored)
  BY <1>1, ProductsAssumption, FS_Subset
<1>3. IsFiniteSet(Room)
  BY <1>2, FewSubmitted, FS_Union DEF Room
<1> QED
  BY <1>2, <1>3, FS_CardinalityType

\* A step after which nothing more takes room.
LEMMA NoMoreRoom ==
    ASSUME ProductsTypeOK, ProductsTypeOK', RoomFits, Room' \subseteq Room
    PROVE  RoomFits'
<1>1. IsFiniteSet(Room) /\ Cardinality(Room) \in Nat
  BY RoomFinite
<1>2. Cardinality(Room') <= Cardinality(Room) /\ IsFiniteSet(Room')
  BY <1>1, FS_Subset
<1>3. Cardinality(Room') \in Nat /\ Most \in Int /\ Cardinality(Handler) \in Nat
  BY <1>2, FS_CardinalityType, ProductsAssumption DEF Most
<1>4. Cardinality(Room)' = Cardinality(Room')
  OBVIOUS
<1> QED
  BY <1>1, <1>2, <1>3 DEF RoomFits, Most

\* A request that may submit has counted fewer than the limit; the others and
\* itself are as many as there are requests.
LEMMA SubmitFits ==
    ASSUME ProductsTypeOK, NEW h \in Handler, NEW p \in Product, NEW limit \in PlanLimits,
           CheckSubmit(h, p, limit)
    PROVE  RoomFits'
<1>1. ListedProducts' = ListedProducts /\ restored' = restored
  BY DEF CheckSubmit, ListedProducts
<1>2. /\ Cardinality(ListedProducts) \in Nat
      /\ Cardinality(ListedProducts) <= LargestLimit - 1
      /\ LargestLimit \in Nat
  BY RoomFinite, ProductsAssumption DEF CheckSubmit, CountListed
<1> DEFINE L == ListedProducts \ restored
           T == Submitted(call')
<1>3. /\ IsFiniteSet(L) /\ Cardinality(L) <= Cardinality(ListedProducts)
      /\ Cardinality(L) \in Nat
  BY RoomFinite, FS_Subset, FS_CardinalityType
<1>4. /\ IsFiniteSet(T) /\ Cardinality(T) <= Cardinality(Handler)
      /\ Cardinality(T) \in Nat /\ Cardinality(Handler) \in Nat
  BY FewSubmitted
<1>5. Room' = L \union T
  BY <1>1 DEF Room, Submitted
<1>6. /\ Cardinality(L \union T) = Cardinality(L) + Cardinality(T) - Cardinality(L \intersect T)
      /\ Cardinality(L \intersect T) \in Nat
  <2> HIDE DEF L, T
  <2>1. IsFiniteSet(L \intersect T)
    BY <1>3, FS_Subset
  <2> QED
    BY <1>3, <1>4, <2>1, FS_Union, FS_CardinalityType
<1>7. Cardinality(L \union T) <= Most
  <2> HIDE DEF L, T
  <2> QED
    BY <1>2, <1>3, <1>4, <1>6 DEF Most
<1> QED
  BY <1>5, <1>7 DEF RoomFits, Most

\* No request is about to submit more than before.
LEMMA NoMoreSubmitted ==
    ASSUME NEW h \in Handler, \A g \in Handler : g # h => call'[g] = call[g],
           call'[h].op # "submit"
    PROVE  Submitted(call') \subseteq Submitted(call)
BY DEF Submitted

LEMMA StartsRoom ==
    ASSUME ProductsTypeOK, NEW h \in Handler, NEW p \in Product, Starts(h, p),
           ~ \E limit \in PlanLimits : CheckSubmit(h, p, limit)
    PROVE  Room' \subseteq Room
<1>1. \E op \in Ops \ {"submit"} : \E arg : Decides(h, op, p, arg)
  BY DEF Starts, AskCreate, CheckUnpublish, CheckRemove, CheckRemoveFile, CheckReview,
         CheckUnblock, CheckSale, Ops
<1>2. UNCHANGED <<status, restored>>
  BY DEF Starts, AskCreate, CheckUnpublish, CheckRemove, CheckRemoveFile, CheckReview,
         CheckUnblock, CheckSale
<1>3. PICK op \in Ops \ {"submit"} : \E arg : Decides(h, op, p, arg)
  BY <1>1
<1>4. PICK arg : Decides(h, op, p, arg)
  BY <1>3
<1>5. call'[h].op # "submit" /\ \A g \in Handler : g # h => call'[g] = call[g]
  <2>1. /\ call'[h] = [op |-> op, product |-> p, arg |-> arg]
        /\ \A g \in Handler : g # h => call'[g] = call[g]
    BY <1>4, DecidesFacts
  <2> QED
    BY <2>1
<1>6. Submitted(call') \subseteq Submitted(call)
  BY <1>5, NoMoreSubmitted
<1> QED
  BY <1>2, <1>6 DEF Room, ListedProducts, Submitted

\* A request that writes a status lists its product, at most, and an admin's
\* counts as put back.
LEMMA ContinuesRoom ==
    ASSUME ProductsTypeOK, NEW h \in Handler, NEW p \in Product, Continues(h, p)
    PROVE  Room' \subseteq Room
<1>1. CASE Create(h, p)
  <2>1. ListedProducts' \subseteq ListedProducts
    BY <1>1 DEF Create, ListedProducts, LISTED_STATUSES, ProductsTypeOK
  <2> QED
    BY <1>1, <2>1, WritesFacts, NoMoreSubmitted DEF Create, Room, Submitted, Idle, Ops
<1>2. CASE Submit(h, p)
  <2>1. p \in Submitted(call)
    BY <1>2, WritesFacts DEF Submit, Submitted, Ops
  <2>2. ListedProducts' \subseteq ListedProducts \union {p}
    BY <1>2 DEF Submit, MovesTo, ListedProducts, ProductsTypeOK
  <2>3. Submitted(call') \subseteq Submitted(call)
    BY <1>2, WritesFacts, NoMoreSubmitted DEF Submit, Idle, Ops
  <2>4. ListedProducts' \ restored' \subseteq (ListedProducts \ restored) \union {p}
    BY <1>2, <2>2 DEF Submit, MovesTo
  <2> QED
    BY <2>1, <2>3, <2>4 DEF Room, Submitted
<1>3. CASE Unpublish(h, p)
  <2>1. ListedProducts' \subseteq ListedProducts
    BY <1>3 DEF Unpublish, MovesTo, ListedProducts, LISTED_STATUSES, ProductsTypeOK
  <2>2. Submitted(call') \subseteq Submitted(call)
    BY <1>3, WritesFacts, NoMoreSubmitted DEF Unpublish, Idle, Ops
  <2> QED
    BY <1>3, <2>1, <2>2 DEF Unpublish, MovesTo, Room, Submitted
<1>4. CASE Remove(h, p)
  <2>1. ListedProducts' \subseteq ListedProducts \ {p}
    BY <1>4 DEF Remove, ListedProducts, LISTED_STATUSES, ProductsTypeOK
  <2>2. Submitted(call') \subseteq Submitted(call)
    BY <1>4, WritesFacts, NoMoreSubmitted DEF Remove, Idle, Ops
  <2> QED
    BY <1>4, <2>1, <2>2 DEF Remove, Room, Submitted
<1>5. CASE RemoveFile(h, p) \/ Sell(h, p)
  <2>1. UNCHANGED <<status, restored>>
    BY <1>5 DEF RemoveFile, Sell
  <2>2. Submitted(call') \subseteq Submitted(call)
    BY <1>5, WritesFacts, NoMoreSubmitted DEF RemoveFile, Sell, Idle, Ops
  <2> QED
    BY <2>1, <2>2 DEF Room, ListedProducts, Submitted
<1>6. CASE CheckAgain(h, p)
  <2>1. call'[h].op = "restore" /\ \A g \in Handler : g # h => call'[g] = call[g]
    BY <1>6 DEF CheckAgain, ProductsTypeOK
  <2>2. Submitted(call') \subseteq Submitted(call)
    BY <2>1, NoMoreSubmitted
  <2> QED
    BY <1>6, <2>2 DEF CheckAgain, Room, ListedProducts, Submitted
<1>7. CASE Review(h, p) \/ Unblock(h, p)
  <2>1. AdminMovesTo(p, call[h].arg)
    BY <1>7 DEF Review, Unblock
  <2>2. ListedProducts' \subseteq ListedProducts \union {p}
    BY <2>1 DEF AdminMovesTo, ListedProducts, ProductsTypeOK
  <2>3. ListedProducts' \ restored' \subseteq ListedProducts \ restored
    BY <2>1, <2>2 DEF AdminMovesTo
  <2>4. Submitted(call') \subseteq Submitted(call)
    BY <1>7, WritesFacts, NoMoreSubmitted DEF Review, Unblock, Idle, Ops
  <2> QED
    BY <2>3, <2>4 DEF Room, Submitted
<1> QED
  BY <1>1, <1>2, <1>3, <1>4, <1>5, <1>6, <1>7 DEF Continues

LEMMA StepRoom ==
    ASSUME ProductsTypeOK, ProductsTypeOK', RoomFits, [ProductsNext]_productsVars
    PROVE  RoomFits'
<1>1. CASE \E h \in Handler, p \in Product, limit \in PlanLimits : CheckSubmit(h, p, limit)
  BY <1>1, SubmitFits
<1>2. CASE /\ \E h \in Handler : call[h] = Idle /\ \E p \in Product : Starts(h, p)
           /\ ~ \E h \in Handler, p \in Product, limit \in PlanLimits : CheckSubmit(h, p, limit)
  BY <1>2, StartsRoom, NoMoreRoom
<1>3. CASE \E h \in Handler, p \in Product : call[h].product = p /\ Continues(h, p)
  BY <1>3, ContinuesRoom, NoMoreRoom
<1>4. CASE \E p \in Product : (\E f \in File : ConfirmFile(p, f)) \/ ConfirmImage(p) \/ RemoveImage(p)
  <2>1. Room' \subseteq Room
    BY <1>4 DEF ConfirmFile, ConfirmImage, RemoveImage, Room, ListedProducts, Submitted
  <2> QED
    BY <2>1, NoMoreRoom
<1>5. CASE \E next \in AdminSets : SetStatus(next)
  <2>1. ListedProducts' \subseteq ListedProducts
    BY <1>5 DEF SetStatus, ListedProducts, LISTED_STATUSES, ProductsTypeOK
  <2>2. Room' \subseteq Room
    BY <1>5, <2>1 DEF SetStatus, Room, Submitted
  <2> QED
    BY <2>2, NoMoreRoom
<1>6. CASE \E h \in Handler : CallFails(h)
  <2>1. PICK h \in Handler : CallFails(h)
    BY <1>6
  <2>2. call'[h].op # "submit" /\ \A g \in Handler : g # h => call'[g] = call[g]
    BY <2>1 DEF CallFails, ProductsTypeOK, Idle
  <2>3. Room' \subseteq Room
    BY <2>1, <2>2, NoMoreSubmitted DEF CallFails, Room, ListedProducts, Submitted
  <2> QED
    BY <2>3, NoMoreRoom
<1>7. CASE UNCHANGED productsVars
  <2>1. Room' \subseteq Room
    BY <1>7 DEF productsVars, Room, ListedProducts, Submitted
  <2> QED
    BY <2>1, NoMoreRoom
<1> QED
  BY <1>1, <1>2, <1>3, <1>4, <1>5, <1>6, <1>7 DEF ProductsNext

LEMMA InitRoom == ProductsInit => RoomFits
<1> SUFFICES ASSUME ProductsInit PROVE RoomFits
  OBVIOUS
<1>1. Room = {}
  BY DEF ProductsInit, Room, ListedProducts, LISTED_STATUSES, Submitted, Idle
<1>2. Cardinality(Handler) \in Nat /\ Cardinality(Handler) # 0
  BY ProductsAssumption, FS_CardinalityType, FS_EmptySet
<1> QED
  BY <1>1, <1>2, FS_EmptySet, ProductsAssumption DEF RoomFits, Most

LEMMA RoomImpliesListed ==
    ASSUME ProductsTypeOK, RoomFits
    PROVE  ListedWithinPlan
<1> DEFINE L == ListedProducts \ restored
<1>1. IsFiniteSet(Room) /\ L \subseteq Room
  BY RoomFinite DEF Room
<1>2. IsFiniteSet(L) /\ Cardinality(L) <= Cardinality(Room)
  <2> HIDE DEF L
  <2> QED
    BY <1>1, FS_Subset
<1>3. /\ Cardinality(L) \in Nat /\ Cardinality(Room) \in Nat
      /\ Cardinality(Handler) \in Nat
  <2> HIDE DEF L
  <2> QED
    BY <1>1, <1>2, FS_CardinalityType, ProductsAssumption
<1> QED
  BY <1>2, <1>3, ProductsAssumption DEF RoomFits, Most, ListedWithinPlan

\* However many submissions overlap, a seller lists no more than the largest
\* plan's limit and one product for every other request under way.
THEOREM PlanLimitHolds == ProductsSpec => []ListedWithinPlan
BY InitRoom, ProductsTypeCorrect, StepRoom, RoomImpliesListed, PTL DEF ProductsSpec

-----------------------------------------------------------------------------
\* Reviews.

\* Every request holds a piece of work, and every purchase an order and a review.
Records ==
    /\ order \in [Purchase -> {"PAID", "REFUNDED"}]
    /\ review \in [Purchase -> Row]
    /\ work \in [Writer -> Work]

\* A refund that met no review removes none: one that was written since is late.
NothingToRemove ==
    \A w \in Writer, o \in Purchase :
        /\ work[w].pc = "refund"
        /\ work[w].purchase = {o}
        /\ work[w].before = NoReview
        /\ o \notin late
        => review[o] = NoReview

RefundInv == Records /\ NothingToRemove /\ RefundedIsNotReviewed

\* What a request holds after the statement it goes on with.
LEMMA WorkChanges ==
    ASSUME Records, NEW w \in Writer, NEW new \in Work, work' = [work EXCEPT ![w] = new]
    PROVE  /\ work' \in [Writer -> Work]
           /\ work'[w] = new
           /\ \A v \in Writer : v # w => work'[v] = work[v]
BY DEF Records

LEMMA WorkKinds ==
    /\ Nothing \in Work /\ Nothing.pc = "idle"
    /\ NoReview \in Row
BY DEF Nothing, NoReview, Work, Row

\* A request that begins or reads on, and does not begin a refund.
LEMMA StepReads ==
    ASSUME RefundInv, NEW w \in Writer, NEW new \in Work, new.pc # "refund",
           work' = [work EXCEPT ![w] = new], UNCHANGED rating
    PROVE  RefundInv'
<1>1. /\ work' \in [Writer -> Work]
      /\ work'[w] = new
      /\ \A v \in Writer : v # w => work'[v] = work[v]
  BY WorkChanges DEF RefundInv
<1> QED
  BY <1>1 DEF RefundInv, Records, NothingToRemove, RefundedIsNotReviewed, rating

LEMMA StepClaim ==
    ASSUME RefundInv, NEW w \in Writer, NEW o \in Purchase, ClaimRefundedPurchase(w, o)
    PROVE  RefundInv'
<1> DEFINE new == [Nothing EXCEPT !.pc = "refund", !.purchase = {o}, !.before = review[o]]
<1>1. new \in Work /\ new.purchase = {o} /\ new.before = review[o]
  BY DEF Nothing, NoReview, Work, Row, RefundInv, Records
<1>2. work' = [work EXCEPT ![w] = new]
  BY DEF ClaimRefundedPurchase
<1> HIDE DEF new
<1>3. /\ work' \in [Writer -> Work]
      /\ work'[w] = new
      /\ \A v \in Writer : v # w => work'[v] = work[v]
  BY <1>1, <1>2, WorkChanges DEF RefundInv
<1>4. UNCHANGED rating
  BY DEF ClaimRefundedPurchase
<1> QED
  BY <1>1, <1>3, <1>4 DEF RefundInv, Records, NothingToRemove, RefundedIsNotReviewed, rating

LEMMA StepWrite ==
    ASSUME RefundInv, NEW w \in Writer, NEW o \in Purchase, WriteReview(w, o)
    PROVE  RefundInv'
<1> DEFINE after == [review[o] EXCEPT !.stars = work[w].stars]
<1>1. /\ after \in Row
      /\ review' = [review EXCEPT ![o] = after]
  BY DEF RefundInv, Records, Row, Work, WriteReview
<1> HIDE DEF after
<1>2. /\ review' \in [Purchase -> Row]
      /\ \A q \in Purchase : q # o => review'[q] = review[q]
  BY <1>1 DEF RefundInv, Records
<1>3. /\ work' \in [Writer -> Work]
      /\ work'[w] = Nothing
      /\ \A v \in Writer : v # w => work'[v] = work[v]
  BY WorkChanges, WorkKinds DEF RefundInv, WriteReview, Ends
<1>4. order' = order /\ late \subseteq late'
  BY DEF WriteReview
<1>5. order[o] = "REFUNDED" \/ Refunding(o) => o \in late'
  BY DEF WriteReview
<1>6. RefundedIsNotReviewed'
  BY <1>2, <1>4, <1>5 DEF RefundInv, RefundedIsNotReviewed
<1>7. NothingToRemove'
  <2> SUFFICES ASSUME NEW v \in Writer, NEW q \in Purchase, work'[v].pc = "refund",
                      work'[v].purchase = {q}, work'[v].before = NoReview, q \notin late'
               PROVE  review'[q] = NoReview
    BY DEF NothingToRemove
  <2>1. v # w /\ work[v] = work'[v]
    BY <1>3, WorkKinds
  <2>2. Refunding(q)
    BY <2>1 DEF Refunding
  <2>3. q # o
    BY <1>5, <2>2
  <2> QED
    BY <1>2, <1>4, <2>1, <2>3 DEF RefundInv, NothingToRemove
<1> QED
  BY <1>2, <1>3, <1>4, <1>6, <1>7 DEF RefundInv, Records

LEMMA StepHide ==
    ASSUME RefundInv, NEW w \in Writer, NEW o \in Purchase, WriteHidden(w, o)
    PROVE  RefundInv'
<1> DEFINE after == [review[o] EXCEPT !.hidden = work[w].hide]
<1>1. /\ after \in Row
      /\ review' = [review EXCEPT ![o] = after]
  BY DEF RefundInv, Records, Row, Work, WriteHidden
<1> HIDE DEF after
<1>2. /\ review' \in [Purchase -> Row]
      /\ \A q \in Purchase : q # o => review'[q] = review[q]
      /\ review[o] # NoReview
  BY <1>1 DEF RefundInv, Records, WriteHidden
<1>3. /\ work' \in [Writer -> Work]
      /\ work'[w] = Nothing
      /\ \A v \in Writer : v # w => work'[v] = work[v]
  BY WorkChanges, WorkKinds DEF RefundInv, WriteHidden, Ends
<1>4. order' = order /\ late' = late
  BY DEF WriteHidden
<1>5. RefundedIsNotReviewed'
  BY <1>2, <1>4 DEF RefundInv, RefundedIsNotReviewed
<1>6. NothingToRemove'
  BY <1>2, <1>3, <1>4, WorkKinds DEF RefundInv, NothingToRemove
<1> QED
  BY <1>2, <1>3, <1>4, <1>5, <1>6 DEF RefundInv, Records

LEMMA StepRefund ==
    ASSUME RefundInv, NEW w \in Writer, NEW o \in Purchase, RefundPurchase(w, o)
    PROVE  RefundInv'
<1>1. /\ order' = [order EXCEPT ![o] = "REFUNDED"]
      /\ review' = [review EXCEPT ![o] = LeavesWithRefund(work[w].before, review[o])]
      /\ late' = late
  BY DEF RefundPurchase
<1>2. LeavesWithRefund(work[w].before, review[o]) \in {NoReview, review[o]}
  BY DEF LeavesWithRefund
<1>3. o \notin late => LeavesWithRefund(work[w].before, review[o]) = NoReview
  BY DEF LeavesWithRefund, RefundInv, NothingToRemove, RefundPurchase
<1>4. /\ review' \in [Purchase -> Row]
      /\ order' \in [Purchase -> {"PAID", "REFUNDED"}]
      /\ \A q \in Purchase : q # o => review'[q] = review[q] /\ order'[q] = order[q]
      /\ review'[o] \in {NoReview, review[o]}
      /\ o \notin late => review'[o] = NoReview
  BY <1>1, <1>2, <1>3, WorkKinds DEF RefundInv, Records
<1>5. /\ work' \in [Writer -> Work]
      /\ work'[w] = Nothing
      /\ \A v \in Writer : v # w => work'[v] = work[v]
  BY WorkChanges, WorkKinds DEF RefundInv, RefundPurchase, Ends
<1>6. RefundedIsNotReviewed'
  BY <1>1, <1>4 DEF RefundInv, RefundedIsNotReviewed
<1>7. NothingToRemove'
  BY <1>1, <1>4, <1>5, WorkKinds DEF RefundInv, NothingToRemove
<1> QED
  BY <1>4, <1>5, <1>6, <1>7 DEF RefundInv, Records

LEMMA InitRefund == ReviewsInit => RefundInv
<1> SUFFICES ASSUME ReviewsInit PROVE RefundInv
  OBVIOUS
<1>1. Records
  BY WorkKinds DEF ReviewsInit, Records
<1>2. NothingToRemove /\ RefundedIsNotReviewed
  BY DEF ReviewsInit, NothingToRemove, RefundedIsNotReviewed
<1> QED
  BY <1>1, <1>2 DEF RefundInv

LEMMA StepReviews == RefundInv /\ [ReviewsNext]_reviewsVars => RefundInv'
<1> SUFFICES ASSUME RefundInv, [ReviewsNext]_reviewsVars PROVE RefundInv'
  OBVIOUS
<1>1. ASSUME NEW w \in Writer, NEW o \in Purchase, NEW stars \in Rating, CheckPurchase(w, o, stars)
      PROVE  RefundInv'
  <2> DEFINE new == [Nothing EXCEPT !.pc = "checked", !.purchase = {o}, !.stars = stars]
  <2>1. new \in Work /\ new.pc # "refund"
    BY DEF Nothing, NoReview, Work, Row
  <2>2. work' = [work EXCEPT ![w] = new] /\ UNCHANGED rating
    BY <1>1 DEF CheckPurchase
  <2> QED
    BY <2>1, <2>2, StepReads
<1>2. ASSUME NEW w \in Writer, NEW o \in Purchase, NEW hide \in BOOLEAN, ReadHidden(w, o, hide)
      PROVE  RefundInv'
  <2> DEFINE new == [Nothing EXCEPT !.pc = "hide", !.purchase = {o}, !.hide = hide,
                                    !.before = review[o]]
  <2>1. new \in Work /\ new.pc # "refund"
    BY DEF Nothing, NoReview, Work, Row, RefundInv, Records
  <2>2. work' = [work EXCEPT ![w] = new] /\ UNCHANGED rating
    BY <1>2 DEF ReadHidden
  <2> QED
    BY <2>1, <2>2, StepReads
<1>3. ASSUME NEW w \in Writer, NEW o \in Purchase, ReadReview(w, o)
      PROVE  RefundInv'
  <2> DEFINE new == [work[w] EXCEPT !.pc = "upsert", !.before = review[o]]
  <2>1. new \in Work /\ new.pc # "refund"
    BY DEF Work, RefundInv, Records
  <2>2. work' = [work EXCEPT ![w] = new] /\ UNCHANGED rating
    BY <1>3 DEF ReadReview, RefundInv, Records
  <2> QED
    BY <2>1, <2>2, StepReads
<1>4. ASSUME NEW w \in Writer, WorkFails(w)
      PROVE  RefundInv'
  BY <1>4, WorkKinds, StepReads DEF WorkFails, Ends
<1>5. CASE UNCHANGED reviewsVars
  BY <1>5 DEF reviewsVars, RefundInv, Records, NothingToRemove, RefundedIsNotReviewed
<1>6. CASE ReviewsNext
  <2>1. PICK w \in Writer :
          \/ \E o \in Purchase : Opens(w, o)
          \/ \E o \in work[w].purchase : Goes(w, o)
          \/ WorkFails(w)
    BY <1>6 DEF ReviewsNext
  <2>2. work[w].purchase \subseteq Purchase
    BY DEF RefundInv, Records, Work
  <2>3. ASSUME NEW o \in Purchase, Opens(w, o) PROVE RefundInv'
    BY <2>3, <1>1, <1>2, StepClaim DEF Opens
  <2>4. ASSUME NEW o \in Purchase, Goes(w, o) PROVE RefundInv'
    BY <2>4, <1>3, StepWrite, StepHide, StepRefund DEF Goes
  <2> QED
    BY <2>1, <2>2, <2>3, <2>4, <1>4
<1> QED
  BY <1>5, <1>6

\* A refund leaves no review of the purchase behind, however it interleaves with
\* reviews, edits and moderation, except where one was written during it.
THEOREM RefundsRemoveReviews == ReviewsSpec => []RefundedIsNotReviewed
<1>1. RefundInv => RefundedIsNotReviewed
  BY DEF RefundInv
<1> QED
  BY <1>1, InitRefund, StepReviews, PTL DEF ReviewsSpec

-----------------------------------------------------------------------------
\* The types of Reviews.

\* A request that has stars to write was given them by the buyer.
GivesStars == \A w \in Writer : work[w].pc \in {"checked", "upsert"} => work[w].stars \in Rating

ReviewTypes == ReviewsTypeOK /\ GivesStars

\* What each kind of work must hold.
Sound(x) ==
    /\ x \in Work
    /\ x # Nothing => Cardinality(x.purchase) = 1
    /\ x.pc = "hide" => x.before.stars \in Rating
    /\ x.pc \in {"checked", "upsert"} => x.stars \in Rating

LEMMA SoundWork ==
    ASSUME ReviewTypes, NEW w \in Writer
    PROVE  Sound(work[w])
BY DEF ReviewTypes, ReviewsTypeOK, GivesStars, Sound

LEMMA SoundChange ==
    ASSUME ReviewTypes, NEW w \in Writer, NEW new, Sound(new), work' = [work EXCEPT ![w] = new]
    PROVE  /\ work' \in [Writer -> Work]
           /\ \A v \in Writer : work'[v] # Nothing => Cardinality(work'[v].purchase) = 1
           /\ \A v \in Writer : work'[v].pc = "hide" => work'[v].before.stars \in Rating
           /\ GivesStars'
<1>1. work \in [Writer -> Work] /\ new \in Work
  BY DEF ReviewTypes, ReviewsTypeOK, Sound
<1>2. \A v \in Writer : work'[v] = IF v = w THEN new ELSE work[v]
  BY <1>1
<1>3. \A v \in Writer : Sound(work'[v])
  BY <1>2, SoundWork
<1>4. work' \in [Writer -> Work]
  BY <1>1
<1> QED
  BY <1>3, <1>4 DEF Sound, GivesStars

LEMMA SoundNothing == Sound(Nothing)
<1>1. Nothing \in Work
  BY WorkKinds
<1> QED
  BY <1>1 DEF Sound, Nothing

\* A review that is there has stars.
LEMMA RowFacts ==
    ASSUME ReviewTypes, NEW o \in Purchase
    PROVE  /\ review[o] \in Row
           /\ review[o] # NoReview => review[o].stars \in Rating
<1>1. review[o] \in Row /\ (review[o].hidden => review[o].stars \in Rating)
  BY DEF ReviewTypes, ReviewsTypeOK
<1>2. review[o] = [stars |-> review[o].stars, hidden |-> review[o].hidden]
  BY <1>1 DEF Row
<1> QED
  BY <1>1, <1>2 DEF Row, NoReview

\* Steps that only begin, read or give up.
LEMMA TypeReads ==
    ASSUME ReviewTypes, NEW w \in Writer, NEW new, Sound(new), work' = [work EXCEPT ![w] = new],
           UNCHANGED rating
    PROVE  ReviewTypes'
<1>1. /\ work' \in [Writer -> Work]
      /\ \A v \in Writer : work'[v] # Nothing => Cardinality(work'[v].purchase) = 1
      /\ \A v \in Writer : work'[v].pc = "hide" => work'[v].before.stars \in Rating
      /\ GivesStars'
  BY SoundChange
<1> QED
  BY <1>1 DEF ReviewTypes, ReviewsTypeOK, rating

\* Steps that write one review.
LEMMA TypeWrites ==
    ASSUME ReviewTypes, NEW w \in Writer, Ends(w), NEW o \in Purchase, NEW after \in Row,
           after.hidden => after.stars \in Rating,
           review' = [review EXCEPT ![o] = after],
           order' \in [Purchase -> {"PAID", "REFUNDED"}],
           ratingSum' \in Int, ratingCount' \in Int,
           stale' = stale \/ (stale < MaxStale /\ stale' = stale + 1),
           late' \subseteq Purchase
    PROVE  ReviewTypes'
<1>1. /\ work' \in [Writer -> Work]
      /\ \A v \in Writer : work'[v] # Nothing => Cardinality(work'[v].purchase) = 1
      /\ \A v \in Writer : work'[v].pc = "hide" => work'[v].before.stars \in Rating
      /\ GivesStars'
  BY SoundChange, SoundNothing DEF Ends
<1>2. review' \in [Purchase -> Row] /\ \A q \in Purchase : review'[q].hidden => review'[q].stars \in Rating
  BY DEF ReviewTypes, ReviewsTypeOK
<1>3. stale' \in 0 .. MaxStale
  BY ReviewsAssumption DEF ReviewTypes, ReviewsTypeOK
<1> QED
  BY <1>1, <1>2, <1>3 DEF ReviewTypes, ReviewsTypeOK

LEMMA CountInt ==
    ASSUME NEW r \in Row
    PROVE  Visible(r) \in {0, 1} /\ Stars(r) \in Nat
<1>1. r.stars \in Nat
  <2>1. r.stars \in Rating \union {0}
    BY DEF Row
  <2>2. \A s \in Rating : s \in Nat
    BY ReviewsAssumption
  <2>3. CASE r.stars = 0
    BY <2>3
  <2>4. CASE r.stars \in Rating
    BY <2>2, <2>4
  <2> QED
    BY <2>1, <2>3, <2>4
<1>2. Visible(r) \in {0, 1}
  BY DEF Visible
<1>3. CASE Visible(r) = 0
  BY <1>1, <1>3 DEF Stars
<1>4. CASE Visible(r) = 1
  BY <1>1, <1>4 DEF Stars
<1> QED
  BY <1>2, <1>3, <1>4

LEMMA DeltaInt ==
    ASSUME ReviewTypes, NEW before \in Row, NEW after \in Row, ApplyRatingDelta(before, after)
    PROVE  ratingSum' \in Int /\ ratingCount' \in Int
BY CountInt DEF ApplyRatingDelta, ReviewTypes, ReviewsTypeOK

\* What a write does to the review and to the rating: it counts the review as it
\* was, or the bound on stale reads allows that not.
Rewrites(o, before, after) ==
    /\ before \in Row /\ after \in Row
    /\ after.hidden => after.stars \in Rating
    /\ review' = [review EXCEPT ![o] = after]
    /\ ApplyRatingDelta(before, after)
    /\ \/ before = review[o] /\ stale' = stale
       \/ stale < MaxStale /\ stale' = stale + 1

LEMMA WriteRewrites ==
    ASSUME ReviewTypes, NEW w \in Writer, NEW o \in Purchase, WriteReview(w, o)
    PROVE  \E before, after : Rewrites(o, before, after)
<1> DEFINE after == [review[o] EXCEPT !.stars = work[w].stars]
<1>1. work[w] \in Work /\ work[w].stars \in Rating
  BY SoundWork DEF Sound, WriteReview
<1>2. work[w].before \in Row
  BY <1>1 DEF Work
<1>3. after \in Row /\ after.stars \in Rating
  BY <1>1, RowFacts DEF Row
<1>4. Rewrites(o, work[w].before, after)
  BY <1>2, <1>3 DEF WriteReview, Rewrites, Counts
<1> QED
  BY <1>4

LEMMA HideRewrites ==
    ASSUME ReviewTypes, NEW w \in Writer, NEW o \in Purchase, WriteHidden(w, o)
    PROVE  \E before, after : Rewrites(o, before, after)
<1> DEFINE after == [review[o] EXCEPT !.hidden = work[w].hide]
<1>1. work[w] \in Work
  BY SoundWork DEF Sound
<1>2. work[w].before \in Row /\ work[w].hide \in BOOLEAN
  BY <1>1 DEF Work
<1>3. after \in Row /\ after.stars \in Rating
  BY <1>2, RowFacts DEF Row, WriteHidden
<1>4. Rewrites(o, work[w].before, after)
  BY <1>2, <1>3 DEF WriteHidden, Rewrites, Counts
<1> QED
  BY <1>4

LEMMA RefundRewrites ==
    ASSUME ReviewTypes, NEW w \in Writer, NEW o \in Purchase, RefundPurchase(w, o)
    PROVE  \E before, after : Rewrites(o, before, after)
<1>1. work[w] \in Work
  BY SoundWork DEF Sound
<1>2. work[w].before \in Row /\ NoReview \in Row /\ ~ NoReview.hidden
  BY <1>1, WorkKinds DEF Work, NoReview
<1>3. review[o] \in Row /\ (review[o].hidden => review[o].stars \in Rating)
  BY DEF ReviewTypes, ReviewsTypeOK
<1>4. CASE work[w].before = NoReview
  <2>1. review' = [review EXCEPT ![o] = review[o]] /\ stale' = stale
    BY <1>4 DEF RefundPurchase, LeavesWithRefund
  <2>2. ApplyRatingDelta(NoReview, NoReview)
    BY <1>4 DEF RefundPurchase
  <2>3. ratingSum' = ratingSum /\ ratingCount' = ratingCount
    BY <2>2, <1>2, CountInt DEF ApplyRatingDelta, ReviewTypes, ReviewsTypeOK
  <2>4. ApplyRatingDelta(review[o], review[o])
    BY <2>3, <1>3, CountInt DEF ApplyRatingDelta, ReviewTypes, ReviewsTypeOK
  <2>5. Rewrites(o, review[o], review[o])
    BY <1>3, <2>1, <2>4 DEF Rewrites
  <2> QED
    BY <2>5
<1>5. CASE work[w].before # NoReview
  <2>1. review' = [review EXCEPT ![o] = NoReview]
    BY <1>5 DEF RefundPurchase, LeavesWithRefund
  <2>2. Rewrites(o, work[w].before, NoReview)
    BY <1>2, <1>5, <2>1 DEF RefundPurchase, Rewrites, Counts
  <2> QED
    BY <2>2
<1> QED
  BY <1>4, <1>5

LEMMA RewriteTypes ==
    ASSUME ReviewTypes, NEW w \in Writer, NEW o \in Purchase,
           WriteReview(w, o) \/ WriteHidden(w, o) \/ RefundPurchase(w, o)
    PROVE  ReviewTypes'
<1>1. PICK before, after : Rewrites(o, before, after)
  BY WriteRewrites, HideRewrites, RefundRewrites
<1>2. Ends(w)
  BY DEF WriteReview, WriteHidden, RefundPurchase
<1>3. order' \in [Purchase -> {"PAID", "REFUNDED"}]
  BY DEF WriteReview, WriteHidden, RefundPurchase, ReviewTypes, ReviewsTypeOK
<1>4. late' \subseteq Purchase
  BY DEF WriteReview, WriteHidden, RefundPurchase, ReviewTypes, ReviewsTypeOK
<1>5. ratingSum' \in Int /\ ratingCount' \in Int
  BY <1>1, DeltaInt DEF Rewrites
<1> QED
  BY <1>1, <1>2, <1>3, <1>4, <1>5, TypeWrites DEF Rewrites

\* A step writes one review, or leaves reviews and rating alone.
LEMMA ReviewMoves ==
    ASSUME ReviewTypes, [ReviewsNext]_reviewsVars
    PROVE  /\ ReviewTypes'
           /\ \/ UNCHANGED <<review, ratingSum, ratingCount, stale>>
              \/ \E o \in Purchase : \E before, after : Rewrites(o, before, after)
<1>1. ASSUME NEW w \in Writer, NEW o \in Purchase, NEW stars \in Rating, CheckPurchase(w, o, stars)
      PROVE  ReviewTypes' /\ UNCHANGED rating
  <2> DEFINE new == [Nothing EXCEPT !.pc = "checked", !.purchase = {o}, !.stars = stars]
  <2>1. new \in Work /\ new.pc = "checked" /\ new.purchase = {o} /\ new.stars = stars
    BY DEF Nothing, NoReview, Work, Row
  <2>2. Sound(new)
    BY <2>1, FS_Singleton DEF Sound
  <2>3. work' = [work EXCEPT ![w] = new] /\ UNCHANGED rating
    BY <1>1 DEF CheckPurchase
  <2> QED
    BY <2>2, <2>3, TypeReads
<1>2. ASSUME NEW w \in Writer, NEW o \in Purchase, NEW hide \in BOOLEAN, ReadHidden(w, o, hide)
      PROVE  ReviewTypes' /\ UNCHANGED rating
  <2> DEFINE new == [Nothing EXCEPT !.pc = "hide", !.purchase = {o}, !.hide = hide,
                                    !.before = review[o]]
  <2>1. new \in Work /\ new.pc = "hide" /\ new.purchase = {o} /\ new.before = review[o]
    BY RowFacts DEF Nothing, NoReview, Work, Row
  <2>2. review[o].stars \in Rating
    BY <1>2, RowFacts DEF ReadHidden
  <2>3. Sound(new)
    BY <2>1, <2>2, FS_Singleton DEF Sound
  <2>4. work' = [work EXCEPT ![w] = new] /\ UNCHANGED rating
    BY <1>2 DEF ReadHidden
  <2> QED
    BY <2>3, <2>4, TypeReads
<1>3. ASSUME NEW w \in Writer, NEW o \in Purchase, ClaimRefundedPurchase(w, o)
      PROVE  ReviewTypes' /\ UNCHANGED rating
  <2> DEFINE new == [Nothing EXCEPT !.pc = "refund", !.purchase = {o}, !.before = review[o]]
  <2>1. new \in Work /\ new.pc = "refund" /\ new.purchase = {o}
    BY RowFacts DEF Nothing, NoReview, Work, Row
  <2>2. Sound(new)
    BY <2>1, FS_Singleton DEF Sound
  <2>3. work' = [work EXCEPT ![w] = new] /\ UNCHANGED rating
    BY <1>3 DEF ClaimRefundedPurchase
  <2> QED
    BY <2>2, <2>3, TypeReads
<1>4. ASSUME NEW w \in Writer, NEW o \in Purchase, ReadReview(w, o)
      PROVE  ReviewTypes' /\ UNCHANGED rating
  <2> DEFINE new == [work[w] EXCEPT !.pc = "upsert", !.before = review[o]]
  <2>1. Sound(work[w]) /\ work[w].pc = "checked"
    BY <1>4, SoundWork DEF ReadReview
  <2>2. /\ new \in Work /\ new.pc = "upsert" /\ new.purchase = work[w].purchase
        /\ new.stars = work[w].stars
    BY <2>1, RowFacts DEF Sound, Work
  <2>3. work[w] # Nothing
    BY <2>1 DEF Nothing
  <2>4. Sound(new)
    BY <2>1, <2>2, <2>3 DEF Sound
  <2>5. work' = [work EXCEPT ![w] = new] /\ UNCHANGED rating
    BY <1>4 DEF ReadReview, ReviewTypes, ReviewsTypeOK
  <2> QED
    BY <2>4, <2>5, TypeReads
<1>5. ASSUME NEW w \in Writer, WorkFails(w)
      PROVE  ReviewTypes' /\ UNCHANGED rating
  BY <1>5, SoundNothing, TypeReads DEF WorkFails, Ends
<1>6. ASSUME NEW w \in Writer, NEW o \in Purchase,
             WriteReview(w, o) \/ WriteHidden(w, o) \/ RefundPurchase(w, o)
      PROVE  ReviewTypes' /\ \E before, after : Rewrites(o, before, after)
  BY <1>6, RewriteTypes, WriteRewrites, HideRewrites, RefundRewrites
<1>7. CASE UNCHANGED reviewsVars
  BY <1>7 DEF reviewsVars, ReviewTypes, ReviewsTypeOK, GivesStars
<1>8. CASE ReviewsNext
  <2>1. PICK w \in Writer :
          \/ \E o \in Purchase : Opens(w, o)
          \/ \E o \in work[w].purchase : Goes(w, o)
          \/ WorkFails(w)
    BY <1>8 DEF ReviewsNext
  <2>2. work[w].purchase \subseteq Purchase
    BY SoundWork DEF Sound, Work
  <2>3. CASE WorkFails(w)
    BY <1>5, <2>3 DEF rating
  <2>4. ASSUME NEW o \in Purchase, Opens(w, o)
        PROVE  ReviewTypes' /\ UNCHANGED rating
    BY <2>4, <1>1, <1>2, <1>3 DEF Opens
  <2>5. ASSUME NEW o \in Purchase, Goes(w, o)
        PROVE  /\ ReviewTypes'
               /\ UNCHANGED rating \/ \E before, after : Rewrites(o, before, after)
    BY <2>5, <1>4, <1>6 DEF Goes
  <2> QED
    BY <2>1, <2>2, <2>3, <2>4, <2>5 DEF rating
<1> QED
  BY <1>7, <1>8

LEMMA InitReviewTypes == ReviewsInit => ReviewTypes
<1> SUFFICES ASSUME ReviewsInit PROVE ReviewTypes
  OBVIOUS
<1>1. \A w \in Writer : work[w] = Nothing
  BY DEF ReviewsInit
<1>2. work \in [Writer -> Work] /\ review \in [Purchase -> Row]
  BY WorkKinds DEF ReviewsInit
<1>3. \A o \in Purchase : ~ review[o].hidden
  BY DEF ReviewsInit, NoReview
<1>4. stale \in 0 .. MaxStale
  BY ReviewsAssumption DEF ReviewsInit
<1> QED
  BY <1>1, <1>2, <1>3, <1>4, WorkKinds DEF ReviewsInit, ReviewTypes, ReviewsTypeOK, GivesStars

LEMMA ReviewTypesHold == ReviewsSpec => []ReviewTypes
<1>1. ReviewTypes /\ [ReviewsNext]_reviewsVars => ReviewTypes'
  BY ReviewMoves
<1> QED
  BY <1>1, InitReviewTypes, PTL DEF ReviewsSpec

-----------------------------------------------------------------------------
\* The rating: the sum and the number of the visible reviews, as totals.

RatingOf(rows) == MapThenSumSet(LAMBDA o : Stars(rows[o]), Purchase)
VisibleOf(rows) == {o \in Purchase : Visible(rows[o]) = 1}
StarsOf(rows) == [o \in Purchase |-> Stars(rows[o])]

LEMMA RatingIsTotal ==
    ASSUME NEW rows \in [Purchase -> Row]
    PROVE  RatingOf(rows) = Total(StarsOf(rows), Purchase)
<1> DEFINE h == CHOOSE h : h = [s \in SUBSET Purchase |->
                    IF s = {} THEN 0
                    ELSE Stars(rows[CHOOSE x \in s : TRUE]) + h[s \ {CHOOSE x \in s : TRUE}]]
<1>1. RatingOf(rows) = h[Purchase]
  BY DEF RatingOf, MapThenSumSet, MapThenFoldSet
<1>2. PICK k : Adds(k, StarsOf(rows), Purchase)
  BY AddsExists, ReviewsAssumption
<1>3. k = [s \in SUBSET Purchase |->
              IF s = {} THEN 0
              ELSE Stars(rows[CHOOSE x \in s : TRUE]) + k[s \ {CHOOSE x \in s : TRUE}]]
  BY <1>2 DEF Adds, AnyOf, StarsOf
<1>4. h = [s \in SUBSET Purchase |->
              IF s = {} THEN 0
              ELSE Stars(rows[CHOOSE x \in s : TRUE]) + h[s \ {CHOOSE x \in s : TRUE}]]
  BY <1>3
<1>5. Adds(h, StarsOf(rows), Purchase)
  <2> HIDE DEF h
  <2> QED
    BY <1>4 DEF Adds, AnyOf, StarsOf
<1> QED
  BY <1>1, <1>5, TotalIsSolution, ReviewsAssumption

\* What one rewritten review does to the sum and to the number.
LEMMA RatingMoves ==
    ASSUME ReviewTypes, NEW o \in Purchase, NEW after \in Row,
           review' = [review EXCEPT ![o] = after]
    PROVE  /\ RatingOf(review) \in Int
           /\ RatingOf(review') = RatingOf(review) + Stars(after) - Stars(review[o])
           /\ Cardinality(VisibleOf(review)) \in Nat
           /\ Cardinality(VisibleOf(review')) =
                Cardinality(VisibleOf(review)) + Visible(after) - Visible(review[o])
<1>1. review \in [Purchase -> Row] /\ review' \in [Purchase -> Row]
  BY DEF ReviewTypes, ReviewsTypeOK
<1>2. \A q \in Purchase : /\ StarsOf(review)[q] = Stars(review[q]) /\ Stars(review[q]) \in Int
                          /\ StarsOf(review')[q] = Stars(review'[q]) /\ Stars(review'[q]) \in Int
                          /\ q # o => review'[q] = review[q]
  BY <1>1, CountInt DEF StarsOf
<1>3. review'[o] = after
  BY <1>1
<1> DEFINE old == StarsOf(review)
           new == StarsOf(review')
<1>4. \A q \in Purchase : old[q] \in Int /\ new[q] \in Int /\ (q # o => new[q] = old[q])
  BY <1>2
<1>5. Total(new, Purchase) = Total(old, Purchase) - old[o] + new[o] /\ Total(old, Purchase) \in Int
  <2> HIDE DEF old, new
  <2> QED
    BY <1>4, ReviewsAssumption, TotalChange, TotalInt
<1>6. /\ RatingOf(review) \in Int
      /\ RatingOf(review') = RatingOf(review) + Stars(after) - Stars(review[o])
  <2>1. RatingOf(review) = Total(old, Purchase) /\ RatingOf(review') = Total(new, Purchase)
    BY <1>1, RatingIsTotal
  <2>2. old[o] = Stars(review[o]) /\ new[o] = Stars(after)
    BY <1>2, <1>3
  <2>3. old[o] \in Int /\ new[o] \in Int
    BY <1>4
  <2> HIDE DEF old, new
  <2> QED
    BY <1>5, <2>1, <2>2, <2>3
<1> DEFINE V == VisibleOf(review) \ {o}
<1>7. IsFiniteSet(V) /\ o \notin V /\ Cardinality(V) \in Nat
  BY ReviewsAssumption, FS_Subset, FS_CardinalityType DEF VisibleOf
<1>8. VisibleOf(review) = IF Visible(review[o]) = 1 THEN V \union {o} ELSE V
  BY DEF VisibleOf
<1>9. VisibleOf(review') = IF Visible(after) = 1 THEN V \union {o} ELSE V
  BY <1>2, <1>3 DEF VisibleOf
<1>10. Cardinality(V \union {o}) = Cardinality(V) + 1
  BY <1>7, FS_AddElement
<1>11. Visible(after) \in {0, 1} /\ Visible(review[o]) \in {0, 1}
  BY <1>1, CountInt
<1>12. /\ Cardinality(VisibleOf(review)) = Cardinality(V) + Visible(review[o])
       /\ Cardinality(VisibleOf(review')) = Cardinality(V) + Visible(after)
  BY <1>7, <1>8, <1>9, <1>10, <1>11
<1>13. /\ Cardinality(VisibleOf(review)) \in Nat
       /\ Cardinality(VisibleOf(review')) =
            Cardinality(VisibleOf(review)) + Visible(after) - Visible(review[o])
  BY <1>7, <1>11, <1>12
<1> QED
  BY <1>6, <1>13

RatingDrift ==
    /\ stale = 0 => ratingSum = RatingOf(review)
    /\ ratingCount - Cardinality(VisibleOf(review)) \in -stale .. stale

LEMMA DriftIsRating == RatingDrift <=> RatingIsOfVisible
BY DEF RatingDrift, RatingIsOfVisible, RatingOf, VisibleOf

LEMMA RewriteDrifts ==
    ASSUME ReviewTypes, RatingDrift, NEW o \in Purchase, NEW before, NEW after,
           Rewrites(o, before, after)
    PROVE  RatingDrift'
<1> DEFINE sum == RatingOf(review)
           seen == Cardinality(VisibleOf(review))
<1>1. before \in Row /\ after \in Row /\ review[o] \in Row
  BY DEF Rewrites, ReviewTypes, ReviewsTypeOK
<1>2. /\ sum \in Int /\ RatingOf(review') = sum + Stars(after) - Stars(review[o])
      /\ seen \in Nat
      /\ Cardinality(VisibleOf(review')) = seen + Visible(after) - Visible(review[o])
  BY <1>1, RatingMoves DEF Rewrites
<1>3. /\ ratingSum' = ratingSum + Stars(after) - Stars(before)
      /\ ratingCount' = ratingCount + Visible(after) - Visible(before)
      /\ ratingSum \in Int /\ ratingCount \in Int /\ stale \in Nat
  BY ReviewsAssumption DEF Rewrites, ApplyRatingDelta, ReviewTypes, ReviewsTypeOK
<1>4. /\ Stars(before) \in Int /\ Stars(after) \in Int /\ Stars(review[o]) \in Int
      /\ Visible(before) \in {0, 1} /\ Visible(after) \in {0, 1} /\ Visible(review[o]) \in {0, 1}
  BY <1>1, CountInt
<1>5. ratingCount - seen \in -stale .. stale /\ (stale = 0 => ratingSum = sum)
  BY DEF RatingDrift
<1>6. CASE before = review[o] /\ stale' = stale
  <2>1. stale' = 0 => ratingSum' = RatingOf(review')
    <3> HIDE DEF sum, seen
    <3> QED
      BY <1>2, <1>3, <1>4, <1>5, <1>6
  <2>2. ratingCount' - Cardinality(VisibleOf(review')) = ratingCount - seen
    <3>1. Cardinality(VisibleOf(review')) = seen + Visible(after) - Visible(before)
      BY <1>2, <1>6
    <3>2. ratingCount' = ratingCount + Visible(after) - Visible(before)
      BY <1>3
    <3>3. \A n, m \in Int, i, j \in {0, 1} : (n + i - j) - (m + i - j) = n - m
      OBVIOUS
    <3>4. ratingCount \in Int /\ seen \in Int
      BY <1>2, <1>3
    <3>5. Visible(after) \in {0, 1} /\ Visible(before) \in {0, 1}
      BY <1>4
    <3> HIDE DEF sum, seen
    <3> QED
      BY <3>1, <3>2, <3>3, <3>4, <3>5
  <2> QED
    BY <1>5, <1>6, <2>1, <2>2 DEF RatingDrift
<1>7. CASE stale' = stale + 1
  <2>1. ratingCount' - Cardinality(VisibleOf(review'))
          = ratingCount - seen + Visible(review[o]) - Visible(before)
    <3> HIDE DEF sum, seen
    <3> QED
      BY <1>2, <1>3, <1>4
  <2>2. ratingCount' - Cardinality(VisibleOf(review')) \in -stale' .. stale'
    <3> HIDE DEF sum, seen
    <3> QED
      BY <1>2, <1>3, <1>4, <1>5, <1>7, <2>1
  <2> QED
    BY <1>3, <1>7, <2>2 DEF RatingDrift
<1> QED
  BY <1>6, <1>7 DEF Rewrites

LEMMA InitDrift == ReviewsInit => RatingDrift
<1> SUFFICES ASSUME ReviewsInit PROVE RatingDrift
  OBVIOUS
<1>1. review \in [Purchase -> Row]
  BY InitReviewTypes DEF ReviewTypes, ReviewsTypeOK
<1>2. \A o \in Purchase : Visible(review[o]) = 0 /\ StarsOf(review)[o] = 0
  BY DEF ReviewsInit, NoReview, Visible, Stars, StarsOf
<1>3. Total(StarsOf(review), Purchase) = Total(StarsOf(review), {})
  BY <1>2, ReviewsAssumption, TotalOfPart
<1>4. RatingOf(review) = 0
  BY <1>1, <1>3, RatingIsTotal, TotalEmpty
<1>5. VisibleOf(review) = {}
  BY <1>2 DEF VisibleOf
<1> QED
  BY <1>4, <1>5, FS_EmptySet DEF ReviewsInit, RatingDrift

\* The rating on the product row is that of its visible reviews, for any number
\* of purchases and requests: while every write rests on a review that was not
\* changed since it was read the sum is theirs, and each write that does not
\* takes the number away from theirs by one at most.
THEOREM RatingIsOfVisibleHolds == ReviewsSpec => []RatingIsOfVisible
<1>1. ReviewTypes /\ RatingDrift /\ [ReviewsNext]_reviewsVars => RatingDrift'
  <2> SUFFICES ASSUME ReviewTypes, RatingDrift, [ReviewsNext]_reviewsVars PROVE RatingDrift'
    OBVIOUS
  <2>1. CASE UNCHANGED <<review, ratingSum, ratingCount, stale>>
    BY <2>1 DEF RatingDrift
  <2>2. CASE \E o \in Purchase : \E before, after : Rewrites(o, before, after)
    BY <2>2, RewriteDrifts
  <2> QED
    BY <2>1, <2>2, ReviewMoves
<1>2. RatingDrift => RatingIsOfVisible
  BY DriftIsRating
<1> QED
  BY <1>1, <1>2, InitDrift, ReviewTypesHold, PTL DEF ReviewsSpec

-----------------------------------------------------------------------------
\* Side by side the two modules keep their types: a request under way has a
\* product and an argument of the right kind, a deleted product has no files, a
\* hidden review has stars.
THEOREM CatalogTypesHold == Spec => []TypesOK
<1> DEFINE Types == ProductsTypeOK /\ ReviewTypes
<1>1. Init => Types
  BY InitType, InitReviewTypes DEF Init
<1>2. Types /\ [Next]_vars => Types'
  <2> SUFFICES ASSUME ProductsTypeOK, ReviewTypes, [Next]_vars PROVE ProductsTypeOK' /\ ReviewTypes'
    OBVIOUS
  <2>1. [ProductsNext]_productsVars /\ [ReviewsNext]_reviewsVars
    BY DEF Next, vars
  <2> QED
    BY <2>1, StepType, ReviewMoves
<1>3. Types => TypesOK
  BY DEF TypesOK, ReviewTypes
<1> QED
  BY <1>1, <1>2, <1>3, PTL DEF Spec

=============================================================================
