------------------------- MODULE FriendCodes_proofs -------------------------
(***************************************************************************)
(* Proofs about the friend codes, for any number of codes, carts, calls    *)
(* and crashes.                                                            *)
(*                                                                         *)
(* recordPaid writes a redemption's status without asking for it, so a     *)
(* reward survives only if no batch of recordPaid holds a rewarded row:    *)
(* the sweep's lock keeps batches from meeting, and within a sweep all     *)
(* rows are recorded before any is cleared.                                *)
(***************************************************************************)
EXTENDS FriendCodes, TLAPS

-----------------------------------------------------------------------------
(***************************************************************************)
(* The invariant.                                                          *)
(***************************************************************************)
Sweeping == {"record", "clear"}
Settled(k) == status[k] \notin {"NONE", "PENDING_PAYMENT"}

\* A code was used by the orders that carry it.
UsesAreCarried ==
  \A c \in Code : \A k \in Cart : <<c, k>> \in usages => carries[k] = c /\ Settled(k)

\* An order is released at once only by taking the code's one use.
ReleasesTakeTheUse ==
  /\ \A k \in instant : Settled(k)
  /\ \A c \in Code : \A k \in instant : <<c, k>> \in usages => used[c] = 1

OneSweep == \A v, w \in Worker : job[v].at \in Sweeping /\ job[w].at \in Sweeping => v = w

SpentIsUsed == \A c \in Code : spentOn[c] # NoCart => <<c, spentOn[c]>> \in usages

\* The order of redemption c kept its money till its refund window passed.
Kept(c) == spentOn[c] \in ripe /\ back[spentOn[c]] # "early"

BatchesAreTrue ==
  \A w \in Worker : \A r \in job[w].rows :
    /\ At(w, "record") => r \in usages /\ state[r[1]] # "REWARDED"
    /\ At(w, "clear") /\ r[2] = "CLEAR" => Kept(r[1])

RewardsAreTrue ==
  \A c \in Code : /\ rewards[c] = (IF state[c] = "REWARDED" THEN 1 ELSE 0)
                  /\ state[c] = "REWARDED" => Kept(c)

Orders == UsesAreCarried /\ ReleasesTakeTheUse /\ CodeIsReleasedOnce
Rows   == OneSweep /\ SpentIsUsed /\ BatchesAreTrue /\ RewardsAreTrue
Earned == ReferralTypeOK /\ Orders /\ Rows

-----------------------------------------------------------------------------
(***************************************************************************)
(* Types.                                                                  *)
(***************************************************************************)
LEMMA IdleIsAJob ==
  /\ Idle \in Jobs /\ Idle.at = "idle" /\ Idle.rows = {}
  /\ \A step \in {"mint", "put", "record", "clear", "expire"} :
       \A k \in Cart \cup {NoCart} : \A c \in Code \cup {NoCode} :
       \A rows \in SUBSET (Code \X (Cart \cup {NoCart, "CLEAR", "VOID"})) :
         /\ Call(step, k, c, rows) \in Jobs
         /\ Call(step, k, c, rows).at = step /\ Call(step, k, c, rows).rows = rows
BY DEF Idle, Call, Jobs

LEMMA CallsKeepTheirType ==
  ASSUME ReferralTypeOK, NEW w \in Worker, Begin(w) \/ Proceed(w) \/ Crash(w)
  PROVE  job' \in [Worker -> Jobs] /\ \A v \in Worker \ {w} : job'[v] = job[v]
<1>0. /\ job \in [Worker -> Jobs] /\ job[w] \in Jobs /\ usages \subseteq Code \X Cart
      /\ owner \in [Code -> Cart \cup {NoCart}]
  BY DEF ReferralTypeOK
<1>1. \E call \in Jobs : Becomes(w, call)
  <2>1. CASE \E k \in Cart : AttachToCart(w, k)
    BY <2>1, IdleIsAJob DEF AttachToCart, OwnedBy
  <2>2. CASE StartSweep(w)
    <3>1. PICK rows \in SUBSET usages : Becomes(w, Call("record", NoCart, NoCode, rows))
      BY <2>2 DEF StartSweep
    <3>2. rows \in SUBSET (Code \X (Cart \cup {NoCart, "CLEAR", "VOID"}))
      BY <1>0
    <3> QED BY <3>1, <3>2, IdleIsAJob
  <2>3. CASE StartExpiry(w)
    <3> DEFINE rows == {<<c, owner[c]>> : c \in {d \in Code : Expirable(d)}}
    <3>1. rows \in SUBSET (Code \X (Cart \cup {NoCart, "CLEAR", "VOID"}))
      BY <1>0
    <3>2. Becomes(w, Call("expire", NoCart, NoCode, rows))
      BY <2>3 DEF StartExpiry
    <3> HIDE DEF rows
    <3> QED BY <3>1, <3>2, IdleIsAJob
  <2>4. CASE \E c \in Code : Mint(w, c)
    <3>1. PICK c \in Code : Becomes(w, Call("put", job[w].cart, c, {}))
      BY <2>4 DEF Mint
    <3>2. job[w].cart \in Cart \cup {NoCart}
      BY <1>0 DEF Jobs
    <3> QED BY <3>1, <3>2, IdleIsAJob
  <2>5. CASE MintRaced(w) \/ PutOnCart(w) \/ EndSweep(w) \/ Crash(w)
    BY <2>5, IdleIsAJob DEF MintRaced, PutOnCart, EndSweep, Crash, Return
  <2>6. CASE \E r \in job[w].rows : Worked(w, r)
    <3>1. PICK r \in job[w].rows : Worked(w, r)
      BY <2>6
    <3>2. [job[w] EXCEPT !.rows = @ \ {r}] \in Jobs
      BY <1>0 DEF Jobs
    <3> QED BY <3>1, <3>2 DEF Worked
  <2>7. CASE StartClear(w)
    BY <2>7, IdleIsAJob DEF StartClear
  <2>8. CASE \E r \in job[w].rows : RecordPaid(w, r) \/ Void(w, r) \/ Reward(w, r) \/ Expire(w, r)
    BY <2>6, <2>8 DEF RecordPaid, Void, Reward, Expire
  <2> QED BY <2>1, <2>2, <2>3, <2>4, <2>5, <2>7, <2>8 DEF Begin, Proceed
<1> QED BY <1>0, <1>1 DEF Becomes

LEMMA UseIsANat == \A c \in Code : used[c] \in Nat => TakeUse(c) \in Nat
BY DEF TakeUse

LEMMA EnvironmentKeepsTypes ==
  ASSUME ReferralTypeOK, Environment
  PROVE  ReferralTypeOK'
<1> USE DEF ReferralTypeOK, rowVars, codeVars, orderVars
<1>1. ASSUME NEW k \in Cart, NEW c \in Code, ApplyCoupon(k, c) PROVE ReferralTypeOK'
  BY <1>1 DEF ApplyCoupon
<1>2. ASSUME NEW k \in Cart, Draft(k) PROVE ReferralTypeOK'
  BY <1>2 DEF Draft, Statuses
<1>3. ASSUME NEW k \in Cart, TakePayment(k) PROVE ReferralTypeOK'
  <2>1. carries[k] \in Code
    BY <1>3 DEF TakePayment
  <2>2. used' \in [Code -> Nat]
    BY <1>3, <2>1, UseIsANat DEF TakePayment
  <2>3. usages' \subseteq Code \X Cart
    BY <1>3, <2>1 DEF TakePayment
  <2>4. status' \in [Cart -> Statuses] /\ instant' \subseteq Cart
    BY <1>3 DEF TakePayment, Statuses
  <2> QED BY <1>3, <2>2, <2>3, <2>4 DEF TakePayment
<1>4. ASSUME NEW k \in Cart, CancelDraft(k) PROVE ReferralTypeOK'
  BY <1>4 DEF CancelDraft, Statuses
<1>5. ASSUME NEW k \in Cart, ReleaseHold(k) PROVE ReferralTypeOK'
  BY <1>5 DEF ReleaseHold, Statuses
<1>6. ASSUME NEW k \in Cart, Refund(k) PROVE ReferralTypeOK'
  BY <1>6 DEF Refund, Statuses
<1>7. ASSUME NEW k \in Cart, Dispute(k) \/ Ripen(k) PROVE ReferralTypeOK'
  BY <1>7 DEF Dispute, Ripen
<1>8. ASSUME NEW c \in Code, Lapse(c) \/ Approve(c) PROVE ReferralTypeOK'
  BY <1>8 DEF Lapse, Approve
<1>9. ASSUME NEW c \in Code, Reject(c) PROVE ReferralTypeOK'
  BY <1>9 DEF Reject, States
<1> QED BY <1>1, <1>2, <1>3, <1>4, <1>5, <1>6, <1>7, <1>8, <1>9 DEF Environment

LEMMA CallsKeepTypes ==
  ASSUME ReferralTypeOK, UsesAreCarried, BatchesAreTrue,
         NEW w \in Worker, Begin(w) \/ Proceed(w) \/ Crash(w)
  PROVE  ReferralTypeOK'
<1>0. job' \in [Worker -> Jobs]
  BY CallsKeepTheirType
<1>00. job[w] \in Jobs /\ job[w].rows \subseteq Code \X (Cart \cup {NoCart, "CLEAR", "VOID"})
  BY DEF ReferralTypeOK, Jobs
<1> USE DEF ReferralTypeOK, rowVars, codeVars, orderVars
<1>1. CASE (\E k \in Cart : AttachToCart(w, k)) \/ StartSweep(w) \/ StartExpiry(w)
           \/ MintRaced(w) \/ StartClear(w) \/ EndSweep(w)
  BY <1>0, <1>1 DEF AttachToCart, StartSweep, StartExpiry, MintRaced, StartClear, EndSweep
<1>2. ASSUME NEW c \in Code, Mint(w, c) PROVE ReferralTypeOK'
  <2>1. job[w].cart \in Cart \cup {NoCart}
    BY <1>00 DEF Jobs
  <2> QED BY <1>0, <1>2, <2>1 DEF Mint, States
<1>3. CASE PutOnCart(w)
  <2>1. job[w].code \in Code \cup {NoCode}
    BY <1>00 DEF Jobs
  <2> QED BY <1>0, <1>3, <2>1 DEF PutOnCart
<1>4. ASSUME NEW r \in job[w].rows, RecordPaid(w, r) PROVE ReferralTypeOK'
  <2>1. r \in Code \X Cart
    BY <1>4 DEF RecordPaid, BatchesAreTrue
  <2>2. r[1] \in Code /\ r[2] \in Cart
    BY <2>1
  <2>3. state' \in [Code -> States] /\ flagged' \subseteq Code
    BY <1>4, <2>2 DEF RecordPaid, States
  <2>4. spentOn' \in [Code -> Cart \cup {NoCart}]
    BY <1>4, <2>2 DEF RecordPaid
  <2> QED BY <1>0, <1>4, <2>3, <2>4 DEF RecordPaid
<1>5. ASSUME NEW r \in job[w].rows, Void(w, r) PROVE ReferralTypeOK'
  BY <1>0, <1>5 DEF Void, States
<1>6. ASSUME NEW r \in job[w].rows, Reward(w, r) PROVE ReferralTypeOK'
  BY <1>0, <1>6 DEF Reward, States
<1>7. ASSUME NEW r \in job[w].rows, Expire(w, r) PROVE ReferralTypeOK'
  BY <1>0, <1>7 DEF Expire, States
<1>8. CASE Crash(w)
  BY <1>0, <1>8, FriendCodesAssumption DEF Crash
<1> QED BY <1>1, <1>2, <1>3, <1>4, <1>5, <1>6, <1>7, <1>8 DEF Begin, Proceed
-----------------------------------------------------------------------------
(***************************************************************************)
(* Orders.                                                                 *)
(***************************************************************************)
\* Payment takes the use only if nobody has.
LEMMA PaymentTakesTheUse ==
  ASSUME Earned, NEW k \in Cart, TakePayment(k)
  PROVE  Orders'
<1> DEFINE c == carries[k]
<1>0. /\ used \in [Code -> Nat] /\ usages \subseteq Code \X Cart /\ status \in [Cart -> Statuses]
      /\ carries \in [Cart -> Code \cup {NoCode}] /\ instant \subseteq Cart
      /\ UsesAreCarried /\ ReleasesTakeTheUse /\ CodeIsReleasedOnce
  BY DEF Earned, Orders, ReferralTypeOK
<1>1. /\ status[k] = "PENDING_PAYMENT" /\ c \in Code /\ carries' = carries
      /\ used' = [used EXCEPT ![c] = TakeUse(c)] /\ usages' = usages \cup {<<c, k>>}
  BY <1>0 DEF TakePayment
<1>2. \/ instant' = instant
      \/ instant' = instant \cup {k} /\ used' # used
  BY DEF TakePayment
<1>3. status'[k] \in {"PAYMENT_REVIEW", "PAID"} /\ \A j \in Cart \ {k} : status'[j] = status[j]
  BY <1>0 DEF TakePayment
<1>4. k \notin instant /\ \A d \in Code : <<d, k>> \notin usages
  BY <1>0, <1>1 DEF UsesAreCarried, ReleasesTakeTheUse, Settled
<1>5. used[c] <= 1 /\ used'[c] = 1 /\ \A d \in Code \ {c} : used'[d] = used[d]
  BY <1>0, <1>1 DEF CodeIsReleasedOnce, TakeUse
<1>6. used' # used => used[c] = 0
  BY <1>0, <1>1, <1>5
<1>7. \A j \in Cart, d \in Code : <<d, j>> \in usages' <=> <<d, j>> \in usages \/ (d = c /\ j = k)
  BY <1>1
<1> HIDE DEF c
<1>8. UsesAreCarried'
  BY <1>0, <1>1, <1>3, <1>7 DEF UsesAreCarried, Settled, c
<1>9. \A j \in instant' : Settled(j)'
  BY <1>0, <1>2, <1>3 DEF ReleasesTakeTheUse, Settled
<1>10. \A d \in Code : \A j \in instant' : <<d, j>> \in usages' => used'[d] = 1
  BY <1>0, <1>2, <1>4, <1>5, <1>7 DEF ReleasesTakeTheUse
<1>11. \A d \in Code : used'[d] <= 1
  BY <1>0, <1>5 DEF CodeIsReleasedOnce
<1>12. ASSUME NEW d \in Code, NEW i \in instant', NEW j \in instant',
              <<d, i>> \in usages', <<d, j>> \in usages'
       PROVE  i = j
  <2>0. i \in Cart /\ j \in Cart
    BY <1>0, <1>2
  <2>1. CASE instant' = instant
    <3>1. i # k /\ j # k
      BY <1>4, <2>1
    <3> QED BY <1>0, <1>7, <1>12, <2>0, <2>1, <3>1 DEF CodeIsReleasedOnce
  <2>2. CASE instant' = instant \cup {k} /\ used[c] = 0 /\ d = c
    <3>1. \A q \in instant : <<c, q>> \notin usages
      BY <1>0, <1>1, <2>2 DEF ReleasesTakeTheUse
    <3>2. \A q \in instant' : <<c, q>> \in usages' => q = k
      BY <1>0, <1>1, <1>4, <1>7, <2>2, <3>1
    <3> QED BY <1>12, <2>2, <3>2
  <2>3. CASE instant' = instant \cup {k} /\ d # c
    <3>1. <<d, i>> \in usages /\ <<d, j>> \in usages
      BY <1>7, <1>12, <2>0, <2>3
    <3>2. i # k /\ j # k
      BY <1>4, <3>1
    <3> QED BY <1>0, <2>3, <3>1, <3>2 DEF CodeIsReleasedOnce
  <2> QED BY <1>2, <1>6, <2>1, <2>2, <2>3
<1> QED BY <1>8, <1>9, <1>10, <1>11, <1>12 DEF Orders, ReleasesTakeTheUse, CodeIsReleasedOnce

\* A settled order keeps its code and never becomes a draft again.
LEMMA OrdersStay ==
  ASSUME Earned, UNCHANGED <<used, usages, instant>>,
         \A k \in Cart : Settled(k) => Settled(k)' /\ carries'[k] = carries[k]
  PROVE  Orders'
<1>1. usages \subseteq Code \X Cart /\ instant \subseteq Cart
  BY DEF Earned, ReferralTypeOK
<1> QED BY <1>1 DEF Earned, Orders, UsesAreCarried, ReleasesTakeTheUse, CodeIsReleasedOnce
-----------------------------------------------------------------------------
(***************************************************************************)
(* Redemptions.                                                            *)
(***************************************************************************)
\* Orders may change around the rows: uses and ripe orders only become more,
\* and money that goes back after the window goes back late.
LEMMA RowsStay ==
  ASSUME Earned, UNCHANGED <<state, spentOn, rewards, job>>,
         usages \subseteq usages', ripe \subseteq ripe',
         \A k \in ripe : back[k] # "early" => back'[k] # "early"
  PROVE  Rows'
<1>1. \A c \in Code : Kept(c) => Kept(c)'
  BY DEF Kept
<1>2. \A w \in Worker : \A r \in job[w].rows : r[1] \in Code
  BY DEF Earned, ReferralTypeOK, Jobs
<1>3. BatchesAreTrue'
  BY <1>1, <1>2 DEF Earned, Rows, BatchesAreTrue, At
<1> QED BY <1>1, <1>3 DEF Earned, Rows, OneSweep, SpentIsUsed, RewardsAreTrue

\* A step that rewards nobody and takes up no batch of the referral sweep.
LEMMA BatchesShrink ==
  ASSUME Earned, UNCHANGED <<spentOn, rewards, usages, ripe, back>>,
         \A c \in Code : state'[c] = "REWARDED" <=> state[c] = "REWARDED",
         \A w \in Worker : \/ job'[w].at \notin Sweeping
                           \/ job'[w].at = job[w].at /\ job'[w].rows \subseteq job[w].rows
  PROVE  Rows'
<1>1. \A c : Kept(c)' <=> Kept(c)
  BY DEF Kept
<1>2. \A w \in Worker : \A r \in job[w].rows : r[1] \in Code
  BY DEF Earned, ReferralTypeOK, Jobs
<1>3. BatchesAreTrue'
  BY <1>1, <1>2 DEF Earned, Rows, BatchesAreTrue, At, Sweeping
<1>4. OneSweep'
  BY DEF Earned, Rows, OneSweep
<1>5. SpentIsUsed' /\ RewardsAreTrue'
  BY <1>1 DEF Earned, Rows, SpentIsUsed, RewardsAreTrue
<1> QED BY <1>3, <1>4, <1>5 DEF Rows

LEMMA EnvironmentIsHarmless ==
  ASSUME Earned, Environment
  PROVE  Orders' /\ Rows'
<1> USE DEF rowVars, codeVars, orderVars
<1>0. /\ status \in [Cart -> Statuses] /\ back \in [Cart -> {"no", "early", "late"}]
      /\ ripe \subseteq Cart /\ state \in [Code -> States] /\ carries \in [Cart -> Code \cup {NoCode}]
  BY DEF Earned, ReferralTypeOK
<1>1. ASSUME NEW k \in Cart, NEW c \in Code, ApplyCoupon(k, c) PROVE Orders' /\ Rows'
  <2>1. UNCHANGED <<rowVars, codeVars, orderVars, job>>
    BY <1>1 DEF ApplyCoupon
  <2>2. Orders'
    BY <2>1, OrdersStay DEF Settled
  <2> QED BY <2>1, <2>2, RowsStay
<1>2. ASSUME NEW k \in Cart, Draft(k) PROVE Orders' /\ Rows'
  <2>1. \A j \in Cart : Settled(j) => Settled(j)' /\ carries'[j] = carries[j]
    BY <1>0, <1>2 DEF Draft, Settled
  <2>2. Orders'
    BY <1>2, <2>1, OrdersStay DEF Draft
  <2> QED BY <1>2, <2>2, RowsStay DEF Draft
<1>3. ASSUME NEW k \in Cart, TakePayment(k) PROVE Orders' /\ Rows'
  <2>1. usages \subseteq usages' /\ UNCHANGED <<state, spentOn, rewards, job, ripe, back>>
    BY <1>3 DEF TakePayment
  <2>2. Rows'
    BY <2>1, RowsStay
  <2> QED BY <1>3, <2>2, PaymentTakesTheUse
<1>4. ASSUME NEW k \in Cart, CancelDraft(k) PROVE Orders' /\ Rows'
  <2>1. \A j \in Cart : Settled(j) => Settled(j)' /\ carries'[j] = carries[j]
    BY <1>0, <1>4 DEF CancelDraft, Settled
  <2>2. Orders'
    BY <1>4, <2>1, OrdersStay DEF CancelDraft
  <2> QED BY <1>4, <2>2, RowsStay DEF CancelDraft
<1>5. ASSUME NEW k \in Cart, ReleaseHold(k) PROVE Orders' /\ Rows'
  <2>1. \A j \in Cart : Settled(j) => Settled(j)' /\ carries'[j] = carries[j]
    BY <1>0, <1>5 DEF ReleaseHold, Settled
  <2>2. Orders'
    BY <1>5, <2>1, OrdersStay DEF ReleaseHold
  <2> QED BY <1>5, <2>2, RowsStay DEF ReleaseHold
<1>6. ASSUME NEW k \in Cart, Refund(k) PROVE Orders' /\ Rows'
  <2>1. \A j \in Cart : Settled(j) => Settled(j)' /\ carries'[j] = carries[j]
    BY <1>0, <1>6 DEF Refund, Settled
  <2>2. Orders'
    BY <1>6, <2>1, OrdersStay DEF Refund
  <2>3. \A j \in ripe : back[j] # "early" => back'[j] # "early"
    BY <1>0, <1>6 DEF Refund
  <2> QED BY <1>6, <2>2, <2>3, RowsStay DEF Refund
<1>7. ASSUME NEW k \in Cart, Dispute(k) \/ Ripen(k) PROVE Orders' /\ Rows'
  <2>1. /\ UNCHANGED <<rowVars, used, usages, status, carries, instant, back, job>>
        /\ ripe \subseteq ripe'
    BY <1>7 DEF Dispute, Ripen
  <2>2. Orders'
    BY <2>1, OrdersStay DEF Settled
  <2> QED BY <2>1, <2>2, RowsStay
<1>8. ASSUME NEW c \in Code, Lapse(c) \/ Approve(c) PROVE Orders' /\ Rows'
  <2>1. UNCHANGED <<state, spentOn, rewards, used, usages, orderVars, job>>
    BY <1>8 DEF Lapse, Approve
  <2>2. Orders'
    BY <2>1, OrdersStay DEF Settled
  <2> QED BY <2>1, <2>2, RowsStay
<1>9. ASSUME NEW c \in Code, Reject(c) PROVE Orders' /\ Rows'
  <2>1. UNCHANGED <<spentOn, rewards, used, usages, orderVars, job>>
    BY <1>9 DEF Reject
  <2>2. \A d \in Code : state'[d] = "REWARDED" <=> state[d] = "REWARDED"
    BY <1>0, <1>9 DEF Reject, Open
  <2>3. Orders'
    BY <2>1, OrdersStay DEF Settled
  <2> QED BY <2>1, <2>2, <2>3, BatchesShrink
<1> QED BY <1>1, <1>2, <1>3, <1>4, <1>5, <1>6, <1>7, <1>8, <1>9 DEF Environment

\* Every call leaves the orders alone.
LEMMA CallsKeepOrders ==
  ASSUME Earned, NEW w \in Worker, Begin(w) \/ Proceed(w) \/ Crash(w)
  PROVE  Orders' /\ UNCHANGED <<used, usages, orderVars>>
<1>1. UNCHANGED <<used, usages, orderVars>>
  BY DEF Begin, Proceed, Crash, AttachToCart, StartSweep, StartExpiry, Mint, MintRaced, PutOnCart,
         RecordPaid, Void, Reward, Expire, StartClear, EndSweep, codeVars
<1>2. Orders'
  BY <1>1, OrdersStay DEF orderVars, Settled
<1> QED BY <1>1, <1>2

\* The calls that neither record nor reward.
LEMMA QuietCalls ==
  ASSUME Earned, NEW w \in Worker,
         \/ (\E k \in Cart : AttachToCart(w, k)) \/ StartExpiry(w)
         \/ (\E c \in Code : Mint(w, c)) \/ MintRaced(w) \/ PutOnCart(w) \/ EndSweep(w)
         \/ (\E r \in job[w].rows : Void(w, r) \/ Expire(w, r)) \/ Crash(w)
  PROVE  Rows'
<1> USE DEF rowVars, codeVars, orderVars
<1>0. /\ job \in [Worker -> Jobs] /\ state \in [Code -> States]
      /\ Begin(w) \/ Proceed(w) \/ Crash(w)
  BY DEF Earned, ReferralTypeOK, Begin, Proceed
<1>1. \A v \in Worker \ {w} : job'[v] = job[v]
  BY <1>0, CallsKeepTheirType DEF Earned
<1>2. UNCHANGED <<usages, ripe, back>>
  BY <1>0, CallsKeepOrders
<1>3. UNCHANGED <<spentOn, rewards>> /\ \A d \in Code : state'[d] = "REWARDED" <=> state[d] = "REWARDED"
  BY <1>0 DEF AttachToCart, StartExpiry, Mint, MintRaced, PutOnCart, EndSweep, Void, Expire, Crash, Open
<1>4. \/ job'[w].at \notin Sweeping
      \/ job'[w].at = job[w].at /\ job'[w].rows \subseteq job[w].rows
  <2>1. CASE \E r \in job[w].rows : Worked(w, r)
    BY <1>0, <2>1 DEF Worked, Becomes
  <2>2. CASE \E step \in {"mint", "put", "expire"} : \E k, c, rows : Becomes(w, Call(step, k, c, rows))
    BY <1>0, <2>2 DEF Becomes, Call, Sweeping
  <2>3. CASE Return(w)
    BY <1>0, <2>3, IdleIsAJob DEF Return, Becomes, Sweeping
  <2>4. CASE (\E k \in Cart : AttachToCart(w, k)) \/ StartExpiry(w) \/ \E c \in Code : Mint(w, c)
    BY <2>2, <2>4 DEF AttachToCart, StartExpiry, Mint
  <2>5. CASE MintRaced(w) \/ PutOnCart(w) \/ EndSweep(w) \/ Crash(w)
    BY <2>3, <2>5 DEF MintRaced, PutOnCart, EndSweep, Crash
  <2>6. CASE \E r \in job[w].rows : Void(w, r) \/ Expire(w, r)
    BY <2>1, <2>6 DEF Void, Expire
  <2> QED BY <2>4, <2>5, <2>6
<1> HIDE DEF Earned
<1> QED BY <1>1, <1>2, <1>3, <1>4, BatchesShrink

\* The batch that is recorded has no rewarded row in it, and nothing that could
\* reward one runs meanwhile.
LEMMA SweepStarts ==
  ASSUME Earned, NEW w \in Worker, StartSweep(w)
  PROVE  Rows'
<1> USE DEF rowVars, codeVars, orderVars
<1>0. job \in [Worker -> Jobs] /\ usages \subseteq Code \X Cart
  BY DEF Earned, ReferralTypeOK
<1>1. PICK rows \in SUBSET usages :
        /\ {r[1] : r \in rows} =
             {c \in Code : state[c] = "ISSUED" /\ \E k \in Cart : <<c, k>> \in usages}
        /\ job' = [job EXCEPT ![w] = Call("record", NoCart, NoCode, rows)]
  BY DEF StartSweep, Becomes
<1>2. job'[w].at = "record" /\ job'[w].rows = rows /\ \A v \in Worker \ {w} : job'[v] = job[v]
  BY <1>0, <1>1 DEF Call
<1>3. \A v \in Worker : job[v].at \notin Sweeping
  BY DEF StartSweep, Unlocked, Sweeping
<1>4. \A r \in rows : state[r[1]] = "ISSUED"
  BY <1>1
<1>5. UNCHANGED <<state, spentOn, rewards, usages, ripe, back>>
  BY DEF StartSweep
<1>6. OneSweep'
  BY <1>2, <1>3 DEF OneSweep
<1>7. BatchesAreTrue'
  BY <1>1, <1>2, <1>3, <1>4, <1>5 DEF BatchesAreTrue, At, Sweeping
<1> QED BY <1>5, <1>6, <1>7 DEF Earned, Rows, SpentIsUsed, RewardsAreTrue, Kept

LEMMA PaymentIsRecorded ==
  ASSUME Earned, NEW w \in Worker, NEW r \in job[w].rows, RecordPaid(w, r)
  PROVE  Rows'
<1> DEFINE c == r[1]
<1> USE DEF rowVars, codeVars, orderVars
<1>0. /\ job \in [Worker -> Jobs] /\ usages \subseteq Code \X Cart /\ state \in [Code -> States]
      /\ spentOn \in [Code -> Cart \cup {NoCart}]
      /\ OneSweep /\ SpentIsUsed /\ BatchesAreTrue /\ RewardsAreTrue
  BY DEF Earned, Rows, ReferralTypeOK
<1>1. r \in usages /\ state[c] # "REWARDED" /\ job[w].at = "record"
  BY <1>0 DEF RecordPaid, BatchesAreTrue, At
<1>2. c \in Code /\ r[2] \in Cart /\ r = <<c, r[2]>>
  BY <1>0, <1>1
<1>3. /\ spentOn' = [spentOn EXCEPT ![c] = r[2]]
      /\ \E to \in {"VOID", "PENDING"} : state' = [state EXCEPT ![c] = to]
      /\ Worked(w, r) /\ UNCHANGED <<rewards, usages, ripe, back>>
  BY DEF RecordPaid
<1>4. /\ job'[w].at = "record" /\ job'[w].rows \subseteq job[w].rows
      /\ \A v \in Worker \ {w} : job'[v] = job[v]
  BY <1>0, <1>1, <1>3 DEF Worked, Becomes
<1>5. \A v \in Worker \ {w} : job'[v].at \notin Sweeping
  BY <1>0, <1>1, <1>4 DEF OneSweep, Sweeping
<1>6. /\ spentOn'[c] = r[2] /\ state'[c] # "REWARDED"
      /\ \A d \in Code \ {c} : spentOn'[d] = spentOn[d] /\ state'[d] = state[d]
  BY <1>0, <1>2, <1>3
<1> HIDE DEF c
<1>7. OneSweep' /\ SpentIsUsed'
  BY <1>0, <1>1, <1>2, <1>3, <1>5, <1>6 DEF OneSweep, SpentIsUsed
<1>8. \A d \in Code : state'[d] = "REWARDED" => state[d] = "REWARDED"
  BY <1>6
<1>9. BatchesAreTrue'
  <2> SUFFICES ASSUME NEW q \in job'[w].rows
               PROVE  q \in usages' /\ state'[q[1]] # "REWARDED"
    BY <1>4, <1>5 DEF BatchesAreTrue, At, Sweeping
  <2>1. q \in usages /\ state[q[1]] # "REWARDED"
    BY <1>0, <1>1, <1>4 DEF BatchesAreTrue, At
  <2>2. q[1] \in Code
    BY <1>0, <2>1
  <2> QED BY <1>3, <1>8, <2>1, <2>2
<1>10. RewardsAreTrue'
  <2> SUFFICES ASSUME NEW d \in Code
               PROVE  /\ rewards'[d] = (IF state'[d] = "REWARDED" THEN 1 ELSE 0)
                      /\ state'[d] = "REWARDED" => Kept(d)'
    BY DEF RewardsAreTrue
  <2>1. CASE d = c
    BY <1>0, <1>1, <1>3, <1>6, <2>1 DEF RewardsAreTrue
  <2>2. CASE d # c
    BY <1>0, <1>3, <1>6, <2>2 DEF RewardsAreTrue, Kept
  <2> QED BY <2>1, <2>2
<1> QED BY <1>7, <1>9, <1>10 DEF Rows

LEMMA ClearanceIsRead ==
  ASSUME Earned, NEW w \in Worker, StartClear(w)
  PROVE  Rows'
<1> DEFINE rows == {r \in Code \X {"CLEAR", "VOID"} :
                      /\ state[r[1]] = "PENDING" /\ r[1] \notin flagged
                      /\ Clearance(spentOn[r[1]]) = r[2]}
<1> USE DEF rowVars, codeVars, orderVars
<1>0. job \in [Worker -> Jobs] /\ OneSweep /\ BatchesAreTrue /\ job[w].at = "record"
  BY DEF Earned, Rows, ReferralTypeOK, StartClear, At
<1>1. job' = [job EXCEPT ![w] = Call("clear", NoCart, NoCode, rows)]
      /\ UNCHANGED <<state, spentOn, rewards, usages, ripe, back>>
  BY DEF StartClear, Becomes
<1>2. job'[w].at = "clear" /\ job'[w].rows = rows /\ \A v \in Worker \ {w} : job'[v] = job[v]
  BY <1>0, <1>1 DEF Call
<1>3. ASSUME NEW r \in rows, r[2] = "CLEAR" PROVE Kept(r[1])
  BY <1>3 DEF Clearance, Kept
<1> HIDE DEF rows
<1>4. \A v \in Worker \ {w} : job[v].at \notin Sweeping
  BY <1>0 DEF OneSweep, Sweeping
<1>5. OneSweep'
  BY <1>2, <1>4 DEF OneSweep
<1>6. \A d : Kept(d)' <=> Kept(d)
  BY <1>1 DEF Kept
<1>7. BatchesAreTrue'
  BY <1>2, <1>3, <1>4, <1>6 DEF BatchesAreTrue, At, Sweeping
<1> QED BY <1>1, <1>5, <1>6, <1>7 DEF Earned, Rows, SpentIsUsed, RewardsAreTrue

LEMMA RewardIsPaid ==
  ASSUME Earned, NEW w \in Worker, NEW r \in job[w].rows, Reward(w, r)
  PROVE  Rows'
<1> DEFINE c == r[1]
<1> USE DEF rowVars, codeVars, orderVars
<1>0. /\ job \in [Worker -> Jobs] /\ job[w] \in Jobs /\ state \in [Code -> States]
      /\ rewards \in [Code -> Nat]
      /\ OneSweep /\ SpentIsUsed /\ BatchesAreTrue /\ RewardsAreTrue
  BY DEF Earned, Rows, ReferralTypeOK
<1>1. c \in Code /\ job[w].at = "clear" /\ Kept(c)
  BY <1>0 DEF Jobs, Reward, BatchesAreTrue, At
<1>2. Worked(w, r) /\ UNCHANGED <<spentOn, usages, ripe, back>>
  BY DEF Reward
<1>3. /\ job'[w].at = "clear" /\ job'[w].rows \subseteq job[w].rows
      /\ \A v \in Worker \ {w} : job'[v] = job[v]
  BY <1>0, <1>1, <1>2 DEF Worked, Becomes
<1>4. \A v \in Worker \ {w} : job[v].at \notin Sweeping
  BY <1>0, <1>1 DEF OneSweep, Sweeping
<1>5. \A d : Kept(d)' <=> Kept(d)
  BY <1>2 DEF Kept
<1>6. \A d \in Code \ {c} : state'[d] = state[d] /\ rewards'[d] = rewards[d]
  BY <1>0 DEF Reward
<1>7. \/ state'[c] = state[c] /\ rewards'[c] = rewards[c]
      \/ state[c] = "PENDING" /\ state'[c] = "REWARDED" /\ rewards'[c] = rewards[c] + 1
  BY <1>0, <1>1 DEF Reward
<1> HIDE DEF c
<1>8. OneSweep' /\ SpentIsUsed'
  BY <1>0, <1>2, <1>3, <1>4 DEF OneSweep, SpentIsUsed
<1>9. BatchesAreTrue'
  BY <1>0, <1>1, <1>3, <1>4, <1>5 DEF BatchesAreTrue, At, Sweeping
<1>10. RewardsAreTrue'
  BY <1>0, <1>1, <1>5, <1>6, <1>7 DEF RewardsAreTrue
<1> QED BY <1>8, <1>9, <1>10 DEF Rows
-----------------------------------------------------------------------------
(***************************************************************************)
(* Together.                                                               *)
(***************************************************************************)
LEMMA NothingIsEarnedYet == Init => Earned
<1> SUFFICES ASSUME Init PROVE Earned
  OBVIOUS
<1>1. ReferralTypeOK
  BY IdleIsAJob, FriendCodesAssumption DEF Init, ReferralTypeOK, States, Statuses
<1>2. Orders
  BY DEF Init, Orders, UsesAreCarried, ReleasesTakeTheUse, CodeIsReleasedOnce
<1>3. \A w \in Worker : job[w].at = "idle" /\ job[w].rows = {}
  BY IdleIsAJob DEF Init
<1>4. Rows
  BY <1>3 DEF Init, Rows, OneSweep, SpentIsUsed, BatchesAreTrue, RewardsAreTrue, Sweeping
<1> QED BY <1>1, <1>2, <1>4 DEF Earned

LEMMA StaysEarned == Earned /\ [Next]_vars => Earned'
<1> SUFFICES ASSUME Earned, [Next]_vars PROVE Earned'
  OBVIOUS
<1>0. ReferralTypeOK /\ UsesAreCarried /\ BatchesAreTrue
  BY DEF Earned, Orders, Rows
<1>1. CASE Environment
  BY <1>0, <1>1, EnvironmentKeepsTypes, EnvironmentIsHarmless DEF Earned
<1>2. ASSUME NEW w \in Worker, Begin(w) \/ Proceed(w) \/ Crash(w) PROVE Earned'
  <2>1. ReferralTypeOK'
    BY <1>0, <1>2, CallsKeepTypes
  <2>2. Orders'
    BY <1>2, CallsKeepOrders
  <2>3. Rows'
    <3>1. ASSUME NEW r \in job[w].rows, RecordPaid(w, r) PROVE Rows'
      BY <3>1, PaymentIsRecorded
    <3>2. ASSUME NEW r \in job[w].rows, Reward(w, r) PROVE Rows'
      BY <3>2, RewardIsPaid
    <3>3. CASE StartSweep(w) \/ StartClear(w)
      BY <3>3, SweepStarts, ClearanceIsRead
    <3>4. CASE \/ (\E k \in Cart : AttachToCart(w, k)) \/ StartExpiry(w)
               \/ (\E c \in Code : Mint(w, c)) \/ MintRaced(w) \/ PutOnCart(w) \/ EndSweep(w)
               \/ (\E r \in job[w].rows : Void(w, r) \/ Expire(w, r)) \/ Crash(w)
      BY <3>4, QuietCalls
    <3> HIDE DEF Earned, Rows
    <3> QED BY <1>2, <3>1, <3>2, <3>3, <3>4 DEF Begin, Proceed
  <2> QED BY <2>1, <2>2, <2>3 DEF Earned
<1>3. CASE UNCHANGED vars
  <2> USE DEF vars, rowVars, codeVars, orderVars
  <2>1. ReferralTypeOK'
    BY <1>0, <1>3 DEF ReferralTypeOK
  <2>2. Orders'
    BY <1>3, OrdersStay DEF Settled
  <2>3. Rows'
    BY <1>3, RowsStay
  <2> QED BY <2>1, <2>2, <2>3 DEF Earned
<1> QED BY <1>1, <1>2, <1>3 DEF Next

LEMMA AlwaysEarned == Spec => []Earned
BY NothingIsEarnedYet, StaysEarned, PTL DEF Spec

\* Every variable keeps its type: a sweep writes no status, order or reward that
\* a redemption cannot have.
THEOREM ReferralTyping == Spec => []ReferralTypeOK
<1>1. Earned => ReferralTypeOK
  BY DEF Earned
<1> QED BY <1>1, AlwaysEarned, PTL

\* A referrer is paid once, and for an order that used this code and no other
\* redemption's, with its money still there when the refund window passed.
THEOREM RewardsAreEarned == Spec => []RewardIsEarned
<1>1. Earned => RewardIsEarned
  <2> SUFFICES ASSUME Earned, NEW c \in Code, state[c] = "REWARDED"
               PROVE  /\ <<c, spentOn[c]>> \in usages
                      /\ Kept(c)
                      /\ \A d \in Code \ {c} : spentOn[d] # spentOn[c]
    BY DEF Earned, Rows, RewardsAreTrue, RewardIsEarned, Kept
  <2>0. /\ ripe \subseteq Cart /\ UsesAreCarried /\ SpentIsUsed
    BY DEF Earned, Orders, Rows, ReferralTypeOK
  <2>1. Kept(c)
    BY DEF Earned, Rows, RewardsAreTrue
  <2>2. spentOn[c] \in Cart /\ spentOn[c] # NoCart
    BY <2>0, <2>1, FriendCodesAssumption DEF Kept
  <2>3. \A d \in Code : spentOn[d] = spentOn[c] => carries[spentOn[c]] = d
    BY <2>0, <2>2 DEF SpentIsUsed, UsesAreCarried
  <2>4. carries[spentOn[c]] = c
    BY <2>3
  <2> QED BY <2>0, <2>1, <2>2, <2>3, <2>4 DEF SpentIsUsed
<1> QED BY <1>1, AlwaysEarned, PTL

\* However many drafts carry a friend code, its one use is taken once, and one
\* order at most is released by it without a person.
THEOREM CodesAreReleasedOnce == Spec => []CodeIsReleasedOnce
<1>1. Earned => CodeIsReleasedOnce
  BY DEF Earned, Orders
<1> QED BY <1>1, AlwaysEarned, PTL
-----------------------------------------------------------------------------
(***************************************************************************)
(* The ledger.                                                             *)
(*                                                                         *)
(* Only the first order that pays with a code finds its use untaken, since *)
(* every use counted is somebody's; and money is paid into no order that   *)
(* has not used its code.                                                  *)
(***************************************************************************)
UsesAreCounted == \A c \in Code : \A k \in Cart : <<c, k>> \in usages => used[c] = 1
PaidUsedACode ==
  \A k \in Cart : status[k] \in {"PAYMENT_REVIEW", "PAID", "REFUNDED"} => <<carries[k], k>> \in usages
Booked == UsesAreCounted /\ PaidUsedACode

LEMMA NothingIsBooked == Init => Booked
BY DEF Init, Booked, UsesAreCounted, PaidUsedACode

LEMMA StaysBooked ==
  ASSUME Earned, Booked, [Next]_vars
  PROVE  Booked'
<1> USE DEF rowVars, codeVars, orderVars
<1>0. /\ status \in [Cart -> Statuses] /\ carries \in [Cart -> Code \cup {NoCode}]
      /\ used \in [Code -> Nat] /\ usages \subseteq Code \X Cart
      /\ UsesAreCounted /\ PaidUsedACode /\ CodeIsReleasedOnce
  BY DEF Earned, Orders, ReferralTypeOK, Booked
<1>1. ASSUME NEW k \in Cart, TakePayment(k) PROVE Booked'
  <2> DEFINE c == carries[k]
  <2>1. /\ c \in Code /\ carries' = carries /\ used' = [used EXCEPT ![c] = TakeUse(c)]
        /\ usages' = usages \cup {<<c, k>>}
        /\ \A j \in Cart \ {k} : status'[j] = status[j]
    BY <1>0, <1>1 DEF TakePayment
  <2>2. used'[c] = 1 /\ \A d \in Code \ {c} : used'[d] = used[d]
    BY <1>0, <2>1 DEF TakeUse, CodeIsReleasedOnce
  <2> HIDE DEF c
  <2>3. UsesAreCounted'
    BY <1>0, <2>1, <2>2 DEF UsesAreCounted
  <2>4. PaidUsedACode'
    BY <1>0, <2>1 DEF PaidUsedACode, c
  <2> QED BY <2>3, <2>4 DEF Booked
<1>2. ASSUME UNCHANGED <<used, usages>>,
             \A k \in Cart : status'[k] \in {"PAYMENT_REVIEW", "PAID", "REFUNDED"} =>
               status[k] \in {"PAYMENT_REVIEW", "PAID", "REFUNDED"} /\ carries'[k] = carries[k]
      PROVE  Booked'
  BY <1>0, <1>2 DEF Booked, UsesAreCounted, PaidUsedACode
<1>3. ASSUME NEW k \in Cart, Draft(k) \/ CancelDraft(k) \/ ReleaseHold(k) \/ Refund(k)
      PROVE  Booked'
  <2>1. UNCHANGED <<used, usages>>
    BY <1>3 DEF Draft, CancelDraft, ReleaseHold, Refund
  <2>2. \A j \in Cart : status'[j] \in {"PAYMENT_REVIEW", "PAID", "REFUNDED"} =>
          status[j] \in {"PAYMENT_REVIEW", "PAID", "REFUNDED"} /\ carries'[j] = carries[j]
    <3>1. CASE Draft(k)
      BY <1>0, <3>1 DEF Draft
    <3>2. CASE CancelDraft(k) \/ ReleaseHold(k) \/ Refund(k)
      BY <1>0, <3>2 DEF CancelDraft, ReleaseHold, Refund
    <3> QED BY <1>3, <3>1, <3>2
  <2> QED BY <1>2, <2>1, <2>2
<1>4. ASSUME UNCHANGED <<used, usages, status, carries>> PROVE Booked'
  BY <1>2, <1>4
<1>5. ASSUME NEW k \in Cart, Dispute(k) \/ Ripen(k) \/ \E c \in Code : ApplyCoupon(k, c)
      PROVE  Booked'
  BY <1>4, <1>5 DEF Dispute, Ripen, ApplyCoupon
<1>6. ASSUME NEW c \in Code, Lapse(c) \/ Approve(c) \/ Reject(c) PROVE Booked'
  BY <1>4, <1>6 DEF Lapse, Approve, Reject
<1>7. ASSUME NEW w \in Worker, Begin(w) \/ Proceed(w) \/ Crash(w) PROVE Booked'
  BY <1>4, <1>7, CallsKeepOrders
<1>8. CASE UNCHANGED vars
  BY <1>4, <1>8 DEF vars
<1> QED BY <1>1, <1>3, <1>5, <1>6, <1>7, <1>8 DEF Next, Environment

\* The ledger's words for the orders that kept their money, and for the order
\* each rewarded redemption is for.
Keepers == {k \in ripe : back[k] # "early"}
RewardedFor == [c \in Code |-> IF state[c] = "REWARDED" THEN spentOn[c] ELSE NoCart]

\* A step that gives no reward and takes up no rewarded row leaves all rewards.
LEMMA RewardsStand ==
  ASSUME \A c \in Code : /\ state'[c] = "REWARDED" <=> state[c] = "REWARDED"
                         /\ state[c] = "REWARDED" => spentOn'[c] = spentOn[c]
  PROVE  RewardedFor' = RewardedFor
BY DEF RewardedFor

LEMMA NothingToBook ==
  ASSUME UNCHANGED <<usages, instant, ripe, back, rewards>>, RewardedFor' = RewardedFor
  PROVE  [Ledger!Next]_(Ledger!ledgerVars)
BY DEF Ledger!ledgerVars, RewardedFor

LEMMA UseIsBooked ==
  ASSUME Earned, Booked, NEW k \in Cart, TakePayment(k)
  PROVE  Ledger!Next
<1> DEFINE c == carries[k]
<1> USE DEF rowVars
<1>0. /\ used \in [Code -> Nat] /\ usages \subseteq Code \X Cart
      /\ carries \in [Cart -> Code \cup {NoCode}]
      /\ UsesAreCarried /\ UsesAreCounted
  BY DEF Earned, Orders, ReferralTypeOK, Booked
<1>1. /\ c \in Code /\ ~Settled(k) /\ usages' = usages \cup {<<c, k>>}
      /\ used' = [used EXCEPT ![c] = TakeUse(c)]
      /\ UNCHANGED <<ripe, back, state, spentOn, rewards>>
      /\ \/ instant' = instant
         \/ instant' = instant \cup {k} /\ used' # used
  BY <1>0 DEF TakePayment, Settled
<1>2. \A d \in Code : <<d, k>> \notin usages
  BY <1>0, <1>1 DEF UsesAreCarried
<1>3. used' # used => \A j \in Cart : <<c, j>> \notin usages
  BY <1>0, <1>1 DEF TakeUse, UsesAreCounted
<1> HIDE DEF c
<1>4. Ledger!Use(c, k)
  BY <1>1, <1>2, <1>3 DEF Ledger!Use, Ledger!Paid, Ledger!Unused
<1> QED BY <1>1, <1>4 DEF Ledger!Next

\* The window passes: money that is there was kept, money that went back was not.
LEMMA WindowIsBooked ==
  ASSUME Earned, Booked, NEW k \in Cart, Ripen(k)
  PROVE  [Ledger!Next]_(Ledger!ledgerVars)
<1> USE DEF rowVars
<1>0. ripe \subseteq Cart /\ carries \in [Cart -> Code \cup {NoCode}] /\ usages \subseteq Code \X Cart
      /\ PaidUsedACode
  BY DEF Earned, ReferralTypeOK, Booked
<1>1. /\ status[k] \in {"PAYMENT_REVIEW", "PAID", "REFUNDED"} /\ ripe' = ripe \cup {k}
      /\ UNCHANGED <<usages, instant, back, state, spentOn, rewards>>
  BY DEF Ripen, codeVars
<1>2. carries[k] \in Code /\ <<carries[k], k>> \in usages
  BY <1>0, <1>1 DEF PaidUsedACode
<1>3. CASE back[k] = "early"
  <2>1. Keepers' = Keepers
    BY <1>1, <1>3 DEF Keepers
  <2> QED BY <1>1, <2>1 DEF Ledger!ledgerVars, Keepers
<1>4. CASE back[k] # "early"
  <2>1. Keepers' = Keepers \cup {k}
    BY <1>1, <1>4 DEF Keepers
  <2>2. Ledger!Keep(k)
    BY <1>1, <1>2, <2>1 DEF Ledger!Keep, Ledger!Paid, Keepers
  <2> QED BY <2>2 DEF Ledger!Next
<1> QED BY <1>3, <1>4

\* A reward is for an order of this code that kept its money, and is the first.
LEMMA RewardIsBooked ==
  ASSUME Earned, NEW w \in Worker, NEW r \in job[w].rows, Reward(w, r)
  PROVE  [Ledger!Next]_(Ledger!ledgerVars)
<1> DEFINE c == r[1]
<1> USE DEF rowVars, codeVars, orderVars
<1>0. /\ job \in [Worker -> Jobs] /\ job[w] \in Jobs /\ state \in [Code -> States]
      /\ spentOn \in [Code -> Cart \cup {NoCart}] /\ ripe \subseteq Cart /\ rewards \in [Code -> Nat]
      /\ SpentIsUsed /\ BatchesAreTrue
  BY DEF Earned, Rows, ReferralTypeOK
<1>1. c \in Code /\ Kept(c) /\ UNCHANGED <<spentOn, usages, instant, ripe, back>>
  BY <1>0 DEF Jobs, Reward, BatchesAreTrue, At
<1>2. spentOn[c] \in Cart /\ spentOn[c] # NoCart /\ <<c, spentOn[c]>> \in usages
  BY <1>0, <1>1, FriendCodesAssumption DEF Kept, SpentIsUsed
<1>3. spentOn[c] \in Keepers
  BY <1>1 DEF Kept, Keepers
<1>4. CASE state[c] # "PENDING"
  <2>1. UNCHANGED <<state, rewards>>
    BY <1>4 DEF Reward
  <2> QED BY <1>1, <2>1, RewardsStand, NothingToBook
<1>5. CASE state[c] = "PENDING"
  <2>1. /\ state' = [state EXCEPT ![c] = "REWARDED"]
        /\ rewards' = [rewards EXCEPT ![c] = @ + 1]
    BY <1>5 DEF Reward
  <2> HIDE DEF c
  <2>2. RewardedFor' = [RewardedFor EXCEPT ![c] = spentOn[c]] /\ RewardedFor[c] = NoCart
    BY <1>0, <1>1, <1>5, <2>1 DEF RewardedFor
  <2>3. Keepers' = Keepers
    BY <1>1 DEF Keepers
  <2>4. PICK k \in Cart : k = spentOn[c]
    BY <1>2
  <2>5. Ledger!Reward(c, k)
    BY <1>1, <1>2, <1>3, <2>1, <2>2, <2>3, <2>4 DEF Ledger!Reward, RewardedFor, Keepers
  <2> QED BY <1>1, <2>5 DEF Ledger!Next
<1> QED BY <1>4, <1>5

\* Everything else a call does writes nothing in the ledger: recordPaid, which
\* does not ask for the status, meets no rewarded row.
LEMMA CallsBookNothing ==
  ASSUME Earned, NEW w \in Worker, Begin(w) \/ Proceed(w) \/ Crash(w),
         ~\E r \in job[w].rows : Reward(w, r)
  PROVE  UNCHANGED <<usages, instant, ripe, back, rewards>> /\ RewardedFor' = RewardedFor
<1> USE DEF rowVars, codeVars, orderVars
<1>0. /\ usages \subseteq Code \X Cart /\ state \in [Code -> States]
      /\ spentOn \in [Code -> Cart \cup {NoCart}] /\ BatchesAreTrue
  BY DEF Earned, Rows, ReferralTypeOK
<1>1. UNCHANGED <<usages, instant, ripe, back>>
  BY CallsKeepOrders
<1>2. ASSUME NEW r \in job[w].rows, RecordPaid(w, r)
      PROVE  UNCHANGED rewards /\ RewardedFor' = RewardedFor
  <2>1. r[1] \in Code /\ state[r[1]] # "REWARDED"
    BY <1>0, <1>2 DEF RecordPaid, BatchesAreTrue
  <2>2. /\ \E to \in {"VOID", "PENDING"} : state' = [state EXCEPT ![r[1]] = to]
        /\ spentOn' = [spentOn EXCEPT ![r[1]] = r[2]] /\ UNCHANGED rewards
    BY <1>2 DEF RecordPaid
  <2>3. \A c \in Code : /\ state'[c] = "REWARDED" <=> state[c] = "REWARDED"
                        /\ state[c] = "REWARDED" => spentOn'[c] = spentOn[c]
    BY <1>0, <2>1, <2>2
  <2> QED BY <2>2, <2>3, RewardsStand
<1>3. ASSUME \A r \in job[w].rows : ~RecordPaid(w, r)
      PROVE  UNCHANGED rewards /\ RewardedFor' = RewardedFor
  <2>1. UNCHANGED <<spentOn, rewards>>
        /\ \A c \in Code : state'[c] = "REWARDED" <=> state[c] = "REWARDED"
    BY <1>0, <1>3 DEF Begin, Proceed, Crash, AttachToCart, StartSweep, StartExpiry, Mint, MintRaced,
         PutOnCart, Void, Expire, StartClear, EndSweep, Open
  <2> QED BY <2>1, RewardsStand
<1> QED BY <1>1, <1>2, <1>3

LEMMA StepKeepsReferral ==
  ASSUME Earned, Booked, [Next]_vars
  PROVE  [Ledger!Next]_(Ledger!ledgerVars)
<1> USE DEF rowVars, codeVars, orderVars
<1>0. /\ state \in [Code -> States] /\ back \in [Cart -> {"no", "early", "late"}]
  BY DEF Earned, ReferralTypeOK
<1>1. ASSUME NEW k \in Cart, TakePayment(k) PROVE [Ledger!Next]_(Ledger!ledgerVars)
  BY <1>1, UseIsBooked
<1>2. ASSUME NEW k \in Cart, Ripen(k) PROVE [Ledger!Next]_(Ledger!ledgerVars)
  BY <1>2, WindowIsBooked
<1>3. ASSUME NEW k \in Cart, Refund(k) PROVE [Ledger!Next]_(Ledger!ledgerVars)
  <2>1. UNCHANGED <<usages, instant, ripe, rewards, state, spentOn>>
    BY <1>3 DEF Refund
  <2>2. Keepers' = Keepers
    BY <1>0, <1>3 DEF Refund, Keepers
  <2> QED BY <2>1, <2>2 DEF Ledger!ledgerVars, Keepers
<1>4. ASSUME UNCHANGED <<usages, instant, ripe, back, rewards, spentOn>>,
             \A c \in Code : state'[c] = "REWARDED" <=> state[c] = "REWARDED"
      PROVE  [Ledger!Next]_(Ledger!ledgerVars)
  <2>1. RewardedFor' = RewardedFor
    BY <1>4, RewardsStand
  <2> QED BY <1>4, <2>1, NothingToBook
<1>5. ASSUME NEW k \in Cart,
             \/ Draft(k) \/ CancelDraft(k) \/ ReleaseHold(k) \/ Dispute(k)
             \/ \E c \in Code : ApplyCoupon(k, c)
      PROVE  [Ledger!Next]_(Ledger!ledgerVars)
  BY <1>4, <1>5 DEF Draft, CancelDraft, ReleaseHold, Dispute, ApplyCoupon
<1>6. ASSUME NEW c \in Code, Lapse(c) \/ Approve(c) \/ Reject(c)
      PROVE  [Ledger!Next]_(Ledger!ledgerVars)
  <2>1. \A d \in Code : state'[d] = "REWARDED" <=> state[d] = "REWARDED"
    BY <1>0, <1>6 DEF Lapse, Approve, Reject, Open
  <2> QED BY <1>4, <1>6, <2>1 DEF Lapse, Approve, Reject
<1>7. ASSUME NEW w \in Worker, Begin(w) \/ Proceed(w) \/ Crash(w)
      PROVE  [Ledger!Next]_(Ledger!ledgerVars)
  <2>1. ASSUME NEW r \in job[w].rows, Reward(w, r) PROVE [Ledger!Next]_(Ledger!ledgerVars)
    BY <2>1, RewardIsBooked
  <2>2. CASE ~\E r \in job[w].rows : Reward(w, r)
    BY <1>7, <2>2, CallsBookNothing, NothingToBook
  <2> QED BY <2>1, <2>2
<1>8. CASE UNCHANGED vars
  BY <1>4, <1>8 DEF vars
<1> QED BY <1>1, <1>2, <1>3, <1>5, <1>6, <1>7, <1>8 DEF Next, Environment

\* The programme implements the ledger, for any codes, carts, calls and crashes: a
\* reward is never moved, taken back or given again, and only the first order that
\* pays with a code is released without a person.
THEOREM ReferralsKeepLedger == Spec => ReferralIsKept
<1>1. Init => Ledger!Init
  <2> SUFFICES ASSUME Init PROVE Ledger!Init
    OBVIOUS
  <2>1. /\ usages = {} /\ instant = {} /\ ripe = {} /\ rewards = [c \in Code |-> 0]
        /\ \A c \in Code : state[c] # "REWARDED"
    BY DEF Init
  <2>2. Keepers = {} /\ RewardedFor = [c \in Code |-> NoCart]
    BY <2>1 DEF Keepers, RewardedFor
  <2> QED BY <2>1, <2>2 DEF Ledger!Init, Keepers, RewardedFor
<1>2. Earned /\ Booked /\ [Next]_vars => Booked'
  BY StaysBooked
<1>3. Earned /\ Booked /\ [Next]_vars => [Ledger!Next]_(Ledger!ledgerVars)
  BY StepKeepsReferral
<1> QED BY <1>1, <1>2, <1>3, NothingIsBooked, AlwaysEarned, PTL DEF Spec, ReferralIsKept, Ledger!Spec
=============================================================================
