---------------------------- MODULE FriendCodes ----------------------------
(***************************************************************************)
(* The friend codes of the referral programme (growth/): a single-use code *)
(* is minted for a referred cart, spent by the order that pays with it     *)
(* (checkout.service.ts), and earns the referrer a reward once the refund  *)
(* window has passed.  Two daily sweeps, staff, shoppers and the providers *)
(* act on the same rows.                                                   *)
(*                                                                         *)
(* A member of Code is a ReferralRedemption and its Promotion, which are   *)
(* created together.  Each cart drafts one order, which goes by the cart's *)
(* name; "PAID" stands for the fulfilment statuses too, which              *)
(* referralClearance treats alike.                                         *)
(***************************************************************************)
EXTENDS Integers, FiniteSets

CONSTANTS Code, Cart, Worker, NoCode, NoCart,
          MaxCrashes   \* bound on calls that die half-way

ASSUME FriendCodesAssumption ==
  /\ NoCode \notin Code /\ NoCart \notin Cart
  /\ IsFiniteSet(Cart) /\ MaxCrashes \in Nat

VARIABLES state,     \* state[c]: ReferralRedemption.status, "NONE" before the row
          owner,     \* owner[c]: ReferralRedemption.cartId
          spentOn,   \* spentOn[c]: ReferralRedemption.orderId
          flagged,   \* redemptions a person must look at: flags is not empty
          active,    \* codes whose Promotion.isActive holds
          lapsed,    \* codes past Promotion.endsAt, 30 days after they were minted
          used,      \* used[c]: Promotion.usageCount
          usages,    \* PromotionUsage: <<code, order>>
          rewards,   \* rewards[c]: THANKS- codes minted for the referrer
          coupon,    \* coupon[k]: Cart.couponCode
          status,    \* status[k]: Order.status, "NONE" before the draft
          carries,   \* carries[k]: Order.promotionId
          instant,   \* orders a payment moved to PAID without staff
          back,      \* back[k]: when money first went back, by the refund window
          blocked,   \* orders with an open dispute: riskLevel BLOCKED
          ripe,      \* orders whose refund window has passed
          job,       \* job[w]: where call w stands
          crashes

rowVars   == <<state, owner, spentOn, flagged, rewards>>
codeVars  == <<active, lapsed, used, usages>>
orderVars == <<status, carries, instant, back, blocked, ripe>>
vars == <<rowVars, codeVars, coupon, orderVars, job, crashes>>

States   == {"NONE", "ISSUED", "PENDING", "REWARDED", "VOID"}
Open     == {"ISSUED", "PENDING"}
Statuses == {"NONE", "PENDING_PAYMENT", "PAYMENT_REVIEW", "PAID", "CANCELLED", "REFUNDED"}
Lost     == {"CANCELLED", "REFUNDED"}

\* What a sweep's batch says of a row: the order it was used on, the clearance,
\* or the cart it belongs to.
Jobs == [at   : {"idle", "mint", "put", "record", "clear", "expire"},
         cart : Cart \cup {NoCart}, code : Code \cup {NoCode},
         rows : SUBSET (Code \X (Cart \cup {NoCart, "CLEAR", "VOID"}))]
Call(step, k, c, rows) == [at |-> step, cart |-> k, code |-> c, rows |-> rows]
Idle == Call("idle", NoCart, NoCode, {})

ReferralTypeOK ==
  /\ state \in [Code -> States] /\ owner \in [Code -> Cart \cup {NoCart}]
  /\ spentOn \in [Code -> Cart \cup {NoCart}] /\ flagged \subseteq Code
  /\ active \subseteq Code /\ lapsed \subseteq Code
  /\ used \in [Code -> Nat] /\ usages \subseteq Code \X Cart /\ rewards \in [Code -> Nat]
  /\ coupon \in [Cart -> Code \cup {NoCode}]
  /\ status \in [Cart -> Statuses] /\ carries \in [Cart -> Code \cup {NoCode}]
  /\ instant \subseteq Cart /\ back \in [Cart -> {"no", "early", "late"}]
  /\ blocked \subseteq Cart /\ ripe \subseteq Cart
  /\ job \in [Worker -> Jobs] /\ crashes \in 0..MaxCrashes

Init == /\ state = [c \in Code |-> "NONE"] /\ owner = [c \in Code |-> NoCart]
        /\ spentOn = [c \in Code |-> NoCart] /\ flagged = {}
        /\ active = {} /\ lapsed = {} /\ used = [c \in Code |-> 0] /\ usages = {}
        /\ rewards = [c \in Code |-> 0]
        /\ coupon = [k \in Cart |-> NoCode]
        /\ status = [k \in Cart |-> "NONE"] /\ carries = [k \in Cart |-> NoCode]
        /\ instant = {} /\ back = [k \in Cart |-> "no"] /\ blocked = {} /\ ripe = {}
        /\ job = [w \in Worker |-> Idle] /\ crashes = 0

-----------------------------------------------------------------------------
At(w, step) == job[w].at = step
Becomes(w, call) == job' = [job EXCEPT ![w] = call]
Return(w) == Becomes(w, Idle)
OwnedBy(k) == {c \in Code : owner[c] = k}

\* couponRefusal: the code still works on a cart.
Valid(c) == c \in active \ lapsed /\ used[c] = 0

\* Mutant: the sweep runs without its lock.
Unlocked_Always(steps) == TRUE

\* withAdvisoryLock: a sweep holds its lock until its call ends or dies.
Unlocked(steps) == \A w \in Worker : job[w].at \notin steps

-----------------------------------------------------------------------------
(***************************************************************************)
(* The friend's cart: attachToCart, a statement at a time, and applyCoupon.*)
(***************************************************************************)
\* The cart has no discount.  A code it was given before is used again, unless
\* that is spent or retired; else one is minted.
AttachToCart(w, k) ==
  /\ At(w, "idle") /\ coupon[k] = NoCode
  /\ \/ OwnedBy(k) = {} /\ Becomes(w, Call("mint", k, NoCode, {}))
     \/ \E c \in OwnedBy(k) : /\ c \in active /\ used[c] = 0
                              /\ Becomes(w, Call("put", k, c, {}))
  /\ UNCHANGED <<rowVars, codeVars, coupon, orderVars, crashes>>

\* The code and its redemption in one transaction; the unique cartId ends the
\* call that comes second.
Mint(w, c) ==
  /\ At(w, "mint") /\ OwnedBy(job[w].cart) = {} /\ state[c] = "NONE"
  /\ state' = [state EXCEPT ![c] = "ISSUED"]
  /\ owner' = [owner EXCEPT ![c] = job[w].cart]
  /\ active' = active \cup {c}
  /\ Becomes(w, Call("put", job[w].cart, c, {}))
  /\ UNCHANGED <<spentOn, flagged, rewards, lapsed, used, usages, coupon, orderVars, crashes>>

MintRaced(w) ==
  /\ At(w, "mint") /\ OwnedBy(job[w].cart) # {}
  /\ Return(w)
  /\ UNCHANGED <<rowVars, codeVars, coupon, orderVars, crashes>>

PutOnCart(w) ==
  LET k == job[w].cart IN
  /\ At(w, "put")
  /\ coupon' = IF coupon[k] = NoCode THEN [coupon EXCEPT ![k] = job[w].code] ELSE coupon
  /\ Return(w)
  /\ UNCHANGED <<rowVars, codeVars, orderVars, crashes>>

\* Somebody types a code they were shown, into any cart.
ApplyCoupon(k, c) ==
  /\ Valid(c)
  /\ coupon' = [coupon EXCEPT ![k] = c]
  /\ UNCHANGED <<rowVars, codeVars, orderVars, job, crashes>>

-----------------------------------------------------------------------------
(***************************************************************************)
(* The order.                                                              *)
(***************************************************************************)
\* start: the draft is written, or written again.  It carries the cart's code
\* while that is active, unless an automatic offer beats it.
Draft(k) ==
  /\ status[k] \in {"NONE", "PENDING_PAYMENT"}
  /\ status' = [status EXCEPT ![k] = "PENDING_PAYMENT"]
  /\ \E c \in {NoCode} \cup ({coupon[k]} \cap active) : carries' = [carries EXCEPT ![k] = c]
  /\ UNCHANGED <<rowVars, codeVars, coupon, instant, back, blocked, ripe, job, crashes>>

\* Mutant: the use is counted whatever the limit says.
TakeUse_Unconditional(c) == used[c] + 1

\* The conditional count of a use: usageCount lt usageLimit, which is 1.
TakeUse(c) == IF used[c] < 1 THEN used[c] + 1 ELSE used[c]

\* markPaid, one transaction.  Any other reason to hold the payment (its amount,
\* its risk, the buyer's earlier orders) is a free choice.  An order without a
\* friend code is not followed past its draft.
TakePayment(k) ==
  LET c == carries[k] IN
  /\ status[k] = "PENDING_PAYMENT" /\ c # NoCode
  /\ used' = [used EXCEPT ![c] = TakeUse(c)]
  /\ usages' = usages \cup {<<c, k>>}
  /\ \E held \in BOOLEAN :
       LET review == held \/ used' = used IN
       /\ status' = [status EXCEPT ![k] = IF review THEN "PAYMENT_REVIEW" ELSE "PAID"]
       /\ instant' = IF review THEN instant ELSE instant \cup {k}
  /\ UNCHANGED <<rowVars, active, lapsed, coupon, carries, back, blocked, ripe, job, crashes>>

\* The checkout's own sweep closes an unpaid draft.
CancelDraft(k) ==
  /\ status[k] = "PENDING_PAYMENT"
  /\ status' = [status EXCEPT ![k] = "CANCELLED"]
  /\ UNCHANGED <<rowVars, codeVars, coupon, carries, instant, back, blocked, ripe, job, crashes>>

\* releaseHold: staff let a held payment go, or lift a dispute's block.
ReleaseHold(k) ==
  /\ status[k] = "PAYMENT_REVIEW" \/ (status[k] = "PAID" /\ k \in blocked)
  /\ status' = [status EXCEPT ![k] = "PAID"]
  /\ blocked' = blocked \ {k}
  /\ UNCHANGED <<rowVars, codeVars, coupon, carries, instant, back, ripe, job, crashes>>

\* A refund: the payment or a Refund row says so, and the order's status as well
\* unless its compare-and-set is lost (recordRefundOutcome skips it then).
Refund(k) ==
  /\ status[k] \in {"PAYMENT_REVIEW", "PAID"}
  /\ back' = IF back[k] = "no" THEN [back EXCEPT ![k] = IF k \in ripe THEN "late" ELSE "early"]
             ELSE back
  /\ \E to \in {"REFUNDED", status[k]} : status' = [status EXCEPT ![k] = to]
  /\ UNCHANGED <<rowVars, codeVars, coupon, carries, instant, blocked, ripe, job, crashes>>

Dispute(k) ==
  /\ status[k] \in {"PAYMENT_REVIEW", "PAID", "REFUNDED"}
  /\ blocked' = blocked \cup {k}
  /\ UNCHANGED <<rowVars, codeVars, coupon, status, carries, instant, back, ripe, job, crashes>>

\* Time passes: a code's thirty days, an order's refund window.
Lapse(c) ==
  /\ state[c] # "NONE"
  /\ lapsed' = lapsed \cup {c}
  /\ UNCHANGED <<rowVars, active, used, usages, coupon, orderVars, job, crashes>>

Ripen(k) ==
  /\ status[k] \in {"PAYMENT_REVIEW", "PAID", "REFUNDED"}
  /\ ripe' = ripe \cup {k}
  /\ UNCHANGED <<rowVars, codeVars, coupon, status, carries, instant, back, blocked, job, crashes>>

-----------------------------------------------------------------------------
(***************************************************************************)
(* The referral sweep: recordPaid, then clear, each on rows read at once.  *)
(***************************************************************************)
\* The ISSUED rows whose code was used, each with one usage of it.
StartSweep(w) ==
  /\ At(w, "idle") /\ Unlocked({"record", "clear"})
  /\ \E rows \in SUBSET usages :
       /\ {r[1] : r \in rows} =
            {c \in Code : state[c] = "ISSUED" /\ \E k \in Cart : <<c, k>> \in usages}
       /\ \A r, q \in rows : r[1] = q[1] => r = q
       /\ Becomes(w, Call("record", NoCart, NoCode, rows))
  /\ UNCHANGED <<rowVars, codeVars, coupon, orderVars, crashes>>

Worked(w, r) == Becomes(w, [job[w] EXCEPT !.rows = @ \ {r}])

\* A friend who turns out to be the referrer voids the row; anybody else's order
\* is recorded, with flags or without.  Neither write asks for the status again.
RecordPaid(w, r) ==
  LET c == r[1] IN
  /\ At(w, "record") /\ r \in job[w].rows
  /\ spentOn' = [spentOn EXCEPT ![c] = r[2]]
  /\ \/ state' = [state EXCEPT ![c] = "VOID"] /\ UNCHANGED flagged
     \/ /\ state' = [state EXCEPT ![c] = "PENDING"]
        /\ flagged' \in {flagged \cup {c}, flagged \ {c}}
  /\ Worked(w, r)
  /\ UNCHANGED <<owner, rewards, codeVars, coupon, orderVars, crashes>>

\* referralClearance.
Clearance(k) ==
  IF status[k] \in Lost \/ back[k] # "no" \/ k \in blocked THEN "VOID"
  ELSE IF status[k] = "PAID" /\ k \in ripe THEN "CLEAR" ELSE "WAIT"

\* The unflagged PENDING rows, with what their order says now.
StartClear(w) ==
  /\ At(w, "record") /\ job[w].rows = {}
  /\ Becomes(w, Call("clear", NoCart, NoCode,
       {r \in Code \X {"CLEAR", "VOID"} : /\ state[r[1]] = "PENDING" /\ r[1] \notin flagged
                                          /\ Clearance(spentOn[r[1]]) = r[2]}))
  /\ UNCHANGED <<rowVars, codeVars, coupon, orderVars, crashes>>

Void(w, r) ==
  LET c == r[1] IN
  /\ At(w, "clear") /\ r \in job[w].rows /\ r[2] = "VOID"
  /\ state' = IF state[c] \in Open THEN [state EXCEPT ![c] = "VOID"] ELSE state
  /\ Worked(w, r)
  /\ UNCHANGED <<owner, spentOn, flagged, rewards, codeVars, coupon, orderVars, crashes>>

\* reward: the status moves and the referrer's code is minted, in one transaction.
Reward(w, r) ==
  LET c == r[1] IN
  /\ At(w, "clear") /\ r \in job[w].rows /\ r[2] = "CLEAR"
  /\ IF state[c] = "PENDING"
     THEN /\ state' = [state EXCEPT ![c] = "REWARDED"]
          /\ rewards' = [rewards EXCEPT ![c] = @ + 1]
     ELSE UNCHANGED <<state, rewards>>
  /\ Worked(w, r)
  /\ UNCHANGED <<owner, spentOn, flagged, codeVars, coupon, orderVars, crashes>>

-----------------------------------------------------------------------------
(***************************************************************************)
(* The expiry sweep, and staff.                                            *)
(***************************************************************************)
\* ISSUED rows past their date whose code was never used and is on no order that
\* could still be paid.
Expirable(c) ==
  /\ state[c] = "ISSUED" /\ c \in lapsed
  /\ \A k \in Cart : /\ <<c, k>> \notin usages
                     /\ carries[k] = c => status[k] \notin {"PENDING_PAYMENT", "PAYMENT_REVIEW"}

StartExpiry(w) ==
  /\ At(w, "idle") /\ Unlocked({"expire"})
  /\ Becomes(w, Call("expire", NoCart, NoCode, {<<c, owner[c]>> : c \in {d \in Code : Expirable(d)}}))
  /\ UNCHANGED <<rowVars, codeVars, coupon, orderVars, crashes>>

Expire(w, r) ==
  LET c == r[1]  k == r[2] IN
  /\ At(w, "expire") /\ r \in job[w].rows
  /\ IF state[c] = "ISSUED"
     THEN /\ state' = [state EXCEPT ![c] = "VOID"]
          /\ owner' = [owner EXCEPT ![c] = NoCart]
          /\ active' = active \ {c}
          /\ coupon' = [j \in Cart |-> IF j = k /\ coupon[j] = c THEN NoCode ELSE coupon[j]]
     ELSE UNCHANGED <<state, owner, active, coupon>>
  /\ Worked(w, r)
  /\ UNCHANGED <<spentOn, flagged, rewards, lapsed, used, usages, orderVars, crashes>>

EndSweep(w) ==
  /\ At(w, "clear") \/ At(w, "expire")
  /\ job[w].rows = {}
  /\ Return(w)
  /\ UNCHANGED <<rowVars, codeVars, coupon, orderVars, crashes>>

Approve(c) ==
  /\ state[c] = "PENDING"
  /\ flagged' = flagged \ {c}
  /\ UNCHANGED <<state, owner, spentOn, rewards, codeVars, coupon, orderVars, job, crashes>>

\* Mutant: the reason is written into the status.
Reject_Reason(c) ==
  /\ state[c] \in Open
  /\ state' = [state EXCEPT ![c] = "REJECTED_BY_STAFF"]
  /\ UNCHANGED <<owner, spentOn, flagged, rewards, codeVars, coupon, orderVars, job, crashes>>

Reject(c) ==
  /\ state[c] \in Open
  /\ state' = [state EXCEPT ![c] = "VOID"]
  /\ UNCHANGED <<owner, spentOn, flagged, rewards, codeVars, coupon, orderVars, job, crashes>>

Crash(w) ==
  /\ ~At(w, "idle") /\ crashes < MaxCrashes
  /\ crashes' = crashes + 1
  /\ Return(w)
  /\ UNCHANGED <<rowVars, codeVars, coupon, orderVars>>

-----------------------------------------------------------------------------
Environment ==
  \/ \E k \in Cart : \/ \E c \in Code : ApplyCoupon(k, c)
                     \/ Draft(k) \/ TakePayment(k) \/ CancelDraft(k) \/ ReleaseHold(k)
                     \/ Refund(k) \/ Dispute(k) \/ Ripen(k)
  \/ \E c \in Code : Lapse(c) \/ Approve(c) \/ Reject(c)

Begin(w) == (\E k \in Cart : AttachToCart(w, k)) \/ StartSweep(w) \/ StartExpiry(w)

Proceed(w) ==
  \/ (\E c \in Code : Mint(w, c)) \/ MintRaced(w) \/ PutOnCart(w)
  \/ \E r \in job[w].rows : RecordPaid(w, r) \/ Void(w, r) \/ Reward(w, r) \/ Expire(w, r)
  \/ StartClear(w) \/ EndSweep(w)

Next == Environment \/ \E w \in Worker : Begin(w) \/ Proceed(w) \/ Crash(w)

Spec == Init /\ [][Next]_vars
-----------------------------------------------------------------------------
(***************************************************************************)
(* Properties.                                                             *)
(***************************************************************************)
\* The referrer is paid once, for an order that was paid with this very code,
\* is no other redemption's, and from which no money had gone back when its
\* refund window passed, whatever staff, refunds and the expiry sweep do between
\* the statements of the sweep.
RewardIsEarned ==
  \A c \in Code :
    /\ rewards[c] = (IF state[c] = "REWARDED" THEN 1 ELSE 0)
    /\ state[c] = "REWARDED" =>
         /\ <<c, spentOn[c]>> \in usages
         /\ spentOn[c] \in ripe /\ back[spentOn[c]] # "early"
         /\ \A d \in Code \ {c} : spentOn[d] # spentOn[c]

\* However many drafts carry a friend code and however their payments race, one
\* order at most is released at its price without a person having looked.
CodeIsReleasedOnce ==
  \A c \in Code :
    /\ used[c] <= 1
    /\ \A j, k \in instant : <<c, j>> \in usages /\ <<c, k>> \in usages => j = k

(***************************************************************************)
(* The ledger this programme implements.                                   *)
(***************************************************************************)
\* What the ledger speaks of: the orders whose money was still there when their
\* refund window passed, and the order each rewarded redemption is for.
Ledger == INSTANCE ReferralLedger WITH
  Order <- Cart, NoOrder <- NoCart, uses <- usages, released <- instant, thanks <- rewards,
  kept <- {k \in ripe : back[k] # "early"},
  rewarded <- [c \in Code |-> IF state[c] = "REWARDED" THEN spentOn[c] ELSE NoCart]

\* A reward, once given, stays given and stays for its order, whatever sweeps,
\* staff, refunds and calls that die do later; and only the first order that pays
\* with a code is released without a person.
ReferralIsKept == Ledger!Spec
=============================================================================
