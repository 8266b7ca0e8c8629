------------------------- MODULE StockHolds_proofs -------------------------
(***************************************************************************)
(* The safety properties of StockHolds, for any number of carts, orders,   *)
(* rows and requests.  Each part strengthens its property to an invariant: *)
(*                                                                         *)
(*   Holding  one request at a time is behind the inventory lock, and the  *)
(*            rows it swept and the one it found include every live hold   *)
(*            of its cart: nobody creates one in between;                  *)
(*   Typed    the types, and what a request's step says of its numbers;    *)
(*   Sales    one payment of an order at a time is past its                *)
(*            compare-and-set, only paid orders have sold, and the shelf   *)
(*            and the movements add up;                                    *)
(*   Owned    the rows a request will write are its cart's own, and the    *)
(*            hold it found still stands for what was read of it;          *)
(*   Counter  the cached counter is the sum of the live holds;             *)
(*   Room     what the live holds promise, and what a request is about to  *)
(*            write beside those it leaves alone, fit on the shelf;        *)
(*   Swept    what a request is about to sweep has lapsed, and what a      *)
(*            payment is about to consume is its own cart's; with the      *)
(*            above, every step is one of CartHolds or none.               *)
(***************************************************************************)
EXTENDS StockHolds, FiniteSetTheorems, TLAPS

OneWriter == \A v, w \in Worker : Holds(v) /\ Holds(w) => v = w

WriterCovers ==
  \A w \in Worker : Holds(w) => HeldBy(job[w].cart) \subseteq job[w].rows \cup {job[w].mine}

Holding == /\ job \in [Worker -> Jobs]
           /\ OneWriter
           /\ WriterCovers
           /\ OneHoldPerCart

-----------------------------------------------------------------------------
(***************************************************************************)
(* What the actions have in common.                                        *)
(***************************************************************************)
\* The records the requests start from, and the ones they end with, are jobs.
LEMMA JobsAreTyped ==
  /\ Idle \in Jobs
  /\ \A op \in {"none", "add", "set", "clear", "draft", "pay", "recount"} :
       [Idle EXCEPT !.at = "refused", !.op = op] \in Jobs
BY StockAssumption DEF Idle, Jobs, Steps

\* A request that moves anywhere but behind the inventory lock, while no hold comes
\* to life or changes hands, disturbs nothing (every action is of this kind but the
\* two that take the lock and count, and the write).
LEMMA QuietStep ==
  ASSUME Holding, NEW w \in Worker, NEW call \in Jobs, call.at \notin {"sum", "write"},
         job' = [job EXCEPT ![w] = call],
         Active' \subseteq Active, holdCart' = holdCart
  PROVE  Holding'
<1> DEFINE Fresh == [job EXCEPT ![w] = call]
<1>1. Fresh \in [Worker -> Jobs]
  BY DEF Holding
<1>2. \A v \in Worker : Fresh[v].at \in {"sum", "write"} => v # w /\ Fresh[v] = job[v]
  BY DEF Holding
<1>3. \A c : HeldBy(c)' \subseteq HeldBy(c)
  BY DEF HeldBy
<1>4. OneWriter'
  BY <1>2 DEF Holding, OneWriter, Holds
<1>5. WriterCovers'
  BY <1>2, <1>3 DEF Holding, WriterCovers, Holds
<1>6. OneHoldPerCart'
  BY DEF Holding, OneHoldPerCart
<1> QED
  BY <1>1, <1>4, <1>5, <1>6 DEF Holding

\* The same when no job changes at all.
LEMMA IdleStep ==
  ASSUME Holding, UNCHANGED job, Active' \subseteq Active, holdCart' = holdCart
  PROVE  Holding'
<1>1. \A c : HeldBy(c)' \subseteq HeldBy(c)
  BY DEF HeldBy
<1>2. WriterCovers'
  BY <1>1 DEF Holding, WriterCovers, Holds
<1> QED
  BY <1>2 DEF Holding, OneWriter, OneHoldPerCart, Holds

\* A request that ends, with an answer or with an error.
LEMMA EndingStep ==
  ASSUME Holding, NEW w \in Worker, Return(w) \/ Refuse(w),
         Active' \subseteq Active, holdCart' = holdCart
  PROVE  Holding'
<1>1. CASE Return(w)
  BY <1>1, JobsAreTyped, QuietStep DEF Return, Ends, Becomes, Idle
<1>2. CASE Refuse(w)
  <2> DEFINE call == [Idle EXCEPT !.at = "refused", !.op = job[w].op]
  <2>1. job[w].op \in {"none", "add", "set", "clear", "draft", "pay", "recount"}
    BY DEF Holding, Jobs
  <2>2. call \in Jobs /\ call.at \notin {"sum", "write"}
    BY <2>1, JobsAreTyped DEF Idle
  <2> QED
    BY <1>2, <2>2, QuietStep DEF Refuse, Ends, Becomes
<1> QED
  BY <1>1, <1>2

-----------------------------------------------------------------------------
(***************************************************************************)
(* The two steps that matter.                                              *)
(***************************************************************************)
\* FindHold takes the lock: nobody else is behind it, and what it sweeps and what it
\* finds cover its cart's live holds, because there is at most one that is not swept.
LEMMA FindKeeps ==
  ASSUME Holding, NEW w \in Worker, FindHold(w)
  PROVE  Holding'
<1> DEFINE gone == Active \cap lapsed
           own == HeldBy(job[w].cart) \ gone
<1>1. /\ job[w] \in Jobs /\ job[w].at = "count"
      /\ \A v \in Worker \ {w} : ~Holds(v)
      /\ UNCHANGED holds
  BY DEF Holding, FindHold, Look, At, InventoryFree
<1>2. Active' = Active /\ holdCart' = holdCart
  BY <1>1 DEF holds, Active
<1>3. PICK m \in IF own = {} THEN {NoRow} ELSE own :
        Becomes(w, [job[w] EXCEPT !.at = "sum", !.mine = m, !.rows = gone])
  BY DEF FindHold, Look
<1> DEFINE call == [job[w] EXCEPT !.at = "sum", !.mine = m, !.rows = gone]
<1>4. gone \subseteq Row /\ own \subseteq Row
  BY DEF HeldBy, Active
<1>5. call \in Jobs
  BY <1>1, <1>3, <1>4 DEF Jobs, Steps
<1>6. call.cart = job[w].cart /\ call.mine = m /\ call.rows = gone
  BY <1>1 DEF Jobs
<1>7. /\ job' \in [Worker -> Jobs] /\ job'[w] = call
      /\ \A v \in Worker \ {w} : job'[v] = job[v]
  BY <1>3, <1>5 DEF Holding, Becomes
<1>8. OneWriter'
  BY <1>1, <1>7 DEF OneWriter, Holds
<1>9. own \subseteq {m}
  BY <1>3, <1>4 DEF Holding, OneHoldPerCart, HeldBy
<1>10. HeldBy(call.cart) \subseteq call.rows \cup {call.mine}
  BY <1>6, <1>9
<1>11. \A c : HeldBy(c)' = HeldBy(c)
  BY <1>2 DEF HeldBy
<1>12. WriterCovers'
  BY <1>1, <1>7, <1>10, <1>11 DEF WriterCovers, Holds
<1>13. OneHoldPerCart'
  BY <1>2 DEF Holding, OneHoldPerCart
<1> QED
  BY <1>7, <1>8, <1>12, <1>13 DEF Holding

\* Counting changes nothing of that, whether it ends in an answer or in a write.
LEMMA CountKeeps ==
  ASSUME Holding, NEW w \in Worker, CountHolds(w)
  PROVE  Holding'
<1>1. /\ job[w] \in Jobs /\ job[w].at = "sum" /\ Holds(w)
      /\ UNCHANGED holds
  BY DEF Holding, CountHolds, Decide, At, Holds
<1>2. Active' = Active /\ holdCart' = holdCart
  BY <1>1 DEF holds, Active
<1>3. CASE Ends(w, [job[w] EXCEPT !.at = "soldout"])
  <2> DEFINE call == [job[w] EXCEPT !.at = "soldout"]
  <2>1. call \in Jobs /\ call.at \notin {"sum", "write"}
    BY <1>1 DEF Jobs, Steps
  <2> QED
    BY <1>2, <1>3, <2>1, QuietStep DEF Ends, Becomes
<1>4. CASE Becomes(w, [job[w] EXCEPT !.at = "write"])
  <2> DEFINE call == [job[w] EXCEPT !.at = "write"]
  <2>1. /\ call \in Jobs /\ call.cart = job[w].cart /\ call.mine = job[w].mine
        /\ call.rows = job[w].rows
    BY <1>1 DEF Jobs, Steps
  <2>2. /\ job' \in [Worker -> Jobs] /\ job'[w] = call
        /\ \A v \in Worker \ {w} : job'[v] = job[v]
    BY <1>4, <2>1 DEF Holding, Becomes
  <2>3. \A v \in Worker : Holds(v)' => Holds(v)
    BY <1>1, <2>2 DEF Holds
  <2>4. OneWriter'
    BY <2>3 DEF Holding, OneWriter
  <2>5. \A c : HeldBy(c)' = HeldBy(c)
    BY <1>2 DEF HeldBy
  <2>6. \A v \in Worker : /\ job'[v].cart = job[v].cart /\ job'[v].mine = job[v].mine
                          /\ job'[v].rows = job[v].rows
    BY <2>1, <2>2
  <2>7. WriterCovers'
    BY <2>3, <2>5, <2>6 DEF Holding, WriterCovers
  <2>8. OneHoldPerCart'
    BY <1>2 DEF Holding, OneHoldPerCart
  <2> QED
    BY <2>2, <2>4, <2>7, <2>8 DEF Holding
<1> QED
  BY <1>3, <1>4 DEF CountHolds, Decide

\* WriteHold leaves one live hold of its cart at most: every other was swept, and
\* the lock it gives back was nobody else's.
LEMMA WriteKeeps ==
  ASSUME Holding, NEW w \in Worker, WriteHold(w)
  PROVE  Holding'
<1>1. PICK target \in Targets(w) : Grant(w, target)
  BY DEF WriteHold
<1>2. /\ Holds(w) /\ HeldBy(job[w].cart) \subseteq job[w].rows \cup {job[w].mine}
  BY DEF WriteHold, Holding, WriterCovers, Holds, At
<1>3. job' = [job EXCEPT ![w] = Idle]
  BY DEF WriteHold, Return, Ends, Becomes
<1>4. job' \in [Worker -> Jobs]
  BY <1>3, JobsAreTyped DEF Holding
<1>5. \A v \in Worker : ~Holds(v)'
  <2>1. ASSUME NEW v \in Worker, v # w PROVE ~Holds(v)'
    BY <1>2, <1>3, <2>1 DEF Holding, OneWriter, Holds
  <2>2. ~Holds(w)'
    BY <1>3 DEF Holding, Holds, Idle
  <2> QED
    BY <2>1, <2>2
<1>6. \A r \in Active' : /\ r \in Row
                         /\ r = target => holdCart'[r] = job[w].cart
                         /\ r # target => /\ r \in Active /\ r \notin job[w].rows
                                          /\ holdCart'[r] = holdCart[r]
  <2> SUFFICES ASSUME NEW r \in Row, holdState'[r] = "ACTIVE"
               PROVE  /\ r = target => holdCart'[r] = job[w].cart
                      /\ r # target => /\ r \in Active /\ r \notin job[w].rows
                                       /\ holdCart'[r] = holdCart[r]
    BY DEF Active
  <2>1. holdState'[r] = IF r = target THEN Granted(w, target)
                        ELSE IF r \in job[w].rows THEN "EXPIRED" ELSE holdState[r]
    BY <1>1 DEF Grant, StateAfter
  <2>2. holdCart'[r] = IF r \in {target} \cap {q \in Row : read[w].num > 0}
                       THEN job[w].cart ELSE holdCart[r]
    BY <1>1 DEF Grant
  <2>3. CASE r = target
    BY <2>1, <2>2, <2>3 DEF Granted
  <2>4. CASE r # target
    BY <2>1, <2>2, <2>4 DEF Active
  <2> QED
    BY <2>3, <2>4
<1>7. job[w].mine \in Active' => job[w].mine = target
  <2>1. job[w].mine # NoRow => target = job[w].mine
    BY <1>1 DEF Targets
  <2> QED BY <1>6, <2>1, StockAssumption
<1>8. \A r \in Active' : r # target => r \notin HeldBy(job[w].cart)
  BY <1>2, <1>6, <1>7
<1>9. ASSUME NEW q \in Active', NEW r \in Active', holdCart'[q] = holdCart'[r], q # r
      PROVE  FALSE
  <2>1. CASE q # target /\ r # target
    BY <1>6, <1>9, <2>1 DEF Holding, OneHoldPerCart
  <2>2. CASE q = target
    BY <1>6, <1>8, <1>9, <2>2 DEF HeldBy
  <2>3. CASE r = target
    BY <1>6, <1>8, <1>9, <2>3 DEF HeldBy
  <2> QED
    BY <2>1, <2>2, <2>3
<1>10. OneHoldPerCart'
  BY <1>9 DEF OneHoldPerCart
<1> QED
  BY <1>4, <1>5, <1>10 DEF Holding, OneWriter, WriterCovers

-----------------------------------------------------------------------------
(***************************************************************************)
(* The other actions, by what they do to the job.                          *)
(***************************************************************************)
\* The request moves on, not behind the inventory lock.
MovesOn(w) == \E call \in Jobs : call.at \notin {"sum", "write"} /\ Becomes(w, call)

\* A request that begins: a hold, an emptied cart, a draft, a payment, a recount.
LEMMA BeginKeeps ==
  ASSUME Holding, NEW w \in Worker, Begin(w)
  PROVE  Holding'
<1>1. MovesOn(w)
  <2>1. ASSUME NEW c \in Cart, NEW q \in 0..MaxQty, AskHold(w, c, q) PROVE MovesOn(w)
    <3>1. PICK op \in {"add", "set"} :
            Becomes(w, [Idle EXCEPT !.at = "count", !.op = op, !.cart = c])
      BY <2>1 DEF AskHold
    <3>2. [Idle EXCEPT !.at = "count", !.op = op, !.cart = c] \in Jobs
      BY DEF Idle, Jobs, Steps
    <3>3. [Idle EXCEPT !.at = "count", !.op = op, !.cart = c].at \notin {"sum", "write"}
      BY DEF Idle
    <3> QED
      BY <3>1, <3>2, <3>3 DEF MovesOn
  <2>2. ASSUME NEW c \in Cart, Empty(w, c) PROVE MovesOn(w)
    <3> DEFINE call == [Idle EXCEPT !.at = "find", !.op = "clear", !.cart = c]
    <3>1. call \in Jobs /\ call.at \notin {"sum", "write"}
      BY DEF Idle, Jobs, Steps
    <3> QED
      BY <2>2, <3>1 DEF Empty, MovesOn
  <2>3. ASSUME NEW c \in Cart, ReadCart(w, c) PROVE MovesOn(w)
    <3> DEFINE call == [Idle EXCEPT !.at = "lookup", !.op = "draft", !.cart = c]
    <3>1. call \in Jobs /\ call.at \notin {"sum", "write"}
      BY DEF Idle, Jobs, Steps
    <3> QED
      BY <2>3, <3>1 DEF ReadCart, MovesOn
  <2>4. ASSUME NEW o \in Order, TakePayment(w, o) PROVE MovesOn(w)
    <3> DEFINE own == HeldBy(CartOf[o])
               call == [Idle EXCEPT !.at = "sell", !.op = "pay", !.ord = o, !.rows = own]
    <3>1. own \subseteq Row
      BY DEF HeldBy, Active
    <3>2. call \in Jobs /\ call.at \notin {"sum", "write"}
      BY <3>1 DEF Idle, Jobs, Steps
    <3> QED
      BY <2>4, <3>2 DEF TakePayment, ReadHolds, MovesOn
  <2>5. ASSUME NEW truth \in 0..MaxTruth, ReadLevel(w, truth) PROVE MovesOn(w)
    <3> DEFINE call == [Idle EXCEPT !.at = "level", !.op = "recount"]
    <3>1. call \in Jobs /\ call.at \notin {"sum", "write"}
      BY DEF Idle, Jobs, Steps
    <3> QED
      BY <2>5, <3>1 DEF ReadLevel, MovesOn
  <2> QED
    BY <2>1, <2>2, <2>3, <2>4, <2>5 DEF Begin
<1>2. UNCHANGED holds
  BY DEF Begin, AskHold, Empty, ReadCart, TakePayment, ReadHolds, ReadLevel
<1>3. Active' = Active /\ holdCart' = holdCart
  BY <1>2 DEF holds, Active
<1> QED
  BY <1>1, <1>3, QuietStep DEF MovesOn, Becomes

\* A request that goes on and leaves the holds alone.
LEMMA OnwardKeeps ==
  ASSUME Holding, NEW w \in Worker,
         FindHolds(w) \/ ReleaseHolds(w) \/ FindDraft(w) \/ WriteLevel(w)
  PROVE  Holding'
<1>1. job[w] \in Jobs
  BY DEF Holding
<1>2. MovesOn(w)
  <2>1. CASE FindHolds(w)
    <3> DEFINE call == [job[w] EXCEPT !.at = "release", !.sync = HeldBy(job[w].cart) # {}]
    <3>1. call \in Jobs /\ call.at \notin {"sum", "write"}
      BY <1>1 DEF Jobs, Steps
    <3> QED
      BY <2>1, <3>1 DEF FindHolds, MovesOn
  <2>2. CASE ReleaseHolds(w)
    <3> DEFINE own == HeldBy(job[w].cart)
               call == [job[w] EXCEPT !.at = "empty", !.rows = own]
    <3>1. own \subseteq Row
      BY DEF HeldBy, Active
    <3>2. call \in Jobs /\ call.at \notin {"sum", "write"}
      BY <1>1, <3>1 DEF Jobs, Steps
    <3> QED
      BY <2>2, <3>2 DEF ReleaseHolds, MovesOn
  <2>3. CASE FindDraft(w)
    <3>1. PICK o \in Order \cup {NoOrder} :
            Becomes(w, [job[w] EXCEPT !.at = "draft", !.ord = o])
      BY <2>3 DEF FindDraft
    <3> DEFINE call == [job[w] EXCEPT !.at = "draft", !.ord = o]
    <3>2. call \in Jobs /\ call.at \notin {"sum", "write"}
      BY <1>1 DEF Jobs, Steps
    <3> QED
      BY <3>1, <3>2 DEF MovesOn
  <2>4. CASE WriteLevel(w)
    <3> DEFINE call == [job[w] EXCEPT !.at = "log"]
    <3>1. call \in Jobs /\ call.at \notin {"sum", "write"}
      BY <1>1 DEF Jobs, Steps
    <3> QED
      BY <2>4, <3>1 DEF WriteLevel, MovesOn
  <2> QED
    BY <2>1, <2>2, <2>3, <2>4
<1>3. UNCHANGED holds
  BY DEF FindHolds, ReleaseHolds, FindDraft, WriteLevel
<1>4. Active' = Active /\ holdCart' = holdCart
  BY <1>3 DEF holds, Active
<1> QED
  BY <1>2, <1>4, QuietStep DEF MovesOn, Becomes

\* A request that ends; emptying a cart and selling turn live holds into dead ones.
LEMMA EndKeeps ==
  ASSUME Holding, NEW w \in Worker,
         \/ LineIsGone(w) \/ WriteHoldFails(w) \/ EmptyCart(w) \/ EmptyCartFails(w)
         \/ WriteDraft(w) \/ Sell(w) \/ SellFails(w) \/ WriteLevelFails(w)
         \/ LogRecount(w) \/ Answered(w) \/ Abort(w)
  PROVE  Holding'
<1>1. Return(w) \/ Refuse(w)
  BY DEF LineIsGone, WriteHoldFails, EmptyCart, EmptyCartFails, WriteDraft, Sell,
         SellFails, WriteLevelFails, LogRecount, Answered, Abort
<1>2. Active' \subseteq Active /\ holdCart' = holdCart
  <2>1. CASE EmptyCart(w)
    BY <2>1 DEF EmptyCart, Active
  <2>2. CASE Sell(w)
    BY <2>2 DEF Sell, Active
  <2>3. CASE UNCHANGED holds
    BY <2>3 DEF holds, Active
  <2> QED
    BY <2>1, <2>2, <2>3
    DEF LineIsGone, WriteHoldFails, EmptyCartFails, WriteDraft, SellFails,
        WriteLevelFails, LogRecount, Answered, Abort
<1> QED
  BY <1>1, <1>2, EndingStep

\* Time passing changes which holds have lapsed, not which are live.
LEMMA ClockKeeps ==
  ASSUME Holding, Clock
  PROVE  Holding'
<1>1. UNCHANGED <<job, holdState, holdCart>>
  BY DEF Clock, Lapse, Renew
<1>2. Active' = Active
  BY <1>1 DEF Active
<1> QED
  BY <1>1, <1>2, IdleStep

-----------------------------------------------------------------------------
LEMMA HoldingInit == Init => Holding
<1> SUFFICES ASSUME Init PROVE Holding
  OBVIOUS
<1>1. job \in [Worker -> Jobs]
  BY JobsAreTyped DEF Init
<1>2. \A w \in Worker : ~Holds(w)
  BY DEF Init, Holds, Idle
<1>3. Active = {}
  BY DEF Init, Active
<1> QED
  BY <1>1, <1>2, <1>3 DEF Holding, OneWriter, WriterCovers, OneHoldPerCart

LEMMA HoldingNext == Holding /\ [Next]_vars => Holding'
<1> SUFFICES ASSUME Holding, [Next]_vars PROVE Holding'
  OBVIOUS
<1>1. ASSUME NEW w \in Worker, Begin(w) PROVE Holding'
  BY <1>1, BeginKeeps
<1>2. ASSUME NEW w \in Worker, Proceed(w) PROVE Holding'
  BY <1>2, FindKeeps, CountKeeps, WriteKeeps, OnwardKeeps, EndKeeps DEF Proceed
<1>3. ASSUME NEW w \in Worker, Abort(w) PROVE Holding'
  BY <1>3, EndKeeps
<1>4. CASE Clock
  BY <1>4, ClockKeeps
<1>5. CASE UNCHANGED vars
  <2>1. UNCHANGED <<job, holdState, holdCart>>
    BY <1>5 DEF vars, holds
  <2>2. Active' = Active
    BY <2>1 DEF Active
  <2> QED
    BY <2>1, <2>2, IdleStep
<1> QED
  BY <1>1, <1>2, <1>3, <1>4, <1>5 DEF Next

LEMMA HoldingAlways == Spec => []Holding
BY HoldingInit, HoldingNext, PTL DEF Spec

\* OneHoldPerCart for any number of carts, orders, rows and requests, whatever
\* else runs: hold's check-then-insert (reservations.ts) is safe under two tabs,
\* emptied carts, payments and recounts.
THEOREM OneLiveHold == Spec => []OneHoldPerCart
<1>1. Holding => OneHoldPerCart
  BY DEF Holding
<1> QED
  BY <1>1, HoldingAlways, PTL

-----------------------------------------------------------------------------
(***************************************************************************)
(* Sums of quantities.                                                     *)
(***************************************************************************)
LEMMA UnitsAreFinite ==
  ASSUME NEW S, IsFiniteSet(S), NEW f
  PROVE  IsFiniteSet(Units(f, S)) /\ Sum(f, S) \in Nat
<1>1. IsFiniteSet(1..MaxQty)
  BY FS_Interval, StockAssumption
<1>2. IsFiniteSet(S \X (1..MaxQty))
  BY <1>1, FS_Product
<1>3. Units(f, S) \in SUBSET (S \X (1..MaxQty))
  BY DEF Units
<1>4. IsFiniteSet(Units(f, S))
  BY <1>2, <1>3, FS_Subset
<1> QED BY <1>4, FS_CardinalityType DEF Sum

LEMMA SumOfNothing == \A f : Sum(f, {}) = 0
<1>1. \A f : Units(f, {}) = {}
  BY DEF Units
<1> QED BY <1>1, FS_EmptySet DEF Sum

\* Holds are rows, which are finitely many.
LEMMA RowsAreFinite == \A S \in SUBSET Row : IsFiniteSet(S)
BY FS_Subset, StockAssumption

\* More holds, more units.
LEMMA SumGrows ==
  ASSUME NEW T, IsFiniteSet(T), NEW S \in SUBSET T, NEW f
  PROVE  Sum(f, S) <= Sum(f, T)
<1>1. Units(f, S) \in SUBSET Units(f, T)
  BY DEF Units
<1> QED BY <1>1, UnitsAreFinite, FS_Subset DEF Sum

\* The sum of a set depends on its own quantities only.
LEMMA SumSame ==
  ASSUME NEW S, NEW f, NEW g, \A r \in S : f[r] = g[r]
  PROVE  Sum(f, S) = Sum(g, S)
<1>1. Units(f, S) = Units(g, S)
  BY DEF Units
<1> QED BY <1>1 DEF Sum

LEMMA UnitsOfOne ==
  ASSUME NEW r, NEW n \in Nat
  PROVE  IsFiniteSet({r} \X (1..n)) /\ Cardinality({r} \X (1..n)) = n
<1>1. IsFiniteSet(1..n) /\ Cardinality(1..n) = n
  BY FS_Interval
<1>2. IsFiniteSet({r}) /\ Cardinality({r}) = 1
  BY FS_Singleton
<1>3. IsFiniteSet({r} \X (1..n))
      /\ Cardinality({r} \X (1..n)) = Cardinality({r}) * Cardinality(1..n)
  BY <1>1, <1>2, FS_Product, Zenon
<1> QED BY <1>1, <1>2, <1>3

\* One more hold adds its quantity.
LEMMA SumAdds ==
  ASSUME NEW S, IsFiniteSet(S), NEW r, r \notin S, NEW f, f[r] \in 0..MaxQty
  PROVE  Sum(f, S \cup {r}) = Sum(f, S) + f[r]
<1> DEFINE One == {r} \X (1..f[r])
<1>0. f[r] \in Nat
  BY StockAssumption
<1>1. IsFiniteSet(One) /\ Cardinality(One) = f[r]
  BY <1>0, UnitsOfOne
<1>2. Units(f, S \cup {r}) = Units(f, S) \cup One
  BY StockAssumption DEF Units
<1>3. Units(f, S) \cap One = {}
  BY DEF Units
<1>4. IsFiniteSet(Units(f, S)) /\ Cardinality(Units(f, S)) \in Nat
  BY UnitsAreFinite, FS_CardinalityType
<1> HIDE DEF One
<1>5. Cardinality(Units(f, S) \cup One)
        = Cardinality(Units(f, S)) + Cardinality(One) - Cardinality(Units(f, S) \cap One)
  BY <1>1, <1>4, FS_Union
<1>6. Cardinality(Units(f, S) \cap One) = 0
  BY <1>3, FS_EmptySet
<1>7. Cardinality(Units(f, S) \cup One) = Cardinality(Units(f, S)) + f[r]
  BY <1>0, <1>1, <1>4, <1>5, <1>6
<1> QED BY <1>2, <1>7, Zenon DEF Sum
-----------------------------------------------------------------------------
(***************************************************************************)
(* Types, and what a request holds at each step.                           *)
(***************************************************************************)
Numbers == [num : Nat, prev : Nat, took : [Row -> 0..MaxQty]]

\* What job c and its numbers n say of each other.
Says(c, n) ==
  /\ c.at \in {"count", "sum", "write"} =>
       c.op \in {"add", "set"} /\ c.cart \in Cart /\ n.num \in 0..MaxQty
  /\ c.at \in {"count", "sum"} /\ c.op = "add" => n.num > 0
  /\ c.at \in {"find", "release", "empty"} => c.op = "clear" /\ c.cart \in Cart /\ Clears
  /\ c.at \in {"lookup", "draft"} => c.op = "draft" /\ c.cart \in Cart /\ n.num \in 0..MaxQty
  /\ c.at = "sell" => c.op = "pay" /\ c.ord \in Order
  /\ c.at \in {"level", "log"} => c.op = "recount" /\ Recounts

Typed == StockTypeOK /\ \A w \in Worker : Says(job[w], read[w])

LEMMA StartsAreTyped ==
  /\ Idle \in Jobs /\ NoneRead \in Numbers
  /\ \A op \in {"none", "add", "set", "clear", "draft", "pay", "recount"} :
       Says([Idle EXCEPT !.at = "refused", !.op = op], NoneRead)
  /\ Says(Idle, NoneRead)
<1>1. NoneRead \in Numbers
  BY StockAssumption DEF NoneRead, Numbers
<1> QED BY <1>1, JobsAreTyped DEF Idle, Says

\* What a step of w leaves of the calls.
CallsTyped == /\ job' \in [Worker -> Jobs]
              /\ read' \in [Worker -> Numbers]
              /\ \A w \in Worker : Says(job'[w], read'[w])

LEMMA CallMoves ==
  ASSUME Typed, NEW w \in Worker, NEW c \in Jobs, NEW n \in Numbers, Says(c, n),
         job' = [job EXCEPT ![w] = c],
         read' = [read EXCEPT ![w] = n] \/ (UNCHANGED read /\ n = read[w])
  PROVE  CallsTyped
<1>1. job \in [Worker -> Jobs] /\ read \in [Worker -> Numbers]
  BY DEF Typed, StockTypeOK, Numbers
<1>2. \A v \in Worker : Says(job[v], read[v])
  BY DEF Typed
<1>3. job' \in [Worker -> Jobs] /\ job'[w] = c
      /\ \A v \in Worker \ {w} : job'[v] = job[v]
  BY <1>1
<1>4. read' \in [Worker -> Numbers] /\ read'[w] = n
      /\ \A v \in Worker \ {w} : read'[v] = read[v]
  BY <1>1
<1>5. ASSUME NEW v \in Worker PROVE Says(job'[v], read'[v])
  <2>1. CASE v = w
    BY <1>3, <1>4, <2>1
  <2>2. CASE v # w
    BY <1>2, <1>3, <1>4, <2>2
  <2> QED BY <2>1, <2>2
<1> QED BY <1>3, <1>4, <1>5 DEF CallsTyped

LEMMA CallEnds ==
  ASSUME Typed, NEW w \in Worker, Return(w) \/ Refuse(w)
  PROVE  CallsTyped
<1>1. CASE Return(w)
  BY <1>1, StartsAreTyped, CallMoves DEF Return, Ends, Becomes, Notes
<1>2. CASE Refuse(w)
  <2> DEFINE c == [Idle EXCEPT !.at = "refused", !.op = job[w].op]
  <2>1. job[w].op \in {"none", "add", "set", "clear", "draft", "pay", "recount"}
    BY DEF Typed, StockTypeOK, Jobs
  <2>2. c \in Jobs /\ Says(c, NoneRead)
    BY <2>1, JobsAreTyped, StartsAreTyped
  <2>3. job' = [job EXCEPT ![w] = c] /\ read' = [read EXCEPT ![w] = NoneRead]
    BY <1>2 DEF Refuse, Ends, Becomes, Notes
  <2> HIDE DEF c
  <2> QED BY <2>2, <2>3, StartsAreTyped, CallMoves
<1> QED BY <1>1, <1>2

\* The rows, the other part of the type invariant.
RowsTyped == /\ onHand \in Nat /\ reserved \in 0..onHand
             /\ holdState \in [Row -> HoldStates]
             /\ holdCart \in [Row -> Cart \cup {NoCart}]
             /\ holdQty \in [Row -> 0..MaxQty]
             /\ lapsed \subseteq Row
             /\ basket \in [Cart -> 0..MaxQty]
             /\ order \in [Order -> [st : OrderStates, qty : 0..MaxQty]]
             /\ sold \in [Order -> Nat] /\ counted \in Int

LEMMA TypedInParts ==
  /\ Typed => RowsTyped
  /\ RowsTyped' /\ CallsTyped => Typed'
BY DEF Typed, RowsTyped, CallsTyped, StockTypeOK, Numbers

LEMMA RowsStayTyped ==
  ASSUME Typed, UNCHANGED <<shelf, holds, basket, order>>
  PROVE  RowsTyped'
<1>1. RowsTyped
  BY TypedInParts
<1> QED BY <1>1 DEF RowsTyped, shelf, holds

\* A call of a worker, as it is.
LEMMA CallIsTyped ==
  ASSUME Typed, NEW w \in Worker
  PROVE  job[w] \in Jobs /\ read[w] \in Numbers /\ Says(job[w], read[w])
BY DEF Typed, StockTypeOK, Numbers

LEMMA SumsOfHolds ==
  ASSUME NEW S \in SUBSET Row, NEW f
  PROVE  IsFiniteSet(S) /\ Sum(f, S) \in Nat
BY RowsAreFinite, UnitsAreFinite

LEMMA BeginIsTyped ==
  ASSUME Typed, NEW w \in Worker, Begin(w)
  PROVE  Typed'
<1>0. RowsTyped /\ NoneRead \in Numbers
  BY TypedInParts, StartsAreTyped
<1>1. UNCHANGED <<shelf, holds, basket, order>>
  BY DEF Begin, AskHold, Empty, ReadCart, TakePayment, ReadHolds, ReadLevel
<1>2. CallsTyped
  <2>1. ASSUME NEW c \in Cart, NEW q \in 0..MaxQty, AskHold(w, c, q) PROVE CallsTyped
    <3>1. PICK op \in {"add", "set"} :
            /\ op = "add" => q > basket[c]
            /\ job' = [job EXCEPT ![w] = [Idle EXCEPT !.at = "count", !.op = op, !.cart = c]]
      BY <2>1 DEF AskHold, Becomes
    <3>2. read' = [read EXCEPT ![w] = [NoneRead EXCEPT !.num = q, !.prev = basket[c]]]
      BY <2>1 DEF AskHold, Notes
    <3> DEFINE call == [Idle EXCEPT !.at = "count", !.op = op, !.cart = c]
               now == [NoneRead EXCEPT !.num = q, !.prev = basket[c]]
    <3>3. basket[c] \in Nat /\ q \in Nat
      BY <1>0, StockAssumption DEF RowsTyped
    <3>4. now \in Numbers /\ now.num = q
      BY <1>0, <3>3 DEF Numbers
    <3>5. call \in Jobs /\ call.at = "count" /\ call.op = op /\ call.cart = c
      BY DEF Idle, Jobs, Steps
    <3>6. Says(call, now)
      BY <3>1, <3>3, <3>4, <3>5 DEF Says
    <3> HIDE DEF call, now
    <3> QED BY <3>1, <3>2, <3>4, <3>5, <3>6, CallMoves DEF call, now
  <2>2. ASSUME NEW c \in Cart, Empty(w, c) PROVE CallsTyped
    <3> DEFINE call == [Idle EXCEPT !.at = "find", !.op = "clear", !.cart = c]
    <3>1. call \in Jobs /\ Says(call, read[w])
      BY <2>2 DEF Idle, Jobs, Steps, Says, Empty
    <3>2. job' = [job EXCEPT ![w] = call] /\ UNCHANGED read
      BY <2>2 DEF Empty, Becomes
    <3> HIDE DEF call
    <3> QED BY <3>1, <3>2, CallIsTyped, CallMoves
  <2>3. ASSUME NEW c \in Cart, ReadCart(w, c) PROVE CallsTyped
    <3> DEFINE call == [Idle EXCEPT !.at = "lookup", !.op = "draft", !.cart = c]
               now == [NoneRead EXCEPT !.num = basket[c]]
    <3>1. basket[c] \in 0..MaxQty /\ basket[c] \in Nat
      BY <1>0, StockAssumption DEF RowsTyped
    <3>2. now \in Numbers /\ now.num = basket[c]
      BY <1>0, <3>1 DEF Numbers
    <3>3. call \in Jobs /\ Says(call, now)
      BY <3>1, <3>2 DEF Idle, Jobs, Steps, Says
    <3>4. job' = [job EXCEPT ![w] = call] /\ read' = [read EXCEPT ![w] = now]
      BY <2>3 DEF ReadCart, Becomes, Notes
    <3> HIDE DEF call, now
    <3> QED BY <3>2, <3>3, <3>4, CallMoves
  <2>4. ASSUME NEW o \in Order, TakePayment(w, o) PROVE CallsTyped
    <3> DEFINE own == HeldBy(CartOf[o])
               call == [Idle EXCEPT !.at = "sell", !.op = "pay", !.ord = o, !.rows = own]
               now == [NoneRead EXCEPT !.took = [r \in Row |-> IF r \in own THEN holdQty[r] ELSE 0]]
    <3>1. own \subseteq Row
      BY DEF HeldBy, Active
    <3>2. call \in Jobs /\ Says(call, now)
      BY <3>1 DEF Idle, Jobs, Steps, Says
    <3>3. [r \in Row |-> IF r \in own THEN holdQty[r] ELSE 0] \in [Row -> 0..MaxQty]
      BY <1>0, StockAssumption DEF RowsTyped
    <3>4. now \in Numbers
      BY <1>0, <3>3 DEF Numbers
    <3>5. job' = [job EXCEPT ![w] = call] /\ read' = [read EXCEPT ![w] = now]
      BY <2>4 DEF TakePayment, ReadHolds, Becomes, Notes
    <3> HIDE DEF call, now
    <3> QED BY <3>2, <3>4, <3>5, CallMoves
  <2>5. ASSUME NEW truth \in 0..MaxTruth, ReadLevel(w, truth) PROVE CallsTyped
    <3> DEFINE next == IF truth < reserved THEN reserved ELSE truth
               call == [Idle EXCEPT !.at = "level", !.op = "recount"]
               now == [NoneRead EXCEPT !.num = next, !.prev = onHand]
    <3>1. next \in Nat /\ onHand \in Nat
      BY <1>0, StockAssumption DEF RowsTyped
    <3>2. call \in Jobs /\ Says(call, now)
      BY <2>5 DEF Idle, Jobs, Steps, Says, ReadLevel
    <3>3. now \in Numbers
      BY <1>0, <3>1 DEF Numbers
    <3>4. job' = [job EXCEPT ![w] = call] /\ read' = [read EXCEPT ![w] = now]
      BY <2>5 DEF ReadLevel, Becomes, Notes
    <3> HIDE DEF call, now
    <3> QED BY <3>2, <3>3, <3>4, CallMoves
  <2> QED BY <2>1, <2>2, <2>3, <2>4, <2>5 DEF Begin
<1> QED BY <1>1, <1>2, RowsStayTyped, TypedInParts

\* What is granted is no more than was asked, and fits beside the others.
LEMMA FittingFits ==
  ASSUME Typed, NEW w \in Worker
  PROVE  LET rest == Sum(holdQty, Active \ job[w].rows)
             fits == Fitting(w, Own(w))
         IN /\ rest \in Nat /\ Own(w) \in 0..MaxQty
            /\ fits \in Nat /\ fits <= read[w].num
            /\ fits > 0 => rest - Own(w) + fits <= onHand
            /\ fits = 0 /\ read[w].num > 0 => onHand <= rest - Own(w)
<1> DEFINE rest == Sum(holdQty, Active \ job[w].rows)
<1>1. rest \in Nat
  <2>1. Active \ job[w].rows \in SUBSET Row
    BY DEF Active
  <2> QED BY <2>1, SumsOfHolds
<1>2. /\ read[w].num \in Nat /\ onHand \in Nat
      /\ read[w].took \in [Row -> 0..MaxQty] /\ job[w].mine \in Row \cup {NoRow}
  BY CallIsTyped, TypedInParts DEF Numbers, RowsTyped, Jobs
<1>3. Own(w) \in 0..MaxQty /\ Own(w) \in Int
  BY <1>2, StockAssumption DEF Own
<1>4. Fitting(w, Own(w)) =
        IF onHand - (rest - Own(w)) <= 0 THEN 0
        ELSE IF onHand - (rest - Own(w)) < read[w].num THEN onHand - (rest - Own(w))
        ELSE read[w].num
  BY DEF Fitting
<1> HIDE DEF rest
<1> QED BY <1>1, <1>2, <1>3, <1>4 DEF rest

LEMMA FindIsTyped ==
  ASSUME Typed, NEW w \in Worker, FindHold(w)
  PROVE  Typed'
<1> DEFINE gone == Active \cap lapsed
           own == HeldBy(job[w].cart) \ gone
<1>1. /\ job[w] \in Jobs /\ read[w] \in Numbers /\ Says(job[w], read[w])
      /\ job[w].at = "count" /\ RowsTyped
  BY CallIsTyped, TypedInParts DEF FindHold, At
<1>2. UNCHANGED <<shelf, holds, basket, order>>
  BY DEF FindHold, Look
<1>3. PICK m \in IF own = {} THEN {NoRow} ELSE own :
        /\ Becomes(w, [job[w] EXCEPT !.at = "sum", !.mine = m, !.rows = gone])
        /\ Notes(w, [read[w] EXCEPT !.took = [r \in Row |-> IF r = m THEN holdQty[r] ELSE 0]])
  BY DEF FindHold, Look
<1> DEFINE call == [job[w] EXCEPT !.at = "sum", !.mine = m, !.rows = gone]
           found == [r \in Row |-> IF r = m THEN holdQty[r] ELSE 0]
           now == [read[w] EXCEPT !.took = found]
<1>4. gone \subseteq Row /\ m \in Row \cup {NoRow}
  BY <1>3 DEF HeldBy, Active
<1>5. call \in Jobs /\ call.at = "sum" /\ call.op = job[w].op /\ call.cart = job[w].cart
  BY <1>1, <1>4 DEF Jobs, Steps
<1>6. found \in [Row -> 0..MaxQty]
  BY <1>1, StockAssumption DEF RowsTyped
<1> HIDE DEF found
<1>7. now \in Numbers /\ now.num = read[w].num
  BY <1>1, <1>6 DEF Numbers
<1>8. Says(call, now)
  BY <1>1, <1>5, <1>7 DEF Says
<1>9. job' = [job EXCEPT ![w] = call] /\ read' = [read EXCEPT ![w] = now]
  BY <1>3 DEF Becomes, Notes, found
<1> HIDE DEF call, now
<1> QED BY <1>2, <1>5, <1>7, <1>8, <1>9, CallMoves, RowsStayTyped, TypedInParts

LEMMA CountIsTyped ==
  ASSUME Typed, NEW w \in Worker, CountHolds(w)
  PROVE  Typed'
<1> DEFINE fits == Fitting(w, Own(w))
<1>1. /\ job[w] \in Jobs /\ read[w] \in Numbers /\ job[w].at = "sum"
      /\ job[w].op \in {"add", "set"} /\ job[w].cart \in Cart /\ read[w].num \in 0..MaxQty
  BY CallIsTyped DEF CountHolds, Decide, At, Says
<1>2. UNCHANGED <<shelf, holds, basket, order>>
  BY DEF CountHolds, Decide
<1>3. CASE Ends(w, [job[w] EXCEPT !.at = "soldout"])
  <2> DEFINE call == [job[w] EXCEPT !.at = "soldout"]
  <2>1. call \in Jobs /\ Says(call, NoneRead)
    BY <1>1 DEF Jobs, Steps, Says
  <2>2. job' = [job EXCEPT ![w] = call] /\ read' = [read EXCEPT ![w] = NoneRead]
    BY <1>3 DEF Ends, Becomes, Notes
  <2> HIDE DEF call
  <2> QED BY <1>2, <2>1, <2>2, StartsAreTyped, CallMoves, RowsStayTyped, TypedInParts
<1>4. CASE /\ Becomes(w, [job[w] EXCEPT !.at = "write"])
           /\ Notes(w, [read[w] EXCEPT !.num = fits])
  <2> DEFINE call == [job[w] EXCEPT !.at = "write"]
             now == [read[w] EXCEPT !.num = fits]
  <2>1. fits \in 0..MaxQty /\ fits \in Nat
    <3>1. fits \in Nat /\ fits <= read[w].num
      BY FittingFits
    <3> HIDE DEF fits
    <3> QED BY <1>1, <3>1, StockAssumption
  <2> HIDE DEF fits
  <2>2. now \in Numbers /\ now.num = fits
    BY <1>1, <2>1 DEF Numbers
  <2>3. call \in Jobs /\ call.at = "write" /\ call.op = job[w].op /\ call.cart = job[w].cart
    BY <1>1 DEF Jobs, Steps
  <2>4. Says(call, now)
    BY <1>1, <2>1, <2>2, <2>3 DEF Says
  <2>5. job' = [job EXCEPT ![w] = call] /\ read' = [read EXCEPT ![w] = now]
    BY <1>4 DEF Becomes, Notes
  <2> HIDE DEF call, now
  <2> QED BY <1>2, <2>2, <2>3, <2>4, <2>5, CallMoves, RowsStayTyped, TypedInParts
<1> QED BY <1>3, <1>4 DEF CountHolds, Decide

LEMMA OnwardIsTyped ==
  ASSUME Typed, NEW w \in Worker,
         FindHolds(w) \/ ReleaseHolds(w) \/ FindDraft(w) \/ WriteLevel(w)
  PROVE  Typed'
<1>1. job[w] \in Jobs /\ read[w] \in Numbers /\ Says(job[w], read[w]) /\ NoneRead \in Numbers
  BY CallIsTyped, StartsAreTyped
<1>2. CASE FindHolds(w)
  <2> DEFINE call == [job[w] EXCEPT !.at = "release", !.sync = HeldBy(job[w].cart) # {}]
  <2>1. call \in Jobs /\ Says(call, read[w])
    BY <1>1, <1>2 DEF Jobs, Steps, Says, FindHolds, At
  <2>2. job' = [job EXCEPT ![w] = call] /\ UNCHANGED <<read, shelf, holds, basket, order>>
    BY <1>2 DEF FindHolds, Becomes
  <2> HIDE DEF call
  <2> QED BY <1>1, <2>1, <2>2, CallMoves, RowsStayTyped, TypedInParts
<1>3. CASE ReleaseHolds(w)
  <2> DEFINE own == HeldBy(job[w].cart)
             sum == Sum(holdQty, Active \ own)
             call == [job[w] EXCEPT !.at = "empty", !.rows = own]
             now == [NoneRead EXCEPT !.num = sum]
  <2>1. own \subseteq Row /\ sum \in Nat
    BY SumsOfHolds DEF HeldBy, Active
  <2>2. call \in Jobs /\ Says(call, now)
    BY <1>1, <1>3, <2>1 DEF Jobs, Steps, Says, ReleaseHolds, At
  <2>3. job' = [job EXCEPT ![w] = call] /\ read' = [read EXCEPT ![w] = now]
        /\ UNCHANGED <<shelf, holds, basket, order>>
    BY <1>3 DEF ReleaseHolds, Becomes, Notes
  <2> HIDE DEF sum, call
  <2>4. now \in Numbers
    BY <1>1, <2>1 DEF Numbers
  <2> HIDE DEF now
  <2> QED BY <2>2, <2>3, <2>4, CallMoves, RowsStayTyped, TypedInParts
<1>4. CASE FindDraft(w)
  <2>1. PICK o \in Order \cup {NoOrder} :
          Becomes(w, [job[w] EXCEPT !.at = "draft", !.ord = o])
    BY <1>4 DEF FindDraft
  <2> DEFINE call == [job[w] EXCEPT !.at = "draft", !.ord = o]
  <2>2. call \in Jobs /\ Says(call, read[w])
    BY <1>1, <1>4 DEF Jobs, Steps, Says, FindDraft, At
  <2>3. job' = [job EXCEPT ![w] = call] /\ UNCHANGED <<read, shelf, holds, basket, order>>
    BY <1>4, <2>1 DEF FindDraft, Becomes
  <2> HIDE DEF call
  <2> QED BY <1>1, <2>2, <2>3, CallMoves, RowsStayTyped, TypedInParts
<1>5. CASE WriteLevel(w)
  <2> DEFINE call == [job[w] EXCEPT !.at = "log"]
  <2>1. call \in Jobs /\ Says(call, read[w])
    BY <1>1, <1>5 DEF Jobs, Steps, Says, WriteLevel, At
  <2>2. job' = [job EXCEPT ![w] = call] /\ UNCHANGED read
    BY <1>5 DEF WriteLevel, Becomes
  <2>3. CallsTyped
    <3> HIDE DEF call
    <3> QED BY <1>1, <2>1, <2>2, CallMoves
  <2>4. RowsTyped /\ read[w].num \in Nat
    BY <1>1, TypedInParts DEF Numbers
  <2>5. onHand' = read[w].num /\ reserved <= read[w].num
        /\ UNCHANGED <<reserved, sold, counted, holds, basket, order>>
    BY <1>5 DEF WriteLevel, Legal
  <2>6. RowsTyped'
    BY <2>4, <2>5 DEF RowsTyped, holds
  <2> QED BY <2>3, <2>6, TypedInParts
<1> QED BY <1>2, <1>3, <1>4, <1>5

LEMMA WriteIsTyped ==
  ASSUME Typed, NEW w \in Worker, WriteHold(w)
  PROVE  Typed'
<1>1. /\ job[w] \in Jobs /\ read[w].num \in 0..MaxQty /\ RowsTyped
  BY CallIsTyped, TypedInParts DEF WriteHold, At, Says
<1>2. PICK target \in Targets(w) :
        Grant(w, target) /\ Legal(onHand, SumAfter) /\ reserved' = SumAfter
  BY DEF WriteHold
<1>3. holdState' \in [Row -> HoldStates]
  <2>1. holdState' = StateAfter(w, target)
    BY <1>2 DEF Grant
  <2>2. target \in Row => Granted(w, target) \in HoldStates
    BY <1>1 DEF Granted, RowsTyped, HoldStates
  <2>3. \A r \in Row : (IF r = target THEN Granted(w, target)
                        ELSE IF r \in job[w].rows THEN "EXPIRED" ELSE holdState[r]) \in HoldStates
    BY <1>1, <2>2 DEF RowsTyped, HoldStates
  <2> QED BY <2>1, <2>3 DEF StateAfter
<1>4. holdCart' \in [Row -> Cart \cup {NoCart}] /\ holdQty' \in [Row -> 0..MaxQty]
      /\ lapsed' \subseteq Row
  BY <1>1, <1>2 DEF Grant, RowsTyped, Jobs
<1>5. reserved' \in 0..onHand /\ onHand' = onHand
  <2>1. SumAfter \in Nat
    <3>1. {r \in Row : holdState'[r] = "ACTIVE"} \in SUBSET Row
      OBVIOUS
    <3> QED BY <3>1, SumsOfHolds DEF SumAfter
  <2> QED BY <1>1, <1>2, <2>1 DEF Legal, RowsTyped, WriteHold
<1>6. basket' \in [Cart -> 0..MaxQty] /\ UNCHANGED <<sold, counted, order>>
  BY <1>1 DEF WriteHold, RowsTyped
<1>7. RowsTyped'
  BY <1>1, <1>3, <1>4, <1>5, <1>6 DEF RowsTyped
<1>8. CallsTyped
  BY CallEnds DEF WriteHold
<1> QED BY <1>7, <1>8, TypedInParts

\* The numbers of a sale.
LEMMA SaleNumbers ==
  ASSUME Typed, NEW w \in Worker, job[w].at = "sell"
  PROVE  /\ Held(w) \in Nat /\ Unheld(w) \in Nat
         /\ order[job[w].ord].qty \in 0..MaxQty
         /\ Unheld(w) > 0 => Held(w) + Unheld(w) = order[job[w].ord].qty
<1>1. job[w] \in Jobs /\ job[w].ord \in Order /\ RowsTyped
  BY CallIsTyped, TypedInParts DEF Says
<1>2. Held(w) \in Nat
  BY <1>1, SumsOfHolds DEF Held, Jobs
<1>3. order[job[w].ord].qty \in 0..MaxQty /\ onHand \in Nat
  BY <1>1 DEF RowsTyped
<1>4. order[job[w].ord].qty \in Nat
  BY <1>3, StockAssumption
<1>5. Unheld(w) = IF order[job[w].ord].qty - Held(w) > 0
                     /\ onHand - Held(w) >= order[job[w].ord].qty - Held(w)
                  THEN order[job[w].ord].qty - Held(w) ELSE 0
  BY DEF Unheld
<1> QED BY <1>2, <1>3, <1>4, <1>5

LEMMA SaleIsTyped ==
  ASSUME Typed, NEW w \in Worker, Sell(w)
  PROVE  Typed'
<1>1. job[w].at = "sell" /\ job[w].ord \in Order /\ RowsTyped
  BY CallIsTyped, TypedInParts DEF Sell, At, Says
<1>2. Held(w) \in Nat /\ Unheld(w) \in Nat
  BY <1>1, SaleNumbers
<1>3. onHand' \in Nat /\ reserved' \in 0..onHand'
  <2>1. /\ 0 <= reserved - Held(w)
        /\ reserved - Held(w) <= onHand - Held(w) - Unheld(w)
    BY DEF Sell, SaleIsLegal, Legal
  <2>2. onHand' = onHand - Held(w) - Unheld(w) /\ reserved' = reserved - Held(w)
    BY DEF Sell
  <2>3. onHand \in Nat /\ reserved \in Nat
    BY <1>1 DEF RowsTyped
  <2> QED BY <1>2, <2>1, <2>2, <2>3
<1>4. holdState' \in [Row -> HoldStates]
  BY <1>1 DEF Sell, RowsTyped, HoldStates
<1>5. sold' \in [Order -> Nat]
  <2>1. sold' = [sold EXCEPT ![job[w].ord] = @ + Held(w) + Unheld(w)]
    BY DEF Sell
  <2>2. sold \in [Order -> Nat] /\ sold[job[w].ord] + Held(w) + Unheld(w) \in Nat
    BY <1>1, <1>2 DEF RowsTyped
  <2> QED BY <2>1, <2>2
<1>6. order' \in [Order -> [st : OrderStates, qty : 0..MaxQty]]
  <2>1. order' = [order EXCEPT ![job[w].ord].st = "PAID"]
    BY DEF Sell
  <2> QED BY <1>1, <2>1 DEF RowsTyped, OrderStates
<1>7. RowsTyped'
  BY <1>1, <1>3, <1>4, <1>5, <1>6 DEF RowsTyped, Sell
<1>8. CallsTyped
  BY CallEnds DEF Sell
<1> QED BY <1>7, <1>8, TypedInParts

LEMMA EndIsTyped ==
  ASSUME Typed, NEW w \in Worker,
         \/ LineIsGone(w) \/ WriteHoldFails(w) \/ EmptyCart(w) \/ EmptyCartFails(w)
         \/ WriteDraft(w) \/ SellFails(w) \/ WriteLevelFails(w)
         \/ LogRecount(w) \/ Answered(w) \/ Abort(w)
  PROVE  Typed'
<1>1. CallsTyped
  BY CallEnds DEF LineIsGone, WriteHoldFails, EmptyCart, EmptyCartFails, WriteDraft, SellFails,
         WriteLevelFails, LogRecount, Answered, Abort
<1>2. RowsTyped /\ read[w] \in Numbers /\ Says(job[w], read[w])
  BY CallIsTyped, TypedInParts
<1>3. CASE UNCHANGED <<shelf, holds, basket, order>>
  BY <1>1, <1>3, RowsStayTyped, TypedInParts
<1>4. CASE EmptyCart(w)
  <2>1. holdState' \in [Row -> HoldStates]
    BY <1>2, <1>4 DEF EmptyCart, RowsTyped, HoldStates
  <2>2. reserved' \in 0..onHand
    <3>1. CASE job[w].sync
      BY <1>2, <1>4, <3>1 DEF EmptyCart, Legal, Numbers, RowsTyped
    <3>2. CASE ~job[w].sync
      BY <1>2, <1>4, <3>2 DEF EmptyCart, RowsTyped
    <3> QED BY <3>1, <3>2
  <2>3. basket' \in [Cart -> 0..MaxQty]
    <3>1. basket \in [Cart -> 0..MaxQty] /\ basket' = [basket EXCEPT ![job[w].cart] = 0]
      BY <1>2, <1>4 DEF EmptyCart, RowsTyped
    <3>2. 0 \in 0..MaxQty
      BY StockAssumption
    <3> QED BY <3>1, <3>2
  <2>4. RowsTyped'
    BY <1>2, <1>4, <2>1, <2>2, <2>3 DEF EmptyCart, RowsTyped
  <2> QED BY <1>1, <2>4, TypedInParts
<1>5. CASE WriteDraft(w)
  <2>1. read[w].num \in 0..MaxQty
    BY <1>2, <1>5 DEF WriteDraft, At, Says
  <2>2. order' \in [Order -> [st : OrderStates, qty : 0..MaxQty]]
    <3>1. CASE order' = [order EXCEPT ![job[w].ord].qty = read[w].num]
      BY <1>2, <2>1, <3>1 DEF RowsTyped
    <3>2. CASE \E o \in Order : order' = [order EXCEPT ![o] = [st |-> "PENDING", qty |-> read[w].num]]
      BY <1>2, <2>1, <3>2 DEF RowsTyped, OrderStates
    <3> QED BY <1>5, <3>1, <3>2 DEF WriteDraft
  <2>3. RowsTyped'
    BY <1>2, <1>5, <2>2 DEF WriteDraft, RowsTyped, shelf, holds
  <2> QED BY <1>1, <2>3, TypedInParts
<1>6. CASE LogRecount(w)
  <2>1. counted' \in Int
    BY <1>2, <1>6 DEF LogRecount, RowsTyped, Numbers
  <2>2. RowsTyped'
    BY <1>2, <1>6, <2>1 DEF LogRecount, RowsTyped, holds
  <2> QED BY <1>1, <2>2, TypedInParts
<1> QED BY <1>3, <1>4, <1>5, <1>6
    DEF LineIsGone, WriteHoldFails, EmptyCartFails, SellFails, WriteLevelFails, Answered, Abort

LEMMA CallsStayTyped ==
  ASSUME Typed, UNCHANGED <<job, read>>
  PROVE  CallsTyped
BY DEF Typed, StockTypeOK, CallsTyped, Numbers

LEMMA ClockIsTyped ==
  ASSUME Typed, Clock
  PROVE  Typed'
<1>1. UNCHANGED <<shelf, holdState, holdCart, holdQty, basket, order, job, read>>
  BY DEF Clock, Lapse, Renew
<1>2. RowsTyped
  BY TypedInParts
<1>3. lapsed' \subseteq Row
  BY <1>2 DEF Clock, Lapse, Renew, RowsTyped
<1>4. RowsTyped'
  BY <1>1, <1>2, <1>3 DEF RowsTyped, shelf
<1> QED BY <1>1, <1>4, CallsStayTyped, TypedInParts

LEMMA TypedInit == Init => Typed
<1> SUFFICES ASSUME Init PROVE Typed
  OBVIOUS
<1>1. job \in [Worker -> Jobs] /\ read \in [Worker -> Numbers]
  BY StartsAreTyped DEF Init
<1>2. RowsTyped
  BY StockAssumption DEF Init, RowsTyped, HoldStates, OrderStates
<1>3. \A w \in Worker : Says(job[w], read[w])
  BY StartsAreTyped DEF Init
<1> QED BY <1>1, <1>2, <1>3 DEF Typed, StockTypeOK, RowsTyped, Numbers

LEMMA TypedNext == Typed /\ [Next]_vars => Typed'
<1> SUFFICES ASSUME Typed, [Next]_vars PROVE Typed'
  OBVIOUS
<1>1. ASSUME NEW w \in Worker, Begin(w) PROVE Typed'
  BY <1>1, BeginIsTyped
<1>2. ASSUME NEW w \in Worker, Proceed(w) PROVE Typed'
  BY <1>2, FindIsTyped, CountIsTyped, WriteIsTyped, OnwardIsTyped, SaleIsTyped, EndIsTyped DEF Proceed
<1>3. ASSUME NEW w \in Worker, Abort(w) PROVE Typed'
  BY <1>3, EndIsTyped
<1>4. CASE Clock
  BY <1>4, ClockIsTyped
<1>5. CASE UNCHANGED vars
  <2>1. UNCHANGED <<job, read>> /\ UNCHANGED <<shelf, holds, basket, order>>
    BY <1>5 DEF vars
  <2> QED BY <2>1, CallsStayTyped, RowsStayTyped, TypedInParts
<1> QED BY <1>1, <1>2, <1>3, <1>4, <1>5 DEF Next

LEMMA TypedAlways == Spec => []Typed
BY TypedInit, TypedNext, PTL DEF Spec

\* The counters keep their CHECKs and the quantities their bounds, whatever carts,
\* payments and recounts do at once (migration.sql:1664).
THEOREM StockTyping == Spec => []StockTypeOK
<1>1. Typed => StockTypeOK
  BY DEF Typed
<1> QED
  BY <1>1, TypedAlways, PTL

-----------------------------------------------------------------------------
(***************************************************************************)
(* Sold out.                                                               *)
(***************************************************************************)
Acts(w) == Begin(w) \/ Proceed(w) \/ Abort(w)

LEMMA OneMoves ==
  ASSUME Typed, NEW v \in Worker, Acts(v), NEW w \in Worker, w # v
  PROVE  job'[w] = job[w] /\ read'[w] = read[w]
<1>1. \E c : Becomes(v, c)
  <2>1. Begin(v) => \E c : Becomes(v, c)
    BY DEF Begin, AskHold, Empty, ReadCart, TakePayment, ReadHolds, ReadLevel
  <2>2. Proceed(v) \/ Abort(v) => \E c : Becomes(v, c)
    BY DEF Proceed, Abort, FindHold, Look, CountHolds, Decide, WriteHold, WriteHoldFails, LineIsGone, FindHolds,
           ReleaseHolds, EmptyCart, EmptyCartFails, FindDraft, WriteDraft, Sell, SellFails,
           WriteLevel, WriteLevelFails, LogRecount, Answered, Return, Refuse, Ends
  <2> QED BY <2>1, <2>2 DEF Acts
<1>2. UNCHANGED read \/ \E n : Notes(v, n)
  <2>1. Begin(v) => UNCHANGED read \/ \E n : Notes(v, n)
    BY DEF Begin, AskHold, Empty, ReadCart, TakePayment, ReadHolds, ReadLevel
  <2>2. Proceed(v) \/ Abort(v) => UNCHANGED read \/ \E n : Notes(v, n)
    BY DEF Proceed, Abort, FindHold, Look, CountHolds, Decide, WriteHold, WriteHoldFails, LineIsGone, FindHolds,
           ReleaseHolds, EmptyCart, EmptyCartFails, FindDraft, WriteDraft, Sell, SellFails,
           WriteLevel, WriteLevelFails, LogRecount, Answered, Return, Refuse, Ends
  <2> QED BY <2>1, <2>2 DEF Acts
<1>3. job \in [Worker -> Jobs] /\ read \in [Worker -> Numbers]
  BY DEF Typed, StockTypeOK, Numbers
<1> QED BY <1>1, <1>2, <1>3 DEF Becomes, Notes

\* The hold that was found still stands for what was read of it: nobody else writes
\* it while the shelf is locked.
FoundStands ==
  \A w \in Worker :
    At(w, "sum") /\ job[w].mine # NoRow => read[w].took[job[w].mine] = holdQty[job[w].mine]

\* The refusal is decided on the holds as they are, the cart's own hold and the
\* swept ones apart.
LEMMA RefusalIsTrue ==
  ASSUME Typed, Holding, FoundStands, NEW w \in Worker, CountHolds(w), job'[w].at = "soldout"
  PROVE  onHand <= Sum(holdQty, Active \ (job[w].rows \cup HeldBy(job[w].cart)))
<1> DEFINE live == Active \ job[w].rows
           rest == live \ HeldBy(job[w].cart)
           mine == job[w].mine
<1>1. /\ job \in [Worker -> Jobs] /\ job[w] \in Jobs /\ At(w, "sum") /\ Holds(w)
      /\ holdQty \in [Row -> 0..MaxQty] /\ onHand \in Nat
  BY TypedInParts DEF Holding, CountHolds, Decide, At, Holds, RowsTyped
<1>2. ~Becomes(w, [job[w] EXCEPT !.at = "write"])
  <2>1. Becomes(w, [job[w] EXCEPT !.at = "write"]) => job'[w].at = "write"
    BY <1>1 DEF Becomes, Jobs
  <2> QED BY <2>1
<1>3. Fitting(w, Own(w)) = 0 /\ job[w].op = "add"
  BY <1>2 DEF CountHolds, Decide
<1>4. read[w].num > 0
  BY <1>1, <1>3, CallIsTyped DEF Says, At
<1>5. /\ onHand <= Sum(holdQty, live) - Own(w)
      /\ Sum(holdQty, live) \in Nat /\ Own(w) \in 0..MaxQty
  BY <1>3, <1>4, FittingFits
<1>6. HeldBy(job[w].cart) \subseteq job[w].rows \cup {mine}
  BY <1>1 DEF Holding, WriterCovers
<1>7. rest \in SUBSET live /\ live \in SUBSET Row /\ rest \in SUBSET Row
  BY DEF Active
<1>8. IsFiniteSet(rest) /\ IsFiniteSet(live) /\ Sum(holdQty, rest) \in Nat
  BY <1>7, SumsOfHolds
<1>9. CASE live = rest
  <2> HIDE DEF live, rest
  <2>1. onHand <= Sum(holdQty, rest) - Own(w)
    BY <1>5, <1>9
  <2>2. Own(w) \in Nat
    BY <1>5, StockAssumption
  <2>3. onHand <= Sum(holdQty, rest)
    BY <1>1, <1>8, <2>1, <2>2
  <2> QED BY <2>3 DEF live, rest
<1>10. CASE live # rest
  <2>1. live = rest \cup {mine} /\ mine \in Row /\ mine \notin rest
    BY <1>6, <1>7, <1>10
  <2>2. mine # NoRow
    BY <2>1, StockAssumption
  <2>3. Own(w) = holdQty[mine]
    BY <1>1, <2>2 DEF Own, FoundStands
  <2>4. holdQty[mine] \in 0..MaxQty
    BY <1>1, <2>1
  <2> HIDE DEF live, rest, mine
  <2>5. Sum(holdQty, live) = Sum(holdQty, rest) + holdQty[mine]
    BY <1>8, <2>1, <2>4, SumAdds
  <2>6. onHand <= Sum(holdQty, rest)
    BY <1>1, <1>5, <1>8, <2>3, <2>4, <2>5, StockAssumption
  <2> QED BY <2>6 DEF live, rest
<1>11. rest = Active \ (job[w].rows \cup HeldBy(job[w].cart))
  OBVIOUS
<1> QED BY <1>9, <1>10, <1>11

LEMMA SoldOutIsTrue ==
  ASSUME Typed, Holding, FoundStands, [Next]_vars,
         NEW w \in Worker, At(w, "sum"), job'[w].at = "soldout"
  PROVE  onHand <= Sum(holdQty, Active \ (job[w].rows \cup HeldBy(job[w].cart)))
<1>1. job'[w] # job[w]
  BY DEF At
<1>2. ~Clock /\ ~UNCHANGED vars
  BY <1>1 DEF Clock, Lapse, Renew, vars
<1>3. PICK v \in Worker : Acts(v)
  BY <1>2 DEF Next, Acts
<1>4. v = w
  BY <1>1, <1>3, OneMoves
<1>5. ~Begin(w)
  BY DEF Begin, AskHold, Empty, ReadCart, TakePayment, ReadLevel, At
<1>6. ~Abort(w)
  BY DEF Abort, Return, Ends, Becomes, Idle, Holding
<1>7. CountHolds(w)
  BY <1>3, <1>4, <1>5, <1>6
     DEF Acts, Proceed, FindHold, WriteHold, WriteHoldFails, LineIsGone, FindHolds, ReleaseHolds, EmptyCart,
         EmptyCartFails, FindDraft, WriteDraft, Sell, SellFails, WriteLevel, WriteLevelFails,
         LogRecount, Answered, At
<1> QED BY <1>7, RefusalIsTrue

-----------------------------------------------------------------------------
(***************************************************************************)
(* Sales.                                                                  *)
(***************************************************************************)
Selling(w) == job[w].at = "sell"

\* A payment under way is alone on an order that is not paid, and takes one hold.
OneSale ==
  /\ \A w \in Worker : Selling(w) =>
       /\ order[job[w].ord].st = "PENDING"
       /\ \A q, r \in job[w].rows : q = r
  /\ \A v, w \in Worker : Selling(v) /\ Selling(w) /\ job[v].ord = job[w].ord => v = w

SoldOfOrders ==
  \A o \in Order : /\ order[o].st # "PAID" => sold[o] = 0
                   /\ sold[o] <= MaxQty

\* What left the shelf is what the orders took, when nobody recounts it.
Ledger == ~Recounts => counted = 0 /\ onHand + Sum(sold, Order) = Initial

Sales == OneSale /\ SoldOfOrders /\ Ledger

LEMMA SalesStay ==
  ASSUME Typed, Sales, NEW w \in Worker, Acts(w), UNCHANGED <<order, sold>>,
         ~Recounts => UNCHANGED <<onHand, counted>>, job'[w].at # "sell"
  PROVE  Sales'
<1>1. \A v \in Worker : v # w => job'[v] = job[v]
  BY OneMoves
<1>2. OneSale'
  BY <1>1 DEF Sales, OneSale, Selling
<1>3. SoldOfOrders' /\ Ledger'
  BY DEF Sales, SoldOfOrders, Ledger
<1> QED BY <1>2, <1>3 DEF Sales

\* A cart has one live hold, so a payment reads one.
LEMMA PaymentStarts ==
  ASSUME Typed, Holding, Sales, NEW w \in Worker, NEW o \in Order, TakePayment(w, o)
  PROVE  Sales'
<1> DEFINE own == HeldBy(CartOf[o])
<1>1. /\ order[o].st = "PENDING"
      /\ \A v \in Worker \ {w} : ~(Selling(v) /\ job[v].ord = o)
      /\ job' = [job EXCEPT ![w] =
           [Idle EXCEPT !.at = "sell", !.op = "pay", !.ord = o, !.rows = own]]
      /\ UNCHANGED <<order, sold, onHand, counted>>
  BY DEF TakePayment, ReadHolds, OrderFree, At, Becomes, Selling, shelf
<1>2. \A q, r \in own : q = r
  BY DEF Holding, OneHoldPerCart, HeldBy
<1>3. job'[w].ord = o /\ job'[w].rows = own /\ \A v \in Worker \ {w} : job'[v] = job[v]
  BY <1>1 DEF Holding, Idle
<1>4. OneSale'
  BY <1>1, <1>2, <1>3 DEF Sales, OneSale, Selling
<1>5. SoldOfOrders' /\ Ledger'
  BY <1>1 DEF Sales, SoldOfOrders, Ledger
<1> QED BY <1>4, <1>5 DEF Sales

LEMMA DraftKeepsSales ==
  ASSUME Typed, Sales, NEW w \in Worker, WriteDraft(w)
  PROVE  Sales'
<1>1. job' = [job EXCEPT ![w] = Idle] /\ job \in [Worker -> Jobs]
  BY DEF WriteDraft, Return, Ends, Becomes, Typed, StockTypeOK
<1>2. (\A v \in Worker : v # w => job'[v] = job[v]) /\ ~Selling(w)'
  BY <1>1 DEF Idle, Selling
<1>3. UNCHANGED <<sold, onHand, counted>>
  BY DEF WriteDraft, shelf
<1>4. order \in [Order -> [st : OrderStates, qty : 0..MaxQty]]
  BY DEF Typed, StockTypeOK
<1>5. \A o \in Order : order'[o].st = order[o].st \/ (order[o].st = "NONE" /\ order'[o].st = "PENDING")
  <2>1. CASE order' = [order EXCEPT ![job[w].ord].qty = read[w].num]
    BY <1>4, <2>1
  <2>2. CASE \E o \in Order : /\ order[o].st = "NONE"
                              /\ order' = [order EXCEPT ![o] = [st |-> "PENDING", qty |-> read[w].num]]
    BY <1>4, <2>2
  <2> QED BY <2>1, <2>2 DEF WriteDraft
<1>6. \A v \in Worker : Selling(v) => job[v].ord \in Order
  BY CallIsTyped DEF Selling, Says
<1>7. OneSale'
  <2>1. ASSUME NEW v \in Worker, Selling(v)' PROVE v # w /\ Selling(v) /\ job'[v] = job[v]
    BY <1>2, <2>1 DEF Selling
  <2>2. ASSUME NEW v \in Worker, Selling(v)'
        PROVE  order'[job'[v].ord].st = "PENDING" /\ \A q, r \in job'[v].rows : q = r
    BY <1>5, <1>6, <2>1, <2>2 DEF Sales, OneSale
  <2>3. ASSUME NEW u \in Worker, NEW v \in Worker, Selling(u)', Selling(v)', job'[u].ord = job'[v].ord
        PROVE  u = v
    BY <2>1, <2>3 DEF Sales, OneSale
  <2> QED BY <2>2, <2>3 DEF OneSale
<1>8. SoldOfOrders' /\ Ledger'
  BY <1>3, <1>5 DEF Sales, SoldOfOrders, Ledger
<1> QED BY <1>7, <1>8 DEF Sales

\* One hold is no more than a line's most.
LEMMA OneHoldIsSmall ==
  ASSUME Typed, Sales, NEW w \in Worker, Selling(w)
  PROVE  Held(w) <= MaxQty
<1>1. read[w].took \in [Row -> 0..MaxQty] /\ job[w].rows \in SUBSET Row
  BY CallIsTyped DEF Numbers, Jobs
<1>2. CASE job[w].rows = {}
  BY <1>2, SumOfNothing, StockAssumption DEF Held
<1>3. CASE job[w].rows # {}
  <2>1. PICK r \in job[w].rows : TRUE
    BY <1>3
  <2>2. job[w].rows = {} \cup {r} /\ read[w].took[r] \in 0..MaxQty
    BY <1>1, <2>1 DEF Sales, OneSale
  <2>3. Sum(read[w].took, {} \cup {r}) = Sum(read[w].took, {}) + read[w].took[r]
    BY <2>2, SumAdds, FS_EmptySet
  <2>4. Held(w) = 0 + read[w].took[r]
    BY <2>2, <2>3, SumOfNothing DEF Held
  <2> QED BY <2>2, <2>4, StockAssumption
<1> QED BY <1>2, <1>3

\* The sum of what the orders took, when one that took nothing takes n.
LEMMA OneMoreSale ==
  ASSUME NEW f \in [Order -> Nat], NEW o \in Order, f[o] = 0, NEW n \in 0..MaxQty
  PROVE  Sum([f EXCEPT ![o] = n], Order) = Sum(f, Order) + n
<1> DEFINE g == [f EXCEPT ![o] = n]
           Rest == Order \ {o}
<1>1. IsFiniteSet(Rest) /\ o \notin Rest /\ Order = Rest \cup {o}
  BY FS_RemoveElement, StockAssumption
<1>2. g[o] = n /\ (\A q \in Rest : g[q] = f[q]) /\ 0 \in 0..MaxQty /\ n \in Nat
  BY StockAssumption
<1> HIDE DEF g, Rest
<1>3. Sum(g, Rest \cup {o}) = Sum(g, Rest) + n
  BY <1>1, <1>2, SumAdds
<1>4. Sum(f, Rest \cup {o}) = Sum(f, Rest) + 0
  BY <1>1, <1>2, SumAdds
<1>5. Sum(g, Rest) = Sum(f, Rest)
  BY <1>2, SumSame
<1>6. Sum(f, Rest) \in Nat
  BY <1>1, UnitsAreFinite
<1> QED BY <1>1, <1>2, <1>3, <1>4, <1>5, <1>6 DEF g

LEMMA SaleKeepsSales ==
  ASSUME Typed, Sales, NEW w \in Worker, Sell(w)
  PROVE  Sales'
<1> DEFINE o == job[w].ord
           n == Held(w) + Unheld(w)
<1>1. Selling(w) /\ o \in Order /\ order[o].st = "PENDING" /\ sold[o] = 0
  BY CallIsTyped DEF Sell, At, Selling, Says, Sales, OneSale, SoldOfOrders
<1>2. Held(w) \in Nat /\ Unheld(w) \in Nat /\ n \in 0..MaxQty
  <2>1. /\ Held(w) \in Nat /\ Unheld(w) \in Nat /\ order[o].qty \in 0..MaxQty
        /\ Unheld(w) > 0 => n = order[o].qty
    BY <1>1, SaleNumbers DEF Selling
  <2>2. Held(w) <= MaxQty
    BY <1>1, OneHoldIsSmall
  <2> QED BY <2>1, <2>2, StockAssumption
<1>3. sold \in [Order -> Nat] /\ onHand \in Nat
      /\ order \in [Order -> [st : OrderStates, qty : 0..MaxQty]]
  BY DEF Typed, StockTypeOK
<1>4. /\ onHand' = onHand - Held(w) - Unheld(w)
      /\ sold' = [sold EXCEPT ![o] = @ + Held(w) + Unheld(w)]
      /\ order' = [order EXCEPT ![o].st = "PAID"]
      /\ job' = [job EXCEPT ![w] = Idle] /\ job \in [Worker -> Jobs]
      /\ counted' = counted
  BY DEF Sell, Return, Ends, Becomes, Typed, StockTypeOK
<1> HIDE DEF n
<1>5. sold' = [sold EXCEPT ![o] = n]
  <2>1. sold[o] + Held(w) + Unheld(w) = n
    BY <1>1, <1>2 DEF n
  <2> QED BY <1>1, <1>3, <1>4, <2>1
<1>6. OneSale'
  <2>1. \A v \in Worker : Selling(v)' => v # w /\ Selling(v) /\ job'[v] = job[v]
    BY <1>4 DEF Selling, Idle
  <2>2. ASSUME NEW v \in Worker, Selling(v)'
        PROVE  order'[job'[v].ord].st = "PENDING" /\ \A q, r \in job'[v].rows : q = r
    <3>1. job[v].ord # o /\ job[v].ord \in Order
      BY <1>1, <2>1, <2>2, CallIsTyped DEF Sales, OneSale, Selling, Says
    <3>2. order'[job[v].ord].st = order[job[v].ord].st
      BY <1>1, <1>3, <1>4, <3>1
    <3> QED BY <2>1, <2>2, <3>1, <3>2 DEF Sales, OneSale
  <2>3. ASSUME NEW u \in Worker, NEW v \in Worker, Selling(u)', Selling(v)', job'[u].ord = job'[v].ord
        PROVE  u = v
    BY <2>1, <2>3 DEF Sales, OneSale
  <2> QED BY <2>2, <2>3 DEF OneSale
<1>7. SoldOfOrders'
  <2>1. ASSUME NEW q \in Order PROVE (order'[q].st # "PAID" => sold'[q] = 0) /\ sold'[q] <= MaxQty
    <3>1. CASE q = o
      BY <1>1, <1>2, <1>3, <1>4, <1>5, <3>1, StockAssumption
    <3>2. CASE q # o
      BY <1>1, <1>3, <1>4, <1>5, <3>2 DEF Sales, SoldOfOrders
    <3> QED BY <3>1, <3>2
  <2> QED BY <2>1 DEF SoldOfOrders
<1>8. Ledger'
  <2>1. Sum(sold', Order) = Sum(sold, Order) + n
    BY <1>1, <1>2, <1>3, <1>5, OneMoreSale
  <2>2. Sum(sold, Order) \in Nat /\ onHand' = onHand - n
    <3>1. Sum(sold, Order) \in Nat
      BY UnitsAreFinite, StockAssumption
    <3> QED BY <1>2, <1>3, <1>4, <3>1 DEF n
  <2>3. n \in Nat
    BY <1>2 DEF n
  <2> QED BY <1>3, <1>4, <2>1, <2>2, <2>3 DEF Sales, Ledger
<1> QED BY <1>6, <1>7, <1>8 DEF Sales

\* Where a step that goes on or ends leaves its request.
LEMMA WhereItLands ==
  ASSUME Typed, NEW w \in Worker, Proceed(w) \/ Abort(w)
  PROVE  /\ job'[w].at # "sell" /\ job'[w].at # "count"
         /\ job'[w].at = "sum" => FindHold(w)
         /\ job'[w].at = "write" => CountHolds(w)
         /\ job'[w].at = "empty" => ReleaseHolds(w)
<1>1. job \in [Worker -> Jobs] /\ job[w] \in Jobs
  BY DEF Typed, StockTypeOK
<1>2. CASE CountHolds(w)
  <2>1. \/ Becomes(w, [job[w] EXCEPT !.at = "soldout"])
        \/ Becomes(w, [job[w] EXCEPT !.at = "write"])
    BY <1>2 DEF CountHolds, Decide, Ends
  <2>2. job'[w].at \in {"soldout", "write"}
    BY <1>1, <2>1 DEF Becomes, Jobs
  <2> QED BY <1>2, <2>2
<1>3. CASE ReleaseHolds(w)
  <2>1. job'[w].at = "empty"
    BY <1>1, <1>3 DEF ReleaseHolds, Becomes, Jobs
  <2> QED BY <1>3, <2>1
<1>4. CASE FindHolds(w) \/ FindDraft(w) \/ WriteLevel(w)
  <2>1. FindHolds(w) => job'[w].at = "release"
    BY <1>1 DEF FindHolds, Becomes, Jobs
  <2>2. FindDraft(w) => job'[w].at = "draft"
    BY <1>1 DEF FindDraft, Becomes, Jobs
  <2>3. WriteLevel(w) => job'[w].at = "log"
    BY <1>1 DEF WriteLevel, Becomes, Jobs
  <2> QED BY <1>4, <2>1, <2>2, <2>3
<1>7. CASE FindHold(w)
  <2>1. \E m, rows : Becomes(w, [job[w] EXCEPT !.at = "sum", !.mine = m, !.rows = rows])
    BY <1>7 DEF FindHold, Look
  <2>2. job'[w].at = "sum"
    BY ZenonT(40), <1>1, <2>1 DEF Becomes, Jobs
  <2> QED BY <1>7, <2>2
<1>5. CASE Return(w)
  <2>1. job'[w] = Idle
    BY <1>1, <1>5 DEF Return, Ends, Becomes
  <2> QED BY <2>1 DEF Idle
<1>6. CASE Refuse(w)
  <2>1. job'[w] = [Idle EXCEPT !.at = "refused", !.op = job[w].op]
    BY <1>1, <1>6 DEF Refuse, Ends, Becomes
  <2> QED BY <2>1 DEF Idle
<1> QED BY <1>2, <1>3, <1>4, <1>5, <1>6, <1>7
    DEF Proceed, Abort, WriteHold, WriteHoldFails, LineIsGone, EmptyCart, EmptyCartFails,
        WriteDraft, Sell, SellFails, WriteLevelFails, LogRecount, Answered

LEMMA SalesInit == Init => Sales
<1> SUFFICES ASSUME Init PROVE Sales
  OBVIOUS
<1>1. \A w \in Worker : ~Selling(w)
  BY DEF Init, Selling, Idle
<1>2. SoldOfOrders
  BY StockAssumption DEF Init, SoldOfOrders
<1>3. Sum(sold, Order) = 0
  <2>1. Units(sold, Order) = {}
    BY DEF Init, Units
  <2> QED BY <2>1, FS_EmptySet DEF Sum
<1>4. Ledger
  BY <1>3, StockAssumption DEF Init, Ledger
<1> QED BY <1>1, <1>2, <1>4 DEF Sales, OneSale

LEMMA SalesNext == Typed /\ Holding /\ Sales /\ [Next]_vars => Sales'
<1> SUFFICES ASSUME Typed, Holding, Sales, [Next]_vars PROVE Sales'
  OBVIOUS
<1>1. ASSUME NEW w \in Worker, Begin(w) PROVE Sales'
  <2>1. ASSUME NEW o \in Order, TakePayment(w, o) PROVE Sales'
    BY <2>1, PaymentStarts
  <2>2. CASE \A o \in Order : ~TakePayment(w, o)
    <3>1. UNCHANGED <<order, sold, onHand, counted>>
      BY <1>1, <2>2 DEF Begin, AskHold, Empty, ReadCart, ReadLevel, shelf
    <3>2. job'[w].at # "sell"
      BY <1>1, <2>2 DEF Begin, AskHold, Empty, ReadCart, ReadLevel, Becomes, Idle, Holding
    <3> QED BY <1>1, <3>1, <3>2, SalesStay DEF Acts
  <2> QED BY <2>1, <2>2
<1>2. ASSUME NEW w \in Worker, Proceed(w) \/ Abort(w) PROVE Sales'
  <2>1. CASE WriteDraft(w)
    BY <2>1, DraftKeepsSales
  <2>2. CASE Sell(w)
    BY <2>2, SaleKeepsSales
  <2>3. CASE ~WriteDraft(w) /\ ~Sell(w)
    <3>1. UNCHANGED <<order, sold>>
      BY <1>2, <2>3
      DEF Proceed, Abort, FindHold, Look, CountHolds, Decide, WriteHold, WriteHoldFails, LineIsGone, FindHolds,
          ReleaseHolds, EmptyCart, EmptyCartFails, FindDraft, SellFails,
          WriteLevel, WriteLevelFails, LogRecount, Answered, shelf
    <3>2. ~Recounts => UNCHANGED <<onHand, counted>>
      <4>1. job[w].at \in {"level", "log"} => Recounts
        BY CallIsTyped DEF Says
      <4> QED BY <1>2, <2>3, <4>1
      DEF Proceed, Abort, FindHold, Look, CountHolds, Decide, WriteHold, WriteHoldFails, LineIsGone, FindHolds,
          ReleaseHolds, EmptyCart, EmptyCartFails, FindDraft, SellFails,
          WriteLevel, WriteLevelFails, LogRecount, Answered, shelf, At
    <3>3. job'[w].at # "sell"
      BY <1>2, <2>3, WhereItLands
    <3> QED BY <1>2, <3>1, <3>2, <3>3, SalesStay DEF Acts
  <2> QED BY <2>1, <2>2, <2>3
<1>3. CASE Clock \/ UNCHANGED vars
  <2>1. UNCHANGED <<job, order, sold, onHand, counted>>
    BY <1>3 DEF Clock, Lapse, Renew, vars, shelf
  <2> QED BY <2>1 DEF Sales, OneSale, SoldOfOrders, Ledger, Selling
<1> QED BY <1>1, <1>2, <1>3 DEF Next

LEMMA SalesAlways == Spec => []Sales
<1>1. Typed /\ Holding /\ Sales /\ [Next]_vars => Sales'
  BY SalesNext
<1> QED BY SalesInit, <1>1, TypedAlways, HoldingAlways, PTL DEF Spec

\* Nothing leaves the shelf for an order that is paid.
LEMMA PaidIsSold ==
  ASSUME Typed, Sales, [Next]_vars, NEW o \in Order, order[o].st = "PAID"
  PROVE  sold'[o] = sold[o]
<1>1. CASE UNCHANGED sold
  BY <1>1
<1>2. CASE \E w \in Worker : Sell(w)
  <2>1. PICK w \in Worker : Sell(w)
    BY <1>2
  <2>2. job[w].ord \in Order /\ order[job[w].ord].st = "PENDING"
    BY <2>1, CallIsTyped DEF Sell, At, Selling, Says, Sales, OneSale
  <2>3. sold' = [sold EXCEPT ![job[w].ord] = @ + Held(w) + Unheld(w)] /\ sold \in [Order -> Nat]
    BY <2>1 DEF Sell, Typed, StockTypeOK
  <2> QED BY <2>2, <2>3
<1>3. UNCHANGED sold \/ \E w \in Worker : Sell(w)
  <2>1. \A w \in Worker : Begin(w) => UNCHANGED sold
    BY DEF Begin, AskHold, Empty, ReadCart, TakePayment, ReadHolds, ReadLevel, shelf
  <2>2. \A w \in Worker : Proceed(w) \/ Abort(w) => UNCHANGED sold \/ Sell(w)
    BY DEF Proceed, Abort, FindHold, Look, CountHolds, Decide, WriteHold, WriteHoldFails, LineIsGone, FindHolds,
          ReleaseHolds, EmptyCart, EmptyCartFails, FindDraft, WriteDraft, SellFails,
          WriteLevel, WriteLevelFails, LogRecount, Answered, shelf
  <2>3. Clock \/ UNCHANGED vars => UNCHANGED sold
    BY DEF Clock, Lapse, Renew, vars, shelf
  <2> QED BY <2>1, <2>2, <2>3 DEF Next
<1> QED BY <1>1, <1>2, <1>3

\* A payment's stock is taken once, however often and from however many places its
\* success is reported (markPaid's compare-and-set, checkout.service.ts:872).
THEOREM StockIsTakenOnce == Spec => StockTakenOnce
<1>1. Typed /\ Sales /\ [Next]_vars =>
        [\A o \in Order : order[o].st = "PAID" => sold'[o] = sold[o]]_vars
  BY PaidIsSold
<1> QED
  BY <1>1, TypedAlways, SalesAlways, PTL DEF Spec, StockTakenOnce

\* Without recounts, what orders took is what is missing on the shelf: each sale
\* writes its movements for exactly the units it takes (orders.ts:68 and 152).
THEOREM LedgerIsBalanced == ASSUME Recounts = FALSE PROVE Spec => []LedgerBalances
<1>1. Typed /\ Sales => LedgerBalances
  <2> SUFFICES ASSUME Typed, Sales PROVE onHand = Initial + counted - Sum(sold, Order)
    BY DEF LedgerBalances
  <2>1. counted = 0 /\ onHand + Sum(sold, Order) = Initial
    BY DEF Sales, Ledger
  <2>2. onHand \in Nat /\ Sum(sold, Order) \in Nat
    BY UnitsAreFinite, StockAssumption DEF Typed, StockTypeOK
  <2> QED BY <2>1, <2>2
<1> QED
  BY <1>1, TypedAlways, SalesAlways, PTL

-----------------------------------------------------------------------------
(***************************************************************************)
(* Requests write their own cart's holds.                                  *)
(***************************************************************************)
\* The hold a request has found, and those an emptying cart has released, are its
\* cart's.
CallsOwn ==
  \A w \in Worker :
    /\ Holds(w) /\ job[w].mine # NoRow =>
         /\ holdCart[job[w].mine] = job[w].cart /\ holdState[job[w].mine] # "NONE"
         /\ job[w].mine \notin job[w].rows
    /\ job[w].at = "empty" => \A r \in job[w].rows : holdCart[r] = job[w].cart /\ holdState[r] # "NONE"

Owned == CallsOwn /\ FoundStands

\* A hold never changes hands.
RowsKeepTheirCart ==
  \A r \in Row : holdState[r] # "NONE" => holdState'[r] # "NONE" /\ holdCart'[r] = holdCart[r]

Reshelves(w) == WriteHold(w) \/ EmptyCart(w) \/ Sell(w)

LEMMA OthersLeaveHolds ==
  ASSUME [Next]_vars, \A w \in Worker : ~Reshelves(w)
  PROVE  UNCHANGED <<holdState, holdCart, holdQty, basket>>
<1>1. \A w \in Worker : Begin(w) => UNCHANGED <<holds, basket>>
  BY DEF Begin, AskHold, Empty, ReadCart, TakePayment, ReadHolds, ReadLevel
<1>2. \A w \in Worker : Proceed(w) \/ Abort(w) => UNCHANGED <<holds, basket>>
  BY DEF Reshelves, Proceed, Abort, FindHold, Look, CountHolds, Decide, WriteHoldFails, LineIsGone, FindHolds,
         ReleaseHolds, EmptyCartFails, FindDraft, WriteDraft, SellFails,
         WriteLevel, WriteLevelFails, LogRecount, Answered
<1>3. Clock \/ UNCHANGED vars => UNCHANGED <<holdState, holdCart, holdQty, basket>>
  BY DEF Clock, Lapse, Renew, vars, holds
<1> QED BY <1>1, <1>2, <1>3 DEF Next, holds

\* A grant goes to the cart's own hold or to a new one.
LEMMA GrantIsOwn ==
  ASSUME Typed, Owned, NEW w \in Worker, At(w, "write"), NEW target \in Targets(w)
  PROVE  /\ target \in Row => holdState[target] = "NONE" \/ holdCart[target] = job[w].cart
         /\ read[w].num > 0 => target \in Row
         /\ job[w].cart \in Cart
<1>1. job[w] \in Jobs /\ job[w].cart \in Cart
  BY CallIsTyped DEF At, Says
<1>2. CASE job[w].mine # NoRow
  BY <1>1, <1>2 DEF Targets, Owned, CallsOwn, At, Holds, Jobs
<1>3. CASE job[w].mine = NoRow
  BY <1>1, <1>3, StockAssumption DEF Targets
<1> QED BY <1>1, <1>2, <1>3

LEMMA HoldsKeepTheirCart ==
  ASSUME Typed, Owned, [Next]_vars
  PROVE  RowsKeepTheirCart
<1>0. RowsTyped
  BY TypedInParts
<1>1. ASSUME NEW w \in Worker, WriteHold(w) PROVE RowsKeepTheirCart
  <2>1. PICK target \in Targets(w) : Grant(w, target)
    BY <1>1 DEF WriteHold
  <2>2. At(w, "write")
    BY <1>1 DEF WriteHold
  <2>3. ASSUME NEW r \in Row, holdState[r] # "NONE"
        PROVE  holdState'[r] # "NONE" /\ holdCart'[r] = holdCart[r]
    <3>1. holdState'[r] = IF r = target THEN Granted(w, target)
                          ELSE IF r \in job[w].rows THEN "EXPIRED" ELSE holdState[r]
      BY <2>1 DEF Grant, StateAfter
    <3>2. holdCart'[r] = IF r \in {target} \cap {q \in Row : read[w].num > 0}
                         THEN job[w].cart ELSE holdCart[r]
      BY <2>1 DEF Grant
    <3>3. r = target => holdCart[r] = job[w].cart
      BY <2>2, <2>3, GrantIsOwn
    <3>4. r = target => Granted(w, target) # "NONE"
      BY <2>3 DEF Granted
    <3> QED BY <2>3, <3>1, <3>2, <3>3, <3>4
  <2> QED BY <2>3 DEF RowsKeepTheirCart
<1>2. ASSUME NEW w \in Worker, EmptyCart(w) \/ Sell(w) PROVE RowsKeepTheirCart
  <2>1. holdCart' = holdCart
    BY <1>2 DEF EmptyCart, Sell
  <2>2. \A r \in Row : holdState'[r] \in {"RELEASED", "CONSUMED", holdState[r]}
    BY <1>2 DEF EmptyCart, Sell
  <2> QED BY <2>1, <2>2 DEF RowsKeepTheirCart
<1>3. CASE \A w \in Worker : ~Reshelves(w)
  BY <1>3, OthersLeaveHolds DEF RowsKeepTheirCart
<1> QED BY <1>1, <1>2, <1>3 DEF Reshelves

CallOwns(w) ==
  /\ Holds(w) /\ job[w].mine # NoRow =>
       /\ holdCart[job[w].mine] = job[w].cart /\ holdState[job[w].mine] # "NONE"
       /\ job[w].mine \notin job[w].rows
  /\ job[w].at = "empty" => \A r \in job[w].rows : holdCart[r] = job[w].cart /\ holdState[r] # "NONE"

LEMMA EachMovesOrStays ==
  ASSUME Typed, [Next]_vars, NEW w \in Worker
  PROVE  (job'[w] = job[w] /\ read'[w] = read[w]) \/ Acts(w)
<1>1. CASE \E v \in Worker : Acts(v)
  BY <1>1, OneMoves
<1>2. CASE Clock \/ UNCHANGED vars
  BY <1>2 DEF Clock, Lapse, Renew, vars
<1> QED BY <1>1, <1>2 DEF Next, Acts

LEMMA CallsStillOwn ==
  ASSUME Typed, Owned, [Next]_vars
  PROVE  CallsOwn'
<1>1. RowsKeepTheirCart
  BY HoldsKeepTheirCart
<1>2. ASSUME NEW w \in Worker, job'[w] = job[w]
      PROVE  CallOwns(w)'
  <2>1. job[w].mine \in Row \cup {NoRow} /\ job[w].rows \subseteq Row
    BY CallIsTyped DEF Jobs
  <2>2. CallOwns(w)
    BY DEF Owned, CallsOwn, CallOwns
  <2> QED BY <1>1, <1>2, <2>1, <2>2 DEF RowsKeepTheirCart, CallOwns, Holds
<1>3. ASSUME NEW w \in Worker, Acts(w)
      PROVE  CallOwns(w)'
  <2>0. job \in [Worker -> Jobs] /\ job[w] \in Jobs
    BY DEF Typed, StockTypeOK
  <2>1. CASE Begin(w)
    <3>1. job'[w].at \in {"count", "find", "lookup", "sell", "level"}
      BY <2>0, <2>1 DEF Begin, AskHold, Empty, ReadCart, TakePayment, ReadHolds, ReadLevel, Becomes, Idle
    <3> QED BY <3>1 DEF CallOwns, Holds
  <2>2. CASE FindHold(w)
    <3> DEFINE gone == Active \cap lapsed
               own == HeldBy(job[w].cart) \ gone
    <3>1. PICK m \in IF own = {} THEN {NoRow} ELSE own :
            Becomes(w, [job[w] EXCEPT !.at = "sum", !.mine = m, !.rows = gone])
      BY <2>2 DEF FindHold, Look
    <3>2. /\ job'[w].at = "sum" /\ job'[w].mine = m /\ job'[w].cart = job[w].cart
          /\ job'[w].rows = gone
      BY <2>0, <3>1 DEF Becomes, Jobs
    <3>3. UNCHANGED holds
      BY <2>2 DEF FindHold, Look
    <3>4. m # NoRow => holdCart[m] = job[w].cart /\ holdState[m] = "ACTIVE" /\ m \notin gone
      BY <3>1 DEF HeldBy, Active
    <3> QED BY <3>2, <3>3, <3>4 DEF holds, CallOwns
  <2>3. CASE ReleaseHolds(w)
    <3>1. job'[w].at = "empty" /\ job'[w].rows = HeldBy(job[w].cart) /\ job'[w].cart = job[w].cart
      BY <2>0, <2>3 DEF ReleaseHolds, Becomes, Jobs
    <3>2. UNCHANGED holds
      BY <2>3 DEF ReleaseHolds
    <3> QED BY <3>1, <3>2 DEF HeldBy, Active, holds, CallOwns, Holds
  <2>4. CASE CountHolds(w)
    <3>1. \/ Becomes(w, [job[w] EXCEPT !.at = "soldout"])
          \/ Becomes(w, [job[w] EXCEPT !.at = "write"])
      BY <2>4 DEF CountHolds, Decide, Ends
    <3>2. /\ job'[w].mine = job[w].mine /\ job'[w].cart = job[w].cart
          /\ job'[w].rows = job[w].rows
          /\ job'[w].at # "empty"
      BY <2>0, <3>1 DEF Becomes, Jobs
    <3>3. UNCHANGED holds /\ Holds(w)
      BY <2>4 DEF CountHolds, Decide, At, Holds
    <3> QED BY <3>2, <3>3 DEF Owned, CallsOwn, CallOwns, holds
  <2>5. CASE (Proceed(w) \/ Abort(w)) /\ ~FindHold(w) /\ ~CountHolds(w) /\ ~ReleaseHolds(w)
    BY <2>5, WhereItLands DEF CallOwns, Holds
  <2> QED BY <1>3, <2>1, <2>2, <2>3, <2>4, <2>5 DEF Acts
<1>4. \A w \in Worker : CallOwns(w)'
  BY <1>2, <1>3, EachMovesOrStays
<1> QED BY <1>4 DEF CallsOwn, CallOwns

\* The first step of a request.
LEMMA WhereItBegins ==
  ASSUME job \in [Worker -> Jobs], NEW w \in Worker, Begin(w)
  PROVE  job'[w].at \in {"count", "find", "lookup", "sell", "level"}
<1> USE DEF Becomes, Idle
<1>1. ASSUME NEW c \in Cart, NEW q \in 0..MaxQty, AskHold(w, c, q) PROVE job'[w].at = "count"
  BY <1>1 DEF AskHold
<1>2. ASSUME NEW c \in Cart, Empty(w, c) PROVE job'[w].at = "find"
  BY <1>2 DEF Empty
<1>3. ASSUME NEW c \in Cart, ReadCart(w, c) PROVE job'[w].at = "lookup"
  BY <1>3 DEF ReadCart
<1>4. ASSUME NEW o \in Order, TakePayment(w, o) PROVE job'[w].at = "sell"
  BY <1>4 DEF TakePayment, ReadHolds
<1>5. ASSUME NEW truth \in 0..MaxTruth, ReadLevel(w, truth) PROVE job'[w].at = "level"
  BY <1>5 DEF ReadLevel
<1> QED BY <1>1, <1>2, <1>3, <1>4, <1>5 DEF Begin

\* Only a write changes what a hold stands for, and the writer is alone.
LEMMA FoundStillStands ==
  ASSUME Typed, Holding, FoundStands, [Next]_vars
  PROVE  FoundStands'
<1> SUFFICES ASSUME NEW w \in Worker, job'[w].at = "sum", job'[w].mine # NoRow
             PROVE  read'[w].took[job'[w].mine] = holdQty'[job'[w].mine]
  BY DEF FoundStands, At
<1>0. /\ job \in [Worker -> Jobs] /\ job[w] \in Jobs
      /\ read \in [Worker -> Numbers] /\ read[w] \in Numbers
  BY DEF Typed, StockTypeOK, Numbers
<1>1. CASE job'[w] = job[w] /\ read'[w] = read[w]
  <2>1. Holds(w)
    BY <1>1 DEF Holds
  <2>2. ASSUME NEW v \in Worker, WriteHold(v) PROVE FALSE
    <3>1. Holds(v) /\ job'[v] = Idle
      BY <1>0, <2>2 DEF WriteHold, At, Holds, Return, Ends, Becomes
    <3>2. v = w
      BY <2>1, <3>1 DEF Holding, OneWriter
    <3> QED BY <3>1, <3>2 DEF Idle
  <2>3. holdQty' = holdQty
    <3>1. CASE \A v \in Worker : ~Reshelves(v)
      BY <3>1, OthersLeaveHolds
    <3>2. CASE \E v \in Worker : EmptyCart(v) \/ Sell(v)
      BY <3>2 DEF EmptyCart, Sell
    <3> QED BY <2>2, <3>1, <3>2 DEF Reshelves
  <2> QED BY <1>1, <2>3 DEF FoundStands, At
<1>2. CASE Acts(w)
  <2>1. ~Begin(w)
    <3>1. Begin(w) => job'[w].at \in {"count", "find", "lookup", "sell", "level"}
      BY <1>0, WhereItBegins
    <3> QED BY <3>1
  <2>2. FindHold(w)
    BY <1>2, <2>1, WhereItLands DEF Acts
  <2> DEFINE gone == Active \cap lapsed
             own == HeldBy(job[w].cart) \ gone
  <2>3. PICK m \in IF own = {} THEN {NoRow} ELSE own :
          /\ Becomes(w, [job[w] EXCEPT !.at = "sum", !.mine = m, !.rows = gone])
          /\ Notes(w, [read[w] EXCEPT !.took = [r \in Row |-> IF r = m THEN holdQty[r] ELSE 0]])
    BY <2>2 DEF FindHold, Look
  <2>4. job'[w].mine = m
    BY <1>0, <2>3 DEF Becomes, Jobs
  <2>5. read'[w].took = [r \in Row |-> IF r = m THEN holdQty[r] ELSE 0]
    BY <1>0, <2>3 DEF Notes, Numbers
  <2>6. m \in Row /\ holdQty' = holdQty
    BY <2>2, <2>3, <2>4 DEF HeldBy, Active, FindHold, Look, holds
  <2> QED BY <2>4, <2>5, <2>6
<1> QED BY <1>1, <1>2, EachMovesOrStays

LEMMA OwnedAlways == Spec => []Owned
<1>1. Init => Owned
  BY DEF Init, Idle, Owned, CallsOwn, FoundStands, At, Holds
<1>2. Typed /\ Holding /\ Owned /\ [Next]_vars => Owned'
  BY CallsStillOwn, FoundStillStands DEF Owned
<1> QED BY <1>1, <1>2, TypedAlways, HoldingAlways, PTL DEF Spec

\* Nobody is told "sold out" while units are left that are not held by another
\* cart's unexpired hold (reservations.ts:125).
THEOREM SoldOutIsTold == Spec => SoldOutIsHonest
<1>1. Typed /\ Holding /\ Owned /\ [Next]_vars =>
        [\A w \in Worker : At(w, "sum") /\ job'[w].at = "soldout"
           => onHand <= Sum(holdQty, Active \ (job[w].rows \cup HeldBy(job[w].cart)))]_vars
  BY SoldOutIsTrue DEF Owned
<1> QED
  BY <1>1, TypedAlways, HoldingAlways, OwnedAlways, PTL DEF Spec, SoldOutIsHonest

-----------------------------------------------------------------------------
(***************************************************************************)
(* The counter, and the room on the shelf, until something is sold.        *)
(***************************************************************************)
NoneSold == \A o \in Order : order[o].st # "PAID"

Promised == Sum(holdQty, Active)

LEMMA PromisedIsNat == Promised \in Nat
BY SumsOfHolds DEF Promised, Active

\* A paid order stays paid, and a sale pays one.
LEMMA SoldIsForGood ==
  ASSUME Typed, [Next]_vars, NoneSold'
  PROVE  NoneSold /\ \A w \in Worker : ~Sell(w)
<1>0. order \in [Order -> [st : OrderStates, qty : 0..MaxQty]]
  BY DEF Typed, StockTypeOK
<1>1. ASSUME NEW w \in Worker, Sell(w) PROVE FALSE
  <2>1. job[w].ord \in Order /\ order' = [order EXCEPT ![job[w].ord].st = "PAID"]
    BY <1>1, CallIsTyped DEF Sell, At, Says
  <2> QED BY <1>0, <2>1 DEF NoneSold
<1>2. CASE UNCHANGED order
  BY <1>1, <1>2 DEF NoneSold
<1>3. CASE \E w \in Worker : WriteDraft(w)
  <2>1. PICK w \in Worker : WriteDraft(w)
    BY <1>3
  <2>2. CASE order' = [order EXCEPT ![job[w].ord].qty = read[w].num]
    BY <1>0, <1>1, <2>2 DEF NoneSold
  <2>3. CASE \E o \in Order : /\ order[o].st = "NONE"
                              /\ order' = [order EXCEPT ![o] = [st |-> "PENDING", qty |-> read[w].num]]
    BY <1>0, <1>1, <2>3 DEF NoneSold
  <2> QED BY <2>1, <2>2, <2>3 DEF WriteDraft
<1>4. UNCHANGED order \/ \E w \in Worker : WriteDraft(w) \/ Sell(w)
  <2>1. \A w \in Worker : Begin(w) => UNCHANGED order
    BY DEF Begin, AskHold, Empty, ReadCart, TakePayment, ReadHolds, ReadLevel
  <2>2. \A w \in Worker : Proceed(w) \/ Abort(w) => UNCHANGED order \/ WriteDraft(w) \/ Sell(w)
    BY DEF Proceed, Abort, FindHold, Look, CountHolds, Decide, WriteHold, WriteHoldFails, LineIsGone, FindHolds,
          ReleaseHolds, EmptyCart, EmptyCartFails, FindDraft, SellFails,
          WriteLevel, WriteLevelFails, LogRecount, Answered
  <2>3. Clock \/ UNCHANGED vars => UNCHANGED order
    BY DEF Clock, Lapse, Renew, vars
  <2> QED BY <2>1, <2>2, <2>3 DEF Next
<1> QED BY <1>1, <1>2, <1>3, <1>4

\* The steps that are not about the shelf or its holds.
LEMMA OthersLeaveShelf ==
  ASSUME [Next]_vars, \A w \in Worker : ~Reshelves(w)
  PROVE  reserved' = reserved /\ (UNCHANGED onHand \/ \E w \in Worker : WriteLevel(w))
<1>1. \A w \in Worker : Begin(w) => UNCHANGED <<reserved, onHand>>
  BY DEF Begin, AskHold, Empty, ReadCart, TakePayment, ReadHolds, ReadLevel, shelf
<1>2. \A w \in Worker : Proceed(w) \/ Abort(w) => UNCHANGED reserved /\ (UNCHANGED onHand \/ WriteLevel(w))
  BY DEF Reshelves, Proceed, Abort, FindHold, Look, CountHolds, Decide, WriteHoldFails, LineIsGone, FindHolds,
         ReleaseHolds, EmptyCartFails, FindDraft, WriteDraft, SellFails,
         WriteLevel, WriteLevelFails, LogRecount, Answered, shelf
<1>3. Clock \/ UNCHANGED vars => UNCHANGED <<reserved, onHand>>
  BY DEF Clock, Lapse, Renew, vars, shelf
<1> QED BY <1>1, <1>2, <1>3 DEF Next

Counter == ~Clears /\ NoneSold => reserved = Promised

LEMMA CounterNext == Typed /\ Counter /\ [Next]_vars => Counter'
<1> SUFFICES ASSUME Typed, Counter, [Next]_vars, ~Clears, NoneSold' PROVE reserved' = Promised'
  BY DEF Counter
<1>1. NoneSold /\ (\A w \in Worker : ~Sell(w)) /\ reserved = Promised
  BY SoldIsForGood DEF Counter
<1>2. \A w \in Worker : ~EmptyCart(w)
  BY CallIsTyped DEF EmptyCart, At, Says
<1>3. ASSUME NEW w \in Worker, WriteHold(w) PROVE reserved' = Promised'
  BY <1>3 DEF WriteHold, SumAfter, Promised, Active
<1>4. CASE \A w \in Worker : ~Reshelves(w)
  <2>1. UNCHANGED <<holdState, holdQty, reserved>>
    BY <1>4, OthersLeaveHolds, OthersLeaveShelf
  <2> QED BY <1>1, <2>1 DEF Promised, Active
<1> QED BY <1>1, <1>2, <1>3, <1>4 DEF Reshelves

LEMMA CounterInit == Init => Counter
<1> SUFFICES ASSUME Init PROVE Counter
  OBVIOUS
<1>1. Active = {} /\ reserved = 0
  BY DEF Init, Active
<1> QED BY <1>1, SumOfNothing DEF Counter, Promised

LEMMA CounterAlways == Spec => []Counter
<1>1. Typed /\ Counter /\ [Next]_vars => Counter'
  BY CounterNext
<1> QED BY <1>1, CounterInit, TypedAlways, PTL DEF Spec

\* Until a cart is emptied or something is sold, the cached counter is the sum of
\* the live holds (syncReserved, reservations.ts:85).
THEOREM CounterIsSum == Spec => []ReservedIsSum
<1>1. Counter => ReservedIsSum
  BY DEF Counter, ReservedIsSum, NoneSold, Promised
<1> QED
  BY <1>1, CounterAlways, PTL

-----------------------------------------------------------------------------
(***************************************************************************)
(* Until something is sold there is room for what the requests will write. *)
(***************************************************************************)
Written(w) == job[w].rows \cup {job[w].mine}

WriterFits(w) ==
  At(w, "write") /\ job[w].mine \in Active \cup {NoRow}
    => Sum(holdQty, Active \ Written(w)) + read[w].num <= onHand
ClearFits(w) == At(w, "empty") => read[w].num <= onHand
NotRefused(w) == ~(At(w, "refused") /\ job[w].op \in {"add", "set", "clear"})

Room == NoneSold => /\ Promised <= onHand
                    /\ \A w \in Worker : WriterFits(w) /\ ClearFits(w) /\ NotRefused(w)

\* The sum a hold recomputes cannot break the CHECK: it writes what fitted beside
\* the holds it leaves alone.
LEMMA WriteSucceeds ==
  ASSUME Typed, Owned, NEW w \in Worker, At(w, "write"), WriterFits(w),
         Promised <= onHand, NEW target \in Targets(w)
  PROVE  Legal(onHand, Sum([holdQty EXCEPT ![target] = read[w].num],
                           {r \in Row : StateAfter(w, target)[r] = "ACTIVE"}))
<1> DEFINE rest == Active \ Written(w)
           base == rest \ {target}
           num == read[w].num
           f == [holdQty EXCEPT ![target] = num]
           after == {r \in Row : StateAfter(w, target)[r] = "ACTIVE"}
<1>1. /\ num \in 0..MaxQty /\ num \in Nat /\ onHand \in Nat
      /\ holdQty \in [Row -> 0..MaxQty]
  BY CallIsTyped, TypedInParts, StockAssumption DEF At, Says, Numbers, RowsTyped
<1>2. rest \in SUBSET Row /\ base \in SUBSET rest /\ base \in SUBSET Row /\ after \in SUBSET Row
      /\ target \notin base /\ base \in SUBSET Active
  BY DEF Active
<1>3. num > 0 => target \in Row
  BY GrantIsOwn
<1>4. job[w].mine # NoRow => target = job[w].mine
  BY DEF Targets
<1>5. \A r \in Row : StateAfter(w, target)[r] =
        IF r = target THEN Granted(w, target)
        ELSE IF r \in job[w].rows THEN "EXPIRED" ELSE holdState[r]
  BY DEF StateAfter
<1>6. after \ {target} \subseteq base
  <2> SUFFICES ASSUME NEW r \in Row, r # target, StateAfter(w, target)[r] = "ACTIVE"
               PROVE  r \in Active /\ r \notin job[w].rows /\ r # job[w].mine
    BY DEF Written
  <2>1. r \notin job[w].rows /\ holdState[r] = "ACTIVE"
    BY <1>5
  <2>2. r # job[w].mine
    BY <1>4, StockAssumption
  <2> QED BY <2>1, <2>2 DEF Active
<1>7. target \in after => num > 0 /\ job[w].mine \in Active \cup {NoRow}
  BY <1>4, <1>5 DEF Granted, Active
<1>8. \A r \in base : f[r] = holdQty[r]
  BY <1>1, <1>2
<1>9. target \in after => Sum(holdQty, rest) + num <= onHand
  BY <1>7 DEF WriterFits
<1>10. target \in Row => f[target] = num
  BY <1>1
<1> HIDE DEF rest, base, num, f, after
<1>11. /\ Sum(holdQty, rest) \in Nat /\ Sum(holdQty, base) \in Nat /\ Sum(f, base) \in Nat
       /\ Sum(f, after) \in Nat /\ IsFiniteSet(rest) /\ IsFiniteSet(base)
  BY <1>2, SumsOfHolds
<1>12. Sum(f, base) = Sum(holdQty, base)
  BY <1>8, SumSame
<1>13. Sum(holdQty, base) <= Sum(holdQty, rest)
  BY <1>2, <1>11, SumGrows
<1>14. Sum(holdQty, base) <= onHand
  <2>1. IsFiniteSet(Active) /\ Promised \in Nat
    BY SumsOfHolds, PromisedIsNat DEF Active
  <2>2. Sum(holdQty, base) <= Promised
    BY <1>2, <2>1, SumGrows DEF Promised
  <2> QED BY <1>1, <1>11, <2>1, <2>2
<1>15. CASE target \in after
  <2>1. after \in SUBSET (base \cup {target}) /\ base \cup {target} \in SUBSET Row /\ target \in Row
    BY <1>2, <1>6, <1>15
  <2>2. IsFiniteSet(base \cup {target}) /\ Sum(f, base \cup {target}) \in Nat
    BY <2>1, SumsOfHolds
  <2>3. Sum(f, after) <= Sum(f, base \cup {target})
    BY <2>1, <2>2, SumGrows
  <2>4. f[target] = num
    BY <1>10, <2>1
  <2>5. Sum(f, base \cup {target}) = Sum(f, base) + num
    BY <1>1, <1>2, <1>11, <2>4, SumAdds
  <2> QED BY <1>1, <1>9, <1>11, <1>12, <1>13, <1>15, <2>2, <2>3, <2>5 DEF Legal, f, after, num
<1>16. CASE target \notin after
  <2>1. after \in SUBSET base
    BY <1>6, <1>16
  <2>2. Sum(f, after) <= Sum(f, base)
    BY <1>11, <2>1, SumGrows
  <2> QED BY <1>1, <1>11, <1>12, <1>14, <2>2 DEF Legal, f, after, num
<1> QED BY <1>15, <1>16

\* Where a request that is not writing the shelf lands, there is room for it.
LEMMA LandsWithRoom ==
  ASSUME Typed, Owned, Room, NoneSold, NEW w \in Worker, Acts(w),
         UNCHANGED <<onHand, holdQty>>, Active' \subseteq Active
  PROVE  WriterFits(w)' /\ ClearFits(w)' /\ NotRefused(w)'
<1>0. /\ job \in [Worker -> Jobs] /\ read \in [Worker -> Numbers]
      /\ job[w] \in Jobs /\ read[w] \in Numbers /\ onHand \in Nat
      /\ Promised <= onHand /\ Promised \in Nat
      /\ WriterFits(w) /\ ClearFits(w) /\ Says(job[w], read[w])
  BY CallIsTyped, PromisedIsNat DEF Typed, StockTypeOK, Numbers, Room
<1>1. CASE Begin(w)
  <2>1. job'[w].at \in {"count", "find", "lookup", "sell", "level"}
    BY ZenonT(40), <1>0, <1>1 DEF Begin, AskHold, Empty, ReadCart, TakePayment, ReadHolds, ReadLevel, Becomes, Idle
  <2> QED BY <2>1 DEF WriterFits, ClearFits, NotRefused, At
<1>2. CASE CountHolds(w)
  <2> DEFINE fits == Fitting(w, Own(w))
             live == Active \ job[w].rows
             mine == job[w].mine
  <2>0. At(w, "sum") /\ UNCHANGED <<holdState, holdQty, onHand>>
    BY <1>2 DEF CountHolds, Decide, holds
  <2>1. CASE Becomes(w, [job[w] EXCEPT !.at = "soldout"])
    <3>1. job'[w].at = "soldout"
      BY <1>0, <2>1 DEF Becomes, Jobs
    <3> QED BY <3>1 DEF WriterFits, ClearFits, NotRefused, At
  <2>2. CASE /\ Becomes(w, [job[w] EXCEPT !.at = "write"])
             /\ Notes(w, [read[w] EXCEPT !.num = fits])
    <3>1. job'[w].at = "write" /\ job'[w].rows = job[w].rows /\ job'[w].mine = mine
      BY <1>0, <2>2 DEF Becomes, Jobs
    <3>2. read'[w].num = fits
      BY <1>0, <2>2 DEF Notes, Numbers
    <3> DEFINE rest == Active \ Written(w)
    <3>3. /\ Sum(holdQty, live) \in Nat /\ fits \in Nat /\ Own(w) \in 0..MaxQty
          /\ fits > 0 => Sum(holdQty, live) - Own(w) + fits <= onHand
      BY FittingFits
    <3>4. live \in SUBSET Active /\ rest \in SUBSET live /\ live \in SUBSET Row /\ rest \in SUBSET Row
      BY DEF Active, Written
    <3>5. IsFiniteSet(live) /\ IsFiniteSet(Active) /\ IsFiniteSet(rest) /\ Sum(holdQty, rest) \in Nat
      BY <3>4, SumsOfHolds DEF Active
    <3>6. Active' = Active
      BY <2>0 DEF Active
    <3>7. Sum(holdQty, rest) <= Promised
      BY <3>4, <3>5, SumGrows DEF Promised
    <3>8. ASSUME mine \in Active \cup {NoRow}, fits > 0
          PROVE  Sum(holdQty, rest) + fits <= onHand
      <4>1. CASE mine \notin live
        <5>1. mine = NoRow
          BY <2>0, <3>8, <4>1 DEF Owned, CallsOwn, At, Holds
        <5>2. rest = live /\ Own(w) = 0
          BY <5>1, StockAssumption DEF Written, Active, Own
        <5> HIDE DEF live, rest, mine, fits
        <5> QED BY <1>0, <3>3, <3>8, <5>2
      <4>2. CASE mine \in live
        <5>1. live = rest \cup {mine} /\ mine \notin rest /\ mine \in Row
          BY <3>4, <4>2 DEF Written
        <5>2. mine # NoRow
          BY <5>1, StockAssumption
        <5>3. Own(w) = holdQty[mine] /\ holdQty[mine] \in 0..MaxQty
          BY <2>0, <5>1, <5>2, TypedInParts DEF Own, Owned, FoundStands, RowsTyped
        <5> HIDE DEF live, rest, mine, fits
        <5>4. Sum(holdQty, live) = Sum(holdQty, rest) + holdQty[mine]
          BY <3>5, <5>1, <5>3, SumAdds
        <5> QED BY <1>0, <3>3, <3>5, <3>8, <5>3, <5>4, StockAssumption
      <4> QED BY <4>1, <4>2
    <3>9. WriterFits(w)'
      <4>1. Written(w)' = Written(w)
        BY <3>1 DEF Written
      <4>2. ASSUME mine \in Active \cup {NoRow} PROVE Sum(holdQty, rest) + fits <= onHand
        <5> HIDE DEF fits, rest, mine
        <5> QED BY <1>0, <3>3, <3>5, <3>7, <3>8, <4>2
      <4> QED BY <2>0, <3>1, <3>2, <3>6, <4>1, <4>2 DEF WriterFits
    <3> QED BY <3>1, <3>9 DEF ClearFits, NotRefused, At
  <2> QED BY <1>2, <2>1, <2>2 DEF CountHolds, Decide, Ends
<1>3. CASE ReleaseHolds(w)
  <2> DEFINE rest == Active \ HeldBy(job[w].cart)
  <2>1. job'[w].at = "empty" /\ read'[w].num = Sum(holdQty, rest)
    BY <1>0, <1>3, StartsAreTyped DEF ReleaseHolds, Becomes, Notes, Jobs, Numbers
  <2>2. rest \in SUBSET Active /\ IsFiniteSet(Active) /\ Sum(holdQty, rest) \in Nat
    BY SumsOfHolds DEF Active
  <2>3. Sum(holdQty, rest) <= Promised
    BY <2>2, SumGrows DEF Promised
  <2> HIDE DEF rest
  <2>4. read'[w].num <= onHand
    BY <1>0, <2>1, <2>2, <2>3
  <2> QED BY <2>1, <2>4 DEF WriterFits, ClearFits, NotRefused, At
<1>4. CASE (Proceed(w) \/ Abort(w)) /\ ~CountHolds(w) /\ ~ReleaseHolds(w)
  <2>0. Return(w) \/ FindHold(w) \/ FindHolds(w) \/ FindDraft(w) \/ WriteLevel(w)
          => job'[w].at # "refused"
    <3>1. Return(w) => job'[w].at = "idle"
      BY <1>0 DEF Return, Ends, Becomes, Idle
    <3>2. FindHolds(w) => job'[w].at = "release"
      BY <1>0 DEF FindHolds, Becomes, Jobs
    <3>3. FindDraft(w) => job'[w].at = "draft"
      <4>1. FindDraft(w) => \E o : job' = [job EXCEPT ![w] = [job[w] EXCEPT !.at = "draft", !.ord = o]]
        BY DEF FindDraft, Becomes
      <4>2. \A o : [job[w] EXCEPT !.at = "draft", !.ord = o].at = "draft"
        BY <1>0 DEF Jobs
      <4> QED BY <1>0, <4>1, <4>2
    <3>4. WriteLevel(w) => job'[w].at = "log"
      BY <1>0 DEF WriteLevel, Becomes, Jobs
    <3>5. ASSUME FindHold(w) PROVE job'[w].at = "sum"
      <4>1. PICK m, rows :
              job' = [job EXCEPT ![w] = [job[w] EXCEPT !.at = "sum", !.mine = m, !.rows = rows]]
        BY ZenonT(60), <3>5 DEF FindHold, Look, Becomes
      <4>2. [job[w] EXCEPT !.at = "sum", !.mine = m, !.rows = rows].at = "sum"
        BY <1>0 DEF Jobs
      <4>3. job'[w] = [job[w] EXCEPT !.at = "sum", !.mine = m, !.rows = rows]
        BY <1>0, <4>1
      <4> QED BY <4>2, <4>3
    <3> QED BY <3>1, <3>2, <3>3, <3>4, <3>5
  <2>1. job'[w].at # "write" /\ job'[w].at # "empty"
    BY <1>4, WhereItLands
  <2>2. CASE Refuse(w)
    <3>1. job'[w].op = job[w].op
      BY <1>0, <2>2 DEF Refuse, Ends, Becomes, Idle, Jobs
    <3>2. \/ Return(w) \/ FindHold(w) \/ FindHolds(w) \/ FindDraft(w) \/ WriteLevel(w)
          \/ WriteHoldFails(w) \/ EmptyCartFails(w) \/ SellFails(w) \/ WriteLevelFails(w)
      BY <1>4 DEF Proceed, Abort, WriteHold, LineIsGone, EmptyCart, WriteDraft, Sell,
                  LogRecount, Answered
    <3>3. ~WriteHoldFails(w)
      BY <1>0, WriteSucceeds DEF WriteHoldFails
    <3>4. ~EmptyCartFails(w)
      BY <1>0 DEF EmptyCartFails, Legal, ClearFits, Numbers
    <3>5. SellFails(w) \/ WriteLevelFails(w) => job[w].op \in {"pay", "recount"}
      BY <1>0 DEF SellFails, WriteLevelFails, At, Says
    <3> QED BY <2>0, <2>1, <3>1, <3>2, <3>3, <3>4, <3>5 DEF WriterFits, ClearFits, NotRefused, At
  <2>3. CASE ~Refuse(w)
    <3>1. Return(w) \/ FindHold(w) \/ FindHolds(w) \/ FindDraft(w) \/ WriteLevel(w)
      BY <1>4, <2>3 DEF Proceed, Abort, WriteHold, LineIsGone, EmptyCart, WriteDraft, Sell,
                  WriteHoldFails, EmptyCartFails, SellFails, WriteLevelFails, LogRecount, Answered
    <3>2. job'[w].at # "refused"
      BY <2>0, <3>1
    <3> QED BY <2>1, <3>2 DEF WriterFits, ClearFits, NotRefused, At
  <2> QED BY <2>2, <2>3
<1> QED BY <1>1, <1>2, <1>3, <1>4 DEF Acts

\* A request that stays where it is keeps its room while the shelf stays and no
\* hold comes to life.
LEMMA StaysWithRoom ==
  ASSUME Typed, NEW w \in Worker, WriterFits(w), ClearFits(w), NotRefused(w),
         UNCHANGED <<onHand, holdQty>>, Active' \subseteq Active,
         job'[w] = job[w], read'[w] = read[w]
  PROVE  WriterFits(w)' /\ ClearFits(w)' /\ NotRefused(w)'
<1> DEFINE before == Active \ Written(w)
           after == Active' \ Written(w)
<1>1. after \in SUBSET before /\ before \in SUBSET Row /\ after \in SUBSET Row
  BY DEF Active
<1>2. read[w].num \in Nat /\ onHand \in Nat
  BY CallIsTyped, TypedInParts DEF Numbers, RowsTyped
<1>3. At(w, "write") /\ job[w].mine \in Active \cup {NoRow}
        => Sum(holdQty, before) + read[w].num <= onHand
  BY DEF WriterFits
<1>4. (At(w, "write") /\ job[w].mine \in Active' \cup {NoRow}
         => Sum(holdQty, after) + read[w].num <= onHand) => WriterFits(w)'
  BY DEF WriterFits, Written, At
<1> HIDE DEF before, after
<1>5. IsFiniteSet(before) /\ Sum(holdQty, before) \in Nat /\ Sum(holdQty, after) \in Nat
  BY <1>1, SumsOfHolds
<1>6. Sum(holdQty, after) <= Sum(holdQty, before)
  BY <1>1, <1>5, SumGrows
<1>7. At(w, "write") /\ job[w].mine \in Active' \cup {NoRow}
        => Sum(holdQty, after) + read[w].num <= onHand
  BY <1>2, <1>3, <1>5, <1>6
<1>8. WriterFits(w)'
  BY <1>4, <1>7
<1> QED BY <1>8 DEF ClearFits, NotRefused, At

\* The three kinds of step: a hold is written, the shelf is recounted, or neither.
LEMMA WriteKeepsRoom ==
  ASSUME Typed, Holding, Room, NoneSold, NEW v \in Worker, WriteHold(v)
  PROVE  Room'
<1>1. Promised' <= onHand'
  BY DEF WriteHold, Legal, SumAfter, Promised, Active
<1>2. job' = [job EXCEPT ![v] = Idle] /\ UNCHANGED onHand /\ At(v, "write")
  BY DEF WriteHold, Return, Ends, Becomes
<1>3. ASSUME NEW w \in Worker PROVE WriterFits(w)' /\ ClearFits(w)' /\ NotRefused(w)'
  <2>1. CASE w = v
    <3>1. job'[w].at = "idle"
      BY <1>2, <2>1 DEF Holding, Idle
    <3> QED BY <3>1 DEF WriterFits, ClearFits, NotRefused, At
  <2>2. CASE w # v
    <3>1. job'[w] = job[w] /\ read'[w] = read[w]
      BY <2>2, OneMoves DEF Acts, Proceed
    <3>2. ~At(w, "write")
      BY <1>2, <2>2 DEF Holding, OneWriter, Holds, At
    <3> QED BY <1>2, <3>1, <3>2 DEF Room, WriterFits, ClearFits, NotRefused, At
  <2> QED BY <2>1, <2>2
<1> QED BY <1>1, <1>3 DEF Room

LEMMA RecountKeepsRoom ==
  ASSUME Clears = FALSE \/ Recounts = FALSE,
         Typed, Counter, Room, NoneSold, NEW v \in Worker, WriteLevel(v)
  PROVE  Room'
<1>1. /\ ~Clears /\ reserved = Promised
  BY CallIsTyped DEF WriteLevel, At, Says, Counter
<1>2. /\ onHand' = read[v].num /\ reserved <= read[v].num /\ UNCHANGED holds
      /\ \A w \in Worker \ {v} : ~At(w, "write")
      /\ job' = [job EXCEPT ![v] = [job[v] EXCEPT !.at = "log"]]
  BY DEF WriteLevel, Legal, InventoryFree, Becomes, Holds, At
<1>3. Promised' <= onHand'
  BY <1>1, <1>2 DEF Promised, Active, holds
<1>4. ASSUME NEW w \in Worker PROVE WriterFits(w)' /\ ClearFits(w)' /\ NotRefused(w)'
  <2>1. CASE w = v
    <3>1. job'[w].at = "log"
      BY <1>2, <2>1, CallIsTyped DEF Typed, StockTypeOK, Jobs
    <3> QED BY <3>1 DEF WriterFits, ClearFits, NotRefused, At
  <2>2. CASE w # v
    <3>1. job'[w] = job[w]
      BY <2>2, OneMoves DEF Acts, Proceed
    <3>2. ~At(w, "empty")
      BY <1>1, CallIsTyped DEF At, Says
    <3> QED BY <1>2, <2>2, <3>1, <3>2 DEF Room, WriterFits, ClearFits, NotRefused, At
  <2> QED BY <2>1, <2>2
<1> QED BY <1>3, <1>4 DEF Room

LEMMA OthersKeepRoom ==
  ASSUME Typed, Owned, Room, NoneSold, [Next]_vars,
         \A w \in Worker : ~WriteHold(w) /\ ~Sell(w) /\ ~WriteLevel(w)
  PROVE  Room'
<1>1. UNCHANGED <<onHand, holdQty>> /\ Active' \subseteq Active
  <2>1. ASSUME NEW w \in Worker, EmptyCart(w)
        PROVE  UNCHANGED <<onHand, holdQty>> /\ Active' \subseteq Active
    BY <2>1 DEF EmptyCart, Active
  <2>2. CASE \A w \in Worker : ~Reshelves(w)
    <3>1. UNCHANGED <<onHand, holdQty, holdState>>
      BY <2>2, OthersLeaveHolds, OthersLeaveShelf
    <3> QED BY <3>1 DEF Active
  <2> QED BY <2>1, <2>2 DEF Reshelves
<1>2. Promised' <= onHand'
  <2>1. Active \in SUBSET Row /\ Active' \in SUBSET Row /\ onHand \in Nat
    BY TypedInParts DEF Active, RowsTyped
  <2>2. IsFiniteSet(Active) /\ Sum(holdQty, Active) \in Nat /\ Sum(holdQty, Active') \in Nat
    BY <2>1, SumsOfHolds
  <2>3. Sum(holdQty, Active') <= Sum(holdQty, Active)
    BY <1>1, <2>1, <2>2, SumGrows
  <2>4. Sum(holdQty, Active) <= onHand
    BY DEF Room, Promised
  <2>5. Promised' = Sum(holdQty, Active')
    BY <1>1 DEF Promised
  <2> QED BY <1>1, <2>1, <2>2, <2>3, <2>4, <2>5
<1>3. ASSUME NEW w \in Worker PROVE WriterFits(w)' /\ ClearFits(w)' /\ NotRefused(w)'
  <2>1. CASE Acts(w)
    BY <1>1, <2>1, LandsWithRoom
  <2>2. CASE ~Acts(w)
    <3>1. job'[w] = job[w] /\ read'[w] = read[w]
      <4>1. CASE \E v \in Worker : Acts(v)
        BY <2>2, <4>1, OneMoves
      <4>2. CASE Clock \/ UNCHANGED vars
        BY <4>2 DEF Clock, Lapse, Renew, vars
      <4> QED BY <4>1, <4>2 DEF Next, Acts
    <3>2. WriterFits(w) /\ ClearFits(w) /\ NotRefused(w)
      BY DEF Room
    <3> QED BY <1>1, <3>1, <3>2, StaysWithRoom
  <2> QED BY <2>1, <2>2
<1> QED BY <1>2, <1>3 DEF Room

LEMMA RoomAlways ==
  ASSUME Clears = FALSE \/ Recounts = FALSE
  PROVE  Spec => []Room
<1>1. Init => Room
  <2> SUFFICES ASSUME Init PROVE Room
    OBVIOUS
  <2>1. Promised = 0
    <3>1. Active = {}
      BY DEF Init, Active
    <3> QED BY <3>1, SumOfNothing DEF Promised
  <2>2. \A w \in Worker : job[w].at = "idle"
    BY DEF Init, Idle
  <2> QED BY <2>1, <2>2, StockAssumption DEF Init, Room, WriterFits, ClearFits, NotRefused, At
<1>2. Typed /\ Holding /\ Owned /\ Counter /\ Room /\ [Next]_vars => Room'
  <2> SUFFICES ASSUME Typed, Holding, Owned, Counter, Room, [Next]_vars, NoneSold'
               PROVE  Room'
    BY DEF Room
  <2>1. NoneSold /\ \A w \in Worker : ~Sell(w)
    BY SoldIsForGood
  <2>2. CASE \E v \in Worker : WriteHold(v)
    BY <2>1, <2>2, WriteKeepsRoom
  <2>3. CASE \E v \in Worker : WriteLevel(v)
    BY <2>1, <2>3, RecountKeepsRoom
  <2>4. CASE \A v \in Worker : ~WriteHold(v) /\ ~WriteLevel(v)
    BY <2>1, <2>4, OthersKeepRoom
  <2> QED BY <2>2, <2>3, <2>4
<1> QED
  BY <1>1, <1>2, TypedAlways, HoldingAlways, OwnedAlways, CounterAlways, PTL DEF Spec

\* Carts that race for the last units are told what fits or "sold out", never
\* stopped by a CHECK of the stock counter (reservations.ts:101), as long as the
\* shelf is not recounted while carts are being emptied.
THEOREM RacesAreAnswered ==
  ASSUME Clears = FALSE \/ Recounts = FALSE
  PROVE  Spec => []RaceIsNoError
<1>1. Room => RaceIsNoError
  BY DEF Room, RaceIsNoError, NoneSold, NotRefused
<1> QED
  BY <1>1, RoomAlways, PTL

-----------------------------------------------------------------------------
(***************************************************************************)
(* The holds, as the store promises them.  Besides Holding and Owned this  *)
(* takes two facts about requests under way: what a writer is about to     *)
(* sweep has lapsed, and stays so because its rows are locked; and what a  *)
(* payment is about to consume belonged to its own cart.                   *)
(***************************************************************************)
SweepsLate == \A w \in Worker : Holds(w) => job[w].rows \cap Active \subseteq lapsed

SalesOwn ==
  \A w \in Worker : At(w, "sell") =>
    \A r \in job[w].rows : holdCart[r] = CartOf[job[w].ord] /\ holdState[r] # "NONE"

LiveHaveCarts == \A r \in Active : holdCart[r] \in Cart

Swept == SweepsLate /\ SalesOwn /\ LiveHaveCarts

\* Only a write brings a hold to life or gives it time; only it and a renewal take
\* a hold out of lapsed, the renewal none that a writer has locked.
LEMMA NothingComesToLife ==
  ASSUME [Next]_vars, \A w \in Worker : ~WriteHold(w)
  PROVE  /\ Active' \subseteq Active /\ holdCart' = holdCart /\ holdQty' = holdQty
         /\ \A w \in Worker : Holds(w) => lapsed \cap Active \cap job[w].rows \subseteq lapsed'
<1>1. \A w \in Worker : Begin(w) => UNCHANGED holds
  BY DEF Begin, AskHold, Empty, ReadCart, TakePayment, ReadHolds, ReadLevel
<1>2. \A w \in Worker : EmptyCart(w) \/ Sell(w)
        => Active' \subseteq Active /\ UNCHANGED <<holdCart, holdQty, lapsed>>
  BY DEF EmptyCart, Sell, Active
<1>3. \A w \in Worker : Proceed(w) \/ Abort(w) => UNCHANGED holds \/ EmptyCart(w) \/ Sell(w)
  BY DEF Proceed, Abort, FindHold, Look, CountHolds, Decide, WriteHoldFails, LineIsGone, FindHolds,
         ReleaseHolds, EmptyCartFails, FindDraft, WriteDraft, SellFails,
         WriteLevel, WriteLevelFails, LogRecount, Answered
<1>4. UNCHANGED vars => UNCHANGED holds
  BY DEF vars
<1>5. UNCHANGED holds => Active' \subseteq Active /\ UNCHANGED <<holdCart, holdQty, lapsed>>
  BY DEF holds, Active
<1>6. CASE \E r \in Row : Lapse(r)
  BY <1>6 DEF Lapse, Active
<1>7. CASE \E c \in Cart : Renew(c)
  <2>1. PICK c \in Cart : Renew(c)
    BY <1>7
  <2>2. lapsed' = lapsed \ HeldBy(c) /\ UNCHANGED <<holdState, holdCart, holdQty>>
        /\ \A w \in Worker : Holds(w) => job[w].rows \cap HeldBy(c) = {}
    BY <2>1 DEF Renew
  <2> QED BY <2>2 DEF Active
<1> QED BY <1>1, <1>2, <1>3, <1>4, <1>5, <1>6, <1>7 DEF Next, Clock

LEMMA SweepsStayLate ==
  ASSUME Typed, Holding, SweepsLate, [Next]_vars
  PROVE  SweepsLate'
<1> SUFFICES ASSUME NEW w \in Worker, Holds(w)'
             PROVE  (job[w].rows \cap Active \subseteq lapsed)'
  BY DEF SweepsLate
<1>1. job \in [Worker -> Jobs] /\ job[w] \in Jobs
  BY DEF Typed, StockTypeOK
<1>2. job'[w].at \in {"sum", "write"}
  BY DEF Holds
<1>3. CASE Holds(w) /\ job'[w].rows = job[w].rows
  <2>1. ASSUME NEW v \in Worker, WriteHold(v) PROVE FALSE
    <3>1. Holds(v) /\ job'[v] = Idle
      BY <1>1, <2>1 DEF WriteHold, Return, Ends, Becomes, Holds, At
    <3>2. v = w
      BY <1>3, <3>1 DEF Holding, OneWriter
    <3> QED BY <1>2, <3>1, <3>2 DEF Idle
  <2> QED BY <1>3, <2>1, NothingComesToLife DEF SweepsLate
<1>4. CASE FindHold(w)
  <2>1. job'[w].rows = Active \cap lapsed
    BY <1>1, <1>4 DEF FindHold, Look, Becomes, Jobs
  <2>2. lapsed' = lapsed
    BY <1>4 DEF FindHold, Look, holds
  <2> QED BY <2>1, <2>2
<1>5. CASE Acts(w) /\ ~FindHold(w)
  <2>1. ~Begin(w)
    <3>1. Begin(w) => job'[w].at \in {"count", "find", "lookup", "sell", "level"}
      BY <1>1, WhereItBegins
    <3> QED BY <1>2, <3>1
  <2>2. CountHolds(w)
    BY <1>2, <1>5, <2>1, WhereItLands DEF Acts
  <2>3. \/ Becomes(w, [job[w] EXCEPT !.at = "soldout"])
        \/ Becomes(w, [job[w] EXCEPT !.at = "write"])
    BY <2>2 DEF CountHolds, Decide, Ends
  <2>4. job'[w].rows = job[w].rows
    BY <1>1, <2>3 DEF Becomes, Jobs
  <2>5. Holds(w)
    BY <2>2 DEF CountHolds, Decide, At, Holds
  <2> QED BY <1>3, <2>4, <2>5
<1>6. CASE job'[w] = job[w]
  BY <1>2, <1>3, <1>6 DEF Holds
<1> QED BY <1>4, <1>5, <1>6, EachMovesOrStays

LEMMA SalesStayOwn ==
  ASSUME Typed, Owned, SalesOwn, [Next]_vars
  PROVE  SalesOwn'
<1> SUFFICES ASSUME NEW w \in Worker, At(w, "sell")', NEW r \in job'[w].rows
             PROVE  holdCart'[r] = CartOf[job'[w].ord] /\ holdState'[r] # "NONE"
  BY DEF SalesOwn
<1>1. job \in [Worker -> Jobs] /\ job[w] \in Jobs /\ job'[w].at = "sell"
  BY DEF Typed, StockTypeOK, At
<1>2. CASE job'[w] = job[w]
  <2>1. r \in Row
    BY <1>1, <1>2 DEF Jobs
  <2>2. holdCart[r] = CartOf[job[w].ord] /\ holdState[r] # "NONE"
    BY <1>1, <1>2 DEF SalesOwn, At
  <2> QED BY <1>2, <2>1, <2>2, HoldsKeepTheirCart DEF RowsKeepTheirCart
<1>3. CASE Acts(w)
  <2>1. Begin(w)
    BY <1>1, <1>3, WhereItLands DEF Acts
  <2>2. PICK o \in Order : TakePayment(w, o)
    <3>0. \A call : Becomes(w, call) => job'[w] = call
      BY <1>1 DEF Becomes
    <3>1. \A c \in Cart, q \in 0..MaxQty : AskHold(w, c, q) => job'[w].at = "count"
      BY <3>0 DEF AskHold, Idle
    <3>2. \A c \in Cart : Empty(w, c) => job'[w].at = "find"
      BY <3>0 DEF Empty, Idle
    <3>3. \A c \in Cart : ReadCart(w, c) => job'[w].at = "lookup"
      BY <3>0 DEF ReadCart, Idle
    <3>4. \A truth \in 0..MaxTruth : ReadLevel(w, truth) => job'[w].at = "level"
      BY <3>0 DEF ReadLevel, Idle
    <3> QED BY <1>1, <2>1, <3>1, <3>2, <3>3, <3>4 DEF Begin
  <2>3. job'[w].ord = o /\ job'[w].rows = HeldBy(CartOf[o]) /\ UNCHANGED holds
    BY <1>1, <2>2 DEF TakePayment, ReadHolds, Becomes, Idle
  <2> QED BY <2>3 DEF HeldBy, Active, holds
<1>4. job'[w] = job[w] \/ Acts(w)
  <2>1. CASE \E v \in Worker : Acts(v)
    BY <2>1, OneMoves
  <2>2. CASE Clock \/ UNCHANGED vars
    BY <2>2 DEF Clock, Lapse, Renew, vars
  <2> QED BY <2>1, <2>2 DEF Next, Acts
<1> QED BY <1>2, <1>3, <1>4

\* What a write leaves: its target, if there is a grant and its own cart has not
\* released it meanwhile, and the live holds that it does not write.
LEMMA WriteLeaves ==
  ASSUME Typed, Owned, NEW w \in Worker, WriteHold(w), NEW target \in Targets(w), Grant(w, target)
  PROVE  LET mine == {target} \cap {r \in Row : read[w].num > 0}
             live == {r \in mine : job[w].mine = NoRow \/ r \in Active}
         IN /\ Active' = (Active \ (job[w].rows \cup {target})) \cup live
            /\ \A r \in Row : holdCart'[r] = IF r \in mine THEN job[w].cart ELSE holdCart[r]
            /\ holdQty' = [r \in Row |-> IF r \in mine THEN read[w].num ELSE holdQty[r]]
            /\ lapsed' = lapsed \ mine
<1> DEFINE mine == {target} \cap {r \in Row : read[w].num > 0}
           live == {r \in mine : job[w].mine = NoRow \/ r \in Active}
<1>1. \A r \in Row : holdState'[r] = IF r = target THEN Granted(w, target)
                                     ELSE IF r \in job[w].rows THEN "EXPIRED" ELSE holdState[r]
  BY DEF Grant, StateAfter
<1>2. job[w].mine # NoRow => target = job[w].mine
  BY DEF Targets
<1>3. ASSUME NEW r \in Row
      PROVE  holdState'[r] = "ACTIVE"
               <=> r \in (Active \ (job[w].rows \cup {target})) \cup live
  <2>1. CASE r = target
    <3>1. holdState'[r] = "ACTIVE" <=> Granted(w, r) = "ACTIVE"
      BY <1>1, <2>1
    <3>2. CASE job[w].mine = NoRow
      <4>1. r # job[w].mine
        BY <3>2, StockAssumption
      <4> QED BY <2>1, <3>1, <3>2, <4>1 DEF Granted
    <3>3. CASE job[w].mine # NoRow
      BY <1>2, <2>1, <3>1, <3>3 DEF Granted, Active
    <3> QED BY <3>2, <3>3
  <2>2. CASE r # target
    BY <1>1, <2>2 DEF Active
  <2> QED BY <2>1, <2>2
<1>4. Active' = (Active \ (job[w].rows \cup {target})) \cup live
  BY <1>3 DEF Active
<1> QED BY <1>4 DEF Grant

LEMMA LiveStayInCarts ==
  ASSUME Typed, Owned, LiveHaveCarts, [Next]_vars
  PROVE  LiveHaveCarts'
<1>1. ASSUME NEW w \in Worker, WriteHold(w) PROVE LiveHaveCarts'
  <2>1. PICK target \in Targets(w) : Grant(w, target)
    BY <1>1 DEF WriteHold
  <2>2. job[w].cart \in Cart
    BY <1>1, CallIsTyped DEF WriteHold, At, Says
  <2> QED BY <1>1, <2>1, <2>2, WriteLeaves DEF LiveHaveCarts, Active
<1>2. CASE \A w \in Worker : ~WriteHold(w)
  BY <1>2, NothingComesToLife DEF LiveHaveCarts
<1> QED BY <1>1, <1>2

LEMMA SweptAlways == Spec => []Swept
<1>1. Init => Swept
  BY DEF Init, Idle, Swept, SweepsLate, SalesOwn, LiveHaveCarts, At, Active
<1>2. Typed /\ Holding /\ Owned /\ Swept /\ [Next]_vars => Swept'
  BY SweepsStayLate, SalesStayOwn, LiveStayInCarts DEF Swept
<1> QED BY <1>1, <1>2, TypedAlways, HoldingAlways, OwnedAlways, PTL DEF Spec

-----------------------------------------------------------------------------
\* The refinement mapping.
HeldNow == [c \in Cart |-> HeldBy(c)]
UnitsNow == [r \in Row |-> IF r \in Active THEN holdQty[r] ELSE 0]

\* A cart's own request ends its hold: nothing of the others' changes.
LEMMA EndingIsGivingUp ==
  ASSUME Holding, NEW c \in Cart, NEW rows, \A r \in rows : holdCart[r] = c,
         Active' = Active \ rows, UNCHANGED <<holdCart, holdQty, lapsed>>
  PROVE  [Shelf!Next]_(Shelf!cartHoldVars)
<1>1. \A d : d # c => HeldBy(d)' = HeldBy(d)
  BY DEF HeldBy
<1>2. CASE HeldBy(c) \cap rows = {}
  <2>1. Active' = Active
    BY <1>2 DEF HeldBy
  <2>2. \A d : HeldBy(d)' = HeldBy(d)
    BY <2>1 DEF HeldBy
  <2>3. HeldNow' = HeldNow /\ UnitsNow' = UnitsNow
    BY <2>1, <2>2 DEF HeldNow, UnitsNow
  <2> QED BY <2>1, <2>3 DEF Shelf!cartHoldVars, HeldNow, UnitsNow
<1>3. CASE HeldBy(c) \cap rows # {}
  <2>1. HeldBy(c) \subseteq rows
    BY <1>3 DEF Holding, OneHoldPerCart, HeldBy
  <2>2. HeldBy(c)' = {}
    BY <2>1 DEF HeldBy
  <2>3. [d \in Cart |-> HeldBy(d)'] = [d \in Cart |-> IF d = c THEN {} ELSE HeldBy(d) \ {}]
    BY <1>1, <2>2
  <2>4. (Active \cap lapsed)' = (Active \cap lapsed) \ ({} \cup HeldBy(c) \cup {})
    BY <2>1 DEF HeldBy
  <2>5. [d \in Cart |-> HeldBy(d)][c] = HeldBy(c) /\ \A d \in Cart : [e \in Cart |-> HeldBy(e)][d] = HeldBy(d)
    OBVIOUS
  <2>6. Shelf!Leave(c, {}, {})
    BY <2>3, <2>4, <2>5 DEF Shelf!Leave
  <2>7. UnitsNow' = [r \in Row |-> IF r \in HeldNow[c] \cup {} THEN 0 ELSE UnitsNow[r]]
    <3>1. \A r \in Row : (IF r \in Active' THEN holdQty[r] ELSE 0)
            = IF r \in HeldBy(c) THEN 0 ELSE IF r \in Active THEN holdQty[r] ELSE 0
      BY <2>1 DEF HeldBy
    <3> QED BY <3>1 DEF UnitsNow, HeldNow
  <2>8. Shelf!GiveUp(c)
    BY <2>6, <2>7 DEF Shelf!GiveUp, Shelf!Left, UnitsNow, HeldNow
  <2> QED BY <2>8 DEF Shelf!Next
<1> QED BY <1>2, <1>3

\* A write is its cart's grant, or what its cart gives up; the holds of others it
\* ends have lapsed.
LEMMA WritingIsTaking ==
  ASSUME Typed, Holding, Owned, Swept, NEW w \in Worker, WriteHold(w)
  PROVE  Shelf!Next
<1>0. PICK c \in Cart : c = job[w].cart
  BY CallIsTyped DEF WriteHold, At, Says
<1> DEFINE n == read[w].num
           gone == job[w].rows \cap Active
<1>1. PICK target \in Targets(w) : Grant(w, target)
  BY DEF WriteHold
<1>2. /\ At(w, "write") /\ Holds(w) /\ job[w] \in Jobs /\ RowsTyped
      /\ n \in 0..MaxQty
  BY CallIsTyped, TypedInParts DEF WriteHold, At, Says, Holds
<1> DEFINE mine == {target} \cap {r \in Row : n > 0}
           live == {r \in mine : job[w].mine = NoRow \/ r \in Active}
<1>3. /\ Active' = (Active \ (job[w].rows \cup {target})) \cup live
      /\ \A r \in Row : holdCart'[r] = IF r \in mine THEN c ELSE holdCart[r]
      /\ holdQty' = [r \in Row |-> IF r \in mine THEN n ELSE holdQty[r]]
      /\ lapsed' = lapsed \ mine
  BY <1>0, <1>1, WriteLeaves
<1>4. /\ target \in Row => holdState[target] = "NONE" \/ holdCart[target] = c
      /\ n > 0 => target \in Row
  BY <1>0, <1>1, <1>2, GrantIsOwn
<1>5. HeldBy(c) \subseteq job[w].rows \cup {job[w].mine}
  BY <1>0, <1>2 DEF Holding, WriterCovers
<1>6. gone \in SUBSET (Active \cap lapsed)
  BY <1>2 DEF Swept, SweepsLate
<1>7. job[w].mine # NoRow => target = job[w].mine
  BY <1>1 DEF Targets
<1>9. target \notin Active \/ target \in HeldBy(c)
  BY <1>4 DEF Active, HeldBy
<1>10. Active \cap (job[w].rows \cup {target}) = gone \cup HeldBy(c)
  <2>1. NoRow \notin Active
    BY StockAssumption DEF Active
  <2>2. HeldBy(c) \subseteq Active
    BY DEF HeldBy
  <2> QED BY <1>5, <1>7, <1>9, <2>1, <2>2
<1>11. Active' = (Active \ (gone \cup HeldBy(c))) \cup live
  BY <1>3, <1>10
<1>12. HeldBy(c)' = live
  BY <1>3, <1>11 DEF HeldBy, Active
<1>13. ASSUME NEW d \in Cart, d # c PROVE HeldBy(d)' = HeldBy(d) \ gone
  <2>1. \A r \in mine : r \notin HeldBy(d) /\ holdCart'[r] = c
    BY <1>3, <1>9, <1>13 DEF HeldBy
  <2> QED BY <1>3, <1>11, <1>13, <2>1 DEF HeldBy, Active
<1>14. [d \in Cart |-> HeldBy(d)'] = [d \in Cart |-> IF d = c THEN live ELSE HeldNow[d] \ gone]
  BY <1>12, <1>13 DEF HeldNow
<1>15. (Active \cap lapsed)' = (Active \cap lapsed) \ (gone \cup HeldNow[c] \cup live)
  BY <1>3, <1>9, <1>11 DEF HeldNow
<1>16. Shelf!Leave(c, live, gone)
  BY <1>14, <1>15 DEF Shelf!Leave, HeldNow
<1> DEFINE left == [r \in Row |-> IF r \in HeldNow[c] \cup gone THEN 0 ELSE UnitsNow[r]]
<1>17. \A r \in Row : UnitsNow'[r] = IF r \in live THEN n ELSE left[r]
  <2> SUFFICES ASSUME NEW r \in Row
               PROVE  (IF r \in Active' THEN holdQty'[r] ELSE 0) = IF r \in live THEN n ELSE left[r]
    BY DEF UnitsNow
  <2>1. left[r] = IF r \in HeldBy(c) \cup gone THEN 0 ELSE IF r \in Active THEN holdQty[r] ELSE 0
    BY DEF HeldNow, UnitsNow
  <2>2. r \in live => r \in mine /\ r \in Active'
    BY <1>11
  <2>3. r \in Active' /\ r \notin live => r \in Active /\ r \notin gone \cup HeldBy(c) /\ r \notin mine
    BY <1>9, <1>11
  <2>4. r \notin Active' => r \notin live /\ (r \notin Active \/ r \in gone \cup HeldBy(c))
    BY <1>11
  <2>5. holdQty'[r] = IF r \in mine THEN n ELSE holdQty[r]
    BY <1>3
  <2> HIDE DEF left, live, mine, gone, n
  <2> QED BY <2>1, <2>2, <2>3, <2>4, <2>5
<1>18. CASE live = {}
  <2>1. UnitsNow' = left
    BY <1>17, <1>18 DEF UnitsNow
  <2>2. Shelf!GiveUp(c)
    BY <1>6, <1>16, <1>18, <2>1 DEF Shelf!GiveUp, Shelf!Left, UnitsNow, HeldNow
  <2> QED BY <2>2 DEF Shelf!Next
<1>19. CASE live # {}
  <2>1. live = {target} /\ target \in Row /\ n > 0
    BY <1>19
  <2>2. UnitsNow' = [left EXCEPT ![target] = n]
    BY <1>17, <2>1 DEF UnitsNow
  <2>3. \A d \in Cart \ {c} : target \notin HeldNow[d]
    BY <1>9 DEF HeldBy, HeldNow
  <2>4. PICK units \in 1..MaxQty : units = n
    BY <1>2, <2>1, StockAssumption
  <2>5. Shelf!Leave(c, {target}, gone)
    BY <1>16, <2>1
  <2>6. UnitsNow' = [Shelf!Left(c, gone) EXCEPT ![target] = units]
    <3>1. left = Shelf!Left(c, gone)
      BY DEF Shelf!Left, UnitsNow, HeldNow
    <3> HIDE DEF left, n
    <3> QED BY <2>2, <2>4, <3>1
  <2>7. Shelf!Take(c, target, units)
    <3> HIDE DEF gone
    <3> QED BY <1>6, <2>3, <2>5, <2>6 DEF Shelf!Take, UnitsNow, HeldNow
  <2> QED BY <2>1, <2>7 DEF Shelf!Next
<1> HIDE DEF live
<1> QED BY <1>18, <1>19

LEMMA TimeIsTheClock ==
  ASSUME Swept, Clock
  PROVE  Shelf!Next
<1>1. \A d : HeldBy(d)' = HeldBy(d)
  BY DEF Clock, Lapse, Renew, HeldBy, Active
<1>2. Active' = Active
  BY DEF Clock, Lapse, Renew, Active
<1>3. HeldNow' = HeldNow /\ UnitsNow' = UnitsNow
  BY <1>1, <1>2 DEF Clock, Lapse, Renew, HeldNow, UnitsNow
<1>4. ASSUME NEW r \in Row, Lapse(r) PROVE Shelf!Next
  <2>1. r \in HeldBy(holdCart[r]) /\ holdCart[r] \in Cart
    BY <1>4 DEF Lapse, HeldBy, Active, Swept, LiveHaveCarts
  <2>2. (Active \cap lapsed)' = (Active \cap lapsed) \cup {r}
    BY <1>2, <1>4 DEF Lapse
  <2>3. Shelf!Lapse(r)
    BY <1>3, <2>1, <2>2 DEF Shelf!Lapse, HeldNow, UnitsNow
  <2> QED BY <2>3 DEF Shelf!Next
<1>5. ASSUME NEW c \in Cart, Renew(c) PROVE Shelf!Next
  <2>1. (Active \cap lapsed)' = (Active \cap lapsed) \ HeldBy(c)
    BY <1>2, <1>5 DEF Renew
  <2>2. Shelf!Renew(c)
    BY <1>3, <2>1 DEF Shelf!Renew, HeldNow, UnitsNow
  <2> QED BY <2>2 DEF Shelf!Next
<1> QED BY <1>4, <1>5 DEF Clock

LEMMA HoldsStep ==
  ASSUME Typed, Holding, Owned, Swept, [Next]_vars
  PROVE  [Shelf!Next]_(Shelf!cartHoldVars)
<1>1. ASSUME NEW w \in Worker, EmptyCart(w) PROVE [Shelf!Next]_(Shelf!cartHoldVars)
  <2>1. /\ At(w, "empty") /\ job[w].cart \in Cart
        /\ \A r \in job[w].rows : holdCart[r] = job[w].cart
    BY <1>1, CallIsTyped DEF EmptyCart, At, Says, Owned, CallsOwn
  <2>2. Active' = Active \ job[w].rows /\ UNCHANGED <<holdCart, holdQty, lapsed>>
    BY <1>1 DEF EmptyCart, Active
  <2> QED BY <2>1, <2>2, EndingIsGivingUp
<1>2. ASSUME NEW w \in Worker, Sell(w) PROVE [Shelf!Next]_(Shelf!cartHoldVars)
  <2>1. At(w, "sell") /\ CartOf[job[w].ord] \in Cart
    BY <1>2, CallIsTyped, StockAssumption DEF Sell, At, Says
  <2>2. \A r \in job[w].rows : holdCart[r] = CartOf[job[w].ord]
    BY <2>1 DEF Swept, SalesOwn
  <2>3. Active' = Active \ job[w].rows /\ UNCHANGED <<holdCart, holdQty, lapsed>>
    BY <1>2 DEF Sell, Active
  <2> QED BY <2>1, <2>2, <2>3, EndingIsGivingUp
<1>3. ASSUME NEW w \in Worker, WriteHold(w) PROVE Shelf!Next
  BY <1>3, WritingIsTaking
<1>4. CASE Clock
  BY <1>4, TimeIsTheClock
<1>5. CASE ~Clock /\ \A w \in Worker : ~Reshelves(w)
  <2>1. UNCHANGED <<holdState, holdCart, holdQty>>
    BY <1>5, OthersLeaveHolds
  <2>2. lapsed' = lapsed
    <3>1. \A w \in Worker : Begin(w) => UNCHANGED holds
      BY DEF Begin, AskHold, Empty, ReadCart, TakePayment, ReadHolds, ReadLevel
    <3>2. \A w \in Worker : Proceed(w) \/ Abort(w) => UNCHANGED holds
      BY <1>5 DEF Reshelves, Proceed, Abort, FindHold, Look, CountHolds, Decide, WriteHoldFails, LineIsGone,
             FindHolds, ReleaseHolds, EmptyCartFails, FindDraft, WriteDraft, SellFails,
             WriteLevel, WriteLevelFails, LogRecount, Answered
    <3> QED BY <1>5, <3>1, <3>2 DEF Next, vars, holds
  <2>3. Active' = Active
    BY <2>1 DEF Active
  <2>4. HeldNow' = HeldNow /\ UnitsNow' = UnitsNow
    BY <2>1, <2>3 DEF HeldBy, HeldNow, UnitsNow
  <2> QED BY <2>1, <2>2, <2>3, <2>4 DEF Shelf!cartHoldVars, HeldNow, UnitsNow
<1> QED BY <1>1, <1>2, <1>3, <1>4, <1>5 DEF Reshelves

\* For any number of carts, orders, rows and requests, stock keeping implements
\* CartHolds: a cart's live hold keeps its quantity and stands until its own cart
\* ends it or its time has passed, whatever others' requests, sweeps, payments and
\* recounts do in between (reservations.ts:100-200, orders.ts:53).
THEOREM HoldsStand == Spec => HoldsAreKept
<1>1. Init => Shelf!Init
  <2> SUFFICES ASSUME Init PROVE Shelf!Init
    OBVIOUS
  <2>1. Active = {}
    BY DEF Init, Active
  <2>2. [c \in Cart |-> HeldBy(c)] = [c \in Cart |-> {}]
    BY <2>1 DEF HeldBy
  <2>3. [r \in Row |-> IF r \in Active THEN holdQty[r] ELSE 0] = [r \in Row |-> 0]
    BY <2>1
  <2> QED BY <2>1, <2>2, <2>3 DEF Shelf!Init
<1>2. Typed /\ Holding /\ Owned /\ Swept /\ [Next]_vars => [Shelf!Next]_(Shelf!cartHoldVars)
  BY HoldsStep
<1> QED
  BY <1>1, <1>2, TypedAlways, HoldingAlways, OwnedAlways, SweptAlways, PTL
  DEF Spec, HoldsAreKept, Shelf!Spec
=============================================================================
