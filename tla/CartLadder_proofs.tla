------------------------- MODULE CartLadder_proofs --------------------------
(***************************************************************************)
(* Proofs about the abandoned-cart ladder, for any number of carts, rungs, *)
(* passes and faults.                                                      *)
(*                                                                         *)
(* How often a rung is written is a matter of budget.  The pass that holds *)
(* the lock has one message to send for a rung that is due; a pass that    *)
(* outlived its lock has cost a fault, and may spend it once per rung: on  *)
(* a message of its own, or by moving a cart on under the pass that holds  *)
(* the lock, whose own compare-and-set is lost then.                       *)
(***************************************************************************)
EXTENDS CartLadder, FiniteSetTheorems, TLAPS

-----------------------------------------------------------------------------
(***************************************************************************)
(* Counting passes.                                                        *)
(***************************************************************************)
LEMMA PassesAreCounted ==
  ASSUME NEW S \in SUBSET Worker
  PROVE  IsFiniteSet(S) /\ Cardinality(S) \in Nat
<1>1. IsFiniteSet(S)
  BY FS_Subset, LadderAssumption
<1> QED BY <1>1, FS_CardinalityType

LEMMA FewerPasses ==
  ASSUME NEW S \in SUBSET Worker, NEW T \in SUBSET S
  PROVE  Cardinality(T) <= Cardinality(S)
BY PassesAreCounted, FS_Subset

LEMMA OneMorePass ==
  ASSUME NEW S \in SUBSET Worker, NEW w \in Worker, NEW T \in SUBSET (S \cup {w})
  PROVE  Cardinality(T) <= Cardinality(S) + 1
<1>1. IsFiniteSet(S) /\ Cardinality(S) \in Nat
  BY PassesAreCounted
<1>2. Cardinality(S \cup {w}) <= Cardinality(S) + 1
  BY <1>1, FS_AddElement
<1>3. Cardinality(S \cup {w}) \in Nat /\ Cardinality(T) \in Nat /\ Cardinality(T) <= Cardinality(S \cup {w})
  <2>1. S \cup {w} \in SUBSET Worker /\ T \in SUBSET Worker
    OBVIOUS
  <2> QED BY <2>1, PassesAreCounted, FewerPasses
<1> QED BY <1>1, <1>2, <1>3

LEMMA OnePassLess ==
  ASSUME NEW S \in SUBSET Worker, NEW w \in S, NEW T \in SUBSET (S \ {w})
  PROVE  Cardinality(T) + 1 <= Cardinality(S)
<1>1. IsFiniteSet(S) /\ Cardinality(S) \in Nat
  BY PassesAreCounted
<1>2. Cardinality(S \ {w}) = Cardinality(S) - 1
  BY <1>1, FS_RemoveElement
<1>3. Cardinality(S \ {w}) \in Nat /\ Cardinality(T) \in Nat /\ Cardinality(T) <= Cardinality(S \ {w})
  <2>1. S \ {w} \in SUBSET Worker /\ T \in SUBSET Worker
    OBVIOUS
  <2> QED BY <2>1, PassesAreCounted, FewerPasses
<1> QED BY <1>1, <1>2, <1>3

LEMMA NoPass == Cardinality({}) = 0
BY FS_EmptySet
-----------------------------------------------------------------------------
(***************************************************************************)
(* The rungs.                                                              *)
(***************************************************************************)
LEMMA StagesAreNamed ==
  /\ \A n \in 0..Rungs : n \in 0..4 /\ Stage(n) \in {Ladder[i] : i \in 1..5} /\ Stage(n) \notin Off
  /\ \A m, n \in 0..Rungs : Stage(m) = Stage(n) => m = n
  /\ Stage(0) = "ACTIVE"
<1>1. \A n \in 0..Rungs : n \in {0, 1, 2, 3, 4}
  BY LadderAssumption
<1>2. /\ Stage(0) = "ACTIVE" /\ Stage(1) = "NUDGE_1H" /\ Stage(2) = "REMINDER_24H"
      /\ Stage(3) = "URGENCY_72H" /\ Stage(4) = "OFFER_SENT"
  BY DEF Stage, Ladder
<1>3. \A n \in 0..4 : Stage(n) = Ladder[n + 1] /\ n + 1 \in 1..5
  BY DEF Stage
<1> QED BY <1>1, <1>2, <1>3 DEF Off
-----------------------------------------------------------------------------
(***************************************************************************)
(* The invariant: the passes.                                              *)
(***************************************************************************)
Steps  == {"idle", "pass", "check", "close", "hold", "mint", "whatsapp", "email", "withdraw", "advance"}
InHand == Steps \ {"idle", "pass"}

Staged == \A k \in Cart : /\ stage[k] \in Off \/ \E n \in 0..Rungs : stage[k] = Stage(n)
                          /\ quiet[k] <= clock
                          /\ k \in paid => stage[k] \in Off

\* The rows of a pass: those still to do, and the one it is at.
RowsOf(j) == j.rows \cup (IF j.at \in InHand THEN {j.row} ELSE {})

RowsAreRead ==
  \A w \in Worker : \A r \in RowsOf(job[w]) :
    r \in Row /\ r.from < r.rung /\ r.quiet <= quiet[r.cart]

OneRowACart ==
  \A w \in Worker : /\ \A r, q \in job[w].rows : r.cart = q.cart => r = q
                    /\ job[w].at \in InHand => \A q \in job[w].rows : q.cart # job[w].row.cart

OneLock == /\ \A v, w \in Worker : job[v].locked /\ job[w].locked => v = w
           /\ \A w \in Worker : job[w].at = "idle" => job[w].rows = {} /\ ~job[w].locked

\* The passes that outlived their lock.
Runaways == {w \in Worker : job[w].at # "idle" /\ ~job[w].locked}

RunawaysCost == Cardinality(Runaways) <= faults

Passes == LadderTypeOK /\ Staged /\ RowsAreRead /\ OneRowACart /\ OneLock /\ RunawaysCost

\* How a step changes the call it is a step of.
LEMMA CallGoes ==
  ASSUME LadderTypeOK, NEW w \in Worker, NEW step \in Steps, Goto(w, step)
  PROVE  /\ job' \in [Worker -> Jobs]
         /\ job'[w].at = step /\ job'[w].row = job[w].row /\ job'[w].rows = job[w].rows
         /\ job'[w].locked = job[w].locked
         /\ \A v \in Worker \ {w} : job'[v] = job[v]
<1>1. job \in [Worker -> Jobs] /\ job[w] \in Jobs
  BY DEF LadderTypeOK
<1>2. job' = [job EXCEPT ![w] = [job[w] EXCEPT !.at = step]]
  BY DEF Goto
<1>3. [job[w] EXCEPT !.at = step] \in Jobs
  BY <1>1 DEF Jobs, Steps
<1> QED BY <1>1, <1>2, <1>3 DEF Jobs

LEMMA IdleIsAJob == Idle \in Jobs /\ Idle.at = "idle" /\ Idle.rows = {} /\ ~Idle.locked
BY DEF Idle, Jobs, NoRow

\* The other passes do not move, and this one brings no row of its own.
LEMMA PassesGoOn ==
  ASSUME Passes, NEW w \in Worker, \A v \in Worker \ {w} : job'[v] = job[v],
         RowsOf(job'[w]) \subseteq RowsOf(job[w]),
         job'[w].rows \subseteq job[w].rows,
         job'[w].at \in InHand => \A q \in job'[w].rows : q.cart # job'[w].row.cart,
         job'[w].locked => job[w].locked,
         job'[w].at = "idle" => job'[w].rows = {} /\ ~job'[w].locked,
         \/ faults' = faults /\ (job[w].locked => job'[w].locked \/ job'[w].at = "idle")
         \/ faults' = faults + 1,
         job[w].at # "idle",
         UNCHANGED quiet
  PROVE  RowsAreRead' /\ OneRowACart' /\ OneLock' /\ RunawaysCost'
<1>1. RowsAreRead'
  BY DEF Passes, RowsAreRead
<1>2. OneRowACart'
  BY DEF Passes, OneRowACart
<1>3. OneLock'
  BY DEF Passes, OneLock
<1>4. RunawaysCost'
  <2>1. faults \in Nat /\ Runaways \in SUBSET Worker /\ Runaways' \in SUBSET Worker
        /\ Cardinality(Runaways) <= faults
    BY DEF Passes, LadderTypeOK, RunawaysCost, Runaways
  <2>2. Cardinality(Runaways) \in Nat /\ Cardinality(Runaways') \in Nat
    BY <2>1, PassesAreCounted
  <2>3. CASE faults' = faults /\ (job[w].locked => job'[w].locked \/ job'[w].at = "idle")
    <3>1. Runaways' \subseteq Runaways
      BY <2>3 DEF Runaways
    <3>2. Cardinality(Runaways') <= Cardinality(Runaways)
      BY <2>1, <3>1, FewerPasses
    <3> QED BY <2>1, <2>2, <2>3, <3>2 DEF RunawaysCost
  <2>4. CASE faults' = faults + 1
    <3>1. Runaways' \subseteq Runaways \cup {w}
      BY DEF Runaways
    <3>2. Cardinality(Runaways') <= Cardinality(Runaways) + 1
      BY <2>1, <3>1, OneMorePass
    <3> QED BY <2>1, <2>2, <2>4, <3>2 DEF RunawaysCost
  <2> QED BY <2>3, <2>4
<1> QED BY <1>1, <1>2, <1>3, <1>4
-----------------------------------------------------------------------------
(***************************************************************************)
(* The passes, step by step.                                               *)
(***************************************************************************)
\* A step on the cart in hand.
OnCart(w) == \/ Check(w) \/ Close(w) \/ Mint(w) \/ Accepted(w) \/ Refused(w)
             \/ Withdraw(w) \/ Advance(w) \/ AnswerLost(w) \/ Throw(w)

LEMMA ACartIsInHand ==
  ASSUME LadderTypeOK, NEW w \in Worker, OnCart(w)
  PROVE  /\ job[w].at \in InHand
         /\ \E step \in Steps \ {"idle", "check"} : Goto(w, step)
         /\ (faults' = faults \/ (faults' = faults + 1 /\ faults < MaxFaults))
         /\ UNCHANGED <<idle, quiet, clock, paid, counted, held, heldOut>>
<1> USE DEF cartVars, orderVars, mailVars
<1>0. job[w].at \in Steps
  BY DEF LadderTypeOK, Jobs, Steps
<1>1. CASE Check(w)
  <2>1. job[w].at = "check" /\ UNCHANGED <<idle, quiet, clock, paid, counted, held, heldOut, faults>>
    BY <1>1 DEF Check, At
  <2>2. \E step \in {"close", "hold", "mint", "whatsapp", "email"} : Goto(w, step)
    BY <1>1, Zenon DEF Check
  <2> QED BY <2>1, <2>2 DEF InHand, Steps
<1>2. CASE Close(w) \/ Withdraw(w) \/ Advance(w)
  BY <1>0, <1>2 DEF Close, Withdraw, Advance, At, InHand, Steps
<1>3. CASE Mint(w)
  <2>1. job[w].at = "mint" /\ UNCHANGED <<idle, quiet, clock, paid, counted, held, heldOut, faults>>
    BY <1>3 DEF Mint, At
  <2>2. \E step \in {"whatsapp", "email"} : Goto(w, step)
    BY <1>3, Zenon DEF Mint
  <2> QED BY <2>1, <2>2 DEF InHand, Steps
<1>4. CASE Accepted(w)
  BY <1>0, <1>4 DEF Accepted, At, InHand, Steps
<1>5. CASE Refused(w) \/ AnswerLost(w)
  <2>1. AfterRefusal(w) \in {"email", "withdraw", "pass"}
    BY DEF AfterRefusal
  <2>2. Goto(w, AfterRefusal(w)) /\ job[w].at \in {"whatsapp", "email"}
        /\ UNCHANGED <<idle, quiet, clock, paid, counted, held, heldOut>>
        /\ (faults' = faults \/ (faults' = faults + 1 /\ faults < MaxFaults))
    BY <1>5 DEF Refused, AnswerLost, At
  <2> QED BY <2>1, <2>2 DEF InHand, Steps
<1>6. CASE Throw(w)
  BY <1>0, <1>6 DEF Throw, InHand, Steps
<1> QED BY <1>1, <1>2, <1>3, <1>4, <1>5, <1>6 DEF OnCart

LEMMA CartIsWorked ==
  ASSUME Passes, NEW w \in Worker, OnCart(w)
  PROVE  /\ RowsAreRead' /\ OneRowACart' /\ OneLock' /\ RunawaysCost'
         /\ job' \in [Worker -> Jobs] /\ faults' \in 0..MaxFaults
<1>1. LadderTypeOK
  BY DEF Passes
<1>2. /\ job[w].at \in InHand
      /\ faults' = faults \/ (faults' = faults + 1 /\ faults < MaxFaults)
      /\ UNCHANGED quiet
  BY <1>1, ACartIsInHand
<1>3. PICK step \in Steps \ {"idle", "check"} : Goto(w, step)
  BY <1>1, ACartIsInHand
<1>4. /\ job' \in [Worker -> Jobs]
      /\ job'[w].at = step /\ job'[w].row = job[w].row /\ job'[w].rows = job[w].rows
      /\ job'[w].locked = job[w].locked
      /\ \A v \in Worker \ {w} : job'[v] = job[v]
  BY <1>1, <1>3, CallGoes
<1>5. RowsOf(job'[w]) \subseteq RowsOf(job[w])
  BY <1>2, <1>4 DEF RowsOf
<1>6. job'[w].at \in InHand => \A q \in job'[w].rows : q.cart # job'[w].row.cart
  BY <1>2, <1>4 DEF Passes, OneRowACart
<1>7. job[w].at # "idle" /\ job'[w].at # "idle"
  BY <1>2, <1>3, <1>4 DEF InHand
<1>8. faults' \in 0..MaxFaults
  BY <1>1, <1>2, LadderAssumption DEF LadderTypeOK
<1> HIDE DEF Passes
<1> QED BY <1>2, <1>4, <1>5, <1>6, <1>7, <1>8, PassesGoOn

\* The steps between carts.
LEMMA PassIsWorked ==
  ASSUME Passes, NEW w \in Worker, Take(w) \/ EndPass(w) \/ Crash(w) \/ Overrun(w)
  PROVE  /\ RowsAreRead' /\ OneRowACart' /\ OneLock' /\ RunawaysCost'
         /\ job' \in [Worker -> Jobs] /\ faults' \in 0..MaxFaults
         /\ UNCHANGED <<cartVars, mailVars>>
         /\ \A v \in Worker \ {w} : job'[v] = job[v]
<1>0. /\ job \in [Worker -> Jobs] /\ job[w] \in Jobs /\ faults \in 0..MaxFaults
      /\ RowsAreRead /\ OneRowACart /\ OneLock
  BY DEF Passes, LadderTypeOK
<1>1. CASE Take(w)
  <2>1. PICK row \in job[w].rows :
          job' = [job EXCEPT ![w] = [job[w] EXCEPT !.at = "check", !.row = row,
                                                   !.rows = job[w].rows \ {row}]]
    BY <1>0, <1>1 DEF Take
  <2> DEFINE call == [job[w] EXCEPT !.at = "check", !.row = row, !.rows = job[w].rows \ {row}]
  <2>2. row \in Row /\ job[w].at = "pass" /\ UNCHANGED <<cartVars, mailVars, faults>>
    BY <1>0, <1>1 DEF RowsAreRead, RowsOf, Take, At
  <2>3. /\ call \in Jobs /\ call.at = "check" /\ call.row = row /\ call.rows = job[w].rows \ {row}
        /\ call.locked = job[w].locked
    BY <1>0, <2>2 DEF Jobs
  <2>4. job' = [job EXCEPT ![w] = call]
    BY <2>1
  <2> HIDE DEF call
  <2>5. job' \in [Worker -> Jobs] /\ job'[w] = call /\ \A v \in Worker \ {w} : job'[v] = job[v]
    BY <1>0, <2>3, <2>4
  <2>6. RowsOf(call) \subseteq RowsOf(job[w]) /\ call.rows \subseteq job[w].rows
    BY <2>3 DEF RowsOf
  <2>7. \A q \in call.rows : q.cart # call.row.cart
    BY <1>0, <2>3 DEF OneRowACart
  <2>8. job[w].at # "idle" /\ call.at # "idle"
    BY <2>2, <2>3
  <2>9. UNCHANGED <<quiet, faults>>
    BY <2>2 DEF cartVars, orderVars
  <2> HIDE DEF Passes
  <2> QED BY <1>0, <2>2, <2>3, <2>5, <2>6, <2>7, <2>8, <2>9, PassesGoOn
<1>2. CASE EndPass(w) \/ Crash(w)
  <2>1. /\ job' = [job EXCEPT ![w] = Idle] /\ job[w].at # "idle"
        /\ UNCHANGED <<cartVars, mailVars>>
    BY <1>2 DEF EndPass, Crash, At
  <2>2. job' \in [Worker -> Jobs] /\ job'[w] = Idle /\ \A v \in Worker \ {w} : job'[v] = job[v]
    BY <1>0, <2>1, IdleIsAJob
  <2>3. RowsOf(Idle) = {}
    BY IdleIsAJob DEF RowsOf, InHand
  <2>4. UNCHANGED quiet
    BY <2>1 DEF cartVars, orderVars
  <2>5. faults' = faults \/ faults' = faults + 1
    BY <1>2 DEF EndPass, Crash
  <2>6. job'[w].at = "idle" /\ job'[w].rows = {} /\ ~job'[w].locked /\ job'[w].at \notin InHand
    BY <2>2, IdleIsAJob DEF InHand
  <2>7. faults' \in 0..MaxFaults
    BY <1>0, <1>2, LadderAssumption DEF EndPass, Crash
  <2> HIDE DEF Passes
  <2> QED BY <2>1, <2>2, <2>3, <2>4, <2>5, <2>6, <2>7, PassesGoOn
<1>3. CASE Overrun(w)
  <2> DEFINE call == [job[w] EXCEPT !.locked = FALSE]
  <2>1. job' = [job EXCEPT ![w] = [job[w] EXCEPT !.locked = FALSE]] /\ job[w].locked
        /\ UNCHANGED <<cartVars, mailVars>> /\ faults' = faults + 1 /\ faults < MaxFaults
    BY <1>3 DEF Overrun
  <2>2. /\ call \in Jobs /\ call.at = job[w].at /\ call.row = job[w].row
        /\ call.rows = job[w].rows /\ ~call.locked
    BY <1>0 DEF Jobs
  <2> HIDE DEF call
  <2>3. job' \in [Worker -> Jobs] /\ job'[w] = call /\ \A v \in Worker \ {w} : job'[v] = job[v]
    <3>1. job' = [job EXCEPT ![w] = call]
      BY <2>1 DEF call
    <3> QED BY <1>0, <2>2, <3>1
  <2>4. RowsOf(job'[w]) = RowsOf(job[w])
    BY <2>2, <2>3 DEF RowsOf
  <2>5. job[w].at # "idle"
    BY <1>0, <2>1 DEF OneLock
  <2>6. faults' \in 0..MaxFaults
    BY <1>0, <2>1, LadderAssumption
  <2>7. job'[w].at \in InHand => \A q \in job'[w].rows : q.cart # job'[w].row.cart
    BY <1>0, <2>2, <2>3 DEF OneRowACart
  <2>8. UNCHANGED quiet
    BY <2>1 DEF cartVars, orderVars
  <2> HIDE DEF Passes
  <2> QED BY <2>1, <2>2, <2>3, <2>4, <2>5, <2>6, <2>7, <2>8, PassesGoOn
<1> QED BY <1>1, <1>2, <1>3

LEMMA PositionIsFound ==
  ASSUME Staged, NEW k \in Cart, stage[k] \notin Off
  PROVE  Position(k) \in 0..Rungs /\ stage[k] = Stage(Position(k))
<1>1. \E n \in 0..Rungs : stage[k] = Stage(n)
  BY DEF Staged
<1> QED BY <1>1 DEF Position

\* A pass that starts reads the carts as they are.
LEMMA PassStarts ==
  ASSUME Passes, NEW w \in Worker, StartPass(w)
  PROVE  /\ \E rows : /\ \A r \in rows : /\ r \in Row /\ r.from < r.rung /\ r.quiet = quiet[r.cart]
                                         /\ stage[r.cart] = Stage(r.from)
                      /\ \A r, q \in rows : r.cart = q.cart => r = q
                      /\ job' = [job EXCEPT ![w] = [at |-> "pass", row |-> NoRow, rows |-> rows,
                                                    locked |-> TRUE]]
         /\ job[w].at = "idle" /\ job[w].rows = {} /\ ~job[w].locked
         /\ \A v \in Worker : ~job[v].locked
         /\ UNCHANGED <<cartVars, mailVars, faults>>
<1>0. /\ idle \in [Cart -> 0..Rungs] /\ quiet \in [Cart -> Nat] /\ Staged /\ OneLock
  BY DEF Passes, LadderTypeOK
<1>1. PICK reach \in SUBSET Channels \ {{}}, carts \in SUBSET {k \in Cart : Due(k)} :
        job' = [job EXCEPT ![w] =
                 [at |-> "pass", row |-> NoRow,
                  rows |-> {[cart |-> k, from |-> Position(k), rung |-> idle[k],
                             quiet |-> quiet[k], reach |-> reach] : k \in carts},
                  locked |-> TRUE]]
  BY DEF StartPass
<1> DEFINE read(k) == [cart |-> k, from |-> Position(k), rung |-> idle[k],
                       quiet |-> quiet[k], reach |-> reach]
           rows == {read(k) : k \in carts}
<1>2. ASSUME NEW k \in carts
      PROVE  /\ read(k) \in Row /\ read(k).cart = k /\ read(k).from < read(k).rung
             /\ read(k).quiet = quiet[k] /\ stage[k] = Stage(read(k).from)
  <2>1. k \in Cart /\ stage[k] \notin Off /\ idle[k] > Position(k)
    BY DEF Due
  <2>2. Position(k) \in 0..Rungs /\ stage[k] = Stage(Position(k))
    BY <1>0, <2>1, PositionIsFound
  <2>3. idle[k] \in 1..Rungs /\ quiet[k] \in Nat
    BY <1>0, <2>1, <2>2, LadderAssumption
  <2> QED BY <2>1, <2>2, <2>3 DEF Row
<1>3. job' = [job EXCEPT ![w] = [at |-> "pass", row |-> NoRow, rows |-> rows, locked |-> TRUE]]
  BY <1>1
<1> HIDE DEF read
<1>4. /\ \A r \in rows : /\ r \in Row /\ r.from < r.rung /\ r.quiet = quiet[r.cart]
                         /\ stage[r.cart] = Stage(r.from)
      /\ \A r, q \in rows : r.cart = q.cart => r = q
  BY <1>2
<1>5. /\ job[w].at = "idle" /\ (\A v \in Worker : ~job[v].locked)
      /\ UNCHANGED <<cartVars, mailVars, faults>>
  BY DEF StartPass, At, Unlocked
<1>6. job[w].rows = {} /\ ~job[w].locked
  BY <1>0, <1>5 DEF OneLock
<1> HIDE DEF rows
<1> QED BY <1>3, <1>4, <1>5, <1>6

\* What a started pass is.
LEMMA PassHasStarted ==
  ASSUME Passes, NEW w \in Worker, NEW rows \in SUBSET Row,
         job' = [job EXCEPT ![w] = [at |-> "pass", row |-> NoRow, rows |-> rows, locked |-> TRUE]]
  PROVE  /\ job' \in [Worker -> Jobs] /\ job'[w].at = "pass" /\ job'[w].rows = rows
         /\ job'[w].locked /\ RowsOf(job'[w]) = rows
         /\ \A v \in Worker \ {w} : job'[v] = job[v]
<1> DEFINE call == [at |-> "pass", row |-> NoRow, rows |-> rows, locked |-> TRUE]
<1>1. job \in [Worker -> Jobs]
  BY DEF Passes, LadderTypeOK
<1>2. call \in Jobs /\ call.at = "pass" /\ call.rows = rows /\ call.locked = TRUE
  BY DEF Jobs
<1>3. job' = [job EXCEPT ![w] = call]
  OBVIOUS
<1> HIDE DEF call
<1>4. job' \in [Worker -> Jobs] /\ job'[w] = call /\ \A v \in Worker \ {w} : job'[v] = job[v]
  BY <1>1, <1>2, <1>3
<1>5. RowsOf(call) = rows
  BY <1>2 DEF RowsOf, InHand
<1> QED BY <1>2, <1>4, <1>5

LEMMA PassesStart ==
  ASSUME Passes, NEW w \in Worker, StartPass(w)
  PROVE  Passes'
<1>0. /\ LadderTypeOK /\ Staged /\ RowsAreRead /\ OneRowACart /\ OneLock /\ RunawaysCost
  BY DEF Passes
<1>1. PICK rows : /\ \A r \in rows : r \in Row /\ r.from < r.rung /\ r.quiet = quiet[r.cart]
                  /\ \A r, q \in rows : r.cart = q.cart => r = q
                  /\ job' = [job EXCEPT ![w] = [at |-> "pass", row |-> NoRow, rows |-> rows,
                                                locked |-> TRUE]]
  BY PassStarts
<1>2. /\ job[w].at = "idle" /\ \A v \in Worker : ~job[v].locked
  BY PassStarts
<1>3. UNCHANGED <<cartVars, mailVars, faults>>
  BY PassStarts
<1>4. /\ job' \in [Worker -> Jobs] /\ job'[w].at = "pass" /\ job'[w].rows = rows
      /\ job'[w].locked /\ RowsOf(job'[w]) = rows
      /\ \A v \in Worker \ {w} : job'[v] = job[v]
  BY <1>1, PassHasStarted
<1>5. LadderTypeOK' /\ Staged'
  BY <1>0, <1>3, <1>4 DEF LadderTypeOK, Staged, cartVars, orderVars, mailVars
<1>6. RowsAreRead'
  <2> SUFFICES ASSUME NEW v \in Worker, NEW r \in RowsOf(job'[v])
               PROVE  r \in Row /\ r.from < r.rung /\ r.quiet <= quiet[r.cart]
    BY <1>3 DEF RowsAreRead, cartVars, orderVars
  <2>1. CASE v = w
    <3>1. r \in Row /\ r.from < r.rung /\ r.quiet = quiet[r.cart] /\ r.quiet \in Nat
      BY <1>1, <1>4, <2>1 DEF Row
    <3> QED BY <3>1
  <2>2. CASE v # w
    BY <1>0, <1>4, <2>2 DEF RowsAreRead
  <2> QED BY <2>1, <2>2
<1>7. OneRowACart'
  BY <1>0, <1>1, <1>4 DEF OneRowACart, InHand
<1>8. OneLock'
  BY <1>0, <1>2, <1>4 DEF OneLock
<1>9. Runaways' \subseteq Runaways
  BY <1>4 DEF Runaways
<1>10. RunawaysCost'
  <2>1. Runaways \in SUBSET Worker /\ Runaways' \in SUBSET Worker /\ faults' = faults /\ faults \in Nat
    BY <1>0, <1>3 DEF Runaways, LadderTypeOK
  <2>2. Cardinality(Runaways') <= Cardinality(Runaways)
    BY <1>9, <2>1, FewerPasses
  <2>3. Cardinality(Runaways') \in Nat /\ Cardinality(Runaways) \in Nat
    BY <2>1, PassesAreCounted
  <2> QED BY <1>0, <2>1, <2>2, <2>3 DEF RunawaysCost
<1> QED BY <1>5, <1>6, <1>7, <1>8, <1>10 DEF Passes

\* The orders that were paid, as they are typed.
LandedOrders == clock \in Nat /\ counted \subseteq PaidOrder /\ held \subseteq PaidOrder

LEMMA OrdersLand ==
  ASSUME LadderTypeOK, NEW k \in Cart \cup {NoCart}, Land(k)
  PROVE  LandedOrders'
<1>1. clock \in Nat /\ counted \subseteq PaidOrder /\ held \subseteq PaidOrder
  BY DEF LadderTypeOK
<1>2. [at |-> clock + 1, cart |-> k] \in PaidOrder
  BY <1>1 DEF PaidOrder
<1> QED BY <1>1, <1>2 DEF Land, LandedOrders

\* The shopper moves no pass, and a cart is only ever touched later.
LEMMA ShopperIsHarmless ==
  ASSUME Passes, Shopper
  PROVE  /\ Passes' /\ UNCHANGED <<job, faults, heldOut, events, codes, sent>>
         /\ \A k \in Cart : stage'[k] = stage[k] \/ stage'[k] \in Off
<1> USE DEF cartVars, orderVars, mailVars
<1>0. /\ LadderTypeOK /\ Staged /\ RowsAreRead /\ OneRowACart /\ OneLock /\ RunawaysCost
  BY DEF Passes
<1>1. UNCHANGED <<job, faults, heldOut, events, codes, sent>>
  BY DEF Shopper, Wait, Return, Pay, BuyElsewhere, Release, Refund
<1>2. LadderTypeOK'
  <2> USE DEF LadderTypeOK
  <2>1. ASSUME NEW k \in Cart, Wait(k) PROVE LadderTypeOK'
    <3>1. idle \in [Cart -> 0..Rungs] /\ Rungs \in Nat
      BY <1>0, LadderAssumption
    <3>2. idle' \in [Cart -> 0..Rungs]
      BY <2>1, <3>1 DEF Wait
    <3> QED BY <1>0, <2>1, <3>2 DEF Wait
  <2>2. ASSUME NEW k \in Cart, Return(k) PROVE LadderTypeOK'
    BY <1>0, <2>2, LadderAssumption DEF Return
  <2>3. ASSUME NEW k \in Cart, Pay(k) PROVE LadderTypeOK'
    <3>1. LandedOrders'
      BY <1>0, <2>3, OrdersLand DEF Pay
    <3> QED BY <1>0, <2>3, <3>1 DEF Pay, Off, LandedOrders
  <2>4. CASE BuyElsewhere
    <3>1. LandedOrders'
      BY <1>0, <2>4, OrdersLand DEF BuyElsewhere
    <3> QED BY <1>0, <2>4, <3>1 DEF BuyElsewhere, LandedOrders
  <2>5. ASSUME NEW o \in counted \cup held, Release(o) \/ Refund(o) PROVE LadderTypeOK'
    <3>1. counted' \subseteq PaidOrder /\ held' \subseteq PaidOrder
      BY <1>0, <2>5 DEF Release, Refund
    <3>2. late' \in [Cart -> Nat]
      <4>0. late \in [Cart -> Nat]
        BY <1>0
      <4>1. CASE Release(o)
        BY <4>0, <4>1 DEF Release
      <4>2. CASE Refund(o)
        <5>1. \A k \in Cart : (IF Counts(k, quiet[k])' THEN late[k] ELSE 0) \in Nat
          BY <4>0
        <5> QED BY <4>2, <5>1 DEF Refund
      <4> QED BY <2>5, <4>1, <4>2
    <3> QED BY <1>0, <2>5, <3>1, <3>2 DEF Release, Refund
  <2> QED BY <2>1, <2>2, <2>3, <2>4, <2>5 DEF Shopper
<1>3. /\ \A k \in Cart : stage'[k] = stage[k] \/ stage'[k] \in Off
      /\ \A k \in Cart : quiet[k] <= quiet'[k]
      /\ Staged'
  <2>0. stage \in [Cart -> {Ladder[n] : n \in 1..5} \cup Off] /\ quiet \in [Cart -> Nat]
        /\ clock \in Nat /\ \A k \in Cart : quiet[k] <= clock
    BY <1>0 DEF LadderTypeOK, Staged
  <2>1. ASSUME NEW k \in Cart, Wait(k) PROVE <1>3!1 /\ <1>3!2 /\ <1>3!3
    BY <1>0, <2>0, <2>1 DEF Wait, Staged
  <2>2. ASSUME NEW k \in Cart, Return(k) PROVE <1>3!1 /\ <1>3!2 /\ <1>3!3
    BY <1>0, <2>0, <2>2 DEF Return, Staged
  <2>3. ASSUME NEW k \in Cart, Pay(k) PROVE <1>3!1 /\ <1>3!2 /\ <1>3!3
    BY <1>0, <2>0, <2>3 DEF Pay, Land, Staged, Off
  <2>4. CASE BuyElsewhere
    BY <1>0, <2>0, <2>4 DEF BuyElsewhere, Land, Staged
  <2>5. ASSUME NEW o \in counted \cup held, Release(o) \/ Refund(o)
        PROVE  <1>3!1 /\ <1>3!2 /\ <1>3!3
    BY <1>0, <2>0, <2>5 DEF Release, Refund, Staged
  <2> QED BY <2>1, <2>2, <2>3, <2>4, <2>5 DEF Shopper
<1>4. RowsAreRead'
  <2> SUFFICES ASSUME NEW w \in Worker, NEW r \in RowsOf(job[w])
               PROVE  r \in Row /\ r.from < r.rung /\ r.quiet <= quiet'[r.cart]
    BY <1>1 DEF RowsAreRead
  <2>1. r \in Row /\ r.from < r.rung /\ r.quiet <= quiet[r.cart]
    BY <1>0 DEF RowsAreRead
  <2>2. r.cart \in Cart /\ r.quiet \in Nat
    BY <2>1 DEF Row
  <2>3. quiet[r.cart] \in Nat /\ quiet'[r.cart] \in Nat /\ quiet[r.cart] <= quiet'[r.cart]
    BY <1>0, <1>2, <1>3, <2>2 DEF LadderTypeOK
  <2> QED BY <2>1, <2>2, <2>3
<1>5. OneRowACart' /\ OneLock' /\ RunawaysCost'
  BY <1>0, <1>1 DEF OneRowACart, OneLock, RunawaysCost, Runaways
<1> QED BY <1>1, <1>2, <1>3, <1>4, <1>5 DEF Passes

LEMMA RowInHand ==
  ASSUME Passes, NEW w \in Worker, OnCart(w)
  PROVE  /\ job[w].row \in Row /\ job[w].row.from < job[w].row.rung
         /\ job[w].row.quiet <= quiet[job[w].row.cart]
         /\ Working(w) \in Cart /\ Rung(w) \in 1..Rungs /\ job[w].row.from \in 0..Rungs
         /\ job[w].row.reach \subseteq Channels /\ job[w].row.quiet \in Nat
<1>1. job[w].at \in InHand
  BY ACartIsInHand DEF Passes
<1>2. job[w].row \in RowsOf(job[w])
  BY <1>1 DEF RowsOf
<1>3. /\ job[w].row \in Row /\ job[w].row.from < job[w].row.rung
      /\ job[w].row.quiet <= quiet[job[w].row.cart]
  BY <1>2 DEF Passes, RowsAreRead
<1> QED BY <1>3 DEF Row, Working, Rung

\* One entry of a table by cart and rung.
LEMMA EntryChanges ==
  ASSUME NEW S, NEW f \in [Cart -> [1..Rungs -> S]], NEW g, NEW k \in Cart, NEW n \in 1..Rungs,
         NEW v \in S, g = [f EXCEPT ![k][n] = v]
  PROVE  /\ g \in [Cart -> [1..Rungs -> S]] /\ g[k][n] = v
         /\ \A j \in Cart : \A m \in 1..Rungs : j # k \/ m # n => g[j][m] = f[j][m]
<1>1. g = [f EXCEPT ![k] = [f[k] EXCEPT ![n] = v]]
  OBVIOUS
<1>2. [f[k] EXCEPT ![n] = v] \in [1..Rungs -> S]
  OBVIOUS
<1> QED BY <1>1, <1>2

LEMMA MessageLeaves ==
  ASSUME LadderTypeOK, NEW w \in Worker, Working(w) \in Cart, Rung(w) \in 1..Rungs, Leaves(w)
  PROVE  /\ sent' \in [Cart -> [1..Rungs -> Nat]] /\ late' \in [Cart -> Nat]
         /\ sent'[Working(w)][Rung(w)] = sent[Working(w)][Rung(w)] + 1
         /\ \A k \in Cart : \A n \in 1..Rungs :
              k # Working(w) \/ n # Rung(w) => sent'[k][n] = sent[k][n]
<1>1. sent' = [sent EXCEPT ![Working(w)][Rung(w)] = sent[Working(w)][Rung(w)] + 1]
      /\ (late' = late \/ late' = [late EXCEPT ![Working(w)] = late[Working(w)] + 1])
  BY DEF Leaves
<1>0. sent \in [Cart -> [1..Rungs -> Nat]] /\ late \in [Cart -> Nat]
  BY DEF LadderTypeOK
<1>2. sent[Working(w)][Rung(w)] \in Nat /\ late[Working(w)] \in Nat
  BY <1>0
<1>20. sent[Working(w)][Rung(w)] + 1 \in Nat /\ late[Working(w)] + 1 \in Nat
  BY <1>2
<1>3. late' \in [Cart -> Nat]
  BY <1>0, <1>1, <1>20
<1>4. sent' = [sent EXCEPT ![Working(w)][Rung(w)] = sent[Working(w)][Rung(w)] + 1]
  BY <1>1
<1>5. /\ sent' \in [Cart -> [1..Rungs -> Nat]]
      /\ sent'[Working(w)][Rung(w)] = sent[Working(w)][Rung(w)] + 1
      /\ \A k \in Cart : \A n \in 1..Rungs :
           k # Working(w) \/ n # Rung(w) => sent'[k][n] = sent[k][n]
  BY <1>0, <1>20, <1>4, EntryChanges
<1> QED BY <1>3, <1>5

LEMMA CodesChange ==
  ASSUME LadderTypeOK, NEW w \in Worker, Working(w) \in Cart, Rung(w) \in 1..Rungs, NEW d \in {1, -1},
         codes' = [codes EXCEPT ![Working(w)][Rung(w)] = @ + d]
  PROVE  /\ codes' \in [Cart -> [1..Rungs -> Int]]
         /\ codes'[Working(w)][Rung(w)] = codes[Working(w)][Rung(w)] + d
         /\ \A k \in Cart : \A n \in 1..Rungs :
              k # Working(w) \/ n # Rung(w) => codes'[k][n] = codes[k][n]
<1>1. codes' = [codes EXCEPT ![Working(w)][Rung(w)] = codes[Working(w)][Rung(w)] + d]
  OBVIOUS
<1>2. codes \in [Cart -> [1..Rungs -> Int]]
  BY DEF LadderTypeOK
<1>3. codes[Working(w)][Rung(w)] \in Int
  BY <1>2
<1>4. codes[Working(w)][Rung(w)] + d \in Int
  BY <1>3
<1> QED BY <1>1, <1>2, <1>4, EntryChanges

\* What a step on a cart does to the ladder: nothing, the cart is closed, or it
\* goes one rung on from where the pass read it.
Closes(w)   == stage' = [stage EXCEPT ![Working(w)] = "CLOSED"]
Advances(w) == /\ stage[Working(w)] = Stage(job[w].row.from)
               /\ stage' = [stage EXCEPT ![Working(w)] = Stage(Rung(w))]

LEMMA LadderGoesOn ==
  ASSUME Passes, NEW w \in Worker, OnCart(w)
  PROVE  /\ stage' = stage \/ Closes(w) \/ Advances(w)
         /\ \A k \in Cart : stage[k] \in Off => stage'[k] \in Off
         /\ \A k \in Cart : stage'[k] = "RECOVERED" => stage[k] = "RECOVERED"
         /\ LadderTypeOK' /\ Staged'
<1> USE DEF mailVars, cartVars, orderVars
<1>0. /\ LadderTypeOK /\ Staged
      /\ Working(w) \in Cart /\ Rung(w) \in 1..Rungs /\ job[w].row.from \in 0..Rungs
  BY RowInHand DEF Passes
<1>1. stage' = stage \/ Closes(w) \/ Advances(w)
  BY DEF OnCart, Check, Close, Mint, Accepted, Refused, Withdraw, Advance, AnswerLost, Throw,
         Closes, Advances, Moves
<1>2. /\ Rung(w) \in 0..Rungs /\ Stage(Rung(w)) \in {Ladder[i] : i \in 1..5}
      /\ Stage(Rung(w)) \notin Off /\ Stage(job[w].row.from) \notin Off
  BY <1>0, StagesAreNamed, LadderAssumption
<1>3. /\ \A k \in Cart : stage[k] \in Off => stage'[k] \in Off
      /\ \A k \in Cart : stage'[k] = "RECOVERED" => stage[k] = "RECOVERED"
      /\ stage' \in [Cart -> {Ladder[n] : n \in 1..5} \cup Off]
  BY <1>0, <1>1, <1>2 DEF Closes, Advances, LadderTypeOK, Off
<1>4. UNCHANGED <<idle, quiet, clock, paid, counted, held, heldOut>>
  BY <1>0, ACartIsInHand
<1>5. Staged'
  BY <1>0, <1>1, <1>2, <1>3, <1>4 DEF Staged, Closes, Advances, LadderTypeOK, Off
<1>6. events' \subseteq Cart \X (1..Rungs)
  BY <1>0 DEF LadderTypeOK, OnCart, Check, Close, Mint, Accepted, Refused, Withdraw, Advance,
              AnswerLost, Throw
<1>61. codes' \in [Cart -> [1..Rungs -> Int]]
  <2>1. CASE Mint(w)
    <3>1. codes' = [codes EXCEPT ![Working(w)][Rung(w)] = @ + 1]
      BY <2>1 DEF Mint
    <3> QED BY <1>0, <3>1, CodesChange
  <2>2. CASE Withdraw(w)
    <3>1. codes' = [codes EXCEPT ![Working(w)][Rung(w)] = @ + (-1)]
      BY <1>0, <2>2 DEF Withdraw, LadderTypeOK
    <3> QED BY <1>0, <3>1, CodesChange
  <2>3. CASE codes' = codes
    BY <1>0, <2>3 DEF LadderTypeOK
  <2> QED BY <2>1, <2>2, <2>3 DEF OnCart, Check, Close, Accepted, Refused, Advance, AnswerLost, Throw
<1>7. sent' \in [Cart -> [1..Rungs -> Nat]] /\ late' \in [Cart -> Nat]
  <2>1. CASE Leaves(w)
    BY <1>0, <2>1, MessageLeaves
  <2>2. CASE UNCHANGED <<sent, late>>
    BY <1>0, <2>2 DEF LadderTypeOK
  <2> QED BY <2>1, <2>2
       DEF OnCart, Check, Close, Mint, Accepted, Refused, Withdraw, Advance, AnswerLost, Throw
<1>8. job' \in [Worker -> Jobs] /\ faults' \in 0..MaxFaults
  BY CartIsWorked
<1>9. LadderTypeOK'
  BY <1>0, <1>3, <1>4, <1>6, <1>61, <1>7, <1>8 DEF LadderTypeOK
<1> QED BY <1>1, <1>3, <1>5, <1>9

\* Where each step comes from and leads.
LEMMA WhereItGoes ==
  ASSUME Passes, NEW w \in Worker, OnCart(w)
  PROVE  /\ \A v \in Worker \ {w} : job'[v] = job[v]
         /\ job'[w].row = job[w].row /\ job'[w].rows = job[w].rows /\ job'[w].locked = job[w].locked
         /\ Working(w)' = Working(w) /\ Rung(w)' = Rung(w)
         /\ Check(w) => /\ job[w].at = "check"
                        /\ \/ job'[w].at \in {"close", "hold"}
                           \/ job'[w].at = "mint" /\ ~Bought(job[w].row)
                           \/ /\ job'[w].at \in {"whatsapp", "email"}
                              /\ ~Bought(job[w].row) /\ Rung(w) \notin WithCode
         /\ Mint(w) => job[w].at = "mint" /\ job'[w].at \in {"whatsapp", "email"}
         /\ Accepted(w) => job[w].at \in {"whatsapp", "email"} /\ job'[w].at = "advance"
         /\ Refused(w) \/ AnswerLost(w) =>
              /\ job[w].at \in {"whatsapp", "email"}
              /\ \/ job'[w].at \in {"email", "withdraw"}
                 \/ job'[w].at = "pass" /\ Rung(w) \notin WithCode
         /\ Withdraw(w) => job[w].at = "withdraw" /\ job'[w].at = "pass"
         /\ Advance(w) => job[w].at \in {"advance", "hold"} /\ job'[w].at = "pass"
         /\ Close(w) => job[w].at = "close" /\ job'[w].at = "pass"
         /\ Throw(w) => job[w].at \in InHand /\ job'[w].at = "pass"
<1>0. LadderTypeOK
  BY DEF Passes
<1>1. PICK step \in Steps : Goto(w, step)
  BY <1>0, ACartIsInHand
<1>2. /\ job'[w].row = job[w].row /\ job'[w].rows = job[w].rows /\ job'[w].locked = job[w].locked
      /\ \A v \in Worker \ {w} : job'[v] = job[v]
  BY <1>0, <1>1, CallGoes
<1>3. Working(w)' = Working(w) /\ Rung(w)' = Rung(w)
  BY <1>2 DEF Working, Rung
<1>4. ASSUME NEW to \in Steps, Goto(w, to) PROVE job'[w].at = to
  BY <1>0, <1>4, CallGoes
<1>5. Check(w) => /\ job[w].at = "check"
                  /\ \/ job'[w].at \in {"close", "hold"}
                     \/ job'[w].at = "mint" /\ ~Bought(job[w].row)
                     \/ /\ job'[w].at \in {"whatsapp", "email"}
                        /\ ~Bought(job[w].row) /\ Rung(w) \notin WithCode
  <2> SUFFICES ASSUME Check(w)
               PROVE  \/ job'[w].at \in {"close", "hold"}
                      \/ job'[w].at = "mint" /\ ~Bought(job[w].row)
                      \/ /\ job'[w].at \in {"whatsapp", "email"}
                         /\ ~Bought(job[w].row) /\ Rung(w) \notin WithCode
    BY DEF Check, At
  <2> DEFINE to == IF Bought(job[w].row) THEN "close"
                   ELSE IF job[w].row.cart \in heldOut THEN "hold"
                   ELSE IF job[w].row.rung \in WithCode THEN "mint"
                   ELSE IF "whatsapp" \in job[w].row.reach THEN "whatsapp" ELSE "email"
  <2>1. Goto(w, to)
    BY DEF Check
  <2>2. to \in Steps
    BY Zenon DEF Steps
  <2>3. job'[w].at = to
    BY <1>4, <2>1, <2>2
  <2> QED BY <2>3 DEF Rung
<1>6. Mint(w) => job[w].at = "mint" /\ job'[w].at \in {"whatsapp", "email"}
  <2> SUFFICES ASSUME Mint(w) PROVE job[w].at = "mint" /\ job'[w].at \in {"whatsapp", "email"}
    OBVIOUS
  <2> DEFINE to == IF "whatsapp" \in job[w].row.reach THEN "whatsapp" ELSE "email"
  <2>1. Goto(w, to) /\ to \in {"whatsapp", "email"} /\ job[w].at = "mint"
    BY DEF Mint, At
  <2> HIDE DEF to
  <2> QED BY <1>4, <2>1 DEF Steps
<1>7. Accepted(w) => job[w].at \in {"whatsapp", "email"} /\ job'[w].at = "advance"
  BY <1>4 DEF Accepted, At, Steps
<1>8. Refused(w) \/ AnswerLost(w) =>
        /\ job[w].at \in {"whatsapp", "email"}
        /\ \/ job'[w].at \in {"email", "withdraw"}
           \/ job'[w].at = "pass" /\ Rung(w) \notin WithCode
  <2> SUFFICES ASSUME Refused(w) \/ AnswerLost(w)
               PROVE  /\ job[w].at \in {"whatsapp", "email"}
                      /\ \/ job'[w].at \in {"email", "withdraw"}
                         \/ job'[w].at = "pass" /\ Rung(w) \notin WithCode
    OBVIOUS
  <2>1. Goto(w, AfterRefusal(w)) /\ job[w].at \in {"whatsapp", "email"}
    BY DEF Refused, AnswerLost, At
  <2>2. \/ AfterRefusal(w) \in {"email", "withdraw"}
        \/ AfterRefusal(w) = "pass" /\ Rung(w) \notin WithCode
    BY DEF AfterRefusal
  <2>3. AfterRefusal(w) \in Steps
    BY <2>2 DEF Steps
  <2>4. job'[w].at = AfterRefusal(w)
    BY <1>4, <2>1, <2>3
  <2> QED BY <2>1, <2>2, <2>4
<1>9. /\ Withdraw(w) => job[w].at = "withdraw" /\ job'[w].at = "pass"
      /\ Advance(w) => job[w].at \in {"advance", "hold"} /\ job'[w].at = "pass"
      /\ Close(w) => job[w].at = "close" /\ job'[w].at = "pass"
  BY <1>4 DEF Withdraw, Advance, Close, At, Steps
<1>10. Throw(w) => job[w].at \in InHand /\ job'[w].at = "pass"
  BY <1>0, <1>4, ACartIsInHand DEF Throw, Steps
<1> QED BY <1>2, <1>3, <1>5, <1>6, <1>7, <1>8, <1>9, <1>10
-----------------------------------------------------------------------------
(***************************************************************************)
(* The invariant: what was written, and the codes it promised.             *)
(***************************************************************************)
SentFirst ==
  /\ \A w \in Worker : job[w].at = "advance" => sent[Working(w)][Rung(w)] > 0
  /\ \A k \in Cart : \A n \in 1..Rungs : <<k, n>> \in events => sent[k][n] > 0
  /\ \A k \in Cart : stage[k] = "RECOVERED" => \E n \in 1..Rungs : sent[k][n] > 0

\* The passes that hold a code of cart k and rung n.
Holders(k, n) == {w \in Worker : /\ job[w].at \in {"whatsapp", "email", "withdraw", "advance"}
                                 /\ Working(w) = k /\ Rung(w) = n}

OnRecord(k, n) == IF <<k, n>> \in events THEN 1 ELSE 0

\* Each of them has one of the codes, and so has the rung on record.
CodesAreHeld ==
  \A k \in Cart : \A n \in WithCode : codes[k][n] >= Cardinality(Holders(k, n)) + OnRecord(k, n)

LEMMA MailStaysSent ==
  ASSUME Passes, SentFirst, NEW w \in Worker, OnCart(w)
  PROVE  SentFirst'
<1>0. /\ LadderTypeOK /\ Working(w) \in Cart /\ Rung(w) \in 1..Rungs /\ LadderTypeOK'
      /\ \A k \in Cart : stage'[k] = "RECOVERED" => stage[k] = "RECOVERED"
  BY RowInHand, LadderGoesOn DEF Passes
<1>1. \A k \in Cart : \A n \in 1..Rungs : sent[k][n] \in Nat /\ sent'[k][n] \in Nat
  <2>1. sent \in [Cart -> [1..Rungs -> Nat]] /\ sent' \in [Cart -> [1..Rungs -> Nat]]
    BY <1>0 DEF LadderTypeOK
  <2> QED BY <2>1
<1>2. /\ \A k \in Cart : \A n \in 1..Rungs : sent[k][n] <= sent'[k][n]
      /\ Accepted(w) => sent'[Working(w)][Rung(w)] > 0
  <2>1. CASE Leaves(w)
    <3>1. /\ sent'[Working(w)][Rung(w)] = sent[Working(w)][Rung(w)] + 1
          /\ \A k \in Cart : \A n \in 1..Rungs :
               k # Working(w) \/ n # Rung(w) => sent'[k][n] = sent[k][n]
      BY <1>0, <2>1, MessageLeaves
    <3> HIDE DEF Passes
    <3>2. sent'[Working(w)][Rung(w)] > 0
      BY <1>0, <1>1, <3>1
    <3>3. ASSUME NEW k \in Cart, NEW n \in 1..Rungs PROVE sent[k][n] <= sent'[k][n]
      BY <1>0, <1>1, <3>1
    <3> QED BY <3>2, <3>3
  <2>2. CASE sent' = sent /\ ~Accepted(w)
    BY <1>1, <2>2
  <2> QED BY <2>1, <2>2
       DEF OnCart, Check, Close, Mint, Accepted, Refused, Withdraw, Advance, AnswerLost, Throw, mailVars
<1>3. events' = events
      \/ (job[w].at = "advance" /\ events' = events \cup {<<Working(w), Rung(w)>>})
  BY DEF OnCart, Check, Close, Mint, Accepted, Refused, Withdraw, Advance, AnswerLost, Throw,
         mailVars, At
<1>4. ASSUME NEW v \in Worker, job'[v].at = "advance"
      PROVE  sent'[Working(v)'][Rung(v)'] > 0
  <2>1. CASE v = w
    <3>1. Accepted(w)
      BY <1>4, <2>1, WhereItGoes DEF OnCart
    <3> QED BY <1>2, <2>1, <3>1, WhereItGoes
  <2>2. CASE v # w
    <3>1. job'[v] = job[v]
      BY <2>2, WhereItGoes
    <3>2. job[v].row \in RowsOf(job[v]) /\ sent[Working(v)][Rung(v)] > 0
      BY <1>4, <3>1 DEF RowsOf, InHand, Steps, SentFirst
    <3>3. Working(v) \in Cart /\ Rung(v) \in 1..Rungs
      BY <3>2 DEF Passes, RowsAreRead, Row, Working, Rung
    <3>4. Working(v)' = Working(v) /\ Rung(v)' = Rung(v)
      BY <3>1 DEF Working, Rung
    <3> HIDE DEF Passes, SentFirst
    <3> QED BY <1>1, <1>2, <3>2, <3>3, <3>4
  <2> QED BY <2>1, <2>2
<1>5. ASSUME NEW k \in Cart, NEW n \in 1..Rungs, <<k, n>> \in events'
      PROVE  sent'[k][n] > 0
  <2>1. CASE <<k, n>> \in events
    BY <1>1, <1>2, <2>1 DEF SentFirst
  <2>2. CASE job[w].at = "advance" /\ k = Working(w) /\ n = Rung(w)
    BY <1>1, <1>2, <2>2 DEF SentFirst
  <2> QED BY <1>3, <1>5, <2>1, <2>2
<1>6. ASSUME NEW k \in Cart, stage'[k] = "RECOVERED"
      PROVE  \E n \in 1..Rungs : sent'[k][n] > 0
  <2>1. PICK n \in 1..Rungs : sent[k][n] > 0
    BY <1>0, <1>6 DEF SentFirst
  <2> HIDE DEF Passes, SentFirst
  <2> QED BY <1>1, <1>2, <2>1
<1> QED BY <1>4, <1>5, <1>6 DEF SentFirst

LEMMA HoldersAreCounted ==
  \A k, n : /\ Holders(k, n) \in SUBSET Worker /\ Holders(k, n)' \in SUBSET Worker
            /\ Cardinality(Holders(k, n)) \in Nat /\ Cardinality(Holders(k, n)') \in Nat
<1> SUFFICES ASSUME NEW k, NEW n
             PROVE  /\ Holders(k, n) \in SUBSET Worker /\ Holders(k, n)' \in SUBSET Worker
                    /\ Cardinality(Holders(k, n)) \in Nat /\ Cardinality(Holders(k, n)') \in Nat
  OBVIOUS
<1>1. Holders(k, n) \in SUBSET Worker /\ Holders(k, n)' \in SUBSET Worker
  BY DEF Holders
<1> QED BY <1>1, PassesAreCounted

\* Nobody takes hold of a code.
LEMMA NobodyMints ==
  ASSUME Passes, CodesAreHeld, UNCHANGED <<codes, events>>,
         \A k, n : n \in WithCode => Holders(k, n)' \subseteq Holders(k, n)
  PROVE  CodesAreHeld'
<1> SUFFICES ASSUME NEW k \in Cart, NEW n \in WithCode
             PROVE  codes[k][n] >= Cardinality(Holders(k, n)') + OnRecord(k, n)
  BY DEF CodesAreHeld, OnRecord
<1>1. codes[k][n] >= Cardinality(Holders(k, n)) + OnRecord(k, n) /\ codes[k][n] \in Int
  BY LadderAssumption DEF CodesAreHeld, Passes, LadderTypeOK
<1>2. Cardinality(Holders(k, n)') <= Cardinality(Holders(k, n))
  BY HoldersAreCounted, FewerPasses
<1>3. OnRecord(k, n) \in Nat
  BY DEF OnRecord
<1> QED BY <1>1, <1>2, <1>3, HoldersAreCounted

LEMMA CodesStayHeld ==
  ASSUME Passes, CodesAreHeld, NEW w \in Worker, OnCart(w)
  PROVE  CodesAreHeld'
<1>0. /\ LadderTypeOK /\ Working(w) \in Cart /\ Rung(w) \in 1..Rungs
      /\ \A k \in Cart : \A n \in WithCode : codes[k][n] \in Int /\ n \in 1..Rungs
  <2>1. LadderTypeOK /\ Working(w) \in Cart /\ Rung(w) \in 1..Rungs
    BY RowInHand DEF Passes
  <2>2. codes \in [Cart -> [1..Rungs -> Int]]
    BY <2>1 DEF LadderTypeOK
  <2>3. \A n \in WithCode : n \in 1..Rungs
    BY LadderAssumption
  <2> QED BY <2>1, <2>2, <2>3
<1>1. /\ \A v \in Worker \ {w} : job'[v] = job[v]
      /\ Working(w)' = Working(w) /\ Rung(w)' = Rung(w)
  BY WhereItGoes
<1>2. \A k, n : \A v \in Worker \ {w} : v \in Holders(k, n)' <=> v \in Holders(k, n)
  BY <1>1 DEF Holders, Working, Rung
<1>3. \A k, n : k # Working(w) \/ n # Rung(w) => Holders(k, n)' = Holders(k, n)
  <2> SUFFICES ASSUME NEW k, NEW n, k # Working(w) \/ n # Rung(w)
               PROVE  w \notin Holders(k, n) /\ w \notin Holders(k, n)'
    BY <1>2, HoldersAreCounted
  <2> QED BY <1>1 DEF Holders
<1>4. CASE Check(w) \/ Close(w) \/ Accepted(w) \/ Refused(w) \/ AnswerLost(w) \/ Throw(w)
  <2>1. UNCHANGED <<codes, events>>
    BY <1>4 DEF Check, Close, Accepted, Refused, AnswerLost, Throw, mailVars
  <2>2. ASSUME NEW k, NEW n \in WithCode PROVE Holders(k, n)' \subseteq Holders(k, n)
    <3>1. w \in Holders(k, n)' => w \in Holders(k, n)
      BY <1>1, <1>4, WhereItGoes DEF Holders
    <3> QED BY <1>2, <3>1, HoldersAreCounted
  <2> QED BY <2>1, <2>2, NobodyMints
<1> SUFFICES ASSUME Mint(w) \/ Withdraw(w) \/ Advance(w) PROVE CodesAreHeld'
  BY <1>4 DEF OnCart
<1> SUFFICES ASSUME NEW k \in Cart, NEW n \in WithCode
             PROVE  codes'[k][n] >= Cardinality(Holders(k, n)') + OnRecord(k, n)'
  BY DEF CodesAreHeld
<1> DEFINE H == Holders(k, n)  G == Holders(k, n)'
<1>5. /\ codes[k][n] >= Cardinality(H) + OnRecord(k, n) /\ codes[k][n] \in Int
      /\ OnRecord(k, n) \in Nat
  BY <1>0 DEF CodesAreHeld, OnRecord
<1>6. /\ H \in SUBSET Worker /\ G \in SUBSET Worker
      /\ Cardinality(H) \in Nat /\ Cardinality(G) \in Nat
  BY HoldersAreCounted
<1>7. CASE Mint(w)
  <2>0. codes' = [codes EXCEPT ![Working(w)][Rung(w)] = @ + 1] /\ events' = events
    BY <1>7 DEF Mint
  <2>1. /\ codes'[Working(w)][Rung(w)] = codes[Working(w)][Rung(w)] + 1
        /\ \A j \in Cart : \A m \in 1..Rungs :
             j # Working(w) \/ m # Rung(w) => codes'[j][m] = codes[j][m]
    BY <1>0, <2>0, CodesChange
  <2>2. OnRecord(k, n)' = OnRecord(k, n)
    BY <2>0 DEF OnRecord
  <2>3. CASE k = Working(w) /\ n = Rung(w)
    <3>1. G \subseteq H \cup {w}
      BY <1>2, <1>6
    <3>2. Cardinality(G) <= Cardinality(H) + 1
      BY <1>6, <3>1, OneMorePass
    <3>3. codes'[k][n] = codes[k][n] + 1
      BY <2>1, <2>3
    <3> HIDE DEF G, H, Passes
    <3>4. codes'[k][n] >= Cardinality(G) + OnRecord(k, n)'
      BY <1>5, <1>6, <2>2, <3>2, <3>3
    <3> QED BY <3>4 DEF G
  <2>4. CASE k # Working(w) \/ n # Rung(w)
    <3>1. codes'[k][n] = codes[k][n] /\ Holders(k, n)' = Holders(k, n)
      BY <1>0, <1>3, <2>1, <2>4
    <3> QED BY <1>5, <2>2, <3>1
  <2> QED BY <2>3, <2>4
<1>8. CASE Withdraw(w)
  <2>0. codes' = [codes EXCEPT ![Working(w)][Rung(w)] = @ + (-1)] /\ events' = events
    BY <1>0, <1>8 DEF Withdraw, LadderTypeOK
  <2>1. /\ codes'[Working(w)][Rung(w)] = codes[Working(w)][Rung(w)] + (-1)
        /\ \A j \in Cart : \A m \in 1..Rungs :
             j # Working(w) \/ m # Rung(w) => codes'[j][m] = codes[j][m]
    BY <1>0, <2>0, CodesChange
  <2>2. OnRecord(k, n)' = OnRecord(k, n)
    BY <2>0 DEF OnRecord
  <2>3. CASE k = Working(w) /\ n = Rung(w)
    <3>1. w \in H /\ w \notin G
      BY <1>8, <2>3, WhereItGoes DEF Holders
    <3>2. G \subseteq H \ {w}
      BY <1>2, <1>6, <3>1
    <3>3. Cardinality(G) + 1 <= Cardinality(H)
      BY <1>6, <3>1, <3>2, OnePassLess
    <3>4. codes'[k][n] = codes[k][n] + (-1)
      BY <2>1, <2>3
    <3> HIDE DEF G, H, Passes
    <3>5. codes'[k][n] >= Cardinality(G) + OnRecord(k, n)'
      BY <1>5, <1>6, <2>2, <3>3, <3>4
    <3> QED BY <3>5 DEF G
  <2>4. CASE k # Working(w) \/ n # Rung(w)
    <3>1. codes'[k][n] = codes[k][n] /\ Holders(k, n)' = Holders(k, n)
      BY <1>0, <1>3, <2>1, <2>4
    <3> QED BY <1>5, <2>2, <3>1
  <2> QED BY <2>3, <2>4
<1>9. CASE Advance(w)
  <2>0. /\ codes' = codes
        /\ events' = events
           \/ (job[w].at = "advance" /\ events' = events \cup {<<Working(w), Rung(w)>>})
    BY <1>9 DEF Advance, At
  <2>1. CASE OnRecord(k, n)' = OnRecord(k, n)
    <3>1. w \notin G
      BY <1>9, WhereItGoes DEF Holders
    <3>2. G \subseteq H
      BY <1>2, <1>6, <3>1
    <3>3. Cardinality(G) <= Cardinality(H)
      BY <1>6, <3>2, FewerPasses
    <3> HIDE DEF G, H, Passes
    <3>4. codes'[k][n] >= Cardinality(G) + OnRecord(k, n)'
      BY <1>5, <1>6, <2>0, <2>1, <3>3
    <3> QED BY <3>4 DEF G
  <2>2. CASE OnRecord(k, n)' # OnRecord(k, n)
    <3>1. job[w].at = "advance" /\ k = Working(w) /\ n = Rung(w)
          /\ OnRecord(k, n)' = 1 /\ OnRecord(k, n) = 0
      BY <2>0, <2>2 DEF OnRecord
    <3>2. w \in H /\ w \notin G
      BY <1>9, <3>1, WhereItGoes DEF Holders
    <3>3. G \subseteq H \ {w}
      BY <1>2, <1>6, <3>2
    <3>4. Cardinality(G) + 1 <= Cardinality(H)
      BY <1>6, <3>2, <3>3, OnePassLess
    <3> HIDE DEF G, H, Passes
    <3>5. codes'[k][n] >= Cardinality(G) + OnRecord(k, n)'
      BY <1>5, <1>6, <2>0, <3>1, <3>4
    <3> QED BY <3>5 DEF G
  <2> QED BY <2>1, <2>2
<1> QED BY <1>7, <1>8, <1>9
-----------------------------------------------------------------------------
(***************************************************************************)
(* The invariant: messages after a payment.                                *)
(***************************************************************************)
\* The passes whose check of cart k has gone by.
Senders(k) == {w \in Worker : job[w].at \in {"mint", "whatsapp", "email"} /\ Working(w) = k}

FewSenders == \A k \in Cart : Cardinality(Senders(k)) <= 1 + faults

LateIsOwed ==
  \A k \in Cart : /\ late[k] + Cardinality(Senders(k)) <= 1 + faults
                  /\ late[k] > 0 => Counts(k, quiet[k])

LEMMA SendersAreCounted ==
  \A k : /\ Senders(k) \in SUBSET Worker /\ Senders(k)' \in SUBSET Worker
         /\ Cardinality(Senders(k)) \in Nat /\ Cardinality(Senders(k)') \in Nat
<1> SUFFICES ASSUME NEW k
             PROVE  /\ Senders(k) \in SUBSET Worker /\ Senders(k)' \in SUBSET Worker
                    /\ Cardinality(Senders(k)) \in Nat /\ Cardinality(Senders(k)') \in Nat
  OBVIOUS
<1>1. Senders(k) \in SUBSET Worker /\ Senders(k)' \in SUBSET Worker
  BY DEF Senders
<1> QED BY <1>1, PassesAreCounted

\* One pass holds the lock, and every other has cost a fault.
LEMMA SendersAreFew == LadderTypeOK /\ OneLock /\ RunawaysCost => FewSenders
<1> SUFFICES ASSUME LadderTypeOK, OneLock, RunawaysCost, NEW k \in Cart
             PROVE  Cardinality(Senders(k)) <= 1 + faults
  BY DEF FewSenders
<1>1. Runaways \in SUBSET Worker /\ faults \in Nat /\ Cardinality(Runaways) <= faults
  BY DEF Runaways, LadderTypeOK, RunawaysCost
<1>2. Cardinality(Runaways) \in Nat /\ Cardinality(Senders(k)) \in Nat
  BY <1>1, PassesAreCounted, SendersAreCounted
<1>3. CASE \E w \in Worker : job[w].locked
  <2>1. PICK w \in Worker : job[w].locked
    BY <1>3
  <2>2. Senders(k) \subseteq Runaways \cup {w}
    BY <2>1 DEF Senders, Runaways, OneLock
  <2>3. Cardinality(Senders(k)) <= Cardinality(Runaways) + 1
    BY <1>1, <2>2, OneMorePass
  <2> QED BY <1>1, <1>2, <2>3
<1>4. CASE \A w \in Worker : ~job[w].locked
  <2>1. Senders(k) \subseteq Runaways
    BY <1>4 DEF Senders, Runaways
  <2>2. Cardinality(Senders(k)) <= Cardinality(Runaways)
    BY <1>1, <2>1, FewerPasses
  <2> QED BY <1>1, <1>2, <2>2
<1> QED BY <1>3, <1>4

LEMMA SendersStayFew == (LadderTypeOK /\ OneLock /\ RunawaysCost)' => FewSenders'
BY SendersAreFew, PTL

\* Nobody passes a check and nothing is sent.
LEMMA NobodySends ==
  ASSUME Passes, LateIsOwed, UNCHANGED <<late, counted, quiet>>,
         faults' = faults \/ faults' = faults + 1,
         \A k : Senders(k)' \subseteq Senders(k)
  PROVE  LateIsOwed'
<1> SUFFICES ASSUME NEW k \in Cart PROVE late[k] + Cardinality(Senders(k)') <= 1 + faults'
  BY DEF LateIsOwed, Counts
<1>1. /\ late[k] \in Nat /\ faults \in Nat
      /\ late[k] + Cardinality(Senders(k)) <= 1 + faults
  BY DEF LateIsOwed, Passes, LadderTypeOK
<1>2. Cardinality(Senders(k)') <= Cardinality(Senders(k))
  BY SendersAreCounted, FewerPasses
<1> HIDE DEF Passes, LateIsOwed
<1> QED BY <1>1, <1>2, SendersAreCounted

LEMMA ShopperIsLeftAlone ==
  ASSUME Passes, LateIsOwed, Shopper
  PROVE  LateIsOwed'
<1> USE DEF cartVars, orderVars, mailVars
<1>0. /\ UNCHANGED <<job, faults>> /\ Staged
      /\ \A k : Senders(k)' = Senders(k)
  BY ShopperIsHarmless DEF Passes, Senders, Working
<1>00. /\ late \in [Cart -> Nat] /\ quiet \in [Cart -> Nat] /\ clock \in Nat /\ faults \in Nat
  BY DEF Passes, LadderTypeOK
<1>1. ASSUME NEW k \in Cart, Wait(k) PROVE LateIsOwed'
  BY <1>0, <1>1 DEF Wait, LateIsOwed, Counts
<1>2. ASSUME NEW k \in Cart, Return(k) PROVE LateIsOwed'
  <2>1. FewSenders
    BY SendersAreFew DEF Passes
  <2>2. /\ late' = [late EXCEPT ![k] = 0] /\ quiet' = [quiet EXCEPT ![k] = clock]
        /\ UNCHANGED counted
    BY <1>2 DEF Return
  <2>3. ASSUME NEW j \in Cart
        PROVE  /\ late'[j] + Cardinality(Senders(j)') <= 1 + faults'
               /\ late'[j] > 0 => Counts(j, quiet[j])'
    <3>1. CASE j = k
      <4>1. late'[j] = 0
        BY <1>00, <2>2, <3>1
      <4>2. Cardinality(Senders(j)) <= 1 + faults /\ Senders(j)' = Senders(j)
        BY <1>0, <2>1 DEF FewSenders
      <4> HIDE DEF Passes, LateIsOwed
      <4> QED BY <1>0, <1>00, <4>1, <4>2, SendersAreCounted
    <3>2. CASE j # k
      BY <1>0, <1>00, <2>2, <3>2 DEF LateIsOwed, Counts
    <3> QED BY <3>1, <3>2
  <2> QED BY <2>3 DEF LateIsOwed
<1>3. CASE \/ \E k \in Cart : Pay(k)
           \/ BuyElsewhere
           \/ \E o \in counted \cup held : Release(o)
  <2>1. counted \subseteq counted' /\ UNCHANGED <<late, quiet>>
    BY <1>3 DEF Pay, BuyElsewhere, Land, Release
  <2>2. ASSUME NEW k \in Cart, Counts(k, quiet[k]) PROVE Counts(k, quiet[k])'
    BY <2>1, <2>2 DEF Counts
  <2> QED BY <1>0, <2>1, <2>2 DEF LateIsOwed
<1>4. ASSUME NEW o \in counted \cup held, Refund(o) PROVE LateIsOwed'
  <2>1. FewSenders
    BY SendersAreFew DEF Passes
  <2>2. ASSUME NEW k \in Cart
        PROVE  \/ late'[k] = late[k] /\ Counts(k, quiet[k])'
               \/ late'[k] = 0
    BY <1>4 DEF Refund
  <2>3. ASSUME NEW k \in Cart
        PROVE  /\ late'[k] + Cardinality(Senders(k)') <= 1 + faults'
               /\ late'[k] > 0 => Counts(k, quiet[k])'
    <3>1. /\ late[k] + Cardinality(Senders(k)) <= 1 + faults
          /\ Cardinality(Senders(k)) <= 1 + faults /\ Senders(k)' = Senders(k)
      BY <1>0, <2>1 DEF FewSenders, LateIsOwed
    <3> HIDE DEF Passes, LateIsOwed
    <3> QED BY <1>0, <1>00, <2>2, <3>1, SendersAreCounted
  <2> QED BY <2>3 DEF LateIsOwed
<1> QED BY <1>1, <1>2, <1>3, <1>4 DEF Shopper

LEMMA LateStaysOwed ==
  ASSUME Passes, LateIsOwed, NEW w \in Worker, OnCart(w)
  PROVE  LateIsOwed'
<1> USE DEF cartVars, orderVars, mailVars
<1>0. /\ LadderTypeOK /\ LadderTypeOK' /\ OneLock' /\ RunawaysCost'
      /\ Working(w) \in Cart /\ Rung(w) \in 1..Rungs
      /\ job[w].row.quiet <= quiet[Working(w)] /\ job[w].row.quiet \in Nat
  BY RowInHand, LadderGoesOn, CartIsWorked DEF Passes, Working
<1>00. /\ late \in [Cart -> Nat] /\ quiet \in [Cart -> Nat] /\ clock \in Nat /\ faults \in Nat
       /\ late' \in [Cart -> Nat]
  BY <1>0 DEF LadderTypeOK
<1>1. /\ \A v \in Worker \ {w} : job'[v] = job[v]
      /\ Working(w)' = Working(w) /\ job'[w].row = job[w].row
      /\ UNCHANGED <<quiet, counted>>
      /\ faults' = faults \/ faults' = faults + 1
  BY <1>0, WhereItGoes, ACartIsInHand
<1>2. \A k : \A v \in Worker \ {w} : v \in Senders(k)' <=> v \in Senders(k)
  BY <1>1 DEF Senders, Working
<1>3. \A k : k # Working(w) => Senders(k)' = Senders(k)
  <2> SUFFICES ASSUME NEW k, k # Working(w)
               PROVE  w \notin Senders(k) /\ w \notin Senders(k)'
    BY <1>2, SendersAreCounted
  <2> QED BY <1>1 DEF Senders
<1>4. CASE Mint(w) \/ Refused(w) \/ Close(w) \/ Withdraw(w) \/ Advance(w) \/ Throw(w)
           \/ (Check(w) /\ job'[w].at \in {"close", "hold"})
  <2>1. ASSUME NEW k PROVE Senders(k)' \subseteq Senders(k)
    <3>1. w \in Senders(k)' => w \in Senders(k)
      BY <1>1, <1>4, WhereItGoes DEF Senders
    <3> QED BY <1>2, <3>1, SendersAreCounted
  <2>2. UNCHANGED late
    BY <1>4 DEF Mint, Refused, Close, Withdraw, Advance, Throw, Check
  <2> QED BY <1>1, <2>1, <2>2, NobodySends
<1>5. CASE Check(w) /\ job'[w].at \notin {"close", "hold"}
  <2>1. ~Bought(job[w].row) /\ late' = late /\ faults' = faults
    BY <1>5, WhereItGoes DEF Check
  <2>2. ~Counts(Working(w), quiet[Working(w)])
    <3>1. \A o \in counted : o.at \in Nat
      BY <1>0 DEF LadderTypeOK, PaidOrder
    <3> QED BY <1>0, <1>00, <2>1, <3>1 DEF Bought, Counts, Working
  <2>3. late[Working(w)] = 0
    BY <1>0, <1>00, <2>2 DEF LateIsOwed
  <2>4. FewSenders'
    BY <1>0, SendersStayFew
  <2>5. ASSUME NEW k \in Cart
        PROVE  late'[k] + Cardinality(Senders(k)') <= 1 + faults'
    <3>1. CASE k = Working(w)
      <4>1. late'[k] = 0 /\ Cardinality(Senders(k)') <= 1 + faults'
        BY <2>1, <2>3, <2>4, <3>1 DEF FewSenders
      <4> HIDE DEF Passes, LateIsOwed
      <4> QED BY <1>00, <2>1, <4>1, SendersAreCounted
    <3>2. CASE k # Working(w)
      BY <1>3, <2>1, <3>2 DEF LateIsOwed
    <3> QED BY <3>1, <3>2
  <2> QED BY <1>1, <2>1, <2>5 DEF LateIsOwed, Counts
<1>6. CASE Accepted(w) \/ AnswerLost(w)
  <2>1. Leaves(w)
    BY <1>6 DEF Accepted, AnswerLost
  <2>2. \/ late' = late
        \/ /\ late' = [late EXCEPT ![Working(w)] = late[Working(w)] + 1]
           /\ Counts(Working(w), quiet[Working(w)])
    BY <2>1 DEF Leaves
  <2>3. /\ \A k \in Cart \ {Working(w)} : late'[k] = late[k]
        /\ late'[Working(w)] <= late[Working(w)] + 1
        /\ late'[Working(w)] > 0 => Counts(Working(w), quiet[Working(w)])
    BY <1>0, <1>00, <2>2 DEF LateIsOwed
  <2>0. PICK k \in Cart : k = Working(w)
    BY <1>0
  <2> DEFINE S == Senders(k)  T == Senders(k)'
  <2>4. w \in S /\ S \in SUBSET Worker /\ T \in SUBSET Worker
        /\ Cardinality(S) \in Nat /\ Cardinality(T) \in Nat
    <3>1. w \in S
      BY <1>6, <2>0, WhereItGoes DEF Senders
    <3> QED BY <3>1, SendersAreCounted
  <2>5. T \subseteq S
    BY <1>2, <2>4
  <2>6. Cardinality(T) <= Cardinality(S)
    BY <2>4, <2>5, FewerPasses
  <2>7. faults' = faults => Cardinality(T) + 1 <= Cardinality(S)
    <3> SUFFICES ASSUME faults' = faults PROVE Cardinality(T) + 1 <= Cardinality(S)
      OBVIOUS
    <3>1. Accepted(w)
      BY <1>00, <1>6 DEF AnswerLost
    <3>2. w \notin T
      BY <3>1, WhereItGoes DEF Senders
    <3>3. T \subseteq S \ {w}
      BY <2>5, <3>2
    <3> HIDE DEF S, T
    <3> QED BY <2>4, <3>3, OnePassLess
  <2>8. late[k] + Cardinality(S) <= 1 + faults
    BY DEF LateIsOwed
  <2>9. late'[k] \in Nat /\ late[k] \in Nat
    BY <1>00
  <2>10. late'[k] + Cardinality(T) <= 1 + faults'
    <3> HIDE DEF S, T, Passes, LateIsOwed
    <3> QED BY <1>00, <1>1, <2>0, <2>3, <2>4, <2>6, <2>7, <2>8, <2>9
  <2>11. ASSUME NEW j \in Cart, j # Working(w)
         PROVE  late'[j] + Cardinality(Senders(j)') <= 1 + faults'
    <3>1. late'[j] = late[j] /\ Senders(j)' = Senders(j) /\ late[j] \in Nat
          /\ late[j] + Cardinality(Senders(j)) <= 1 + faults
      BY <1>00, <1>3, <2>3, <2>11 DEF LateIsOwed
    <3> HIDE DEF S, T, Passes, LateIsOwed
    <3> QED BY <1>00, <1>1, <3>1, SendersAreCounted
  <2>12. ASSUME NEW j \in Cart, late'[j] > 0 PROVE Counts(j, quiet[j])'
    BY <1>1, <2>3, <2>12 DEF LateIsOwed, Counts
  <2> QED BY <2>0, <2>10, <2>11, <2>12 DEF LateIsOwed
<1> QED BY <1>4, <1>5, <1>6 DEF OnCart
-----------------------------------------------------------------------------
(***************************************************************************)
(* The invariant: how often a rung is written.                             *)
(***************************************************************************)
Unsent == {"check", "mint", "whatsapp", "email"}

\* Call j has a message of rung n of cart k to send.
Pends(j, k, n) ==
  \/ \E r \in j.rows : r.cart = k /\ r.rung = n
  \/ j.at \in Unsent /\ j.row.cart = k /\ j.row.rung = n

\* Call j will move cart k on to rung n, if that stays at stage s.
Covers(j, k, n, s) ==
  \/ \E r \in j.rows : r.cart = k /\ r.rung = n /\ Stage(r.from) = s
  \/ /\ j.at \in Unsent \cup {"advance"}
     /\ j.row.cart = k /\ j.row.rung = n /\ Stage(j.row.from) = s

\* Call j outlived its lock and has something to do to cart k, other than to
\* write down a message of rung n that went.
Strays(j, k, n) ==
  /\ ~j.locked
  /\ \/ \E r \in j.rows : r.cart = k
     \/ j.at \in InHand /\ j.row.cart = k /\ ~(j.at = "advance" /\ j.row.rung = n)

\* Stage s is before rung n.
Before(s, n) == \E m \in 0..(n - 1) : s = Stage(m)

Loose(k, n)   == {w \in Worker : Strays(job[w], k, n)}
Pending(k, n) == IF \E w \in Worker : job[w].locked /\ Pends(job[w], k, n) THEN 1 ELSE 0

\* The rung is due, now or later, and it is not the pass in charge that sees to it.
ToCome(k, n) ==
  IF Before(stage[k], n) /\ ~\E w \in Worker : job[w].locked /\ Covers(job[w], k, n, stage[k])
  THEN 1 ELSE 0

Budget(k, n) == sent[k][n] + Cardinality(Loose(k, n)) + Pending(k, n) + ToCome(k, n)

SentIsOwed == \A k \in Cart : \A n \in 1..Rungs : Budget(k, n) <= 1 + faults

LEMMA BeforeIsBehind ==
  \A n \in 1..Rungs : /\ \A s \in Off : ~Before(s, n)
                      /\ \A m \in 0..Rungs : Before(Stage(m), n) <=> m < n
<1> SUFFICES ASSUME NEW n \in 1..Rungs
             PROVE  /\ \A s \in Off : ~Before(s, n)
                    /\ \A m \in 0..Rungs : Before(Stage(m), n) <=> m < n
  OBVIOUS
<1>1. \A i \in 0..(n - 1) : i \in 0..Rungs
  BY LadderAssumption
<1>2. \A m \in 0..Rungs : m < n => m \in 0..(n - 1)
  BY LadderAssumption
<1> QED BY <1>1, <1>2, StagesAreNamed DEF Before

LEMMA BudgetIsCounted ==
  ASSUME LadderTypeOK, LadderTypeOK', NEW k \in Cart, NEW n \in 1..Rungs
  PROVE  /\ Loose(k, n) \in SUBSET Worker /\ Loose(k, n)' \in SUBSET Worker
         /\ Cardinality(Loose(k, n)) \in Nat /\ Cardinality(Loose(k, n)') \in Nat
         /\ Pending(k, n) \in {0, 1} /\ Pending(k, n)' \in {0, 1}
         /\ ToCome(k, n) \in {0, 1} /\ ToCome(k, n)' \in {0, 1}
         /\ sent[k][n] \in Nat /\ sent'[k][n] \in Nat /\ faults \in Nat /\ faults' \in Nat
<1>1. Loose(k, n) \in SUBSET Worker /\ Loose(k, n)' \in SUBSET Worker
  BY DEF Loose
<1>2. Cardinality(Loose(k, n)) \in Nat /\ Cardinality(Loose(k, n)') \in Nat
  BY <1>1, PassesAreCounted
<1>3. Pending(k, n) \in {0, 1} /\ Pending(k, n)' \in {0, 1}
      /\ ToCome(k, n) \in {0, 1} /\ ToCome(k, n)' \in {0, 1}
  BY DEF Pending, ToCome
<1>4. sent \in [Cart -> [1..Rungs -> Nat]] /\ sent' \in [Cart -> [1..Rungs -> Nat]]
      /\ faults \in Nat /\ faults' \in Nat
  BY DEF LadderTypeOK
<1> QED BY <1>1, <1>2, <1>3, <1>4

\* A step by the pass that holds the lock is accounted for by its own call.
LEMMA InCharge ==
  ASSUME Passes, NEW w \in Worker, \A v \in Worker \ {w} : job'[v] = job[v],
         job[w].locked, job'[w].locked, NEW k, NEW n
  PROVE  /\ Loose(k, n)' = Loose(k, n)
         /\ Pending(k, n) = IF Pends(job[w], k, n) THEN 1 ELSE 0
         /\ Pending(k, n)' = IF Pends(job'[w], k, n) THEN 1 ELSE 0
         /\ ToCome(k, n) = IF Before(stage[k], n) /\ ~Covers(job[w], k, n, stage[k]) THEN 1 ELSE 0
         /\ ToCome(k, n)' = IF Before(stage'[k], n) /\ ~Covers(job'[w], k, n, stage'[k])
                            THEN 1 ELSE 0
<1>1. \A v \in Worker : /\ job[v].locked => v = w
                        /\ job'[v].locked => v = w
  BY DEF Passes, OneLock
<1>2. Loose(k, n)' = Loose(k, n)
  <2>1. \A v \in Worker : Strays(job'[v], k, n) <=> Strays(job[v], k, n)
    BY DEF Strays
  <2> QED BY <2>1 DEF Loose
<1>3. /\ (\E v \in Worker : job[v].locked /\ Pends(job[v], k, n)) <=> Pends(job[w], k, n)
      /\ (\E v \in Worker : job'[v].locked /\ Pends(job'[v], k, n)) <=> Pends(job'[w], k, n)
  BY <1>1
<1>4. /\ (\E v \in Worker : job[v].locked /\ Covers(job[v], k, n, stage[k]))
           <=> Covers(job[w], k, n, stage[k])
      /\ (\E v \in Worker : job'[v].locked /\ Covers(job'[v], k, n, stage'[k]))
           <=> Covers(job'[w], k, n, stage'[k])
  BY <1>1
<1> QED BY <1>2, <1>3, <1>4 DEF Pending, ToCome

\* A step by another.
LEMMA NotInCharge ==
  ASSUME NEW w \in Worker, \A v \in Worker \ {w} : job'[v] = job[v],
         ~job[w].locked, ~job'[w].locked, NEW k, NEW n
  PROVE  /\ \A v \in Worker \ {w} : v \in Loose(k, n)' <=> v \in Loose(k, n)
         /\ Pending(k, n)' = Pending(k, n)
         /\ stage'[k] = stage[k] => ToCome(k, n)' = ToCome(k, n)
         /\ ~Before(stage'[k], n) => ToCome(k, n)' = 0
<1>1. \A v \in Worker : job'[v].locked => job[v].locked /\ job'[v] = job[v]
  OBVIOUS
<1>2. \A v \in Worker : job[v].locked => job'[v].locked /\ job'[v] = job[v]
  OBVIOUS
<1>3. \A v \in Worker \ {w} : Strays(job'[v], k, n) <=> Strays(job[v], k, n)
  BY DEF Strays
<1> QED BY <1>1, <1>2, <1>3 DEF Loose, Pending, ToCome

\* The ladder only leads up.
LEMMA RungsAreBehind ==
  ASSUME Passes, NEW w \in Worker, OnCart(w), NEW k \in Cart, NEW n \in 1..Rungs
  PROVE  /\ k # Working(w) => stage'[k] = stage[k]
         /\ Before(stage'[k], n) => Before(stage[k], n)
         /\ k = Working(w) /\ n = Rung(w) /\ stage'[k] # stage[k] => ~Before(stage'[k], n)
<1>1. /\ stage \in [Cart -> {Ladder[i] : i \in 1..5} \cup Off]
      /\ Working(w) \in Cart /\ Rung(w) \in 1..Rungs /\ job[w].row.from \in 0..Rungs
      /\ job[w].row.from < Rung(w)
  BY RowInHand DEF Passes, LadderTypeOK, Rung
<1>2. CASE stage' = stage
  BY <1>2
<1>3. CASE Closes(w)
  BY <1>1, <1>3, BeforeIsBehind DEF Closes, Off
<1>4. CASE Advances(w)
  <2>1. /\ stage[Working(w)] = Stage(job[w].row.from) /\ stage'[Working(w)] = Stage(Rung(w))
        /\ \A j \in Cart \ {Working(w)} : stage'[j] = stage[j]
    BY <1>1, <1>4 DEF Advances
  <2>2. Rung(w) \in 0..Rungs
    BY <1>1, LadderAssumption
  <2>3. /\ Before(Stage(Rung(w)), n) <=> Rung(w) < n
        /\ Before(Stage(job[w].row.from), n) <=> job[w].row.from < n
    BY <1>1, <2>2, BeforeIsBehind
  <2>4. Rung(w) < n => job[w].row.from < n
    BY <1>1, LadderAssumption
  <2>5. CASE k # Working(w)
    BY <2>1, <2>5
  <2>6. CASE k = Working(w)
    <3>1. n = Rung(w) => ~(Rung(w) < n)
      BY <1>1, LadderAssumption
    <3> QED BY <2>1, <2>3, <2>4, <2>6, <3>1
  <2> QED BY <2>5, <2>6
<1> QED BY <1>2, <1>3, <1>4, LadderGoesOn

\* The messages of a step.
LEMMA SentByAStep ==
  ASSUME Passes, NEW w \in Worker, OnCart(w), NEW k \in Cart, NEW n \in 1..Rungs
  PROVE  /\ k # Working(w) \/ n # Rung(w) => sent'[k][n] = sent[k][n]
         /\ sent'[k][n] = sent[k][n] \/ sent'[k][n] = sent[k][n] + 1
         /\ ~Accepted(w) /\ ~AnswerLost(w) => sent'[k][n] = sent[k][n]
<1>1. LadderTypeOK /\ Working(w) \in Cart /\ Rung(w) \in 1..Rungs
  BY RowInHand DEF Passes
<1>2. CASE Leaves(w) /\ (Accepted(w) \/ AnswerLost(w))
  <2>1. /\ sent'[Working(w)][Rung(w)] = sent[Working(w)][Rung(w)] + 1
        /\ \A j \in Cart : \A m \in 1..Rungs :
             j # Working(w) \/ m # Rung(w) => sent'[j][m] = sent[j][m]
    BY <1>1, <1>2, MessageLeaves
  <2> QED BY <1>2, <2>1
<1>3. CASE sent' = sent
  BY <1>3
<1> QED BY <1>2, <1>3
     DEF OnCart, Check, Close, Mint, Accepted, Refused, Withdraw, Advance, AnswerLost, Throw, mailVars

LEMMA BudgetIsKept ==
  ASSUME LadderTypeOK, LadderTypeOK', SentIsOwed, NEW k \in Cart, NEW n \in 1..Rungs,
         sent'[k][n] + Cardinality(Loose(k, n)') + Pending(k, n)' + ToCome(k, n)' + faults
           <= sent[k][n] + Cardinality(Loose(k, n)) + Pending(k, n) + ToCome(k, n) + faults'
  PROVE  Budget(k, n)' <= 1 + faults'
<1> DEFINE L == Cardinality(Loose(k, n))  L1 == Cardinality(Loose(k, n)')
           P == Pending(k, n)  P1 == Pending(k, n)'  T == ToCome(k, n)  T1 == ToCome(k, n)'
<1>1. Budget(k, n) <= 1 + faults
  BY DEF SentIsOwed
<1>2. /\ L \in Nat /\ L1 \in Nat /\ P \in Nat /\ P1 \in Nat /\ T \in Nat /\ T1 \in Nat
      /\ sent[k][n] \in Nat /\ sent'[k][n] \in Nat /\ faults \in Nat /\ faults' \in Nat
  BY BudgetIsCounted
<1>3. /\ Budget(k, n) = sent[k][n] + L + P + T /\ Budget(k, n)' = sent'[k][n] + L1 + P1 + T1
      /\ sent'[k][n] + L1 + P1 + T1 + faults <= sent[k][n] + L + P + T + faults'
  BY DEF Budget
<1> HIDE DEF L, L1, P, P1, T, T1, SentIsOwed, LadderTypeOK
<1> QED BY <1>1, <1>2, <1>3

\* What the call says of the cart in hand: the cart is on none of the other rows.
LEMMA CallOfACart ==
  ASSUME Passes, NEW w \in Worker, OnCart(w), NEW k, NEW n
  PROVE  /\ k # Working(w) \/ n # Rung(w) =>
              /\ Pends(job'[w], k, n) <=> Pends(job[w], k, n)
              /\ \A s : Covers(job'[w], k, n, s) <=> Covers(job[w], k, n, s)
         /\ k = Working(w) => \A r \in job[w].rows : r.cart # k
         /\ k = Working(w) /\ n # Rung(w) => \A s : ~Covers(job'[w], k, n, s)
         /\ k = Working(w) /\ n = Rung(w) =>
              /\ Pends(job[w], k, n) <=> job[w].at \in Unsent
              /\ Pends(job'[w], k, n) <=> job'[w].at \in Unsent
              /\ \A s : /\ Covers(job[w], k, n, s) <=>
                             job[w].at \in Unsent \cup {"advance"} /\ Stage(job[w].row.from) = s
                        /\ Covers(job'[w], k, n, s) <=>
                             job'[w].at \in Unsent \cup {"advance"} /\ Stage(job[w].row.from) = s
<1>1. job'[w].row = job[w].row /\ job'[w].rows = job[w].rows
  BY WhereItGoes
<1>2. \A r \in job[w].rows : r.cart # Working(w)
  BY ACartIsInHand DEF Passes, OneRowACart, Working
<1> QED BY <1>1, <1>2 DEF Pends, Covers, Working, Rung

\* The pass in charge spends what it has.
LEMMA ChargeIsKept ==
  ASSUME Passes, SentIsOwed, NEW w \in Worker, OnCart(w), job[w].locked,
         NEW k \in Cart, NEW n \in 1..Rungs
  PROVE  Budget(k, n)' <= 1 + faults'
<1> DEFINE P == Pending(k, n)  P1 == Pending(k, n)'  T == ToCome(k, n)  T1 == ToCome(k, n)'
<1>0. /\ LadderTypeOK /\ LadderTypeOK'
      /\ \A v \in Worker \ {w} : job'[v] = job[v]
      /\ job'[w].locked
  BY LadderGoesOn, WhereItGoes DEF Passes
<1>1. /\ Loose(k, n)' = Loose(k, n)
      /\ P = IF Pends(job[w], k, n) THEN 1 ELSE 0
      /\ P1 = IF Pends(job'[w], k, n) THEN 1 ELSE 0
      /\ T = IF Before(stage[k], n) /\ ~Covers(job[w], k, n, stage[k]) THEN 1 ELSE 0
      /\ T1 = IF Before(stage'[k], n) /\ ~Covers(job'[w], k, n, stage'[k]) THEN 1 ELSE 0
  BY <1>0, InCharge
<1>2. /\ k # Working(w) => stage'[k] = stage[k]
      /\ Before(stage'[k], n) => Before(stage[k], n)
      /\ k = Working(w) /\ n = Rung(w) /\ stage'[k] # stage[k] => ~Before(stage'[k], n)
  BY RungsAreBehind
<1>3. /\ k # Working(w) \/ n # Rung(w) => sent'[k][n] = sent[k][n]
      /\ sent'[k][n] = sent[k][n] \/ sent'[k][n] = sent[k][n] + 1
      /\ ~Accepted(w) /\ ~AnswerLost(w) => sent'[k][n] = sent[k][n]
  BY SentByAStep
<1>4. /\ sent[k][n] \in Nat /\ faults \in Nat
      /\ faults' = faults \/ faults' = faults + 1
      /\ AnswerLost(w) \/ Throw(w) => faults' = faults + 1
  BY <1>0, BudgetIsCounted, ACartIsInHand DEF AnswerLost, Throw
<1>5. sent'[k][n] + P1 + T1 + faults <= sent[k][n] + P + T + faults'
  <2>1. CASE k # Working(w) \/ n # Rung(w)
    <3>1. P1 = P
      BY <1>1, <2>1, CallOfACart
    <3>2. T1 <= T
      <4>1. \A s : Covers(job'[w], k, n, s) <=> Covers(job[w], k, n, s)
        BY <2>1, CallOfACart
      <4>2. CASE k # Working(w)
        <5>1. T1 = T
          BY <1>1, <1>2, <4>1, <4>2
        <5>2. T \in Nat
          BY <1>1
        <5> QED BY <5>1, <5>2
      <4>3. CASE k = Working(w)
        <5>1. \A s : ~Covers(job'[w], k, n, s)
          BY <2>1, <4>3, CallOfACart
        <5> QED BY <1>1, <1>2, <4>1, <5>1
      <4> QED BY <4>2, <4>3
    <3> HIDE DEF Passes, P, P1, T, T1
    <3>3. P \in {0, 1} /\ T \in {0, 1} /\ T1 \in {0, 1}
      BY <1>1 DEF P, T, T1
    <3> QED BY <1>3, <1>4, <2>1, <3>1, <3>2, <3>3
  <2>2. CASE k = Working(w) /\ n = Rung(w)
    <3>1. /\ P = IF job[w].at \in Unsent THEN 1 ELSE 0
          /\ P1 = IF job'[w].at \in Unsent THEN 1 ELSE 0
          /\ Covers(job[w], k, n, stage[k]) <=>
               job[w].at \in Unsent \cup {"advance"} /\ Stage(job[w].row.from) = stage[k]
          /\ Covers(job'[w], k, n, stage[k]) <=>
               job'[w].at \in Unsent \cup {"advance"} /\ Stage(job[w].row.from) = stage[k]
      BY <1>1, <2>2, CallOfACart
    <3>2. stage'[k] # stage[k] => T1 = 0
      BY <1>1, <1>2, <2>2
    <3>3. stage'[k] = stage[k] =>
            T1 = IF Before(stage[k], n) /\ ~Covers(job'[w], k, n, stage[k]) THEN 1 ELSE 0
      BY <1>1
    <3>4. P \in {0, 1} /\ P1 \in {0, 1} /\ T \in {0, 1} /\ T1 \in {0, 1}
      BY <1>1
    <3>5. CASE Check(w) \/ Mint(w) \/ Refused(w) \/ AnswerLost(w)
      <4>1. stage' = stage /\ job[w].at \in Unsent
        BY <3>5, WhereItGoes DEF Check, Mint, Refused, AnswerLost, cartVars, orderVars, Unsent
      <4>2. P = 1 /\ (P1 = 1 => T1 = T)
        BY <1>1, <3>1, <3>3, <4>1
      <4>3. sent'[k][n] + faults <= sent[k][n] + faults'
        <5>1. ~Accepted(w) \/ AnswerLost(w)
          BY <3>5, <1>0, WhereItGoes
        <5> HIDE DEF Passes
        <5> QED BY <1>3, <1>4, <5>1
      <4> HIDE DEF Passes, P, P1, T, T1
      <4> QED BY <1>3, <1>4, <3>4, <4>2, <4>3
    <3>6. CASE Accepted(w)
      <4>1. stage' = stage /\ job[w].at \in Unsent /\ job'[w].at = "advance" /\ faults' = faults
        BY <3>6, WhereItGoes DEF Accepted, cartVars, orderVars, Unsent
      <4>2. P = 1 /\ P1 = 0 /\ T1 = T
        BY <1>1, <3>1, <3>3, <4>1 DEF Unsent
      <4> HIDE DEF Passes, P, P1, T, T1
      <4> QED BY <1>3, <1>4, <3>4, <4>1, <4>2
    <3>7. CASE Close(w) \/ Withdraw(w) \/ Advance(w)
      <4>1. /\ job[w].at \in {"close", "withdraw", "advance", "hold"} /\ job'[w].at = "pass"
            /\ faults' = faults
        BY <3>7, WhereItGoes DEF Close, Withdraw, Advance
      <4>2. P = 0 /\ P1 = 0
        BY <3>1, <4>1 DEF Unsent
      <4>3. Covers(job[w], k, n, stage[k]) => stage'[k] # stage[k]
        <5>1. SUFFICES ASSUME Covers(job[w], k, n, stage[k]) PROVE stage'[k] # stage[k]
          OBVIOUS
        <5>2. job[w].at = "advance" /\ stage[k] = Stage(job[w].row.from)
          BY <3>1, <4>1, <5>1 DEF Unsent
        <5>3. Advance(w)
          BY <3>7, <5>2, WhereItGoes
        <5>4. stage' = [stage EXCEPT ![k] = Stage(n)]
          BY <2>2, <5>2, <5>3 DEF Advance, Moves
        <5>5. stage'[k] = Stage(n)
          BY <1>0, <5>4 DEF LadderTypeOK
        <5>6. job[w].row.from \in 0..Rungs /\ job[w].row.from < n /\ n \in 0..Rungs
          BY <2>2, RowInHand, LadderAssumption DEF Rung
        <5>7. job[w].row.from # n
          BY <5>6, LadderAssumption
        <5> QED BY <5>2, <5>5, <5>6, <5>7, StagesAreNamed
      <4>4. T1 <= T
        BY <1>1, <3>2, <3>3, <3>4, <4>3
      <4>5. sent'[k][n] = sent[k][n]
        BY <1>3, <3>7, <4>1, WhereItGoes
      <4> HIDE DEF Passes, P, P1, T, T1
      <4> QED BY <1>4, <3>4, <4>1, <4>2, <4>4, <4>5
    <3>8. CASE Throw(w)
      <4>1. stage' = stage /\ job'[w].at = "pass" /\ sent' = sent
        BY <3>8, WhereItGoes DEF Throw, cartVars, orderVars, mailVars
      <4>2. P1 = 0
        BY <3>1, <4>1 DEF Unsent
      <4>3. T1 <= T + 1
        BY <3>4
      <4> HIDE DEF Passes, P, P1, T, T1
      <4> QED BY <1>4, <3>4, <3>8, <4>1, <4>2, <4>3
    <3> QED BY <3>5, <3>6, <3>7, <3>8 DEF OnCart
  <2> QED BY <2>1, <2>2
<1>6. Cardinality(Loose(k, n)') = Cardinality(Loose(k, n)) /\ Cardinality(Loose(k, n)) \in Nat
  BY <1>0, <1>1, BudgetIsCounted
<1>7. P \in {0, 1} /\ P1 \in {0, 1} /\ T \in {0, 1} /\ T1 \in {0, 1} /\ faults' \in Nat
      /\ sent'[k][n] \in Nat
  BY <1>0, BudgetIsCounted
<1>8. sent'[k][n] + Cardinality(Loose(k, n)') + P1 + T1 + faults
        <= sent[k][n] + Cardinality(Loose(k, n)) + P + T + faults'
  <2> HIDE DEF Passes, P, P1, T, T1, SentIsOwed
  <2> QED BY <1>4, <1>5, <1>6, <1>7
<1> QED BY <1>0, <1>8, BudgetIsKept

\* A call that outlived its lock strays while it has anything to do.
LEMMA StrayOfACart ==
  ASSUME Passes, NEW w \in Worker, OnCart(w), ~job[w].locked, NEW k, NEW n
  PROVE  /\ w \in Loose(k, n)' => w \in Loose(k, n)
         /\ k # Working(w) => (w \in Loose(k, n)' <=> w \in Loose(k, n))
         /\ k = Working(w) /\ ~(job[w].at = "advance" /\ n = Rung(w)) => w \in Loose(k, n)
         /\ k = Working(w) /\ w \in Loose(k, n)' =>
              job'[w].at # "pass" /\ ~(job'[w].at = "advance" /\ n = Rung(w))
<1>1. job'[w].row = job[w].row /\ job'[w].rows = job[w].rows /\ job'[w].locked = job[w].locked
  BY WhereItGoes
<1>2. \A r \in job[w].rows : r.cart # Working(w)
  BY ACartIsInHand DEF Passes, OneRowACart, Working
<1>3. job[w].at \in InHand
  BY ACartIsInHand DEF Passes
<1>4. job[w].at = "advance" => job'[w].at = "pass"
  BY WhereItGoes DEF OnCart
<1>5. w \in Loose(k, n) <=> Strays(job[w], k, n)
  BY DEF Loose
<1>6. w \in Loose(k, n)' <=> Strays(job'[w], k, n)
  BY DEF Loose
<1> QED BY <1>1, <1>2, <1>3, <1>4, <1>5, <1>6 DEF Strays, Working, Rung, InHand, Steps

\* A pass that outlived its lock spends the fault that cost.
LEMMA StraysArePaidFor ==
  ASSUME Passes, SentIsOwed, NEW w \in Worker, OnCart(w), ~job[w].locked,
         NEW k \in Cart, NEW n \in 1..Rungs
  PROVE  Budget(k, n)' <= 1 + faults'
<1> DEFINE P == Pending(k, n)  P1 == Pending(k, n)'  T == ToCome(k, n)  T1 == ToCome(k, n)'
           S == Loose(k, n)  S1 == Loose(k, n)'
<1>0. /\ LadderTypeOK /\ LadderTypeOK'
      /\ \A v \in Worker \ {w} : job'[v] = job[v]
      /\ ~job'[w].locked
  BY LadderGoesOn, WhereItGoes DEF Passes
<1>1. /\ \A v \in Worker \ {w} : v \in S1 <=> v \in S
      /\ P1 = P /\ (stage'[k] = stage[k] => T1 = T) /\ (~Before(stage'[k], n) => T1 = 0)
  BY <1>0, NotInCharge
<1>2. /\ k # Working(w) => stage'[k] = stage[k]
      /\ k = Working(w) /\ n = Rung(w) /\ stage'[k] # stage[k] => ~Before(stage'[k], n)
  BY RungsAreBehind
<1>3. /\ k # Working(w) \/ n # Rung(w) => sent'[k][n] = sent[k][n]
      /\ sent'[k][n] = sent[k][n] \/ sent'[k][n] = sent[k][n] + 1
      /\ ~Accepted(w) /\ ~AnswerLost(w) => sent'[k][n] = sent[k][n]
  BY SentByAStep
<1>4. /\ faults' = faults \/ faults' = faults + 1
      /\ AnswerLost(w) => faults' = faults + 1
  BY <1>0, ACartIsInHand DEF AnswerLost
<1>5. /\ S \in SUBSET Worker /\ S1 \in SUBSET Worker /\ Cardinality(S) \in Nat /\ Cardinality(S1) \in Nat
      /\ P \in {0, 1} /\ P1 \in {0, 1} /\ T \in {0, 1} /\ T1 \in {0, 1}
      /\ sent[k][n] \in Nat /\ sent'[k][n] \in Nat /\ faults \in Nat /\ faults' \in Nat
  BY <1>0, BudgetIsCounted
<1>6. S1 \subseteq S
  BY <1>1, <1>5, StrayOfACart
<1>7. Cardinality(S1) <= Cardinality(S)
  <2> HIDE DEF S, S1
  <2> QED BY <1>5, <1>6, FewerPasses
<1>8. w \in S /\ w \notin S1 => Cardinality(S1) + 1 <= Cardinality(S)
  <2> HIDE DEF S, S1
  <2> SUFFICES ASSUME w \in S, w \notin S1 PROVE Cardinality(S1) + 1 <= Cardinality(S)
    OBVIOUS
  <2>1. S1 \subseteq S \ {w}
    BY <1>6
  <2> QED BY <1>5, <2>1, OnePassLess
<1>9. sent'[k][n] + Cardinality(S1) + P1 + T1 + faults
        <= sent[k][n] + Cardinality(S) + P + T + faults'
  <2>1. CASE sent'[k][n] = sent[k][n] /\ T1 <= T
    <3> HIDE DEF Passes, P, P1, T, T1, S, S1
    <3> QED BY <1>1, <1>4, <1>5, <1>7, <2>1
  <2>2. CASE sent'[k][n] = sent[k][n] /\ ~(T1 <= T)
    <3>1. stage'[k] # stage[k] /\ k = Working(w) /\ n # Rung(w)
      <4>1. stage'[k] # stage[k]
        BY <1>1, <1>5, <2>2
      <4>2. T1 # 0
        BY <1>5, <2>2
      <4> QED BY <1>1, <1>2, <4>1, <4>2
    <3>2. Close(w) \/ Advance(w)
      BY <3>1 DEF OnCart, Check, Mint, Accepted, Refused, Withdraw, AnswerLost, Throw, cartVars, orderVars
    <3>3. w \in S /\ w \notin S1
      BY <3>1, <3>2, StrayOfACart, WhereItGoes
    <3> HIDE DEF Passes, P, P1, T, T1, S, S1
    <3> QED BY <1>1, <1>4, <1>5, <1>8, <2>2, <3>3
  <2>3. CASE sent'[k][n] # sent[k][n]
    <3>1. /\ Accepted(w) \/ AnswerLost(w)
          /\ k = Working(w) /\ n = Rung(w) /\ sent'[k][n] = sent[k][n] + 1
      BY <1>3, <2>3
    <3>2. stage' = stage
      BY <3>1 DEF Accepted, AnswerLost, cartVars, orderVars
    <3>3. T1 = T
      BY <1>1, <3>2
    <3>4. CASE AnswerLost(w)
      <4>1. faults' = faults + 1
        BY <1>4, <3>4
      <4> HIDE DEF Passes, P, P1, T, T1, S, S1
      <4> QED BY <1>1, <1>5, <1>7, <3>1, <3>3, <4>1
    <3>5. CASE Accepted(w)
      <4>1. w \in S /\ w \notin S1
        BY <3>1, <3>5, StrayOfACart, WhereItGoes
      <4> HIDE DEF Passes, P, P1, T, T1, S, S1
      <4> QED BY <1>1, <1>4, <1>5, <1>8, <3>1, <3>3, <4>1
    <3> QED BY <3>1, <3>4, <3>5
  <2> QED BY <2>1, <2>2, <2>3
<1> QED BY <1>0, <1>9, BudgetIsKept

LEMMA SentStaysOwed ==
  ASSUME Passes, SentIsOwed, NEW w \in Worker, OnCart(w)
  PROVE  SentIsOwed'
<1> SUFFICES ASSUME NEW k \in Cart, NEW n \in 1..Rungs PROVE Budget(k, n)' <= 1 + faults'
  BY DEF SentIsOwed
<1> QED BY ChargeIsKept, StraysArePaidFor

\* A step that leaves every call what it has to do leaves the budget alone.
LEMMA NothingIsSpent ==
  ASSUME LadderTypeOK, LadderTypeOK', SentIsOwed, NEW k \in Cart, NEW n \in 1..Rungs,
         UNCHANGED sent, stage'[k] = stage[k] \/ stage'[k] \in Off, faults' \in {faults, faults + 1},
         \A v \in Worker :
           /\ job'[v].locked /\ Pends(job'[v], k, n) <=> job[v].locked /\ Pends(job[v], k, n)
           /\ \A s : job'[v].locked /\ Covers(job'[v], k, n, s)
                       <=> job[v].locked /\ Covers(job[v], k, n, s)
           /\ Strays(job'[v], k, n) <=> Strays(job[v], k, n)
  PROVE  Budget(k, n)' <= 1 + faults'
<1> DEFINE P == Pending(k, n)  P1 == Pending(k, n)'  T == ToCome(k, n)  T1 == ToCome(k, n)'
           L == Cardinality(Loose(k, n))  L1 == Cardinality(Loose(k, n)')
<1>1. L1 = L /\ P1 = P
  BY DEF Loose, Pending
<1>2. T1 = T \/ T1 = 0
  <2>1. CASE stage'[k] = stage[k]
    BY <2>1 DEF ToCome
  <2>2. CASE stage'[k] \in Off
    BY <2>2, BeforeIsBehind DEF ToCome
  <2> QED BY <2>1, <2>2
<1>3. /\ L \in Nat /\ P \in {0, 1} /\ T \in {0, 1} /\ sent[k][n] \in Nat /\ sent'[k][n] = sent[k][n]
      /\ faults \in Nat
  BY BudgetIsCounted
<1>4. sent'[k][n] + L1 + P1 + T1 + faults <= sent[k][n] + L + P + T + faults'
  <2> HIDE DEF L, L1, P, P1, T, T1, LadderTypeOK, SentIsOwed
  <2> QED BY <1>1, <1>2, <1>3
<1> QED BY <1>4, BudgetIsKept

LEMMA ShopperSpendsNothing ==
  ASSUME Passes, SentIsOwed, Shopper
  PROVE  SentIsOwed'
<1> SUFFICES ASSUME NEW k \in Cart, NEW n \in 1..Rungs PROVE Budget(k, n)' <= 1 + faults'
  BY DEF SentIsOwed
<1>1. /\ UNCHANGED <<sent, job, faults>> /\ LadderTypeOK /\ LadderTypeOK'
      /\ stage'[k] = stage[k] \/ stage'[k] \in Off
  BY ShopperIsHarmless DEF Passes
<1> HIDE DEF Passes, SentIsOwed
<1> QED BY <1>1, NothingIsSpent

LEMMA CallsArePassedOn ==
  ASSUME Passes, SentIsOwed, NEW w \in Worker, Take(w) \/ EndPass(w)
  PROVE  SentIsOwed'
<1> SUFFICES ASSUME NEW k \in Cart, NEW n \in 1..Rungs PROVE Budget(k, n)' <= 1 + faults'
  BY DEF SentIsOwed
<1>1. /\ job' \in [Worker -> Jobs] /\ faults' \in 0..MaxFaults /\ UNCHANGED <<cartVars, mailVars>>
      /\ \A v \in Worker \ {w} : job'[v] = job[v]
  BY PassIsWorked
<1>2. LadderTypeOK /\ LadderTypeOK'
  BY <1>1 DEF Passes, LadderTypeOK, cartVars, orderVars, mailVars
<1>3. UNCHANGED <<sent, stage>> /\ faults' = faults
  BY <1>1 DEF Take, EndPass, cartVars, orderVars, mailVars
<1>4. /\ job'[w].locked /\ Pends(job'[w], k, n) <=> job[w].locked /\ Pends(job[w], k, n)
      /\ \A s : job'[w].locked /\ Covers(job'[w], k, n, s) <=> job[w].locked /\ Covers(job[w], k, n, s)
      /\ Strays(job'[w], k, n) <=> Strays(job[w], k, n)
  <2>1. CASE Take(w)
    <3> DEFINE call(row) == [job[w] EXCEPT !.at = "check", !.row = row, !.rows = job[w].rows \ {row}]
    <3>0. job \in [Worker -> Jobs] /\ job[w] \in Jobs /\ job[w].at = "pass"
      BY <1>2, <2>1 DEF LadderTypeOK, Take, At
    <3>1. PICK row \in job[w].rows : job' = [job EXCEPT ![w] = call(row)]
      BY <2>1 DEF Take
    <3>2. /\ call(row).at = "check" /\ call(row).row = row /\ call(row).rows = job[w].rows \ {row}
          /\ call(row).locked = job[w].locked
      BY <3>0 DEF Jobs
    <3> HIDE DEF call
    <3>3. job'[w] = call(row)
      BY <3>0, <3>1
    <3>4. /\ \A q : q \in job[w].rows <=> q = row \/ q \in job'[w].rows
          /\ job'[w].at = "check" /\ job'[w].row = row /\ job'[w].locked = job[w].locked
      BY <3>1, <3>2, <3>3
    <3>5. Pends(job'[w], k, n) <=> Pends(job[w], k, n)
      BY <3>0, <3>4 DEF Pends, Unsent
    <3>6. \A s : Covers(job'[w], k, n, s) <=> Covers(job[w], k, n, s)
      BY <3>0, <3>4 DEF Covers, Unsent
    <3>7. Strays(job'[w], k, n) <=> Strays(job[w], k, n)
      BY <3>0, <3>4 DEF Strays, InHand, Steps
    <3> QED BY <3>4, <3>5, <3>6, <3>7
  <2>2. CASE EndPass(w)
    <3>1. job'[w] = Idle /\ job[w].at = "pass" /\ job[w].rows = {}
      BY <1>2, <2>2 DEF EndPass, At, LadderTypeOK
    <3> QED BY <3>1, IdleIsAJob DEF Pends, Covers, Strays, Unsent, InHand, Steps
  <2> QED BY <2>1, <2>2
<1> HIDE DEF Passes, SentIsOwed
<1> QED BY <1>1, <1>2, <1>3, <1>4, NothingIsSpent

\* A pass that starts takes charge of what is to come, as it is due.
LEMMA ChargeIsTaken ==
  ASSUME Passes, SentIsOwed, NEW w \in Worker, StartPass(w)
  PROVE  SentIsOwed'
<1> SUFFICES ASSUME NEW k \in Cart, NEW n \in 1..Rungs PROVE Budget(k, n)' <= 1 + faults'
  BY DEF SentIsOwed
<1> DEFINE P == Pending(k, n)  P1 == Pending(k, n)'  T == ToCome(k, n)  T1 == ToCome(k, n)'
           L == Cardinality(Loose(k, n))  L1 == Cardinality(Loose(k, n)')
<1>1. PICK rows : /\ \A r \in rows : /\ r \in Row /\ r.from < r.rung /\ r.quiet = quiet[r.cart]
                                     /\ stage[r.cart] = Stage(r.from)
                  /\ \A r, q \in rows : r.cart = q.cart => r = q
                  /\ job' = [job EXCEPT ![w] = [at |-> "pass", row |-> NoRow, rows |-> rows,
                                                locked |-> TRUE]]
  BY PassStarts
<1>2. /\ job[w].at = "idle" /\ job[w].rows = {} /\ (\A v \in Worker : ~job[v].locked)
      /\ UNCHANGED <<cartVars, mailVars, faults>>
  BY PassStarts
<1>3. /\ job'[w].at = "pass" /\ job'[w].rows = rows /\ job'[w].locked
      /\ \A v \in Worker \ {w} : job'[v] = job[v]
  BY <1>1, PassHasStarted
<1>4. LadderTypeOK /\ LadderTypeOK' /\ UNCHANGED <<sent, stage, faults>>
  BY <1>2, PassesStart DEF Passes, cartVars, orderVars, mailVars
<1>5. L1 = L
  <2>1. ~Strays(job[w], k, n) /\ ~Strays(job'[w], k, n)
    BY <1>2, <1>3 DEF Strays, InHand
  <2>2. Loose(k, n)' = Loose(k, n)
    BY <1>3, <2>1 DEF Loose
  <2> QED BY <2>2
<1>6. P = 0 /\ T = (IF Before(stage[k], n) THEN 1 ELSE 0)
  BY <1>2 DEF Pending, ToCome
<1>7. P1 = (IF Pends(job'[w], k, n) THEN 1 ELSE 0)
      /\ T1 = (IF Before(stage[k], n) /\ ~Covers(job'[w], k, n, stage[k]) THEN 1 ELSE 0)
  BY <1>2, <1>3, <1>4 DEF Pending, ToCome
<1>8. Pends(job'[w], k, n) => Before(stage[k], n) /\ Covers(job'[w], k, n, stage[k])
  <2> SUFFICES ASSUME Pends(job'[w], k, n)
               PROVE  Before(stage[k], n) /\ Covers(job'[w], k, n, stage[k])
    OBVIOUS
  <2>1. PICK r \in rows : r.cart = k /\ r.rung = n
    BY <1>3 DEF Pends, Unsent
  <2>2. r.from \in 0..Rungs /\ r.from < n /\ stage[k] = Stage(r.from)
    BY <1>1, <2>1 DEF Row
  <2> QED BY <1>3, <2>1, <2>2, BeforeIsBehind DEF Covers
<1>9. P1 + T1 <= P + T
  BY <1>6, <1>7, <1>8
<1>10. /\ L \in Nat /\ P \in {0, 1} /\ T \in {0, 1} /\ P1 \in {0, 1} /\ T1 \in {0, 1}
       /\ sent[k][n] \in Nat /\ faults \in Nat
  BY <1>4, BudgetIsCounted
<1>11. sent'[k][n] + L1 + P1 + T1 + faults <= sent[k][n] + L + P + T + faults'
  <2> HIDE DEF L, L1, P, P1, T, T1, Passes, SentIsOwed
  <2> QED BY <1>4, <1>5, <1>9, <1>10
<1> QED BY <1>4, <1>11, BudgetIsKept

\* A crash, or a lock outlived, costs a fault.
LEMMA FaultsArePaidFor ==
  ASSUME Passes, SentIsOwed, NEW w \in Worker, Crash(w) \/ Overrun(w)
  PROVE  SentIsOwed'
<1> SUFFICES ASSUME NEW k \in Cart, NEW n \in 1..Rungs PROVE Budget(k, n)' <= 1 + faults'
  BY DEF SentIsOwed
<1> DEFINE P == Pending(k, n)  P1 == Pending(k, n)'  T == ToCome(k, n)  T1 == ToCome(k, n)'
           S == Loose(k, n)  S1 == Loose(k, n)'
<1>1. /\ job' \in [Worker -> Jobs] /\ faults' \in 0..MaxFaults /\ UNCHANGED <<cartVars, mailVars>>
      /\ \A v \in Worker \ {w} : job'[v] = job[v]
  BY PassIsWorked
<1>2. LadderTypeOK /\ LadderTypeOK' /\ UNCHANGED <<sent, stage>> /\ faults' = faults + 1
  BY <1>1 DEF Passes, LadderTypeOK, cartVars, orderVars, mailVars, Crash, Overrun
<1>3. /\ S \in SUBSET Worker /\ S1 \in SUBSET Worker /\ Cardinality(S) \in Nat /\ Cardinality(S1) \in Nat
      /\ P \in {0, 1} /\ P1 \in {0, 1} /\ T \in {0, 1} /\ T1 \in {0, 1}
      /\ sent[k][n] \in Nat /\ faults \in Nat
  BY <1>2, BudgetIsCounted
<1>4. \A v \in Worker \ {w} : v \in S1 <=> v \in S
  BY <1>1 DEF Loose
<1>5. CASE Crash(w)
  <2>1. job'[w] = Idle
    BY <1>2, <1>5 DEF Crash, LadderTypeOK
  <2>2. w \notin S1 /\ ~(job'[w].locked)
    BY <2>1, IdleIsAJob DEF Loose, Strays, InHand
  <2>3. S1 \subseteq S
    BY <1>3, <1>4, <2>2
  <2>4. P1 <= P
    BY <1>1, <2>2 DEF Pending
  <2>5. Cardinality(S1) <= Cardinality(S)
    <3> HIDE DEF S, S1
    <3> QED BY <1>3, <2>3, FewerPasses
  <2>6. sent'[k][n] + Cardinality(S1) + P1 + T1 + faults
          <= sent[k][n] + Cardinality(S) + P + T + faults'
    <3> HIDE DEF S, S1, P, P1, T, T1, Passes, SentIsOwed
    <3> QED BY <1>2, <1>3, <2>4, <2>5
  <2> QED BY <1>2, <2>6, BudgetIsKept
<1>6. CASE Overrun(w)
  <2>1. /\ job[w] \in Jobs /\ job'[w] = [job[w] EXCEPT !.locked = FALSE] /\ job[w].locked
    BY <1>2, <1>6 DEF Overrun, LadderTypeOK
  <2>2. /\ job'[w].at = job[w].at /\ job'[w].row = job[w].row /\ job'[w].rows = job[w].rows
        /\ ~job'[w].locked
    BY <2>1 DEF Jobs
  <2>3. \A v \in Worker : ~job'[v].locked /\ (job[v].locked => v = w)
    BY <1>1, <2>1, <2>2 DEF Passes, OneLock
  <2>4. P1 = 0 /\ T1 = (IF Before(stage[k], n) THEN 1 ELSE 0)
    BY <1>2, <2>3 DEF Pending, ToCome
  <2>5. /\ P = (IF Pends(job[w], k, n) THEN 1 ELSE 0)
        /\ T = (IF Before(stage[k], n) /\ ~Covers(job[w], k, n, stage[k]) THEN 1 ELSE 0)
    BY <2>1, <2>3 DEF Pending, ToCome
  <2>6. w \in S1 => T1 <= P + T
    <3> SUFFICES ASSUME w \in S1, Before(stage[k], n), Covers(job[w], k, n, stage[k])
                 PROVE  Pends(job[w], k, n)
      BY <1>3, <2>4, <2>5
    <3>1. Strays(job'[w], k, n)
      BY DEF Loose
    <3>2. \/ \E r \in job[w].rows : r.cart = k
          \/ job[w].row.cart = k /\ ~(job[w].at = "advance" /\ job[w].row.rung = n)
      BY <2>2, <3>1 DEF Strays
    <3>3. job[w].at = "advance" /\ job[w].row.cart = k => \A r \in job[w].rows : r.cart # k
      BY DEF Passes, OneRowACart, InHand, Steps
    <3> QED BY <3>2, <3>3 DEF Covers, Pends
  <2>7. Cardinality(S1) <= Cardinality(S) + 1 /\ (w \notin S1 => Cardinality(S1) <= Cardinality(S))
    <3>1. S1 \subseteq S \cup {w} /\ (w \notin S1 => S1 \subseteq S)
      BY <1>3, <1>4
    <3> HIDE DEF S, S1
    <3> QED BY <1>3, <3>1, OneMorePass, FewerPasses
  <2>8. sent'[k][n] + Cardinality(S1) + P1 + T1 + faults
          <= sent[k][n] + Cardinality(S) + P + T + faults'
    <3>1. P1 = 0
      BY <2>4
    <3> HIDE DEF S, S1, P, P1, T, T1, Passes, SentIsOwed
    <3> QED BY <1>2, <1>3, <2>6, <2>7, <3>1
  <2> QED BY <1>2, <2>8, BudgetIsKept
<1> QED BY <1>5, <1>6
-----------------------------------------------------------------------------
(***************************************************************************)
(* The invariant as a whole.                                               *)
(***************************************************************************)
OnTrack == Passes /\ SentFirst /\ CodesAreHeld /\ LateIsOwed /\ SentIsOwed

\* Between carts nothing is sent, minted or written down.
LEMMA NothingIsWritten ==
  ASSUME Passes, NEW w \in Worker,
         StartPass(w) \/ Take(w) \/ EndPass(w) \/ Crash(w) \/ Overrun(w)
  PROVE  /\ UNCHANGED <<cartVars, mailVars>> /\ faults' \in {faults, faults + 1}
         /\ \A v \in Worker \ {w} : job'[v] = job[v]
         /\ \/ job'[w].at \in {"pass", "check", "idle"}
            \/ job'[w].at = job[w].at /\ job'[w].row = job[w].row
<1>0. job \in [Worker -> Jobs] /\ job[w] \in Jobs
  BY DEF Passes, LadderTypeOK
<1>1. CASE StartPass(w)
  <2>1. PICK rows : /\ \A r \in rows : r \in Row
                    /\ job' = [job EXCEPT ![w] = [at |-> "pass", row |-> NoRow, rows |-> rows,
                                                  locked |-> TRUE]]
    BY <1>1, PassStarts
  <2>2. job'[w].at = "pass" /\ \A v \in Worker \ {w} : job'[v] = job[v]
    BY <2>1, PassHasStarted
  <2> QED BY <1>1, <2>2, PassStarts
<1>2. CASE Take(w)
  <2> DEFINE call(row) == [job[w] EXCEPT !.at = "check", !.row = row, !.rows = job[w].rows \ {row}]
  <2>1. PICK row \in job[w].rows : job' = [job EXCEPT ![w] = call(row)]
    BY <1>2 DEF Take
  <2>2. call(row).at = "check"
    BY <1>0 DEF Jobs
  <2> HIDE DEF call
  <2>3. job'[w] = call(row)
    BY <1>0, <2>1
  <2> QED BY <1>2, <2>2, <2>3, PassIsWorked DEF Take
<1>3. CASE EndPass(w) \/ Crash(w)
  <2>1. job'[w] = Idle
    BY <1>0, <1>3 DEF EndPass, Crash
  <2> QED BY <1>3, <2>1, IdleIsAJob, PassIsWorked DEF EndPass, Crash
<1>4. CASE Overrun(w)
  <2>1. job'[w] = [job[w] EXCEPT !.locked = FALSE]
    BY <1>0, <1>4 DEF Overrun
  <2>2. job'[w].at = job[w].at /\ job'[w].row = job[w].row
    BY <1>0, <2>1 DEF Jobs
  <2> QED BY <1>4, <2>2, PassIsWorked DEF Overrun
<1> QED BY <1>1, <1>2, <1>3, <1>4

LEMMA BetweenCarts ==
  ASSUME Passes, SentFirst, CodesAreHeld, LateIsOwed, NEW w \in Worker,
         StartPass(w) \/ Take(w) \/ EndPass(w) \/ Crash(w) \/ Overrun(w)
  PROVE  SentFirst' /\ CodesAreHeld' /\ LateIsOwed'
<1>1. /\ UNCHANGED <<stage, events, codes, sent, late, counted, quiet>>
      /\ faults' = faults \/ faults' = faults + 1
      /\ \A v \in Worker \ {w} : job'[v] = job[v]
      /\ \/ job'[w].at \in {"pass", "check", "idle"}
         \/ job'[w].at = job[w].at /\ job'[w].row = job[w].row
  BY NothingIsWritten DEF cartVars, orderVars, mailVars
<1>2. SentFirst'
  <2>1. ASSUME NEW v \in Worker, job'[v].at = "advance" PROVE sent[Working(v)'][Rung(v)'] > 0
    <3>1. job[v].at = "advance" /\ job'[v].row = job[v].row
      BY <1>1, <2>1
    <3> QED BY <3>1 DEF SentFirst, Working, Rung
  <2> QED BY <1>1, <2>1 DEF SentFirst
<1>3. ASSUME NEW k, NEW n PROVE Holders(k, n)' \subseteq Holders(k, n)
  BY <1>1 DEF Holders, Working, Rung
<1>4. ASSUME NEW k PROVE Senders(k)' \subseteq Senders(k)
  BY <1>1 DEF Senders, Working
<1> QED BY <1>1, <1>2, <1>3, <1>4, NobodyMints, NobodySends

\* The shopper is counted as recovered only if the ladder wrote to the cart.
LEMMA ShopperIsCredited ==
  ASSUME Passes, SentFirst, CodesAreHeld, Shopper
  PROVE  SentFirst' /\ CodesAreHeld'
<1>1. UNCHANGED <<job, events, codes, sent>>
  BY ShopperIsHarmless
<1>2. stage \in [Cart -> {Ladder[n] : n \in 1..5} \cup Off]
  BY DEF Passes, LadderTypeOK
<1>3. ASSUME NEW k \in Cart, stage'[k] = "RECOVERED" PROVE \E n \in 1..Rungs : sent[k][n] > 0
  <2>1. CASE stage[k] = "RECOVERED"
    BY <2>1 DEF SentFirst
  <2>2. CASE stage[k] # "RECOVERED"
    <3>1. PICK j \in Cart : Pay(j)
      BY <1>3, <2>2 DEF Shopper, Wait, Return, BuyElsewhere, Release, Refund
    <3>2. \E n \in 1..Rungs : <<k, n>> \in events
      BY <1>2, <1>3, <2>2, <3>1 DEF Pay
    <3> QED BY <3>2 DEF SentFirst
  <2> QED BY <2>1, <2>2
<1>4. SentFirst'
  BY <1>1, <1>3 DEF SentFirst, Working, Rung
<1>5. CodesAreHeld'
  BY <1>1 DEF CodesAreHeld, Holders, OnRecord, Working, Rung
<1> QED BY <1>4, <1>5

LEMMA LadderStarts == Init => OnTrack
<1> SUFFICES ASSUME Init PROVE OnTrack
  OBVIOUS
<1> USE DEF Init
<1>1. \A w \in Worker : job[w] = Idle
  OBVIOUS
<1>2. LadderTypeOK
  <2>1. /\ stage \in [Cart -> {Ladder[n] : n \in 1..5} \cup Off]
        /\ codes \in [Cart -> [1..Rungs -> Int]] /\ sent \in [Cart -> [1..Rungs -> Nat]]
    <3>1. "ACTIVE" \in {Ladder[n] : n \in 1..5}
      <4>1. Ladder[1] = "ACTIVE" /\ 1 \in 1..5
        BY DEF Ladder
      <4> QED BY <4>1
    <3> QED BY <3>1
  <2>2. idle \in [Cart -> 0..Rungs] /\ quiet \in [Cart -> Nat] /\ clock \in Nat
        /\ late \in [Cart -> Nat] /\ faults \in 0..MaxFaults
    BY LadderAssumption
  <2>3. job \in [Worker -> Jobs] /\ paid \subseteq Cart /\ heldOut \subseteq Cart
        /\ events \subseteq Cart \X (1..Rungs)
    BY IdleIsAJob
  <2> QED BY <2>1, <2>2, <2>3 DEF LadderTypeOK
<1>3. Staged
  BY StagesAreNamed, LadderAssumption DEF Staged
<1>4. RowsAreRead /\ OneRowACart /\ OneLock
  BY <1>1, IdleIsAJob DEF RowsAreRead, RowsOf, OneRowACart, OneLock, InHand
<1>5. RunawaysCost
  <2>1. Runaways = {}
    BY <1>1, IdleIsAJob DEF Runaways
  <2> QED BY <2>1, NoPass DEF RunawaysCost
<1>6. SentFirst
  BY <1>1, IdleIsAJob DEF SentFirst
<1>7. CodesAreHeld
  <2>1. ASSUME NEW k, NEW n PROVE Holders(k, n) = {} /\ OnRecord(k, n) = 0
    BY <1>1, IdleIsAJob DEF Holders, OnRecord
  <2>2. ASSUME NEW k \in Cart, NEW n \in WithCode PROVE codes[k][n] = 0
    BY LadderAssumption
  <2> SUFFICES ASSUME NEW k \in Cart, NEW n \in WithCode
               PROVE  codes[k][n] >= Cardinality(Holders(k, n)) + OnRecord(k, n)
    BY DEF CodesAreHeld
  <2>3. Cardinality(Holders(k, n)) = 0
    BY <2>1, NoPass
  <2> HIDE DEF Init
  <2> QED BY <2>1, <2>2, <2>3
<1>8. LateIsOwed
  <2>1. ASSUME NEW k PROVE Senders(k) = {}
    BY <1>1, IdleIsAJob DEF Senders
  <2>2. ASSUME NEW k \in Cart PROVE late[k] = 0 /\ Cardinality(Senders(k)) = 0 /\ faults = 0
    BY <2>1, NoPass
  <2> HIDE DEF Init
  <2> QED BY <2>2 DEF LateIsOwed
<1>9. SentIsOwed
  <2> SUFFICES ASSUME NEW k \in Cart, NEW n \in 1..Rungs PROVE Budget(k, n) <= 1 + faults
    BY DEF SentIsOwed
  <2>1. Loose(k, n) = {} /\ Pending(k, n) = 0
    BY <1>1, IdleIsAJob DEF Loose, Strays, Pending, InHand
  <2>2. ToCome(k, n) \in {0, 1} /\ sent[k][n] = 0 /\ faults = 0
    BY DEF ToCome
  <2>3. Cardinality(Loose(k, n)) = 0
    BY <2>1, NoPass
  <2> QED BY <2>1, <2>2, <2>3 DEF Budget
<1> QED BY <1>2, <1>3, <1>4, <1>5, <1>6, <1>7, <1>8, <1>9 DEF OnTrack, Passes

LEMMA StandingStill ==
  ASSUME OnTrack, UNCHANGED vars PROVE OnTrack'
<1> USE DEF vars, cartVars, orderVars, mailVars
<1>1. Passes'
  BY DEF OnTrack, Passes, LadderTypeOK, Staged, RowsAreRead, OneRowACart, OneLock, RunawaysCost, Runaways
<1>2. SentFirst' /\ CodesAreHeld' /\ LateIsOwed'
  BY DEF OnTrack, SentFirst, CodesAreHeld, LateIsOwed, Counts, Holders, OnRecord, Senders, Working, Rung
<1>3. SentIsOwed'
  BY DEF OnTrack, SentIsOwed, Budget, Loose, Pending, ToCome
<1> QED BY <1>1, <1>2, <1>3 DEF OnTrack

LEMMA StaysOnTrack ==
  ASSUME OnTrack, [Next]_vars PROVE OnTrack'
<1>0. Passes /\ SentFirst /\ CodesAreHeld /\ LateIsOwed /\ SentIsOwed
  BY DEF OnTrack
<1> HIDE DEF OnTrack
<1>1. CASE UNCHANGED vars
  BY <1>1, StandingStill
<1>2. CASE Shopper
  <2>1. Passes'
    BY <1>0, <1>2, ShopperIsHarmless
  <2>2. SentFirst' /\ CodesAreHeld' /\ LateIsOwed'
    BY <1>0, <1>2, ShopperIsCredited, ShopperIsLeftAlone
  <2>3. SentIsOwed'
    BY <1>0, <1>2, ShopperSpendsNothing
  <2> QED BY <2>1, <2>2, <2>3 DEF OnTrack
<1>3. ASSUME NEW w \in Worker, OnCart(w) PROVE OnTrack'
  <2>1. Passes'
    <3>1. LadderTypeOK' /\ Staged'
      BY <1>0, <1>3, LadderGoesOn
    <3>2. RowsAreRead' /\ OneRowACart' /\ OneLock' /\ RunawaysCost'
      BY <1>0, <1>3, CartIsWorked
    <3> QED BY <3>1, <3>2 DEF Passes
  <2>2. SentFirst' /\ CodesAreHeld' /\ LateIsOwed'
    BY <1>0, <1>3, MailStaysSent, CodesStayHeld, LateStaysOwed
  <2>3. SentIsOwed'
    BY <1>0, <1>3, SentStaysOwed
  <2> QED BY <2>1, <2>2, <2>3 DEF OnTrack
<1>4. ASSUME NEW w \in Worker, StartPass(w) PROVE OnTrack'
  <2>1. Passes' /\ SentIsOwed'
    BY <1>0, <1>4, PassesStart, ChargeIsTaken
  <2>2. SentFirst' /\ CodesAreHeld' /\ LateIsOwed'
    BY <1>0, <1>4, BetweenCarts
  <2> QED BY <2>1, <2>2 DEF OnTrack
<1>5. ASSUME NEW w \in Worker, Take(w) \/ EndPass(w) \/ Crash(w) \/ Overrun(w) PROVE OnTrack'
  <2>1. Passes'
    <3>1. /\ RowsAreRead' /\ OneRowACart' /\ OneLock' /\ RunawaysCost'
          /\ job' \in [Worker -> Jobs] /\ faults' \in 0..MaxFaults
          /\ UNCHANGED <<cartVars, mailVars>>
      BY <1>0, <1>5, PassIsWorked
    <3>2. LadderTypeOK' /\ Staged'
      BY <1>0, <3>1 DEF Passes, LadderTypeOK, Staged, cartVars, orderVars, mailVars
    <3> QED BY <3>1, <3>2 DEF Passes
  <2>2. SentFirst' /\ CodesAreHeld' /\ LateIsOwed'
    BY <1>0, <1>5, BetweenCarts
  <2>3. SentIsOwed'
    BY <1>0, <1>5, CallsArePassedOn, FaultsArePaidFor
  <2> QED BY <2>1, <2>2, <2>3 DEF OnTrack
<1> QED BY <1>1, <1>2, <1>3, <1>4, <1>5 DEF Next, Proceed, Fault, OnCart

LEMMA LadderIsOnTrack == Spec => []OnTrack
BY LadderStarts, StaysOnTrack, PTL DEF Spec
-----------------------------------------------------------------------------
(***************************************************************************)
(* The theorems.                                                           *)
(***************************************************************************)
\* Every variable of the ladder keeps its type: no stage but the ladder's own, no
\* rung but those configured, whatever passes overlap or die.
THEOREM LadderTyping == Spec => []LadderTypeOK
<1>1. OnTrack => LadderTypeOK
  BY DEF OnTrack, Passes
<1> QED BY <1>1, LadderIsOnTrack, PTL

\* A rung is written once to a cart, but for one more message at most for every call
\* that died, outlived its lock or lost an answer; and a rung on record
\* (CartRecoveryEvent) was written, and left the shopper a code that works.
THEOREM RungsAreSentOnce == Spec => []RungIsSentOnce
<1>1. OnTrack => RungIsSentOnce
  <2> SUFFICES ASSUME OnTrack, NEW k \in Cart, NEW n \in 1..Rungs
               PROVE  /\ sent[k][n] <= 1 + faults
                      /\ <<k, n>> \in events => sent[k][n] > 0 /\ (n \in WithCode => codes[k][n] > 0)
    BY DEF RungIsSentOnce
  <2>1. sent[k][n] <= 1 + faults
    <3>1. Budget(k, n) <= 1 + faults
      BY DEF OnTrack, SentIsOwed
    <3>2. sent \in [Cart -> [1..Rungs -> Nat]] /\ faults \in 0..MaxFaults
      BY DEF OnTrack, Passes, LadderTypeOK
    <3>3. Loose(k, n) \in SUBSET Worker
      BY DEF Loose
    <3>4. Cardinality(Loose(k, n)) \in Nat /\ Pending(k, n) \in {0, 1} /\ ToCome(k, n) \in {0, 1}
      BY <3>3, PassesAreCounted DEF Pending, ToCome
    <3> HIDE DEF OnTrack
    <3>5. sent[k][n] \in Nat
      BY <3>2
    <3>6. faults \in Nat
      BY <3>2, LadderAssumption
    <3> QED BY <3>1, <3>4, <3>5, <3>6 DEF Budget
  <2>2. <<k, n>> \in events => sent[k][n] > 0
    BY DEF OnTrack, SentFirst
  <2>3. <<k, n>> \in events /\ n \in WithCode => codes[k][n] > 0
    <3> SUFFICES ASSUME <<k, n>> \in events, n \in WithCode PROVE codes[k][n] > 0
      OBVIOUS
    <3>1. codes[k][n] >= Cardinality(Holders(k, n)) + OnRecord(k, n)
      BY DEF OnTrack, CodesAreHeld
    <3>2. OnRecord(k, n) = 1 /\ codes[k][n] \in Int
      BY DEF OnRecord, OnTrack, Passes, LadderTypeOK
    <3> HIDE DEF OnTrack
    <3> QED BY <3>1, <3>2, HoldersAreCounted
  <2> QED BY <2>1, <2>2, <2>3
<1> QED BY <1>1, LadderIsOnTrack, PTL

\* While an order of the address counts as paid, its own or one paid since, a quiet
\* cart gets no message but those whose check had passed: one, and one more for every
\* fault, for any orders held, released and given back.  A cart whose own payment
\* landed is off the ladder, and is credited to the ladder only if it was written to.
THEOREM PaidAreLeftAlone == Spec => []PaidIsLeftAlone
<1>1. OnTrack => PaidIsLeftAlone
  <2> SUFFICES ASSUME OnTrack, NEW k \in Cart
               PROVE  /\ late[k] <= 1 + faults
                      /\ k \in paid => stage[k] \in Off
                      /\ stage[k] = "RECOVERED" => \E n \in 1..Rungs : sent[k][n] > 0
    BY DEF PaidIsLeftAlone
  <2>1. late[k] + Cardinality(Senders(k)) <= 1 + faults /\ late[k] \in Nat /\ faults \in Nat
    BY DEF OnTrack, LateIsOwed, Passes, LadderTypeOK
  <2>2. late[k] <= 1 + faults
    <3> HIDE DEF OnTrack
    <3> QED BY <2>1, SendersAreCounted
  <2>3. k \in paid => stage[k] \in Off
    BY DEF OnTrack, Passes, Staged
  <2>4. stage[k] = "RECOVERED" => \E n \in 1..Rungs : sent[k][n] > 0
    BY DEF OnTrack, SentFirst
  <2> QED BY <2>2, <2>3, <2>4
<1> QED BY <1>1, LadderIsOnTrack, PTL
-----------------------------------------------------------------------------
(***************************************************************************)
(* The book.                                                               *)
(***************************************************************************)
\* The book's words for where the carts stand, what was told and who is credited.
Standing(s) == IF s \in Off THEN Rungs + 1 ELSE CHOOSE n \in 0..Rungs : s = Stage(n)
Places   == [k \in Cart |-> Place(k)]
Told     == {r \in Cart \X (1..Rungs) : sent[r[1]][r[2]] > 0}
Credited == {k \in Cart : stage[k] = "RECOVERED"}

LEMMA StandingIsKnown ==
  /\ \A s \in Off : Standing(s) = Rungs + 1
  /\ \A n \in 0..Rungs : Standing(Stage(n)) = n
<1>1. ASSUME NEW n \in 0..Rungs PROVE Standing(Stage(n)) = n
  <2>1. Stage(n) \notin Off /\ \A m \in 0..Rungs : Stage(n) = Stage(m) => m = n
    BY StagesAreNamed
  <2> QED BY <2>1 DEF Standing
<1> QED BY <1>1 DEF Standing

LEMMA PlacesAreStandings ==
  /\ Places = [k \in Cart |-> Standing(stage[k])]
  /\ Places' = [k \in Cart |-> Standing(stage'[k])]
BY DEF Places, Place, Standing, Position

LEMMA NothingIsBooked ==
  ASSUME UNCHANGED <<stage, events, sent>>
  PROVE  UNCHANGED (Book!bookVars)
<1>1. Places' = Places
  BY PlacesAreStandings
<1>2. Told' = Told /\ Credited' = Credited
  BY DEF Told, Credited
<1> QED BY <1>1, <1>2 DEF Book!bookVars, Places, Told, Credited

\* A message that leaves is told; one that left before is told already.
LEMMA MessageIsBooked ==
  ASSUME Passes, NEW w \in Worker, OnCart(w), Leaves(w), UNCHANGED <<stage, events>>
  PROVE  Book!Next
<1>1. PICK k \in Cart, n \in 1..Rungs : k = Working(w) /\ n = Rung(w)
  BY RowInHand
<1>2. /\ LadderTypeOK
      /\ sent'[k][n] = sent[k][n] + 1
      /\ \A j \in Cart : \A m \in 1..Rungs : j # k \/ m # n => sent'[j][m] = sent[j][m]
  BY <1>1, MessageLeaves DEF Passes
<1>3. sent[k][n] \in Nat
  BY <1>2 DEF LadderTypeOK
<1>4. Told' = Told \cup {<<k, n>>}
  <2>1. ASSUME NEW r \in Cart \X (1..Rungs) PROVE r \in Told' <=> r \in Told \/ r = <<k, n>>
    BY <1>2, <1>3 DEF Told
  <2>2. Told \subseteq Cart \X (1..Rungs) /\ Told' \subseteq Cart \X (1..Rungs)
        /\ <<k, n>> \in Cart \X (1..Rungs)
    BY DEF Told
  <2> QED BY <2>1, <2>2
<1>5. Places' = Places /\ Credited' = Credited
  BY PlacesAreStandings DEF Credited
<1>6. Book!Tell(k, n)
  BY <1>4, <1>5 DEF Book!Tell, Places, Told, Credited
<1> QED BY <1>6 DEF Book!Next

\* A cart that is closed, or paid for, goes off the ladder; credit needs a record.
LEMMA LeavingIsBooked ==
  ASSUME LadderTypeOK, NEW k \in Cart, NEW to \in Off, stage' = [stage EXCEPT ![k] = to],
         to = "RECOVERED" => \E n \in 1..Rungs : <<k, n>> \in events,
         UNCHANGED <<events, sent>>
  PROVE  Book!Next
<1>1. stage \in [Cart -> {Ladder[n] : n \in 1..5} \cup Off]
  BY DEF LadderTypeOK
<1>2. Places' = [Places EXCEPT ![k] = Rungs + 1]
  BY <1>1, PlacesAreStandings, StandingIsKnown
<1>3. Told' = Told
  BY DEF Told
<1>4. CASE to = "RECOVERED"
  <2>1. Credited' = Credited \cup {k}
    BY <1>1, <1>4 DEF Credited
  <2>2. Book!Leave(k)
    BY <1>2, <1>3, <1>4, <2>1 DEF Book!Leave, Book!Off, Places, Told, Credited
  <2> QED BY <2>2 DEF Book!Next
<1>5. CASE to # "RECOVERED"
  <2>1. Credited' = Credited \ {k}
    BY <1>1, <1>5 DEF Credited
  <2>2. Book!Leave(k)
    BY <1>2, <1>3, <2>1 DEF Book!Leave, Book!Off, Places, Told, Credited
  <2> QED BY <2>2 DEF Book!Next
<1> QED BY <1>4, <1>5

\* The compare-and-set moves a cart up only, as the rung a pass read for it is
\* above the one it read it on; and the record is of a message that went.
LEMMA ClimbIsBooked ==
  ASSUME Passes, SentFirst, NEW w \in Worker, Advance(w)
  PROVE  [Book!Next]_(Book!bookVars)
<1>0. /\ OnCart(w) /\ LadderTypeOK /\ UNCHANGED sent
      /\ stage \in [Cart -> {Ladder[n] : n \in 1..5} \cup Off]
  BY DEF OnCart, Passes, LadderTypeOK, Advance
<1>1. PICK k \in Cart, n \in 1..Rungs, m \in 0..Rungs :
        k = Working(w) /\ n = Rung(w) /\ m = job[w].row.from
  BY <1>0, RowInHand
<1>2. m < n
  BY <1>0, <1>1, RowInHand DEF Rung
<1>3. CASE ~Moves(w)
  <2>1. UNCHANGED <<stage, events>>
    BY <1>3 DEF Advance
  <2> QED BY <1>0, <2>1, NothingIsBooked
<1>4. CASE Moves(w)
  <2>1. /\ stage[k] = Stage(m) /\ stage' = [stage EXCEPT ![k] = Stage(n)]
        /\ events' = events \/ (At(w, "advance") /\ events' = events \cup {<<k, n>>})
    BY <1>1, <1>4 DEF Moves, Advance
  <2>2. n \in 0..Rungs
    BY LadderAssumption
  <2>3. Places[k] = m /\ Places' = [Places EXCEPT ![k] = n]
    BY <1>0, <2>1, <2>2, PlacesAreStandings, StandingIsKnown
  <2>4. Told' = Told
    BY <1>0 DEF Told
  <2>5. Stage(m) # "RECOVERED" /\ Stage(n) # "RECOVERED"
    BY <2>2, StagesAreNamed DEF Off
  <2>6. Credited' = Credited
    BY <1>0, <2>1, <2>5 DEF Credited
  <2>7. At(w, "advance") => <<k, n>> \in Told
    BY <1>1 DEF At, SentFirst, Told
  <2>8. Book!Climb(k, n)
    BY <1>2, <2>1, <2>3, <2>4, <2>6, <2>7 DEF Book!Climb, Places, Told, Credited
  <2> QED BY <2>8 DEF Book!Next
<1> QED BY <1>3, <1>4

LEMMA StepKeepsBook ==
  ASSUME OnTrack, [Next]_vars
  PROVE  [Book!Next]_(Book!bookVars)
<1> USE DEF cartVars, orderVars, mailVars
<1>0. Passes /\ SentFirst /\ LadderTypeOK
  BY DEF OnTrack, Passes
<1> HIDE DEF OnTrack
<1>1. ASSUME NEW k \in Cart, Pay(k) PROVE Book!Next
  <2>1. PICK to \in Off : /\ stage' = [stage EXCEPT ![k] = to]
                          /\ to = "RECOVERED" => \E n \in 1..Rungs : <<k, n>> \in events
    BY <1>1 DEF Pay, Off
  <2>2. UNCHANGED <<events, sent>>
    BY <1>1 DEF Pay
  <2> QED BY <1>0, <2>1, <2>2, LeavingIsBooked
<1>2. CASE Shopper /\ ~\E k \in Cart : Pay(k)
  <2>1. UNCHANGED <<stage, events, sent>>
    BY <1>2 DEF Shopper, Wait, Return, BuyElsewhere, Release, Refund
  <2> QED BY <2>1, NothingIsBooked
<1>3. ASSUME NEW w \in Worker, Close(w) PROVE Book!Next
  <2>1. PICK k \in Cart : k = Working(w)
    BY <1>0, <1>3, RowInHand DEF OnCart
  <2>2. stage' = [stage EXCEPT ![k] = "CLOSED"] /\ UNCHANGED <<events, sent>>
    BY <1>3, <2>1 DEF Close
  <2> QED BY <1>0, <2>2, LeavingIsBooked DEF Off
<1>4. ASSUME NEW w \in Worker, Accepted(w) \/ AnswerLost(w) PROVE Book!Next
  <2>1. OnCart(w) /\ Leaves(w) /\ UNCHANGED <<stage, events>>
    BY <1>4 DEF OnCart, Accepted, AnswerLost
  <2> QED BY <1>0, <2>1, MessageIsBooked
<1>5. ASSUME NEW w \in Worker, Advance(w) PROVE [Book!Next]_(Book!bookVars)
  BY <1>0, <1>5, ClimbIsBooked
<1>6. ASSUME NEW w \in Worker,
             \/ StartPass(w) \/ Take(w) \/ Check(w) \/ Mint(w) \/ Refused(w) \/ Withdraw(w)
             \/ EndPass(w) \/ Throw(w) \/ Crash(w) \/ Overrun(w)
      PROVE  [Book!Next]_(Book!bookVars)
  <2>1. UNCHANGED <<stage, events, sent>>
    BY <1>6 DEF StartPass, Take, Check, Mint, Refused, Withdraw, EndPass, Throw, Crash, Overrun
  <2> QED BY <2>1, NothingIsBooked
<1>7. CASE UNCHANGED vars
  BY <1>7, NothingIsBooked DEF vars
<1> QED BY <1>1, <1>2, <1>3, <1>4, <1>5, <1>6, <1>7 DEF Next, Proceed, Fault

\* The ladder implements the book, for any carts, rungs up to four, passes and
\* faults: a cart is moved up only, with the record of the message that moved it,
\* and what left the ladder stays off.
THEOREM LadderKeepsBook == Spec => LadderIsClimbed
<1>1. Init => Book!Init
  <2> SUFFICES ASSUME Init PROVE Book!Init
    OBVIOUS
  <2>1. 0 \in 0..Rungs /\ Stage(0) = "ACTIVE" /\ "ACTIVE" # "RECOVERED"
    BY StagesAreNamed, LadderAssumption
  <2>2. Places = [k \in Cart |-> 0]
    BY <2>1, PlacesAreStandings, StandingIsKnown DEF Init
  <2>3. Told = {} /\ Credited = {} /\ events = {}
    BY <2>1 DEF Init, Told, Credited
  <2> QED BY <2>2, <2>3 DEF Book!Init, Places, Told, Credited
<1>2. OnTrack /\ [Next]_vars => [Book!Next]_(Book!bookVars)
  BY StepKeepsBook
<1> QED BY <1>1, <1>2, LadderIsOnTrack, PTL DEF Spec, LadderIsClimbed, Book!Spec
=============================================================================
