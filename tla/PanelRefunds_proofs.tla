------------------------ MODULE PanelRefunds_proofs ------------------------
(***************************************************************************)
(* Proofs about the refunds of one payment, for any number of refunds,     *)
(* calls and crashes and any amount paid.                                  *)
(*                                                                         *)
(* What the processor has under way never exceeds what was paid.  If it    *)
(* checks the balance itself, that is by its own check.  If it does not,   *)
(* it is because whatever it has under way is owed by a row that still     *)
(* counts against the cap, or by the one request that is about to write it;*)
(* that takes requests that never overlapped.                              *)
(***************************************************************************)
EXTENDS PanelRefunds, FiniteSetTheorems, TLAPS

-----------------------------------------------------------------------------
(***************************************************************************)
(* Sums of amounts.                                                        *)
(***************************************************************************)
Sizes == [Refund -> 0..Paid]
UnitsOf(f, S) == {u \in Refund \X (1..Paid) : u[1] \in S /\ u[2] <= f[u[1]]}
SumOf(f, S) == Cardinality(UnitsOf(f, S))

LEMMA SumIsSumOf == \A S : Sum(S) = SumOf(size, S)
BY DEF Sum, SumOf, Units, UnitsOf

LEMMA UnitsAreFinite ==
  ASSUME NEW f, NEW S
  PROVE  IsFiniteSet(UnitsOf(f, S)) /\ SumOf(f, S) \in Nat
<1>1. IsFiniteSet(1..Paid)
  BY FS_Interval, RefundsAssumption
<1>2. IsFiniteSet(Refund \X (1..Paid))
  BY <1>1, FS_Product, RefundsAssumption
<1>3. UnitsOf(f, S) \in SUBSET (Refund \X (1..Paid))
  BY DEF UnitsOf
<1>4. IsFiniteSet(UnitsOf(f, S))
  BY <1>2, <1>3, FS_Subset
<1> QED BY <1>4, FS_CardinalityType DEF SumOf

\* More refunds, more money.
LEMMA SumGrows ==
  ASSUME NEW f, NEW S, NEW T, S \cap Refund \subseteq T
  PROVE  SumOf(f, S) <= SumOf(f, T)
<1>1. UnitsOf(f, S) \in SUBSET UnitsOf(f, T)
  BY DEF UnitsOf
<1> QED BY <1>1, UnitsAreFinite, FS_Subset DEF SumOf

\* The sum of a set depends on its own amounts only.
LEMMA SumSame ==
  ASSUME NEW f, NEW g, NEW S, \A r \in S \cap Refund : f[r] = g[r]
  PROVE  SumOf(f, S) = SumOf(g, S)
<1>1. UnitsOf(f, S) = UnitsOf(g, S)
  BY DEF UnitsOf
<1> QED BY <1>1 DEF SumOf

\* One more refund adds no more than its amount.
LEMMA SumAdds ==
  ASSUME NEW f, NEW S, NEW r \in Refund, f[r] \in 0..Paid
  PROVE  SumOf(f, S \cup {r}) <= SumOf(f, S) + f[r]
<1> DEFINE One == {r} \X (1..f[r])
<1>1. IsFiniteSet(One) /\ Cardinality(One) = f[r]
  <2>1. IsFiniteSet(1..f[r]) /\ Cardinality(1..f[r]) = f[r]
    BY FS_Interval
  <2>2. IsFiniteSet({r}) /\ Cardinality({r}) = 1
    BY FS_Singleton
  <2>3. IsFiniteSet(One) /\ Cardinality(One) = Cardinality({r}) * Cardinality(1..f[r])
    BY <2>1, <2>2, FS_Product, Zenon
  <2> QED BY <2>1, <2>2, <2>3
<1>2. UnitsOf(f, S \cup {r}) \in SUBSET (UnitsOf(f, S) \cup One)
  BY RefundsAssumption DEF UnitsOf
<1>3. IsFiniteSet(UnitsOf(f, S))
  BY UnitsAreFinite
<1> HIDE DEF One
<1>4. IsFiniteSet(UnitsOf(f, S) \cup One)
      /\ Cardinality(UnitsOf(f, S) \cup One)
           = Cardinality(UnitsOf(f, S)) + Cardinality(One) - Cardinality(UnitsOf(f, S) \cap One)
  BY <1>1, <1>3, FS_Union
<1>5. IsFiniteSet(UnitsOf(f, S) \cap One)
  BY <1>1, FS_Intersection
<1>6. Cardinality(UnitsOf(f, S) \cap One) \in Nat
  BY <1>5, FS_CardinalityType
<1>7. Cardinality(UnitsOf(f, S \cup {r})) <= Cardinality(UnitsOf(f, S) \cup One)
  BY <1>2, <1>4, FS_Subset
<1>8. Cardinality(UnitsOf(f, S)) \in Nat /\ Cardinality(UnitsOf(f, S \cup {r})) \in Nat
  BY UnitsAreFinite DEF SumOf
<1> QED BY <1>1, <1>4, <1>6, <1>7, <1>8 DEF SumOf
-----------------------------------------------------------------------------
(***************************************************************************)
(* The invariant: what rows, events and calls say of the processor is true.*)
(***************************************************************************)
Live == RemoteIn({"pending", "succeeded"})
Back == RemoteIn({"succeeded"})
UnderWay == SumOf(size, Live)
Gone == SumOf(size, Back)

\* What a call in flight may rely on: rem is the processor's state, n what has
\* gone back.
Says(c, rem, n) ==
  /\ c.at \in HookSteps =>
       /\ c.ref \in Refund /\ c.kind \in {"refunded", "failed"} /\ c.sum \in Nat
       /\ c.kind = "refunded" => rem[c.ref] = "succeeded" /\ c.sum <= n
       /\ c.kind = "failed" => rem[c.ref] = "failed"
  /\ c.at = "enter" => c.kind = "refunded"
  /\ c.at = "create" => c.sum \in 1..Paid
  /\ c.at \in PanelSteps \ {"create"} => c.ref \in Refund
  /\ c.at \in {"wait", "heard"} => rem[c.ref] # "none"
  /\ c.at = "heard" =>
       c.heard # "none" /\ (c.heard \in {"succeeded", "failed"} => rem[c.ref] = c.heard)
  /\ c.at \in {"settle", "move"} => rem[c.ref] = "succeeded" /\ c.sum \in Nat /\ c.sum <= n

CallsAreTrue == \A w \in Worker : Says(job[w], remote, Gone)

EventsAreTrue ==
  \A e \in events : /\ remote[e[2]] = IF e[1] = "refunded" THEN "succeeded" ELSE "failed"
                    /\ e[3] <= Gone

RowsAreTrue == \A r \in Refund : row[r] = "SUCCEEDED" => remote[r] = "succeeded"

BooksAreTrue == /\ total <= Gone
                /\ state = "REFUNDED" \/ status = "REFUNDED" => Gone >= Paid

\* Somebody sees to the cap: the processor, or requests that came one at a time.
Watched == strict \/ ~overlapped

Cap == Watched => UnderWay <= Paid

Faithful == RefundTypeOK /\ CallsAreTrue /\ EventsAreTrue /\ RowsAreTrue /\ BooksAreTrue /\ Cap

-----------------------------------------------------------------------------
(***************************************************************************)
(* The rest of it, for a processor that does not check the balance.        *)
(***************************************************************************)
Asking == {"ask", "wait", "refused", "heard", "settle", "move"}

\* The refunds that count against the cap, or are about to again.
Owed == RowsIn({"PENDING", "SUCCEEDED"})
          \cup {job[w].ref : w \in {v \in Worker : job[v].at \in Asking}}

OneCall == \A v, w \in Worker : job[v].at \in PanelSteps /\ job[w].at \in PanelSteps => v = w

HasRow == \A r \in Refund : remote[r] # "none" => row[r] # "NONE"

FailedIsFailed == \A r \in Refund : row[r] = "FAILED" => remote[r] \in {"none", "failed"}

AsksAreOwed ==
  \A w \in Worker : /\ At(w, "refused") => remote[job[w].ref] = "none"
                    /\ job[w].at \in {"ask", "refused"} /\ remote[job[w].ref] = "none"
                         => row[job[w].ref] = "PENDING"

OwedFits == /\ SumOf(size, Owed) <= Paid
            /\ \A w \in Worker : At(w, "create") => SumOf(size, Owed) + job[w].sum <= Paid

Sole == ~strict /\ ~overlapped

Blind == Sole => OneCall /\ HasRow /\ FailedIsFailed /\ AsksAreOwed /\ OwedFits

-----------------------------------------------------------------------------
(***************************************************************************)
(* The processor only moves forward.                                       *)
(***************************************************************************)
Forward ==
  /\ Gone <= Gone'
  /\ \A r \in Refund : /\ remote[r] # "none" => remote'[r] # "none"
                       /\ remote[r] \in {"succeeded", "failed"} => remote'[r] = remote[r]

LEMMA IdleIsAJob ==
  /\ Idle \in Jobs /\ Idle.at = "idle" /\ Idle.ref = NoRefund
  /\ \A step \in {"create", "ask"} \cup HookSteps : \A r \in Refund \cup {NoRefund} :
       \A kind \in {"none", "refunded", "failed"} : \A n \in Int :
         Call(step, r, kind, n) \in Jobs
BY DEF Idle, Call, Jobs, PanelSteps, HookSteps, RemoteStates

LEMMA StillSaid ==
  ASSUME NEW c, NEW rem, NEW next, NEW n \in Nat, NEW m \in Nat, n <= m, Says(c, rem, n),
         c.sum \in Int,
         \A r \in Refund : /\ rem[r] # "none" => next[r] # "none"
                           /\ rem[r] \in {"succeeded", "failed"} => next[r] = rem[r]
  PROVE  Says(c, next, m)
BY DEF Says, HookSteps, PanelSteps

\* A call that moves on, next to others that stay where they are.
LEMMA CallMoves ==
  ASSUME Faithful, Forward, NEW w \in Worker, NEW call \in Jobs,
         job' = [job EXCEPT ![w] = call], Says(call, remote', Gone')
  PROVE  CallsAreTrue' /\ job' \in [Worker -> Jobs]
<1>1. job \in [Worker -> Jobs]
  BY DEF Faithful, RefundTypeOK
<1>2. job' \in [Worker -> Jobs]
  BY <1>1
<1>3. Gone \in Nat /\ Gone' \in Nat
  BY UnitsAreFinite DEF Gone
<1>4. ASSUME NEW v \in Worker PROVE Says(job'[v], remote', Gone')
  <2>1. CASE v = w
    BY <1>1, <2>1
  <2>2. CASE v # w
    <3>1. job'[v] = job[v] /\ job[v].sum \in Int /\ Says(job[v], remote, Gone)
      BY <1>1, <2>2 DEF Faithful, CallsAreTrue, Jobs
    <3>2. Says(job[v], remote', Gone')
      BY <1>3, <3>1, StillSaid DEF Forward
    <3> QED BY <3>1, <3>2
  <2> QED BY <2>1, <2>2
<1> QED BY <1>2, <1>4 DEF CallsAreTrue

\* The processor is not involved.
LEMMA Quiet ==
  ASSUME Faithful, UNCHANGED <<remote, size, events>>
  PROVE  /\ Forward /\ Gone' = Gone /\ EventsAreTrue' /\ ((Watched' => Watched) => Cap')
         /\ Gone \in Nat
<1>1. Gone' = Gone /\ UnderWay' = UnderWay
  BY DEF Gone, UnderWay, Back, Live, RemoteIn, SumOf, UnitsOf
<1>2. Gone \in Nat
  BY UnitsAreFinite DEF Gone
<1> QED BY <1>1, <1>2 DEF Forward, EventsAreTrue, Cap, Faithful
LEMMA QuietStep ==
  ASSUME Faithful, NEW w \in Worker, NEW call \in Jobs, Becomes(w, call), Says(call, remote, Gone),
         UNCHANGED <<remoteVars, size>>, handled' \subseteq events,
         status' \in OrderStatuses, sales' \in Int, state' \in {"SUCCEEDED", "REFUNDED"},
         total' \in Nat, row' \in [Refund -> RowStates], known' \subseteq Refund,
         flagged' \subseteq Refund, crashes' \in 0..MaxCrashes,
         lost' \in BOOLEAN, overlapped' \in {overlapped, TRUE},
         RowsAreTrue', BooksAreTrue'
  PROVE  Faithful'
<1>1. UNCHANGED <<remote, size, events, strict>>
  BY DEF remoteVars
<1>0. Watched' => Watched
  BY <1>1, Zenon DEF Watched
<1>2. Forward /\ Gone' = Gone /\ EventsAreTrue' /\ Cap'
  BY <1>0, <1>1, Quiet
<1>3. CallsAreTrue' /\ job' \in [Worker -> Jobs]
  BY <1>1, <1>2, CallMoves DEF Becomes
<1>4. RefundTypeOK'
  BY <1>1, <1>3 DEF RefundTypeOK, Faithful
<1> QED BY <1>2, <1>3, <1>4 DEF Faithful

\* Nor are the books.
LEMMA QuietBooks ==
  ASSUME Faithful, NEW w \in Worker, NEW call \in Jobs, Becomes(w, call), Says(call, remote, Gone),
         UNCHANGED <<payVars, row, known, remoteVars, size>>, handled' \subseteq events,
         flagged' \subseteq Refund, crashes' \in 0..MaxCrashes,
         overlapped' \in {overlapped, TRUE}
  PROVE  Faithful'
<1>1. /\ status' \in OrderStatuses /\ sales' \in Int /\ state' \in {"SUCCEEDED", "REFUNDED"}
      /\ total' \in Nat /\ row' \in [Refund -> RowStates] /\ known' \subseteq Refund
      /\ lost' \in BOOLEAN
  BY DEF Faithful, RefundTypeOK, payVars
<1>2. Gone' = Gone
  BY Quiet DEF remoteVars
<1>3. RowsAreTrue'
  BY DEF Faithful, RowsAreTrue, remoteVars
<1>4. BooksAreTrue'
  BY <1>2 DEF Faithful, BooksAreTrue, payVars
<1> QED BY <1>1, <1>3, <1>4, QuietStep

LEMMA IdleSays == Says(Idle, remote, Gone)
BY DEF Says, Idle, Call, HookSteps, PanelSteps

Read(w) == ReadToSettle(w) \/ ReadToApply(w)

\* A transaction that has read the order.
Reading(w, step) == [job[w] EXCEPT !.at = step, !.from = status]

LEMMA ReadIsACall ==
  ASSUME Faithful, NEW w \in Worker, Read(w)
  PROVE  \E step \in {"move", "enter"} :
           /\ Becomes(w, Reading(w, step)) /\ Reading(w, step) \in Jobs
           /\ Reading(w, step).at = step /\ Reading(w, step).ref = job[w].ref
           /\ Reading(w, step).kind = job[w].kind /\ Reading(w, step).sum = job[w].sum
           /\ Reading(w, step).from = status
           /\ step = "move" => job[w].at = "settle"
           /\ step = "enter" => job[w].at = "apply" /\ job[w].kind = "refunded"
<1>1. job[w] \in Jobs /\ status \in OrderStatuses
  BY DEF Faithful, RefundTypeOK
<1>2. \A step \in {"move", "enter"} :
        /\ Reading(w, step) \in Jobs
        /\ Reading(w, step).at = step /\ Reading(w, step).ref = job[w].ref
        /\ Reading(w, step).kind = job[w].kind /\ Reading(w, step).sum = job[w].sum
        /\ Reading(w, step).from = status
  BY <1>1 DEF Reading, Jobs, PanelSteps, HookSteps
<1> QED BY <1>2 DEF Read, ReadToSettle, ReadToApply, ReadOrder, Reading, At

\* Nothing but the call itself.
LEMMA ReadIsQuiet ==
  ASSUME NEW w, Read(w)
  PROVE  UNCHANGED <<payVars, rowVars, size, remoteVars, handled, crashes, overlapped>>
BY DEF Read, ReadToSettle, ReadToApply, ReadOrder

LEMMA PanelCalls ==
  ASSUME Faithful, NEW w \in Worker,
         \/ \E n \in 1..Paid : StartRefund(w, n)
         \/ \E r \in Refund : RetryRefund(w, r)
         \/ Hear(w) \/ Lose(w) \/ AddUp(w) \/ Read(w) \/ Note(w)
         \/ \E e \in events : Deliver(w, e)
         \/ Finish(w) \/ Crash(w)
  PROVE  Faithful'
<1> USE DEF rowVars
<1>0. /\ job \in [Worker -> Jobs] /\ handled \subseteq events /\ flagged \subseteq Refund
      /\ crashes \in 0..MaxCrashes /\ events \subseteq Event /\ remote \in [Refund -> RemoteStates]
      /\ overlapped \in BOOLEAN /\ Says(job[w], remote, Gone) /\ job[w] \in Jobs
  BY DEF Faithful, RefundTypeOK, CallsAreTrue
<1>1. CASE \E n \in 1..Paid : StartRefund(w, n)
  <2>1. PICK n \in 1..Paid : StartRefund(w, n)
    BY <1>1
  <2> DEFINE call == Call("create", NoRefund, "none", n)
  <2>2. call \in Jobs /\ Says(call, remote, Gone)
    BY DEF Jobs, Call, Says, PanelSteps, HookSteps, RemoteStates
  <2> QED BY <1>0, <2>1, <2>2, QuietBooks DEF StartRefund, Started
<1>2. CASE \E r \in Refund : RetryRefund(w, r)
  <2>1. PICK r \in Refund : RetryRefund(w, r)
    BY <1>2
  <2> DEFINE call == Call("ask", r, "none", 0)
  <2>2. call \in Jobs /\ Says(call, remote, Gone)
    BY DEF Jobs, Call, Says, PanelSteps, HookSteps, RemoteStates
  <2> QED BY <1>0, <2>1, <2>2, QuietBooks DEF RetryRefund, Started
<1>3. CASE Hear(w)
  <2> DEFINE call == [job[w] EXCEPT !.at = "heard", !.heard = remote[job[w].ref]]
  <2>1. job[w].at = "wait" /\ job[w].ref \in Refund /\ remote[job[w].ref] \in RemoteStates \ {"none"}
    BY <1>0, <1>3 DEF Hear, At, Says, PanelSteps
  <2>2. call \in Jobs /\ Says(call, remote, Gone)
    BY <1>0, <2>1 DEF Jobs, Says, PanelSteps, HookSteps, RemoteStates
  <2> QED BY <1>0, <1>3, <2>2, QuietBooks DEF Hear
<1>4. CASE Lose(w) \/ Crash(w) \/ Finish(w)
  <2>1. Becomes(w, Idle)
    BY <1>4 DEF Lose, Crash, Finish, Return
  <2>2. /\ UNCHANGED <<payVars, row, known, remoteVars, size>> /\ handled' \subseteq events
        /\ flagged' \subseteq Refund /\ crashes' \in 0..MaxCrashes /\ overlapped' = overlapped
    BY <1>0, <1>4, RefundsAssumption DEF Lose, Crash, Finish
  <2> QED BY <2>1, <2>2, IdleIsAJob, IdleSays, QuietBooks
<1>5. CASE AddUp(w)
  <2> DEFINE call == [job[w] EXCEPT !.at = "settle", !.sum = GivenByRows(job[w].ref)]
  <2>1. job[w].at = "heard" /\ job[w].ref \in Refund /\ remote[job[w].ref] = "succeeded"
    BY <1>0, <1>5 DEF AddUp, At, Says, PanelSteps
  <2>2. GivenByRows(job[w].ref) \in Nat /\ GivenByRows(job[w].ref) <= Gone
    <3>1. (RowsIn({"SUCCEEDED"}) \cup {job[w].ref}) \cap Refund \subseteq Back
      BY <2>1 DEF Faithful, RowsAreTrue, RowsIn, Back, RemoteIn
    <3> QED BY <3>1, SumGrows, SumIsSumOf, UnitsAreFinite DEF GivenByRows, Gone
  <2>3. ASSUME NEW n \in Nat, n <= Gone
        PROVE  LET new == [job[w] EXCEPT !.at = "settle", !.sum = n] IN
               new \in Jobs /\ Says(new, remote, Gone)
    <3> DEFINE new == [job[w] EXCEPT !.at = "settle", !.sum = n]
    <3>1. new \in Jobs /\ new.at = "settle" /\ new.ref = job[w].ref /\ new.sum = n
      <4>1. n \in Int /\ job[w] \in Jobs
        BY <1>0, <2>3
      <4>2. "settle" \in PanelSteps
        BY DEF PanelSteps
      <4> QED BY <4>1, <4>2 DEF Jobs
    <3> HIDE DEF new
    <3>2. Says(new, remote, Gone)
      BY <2>1, <2>3, <3>1 DEF Says, PanelSteps, HookSteps
    <3> QED BY <3>1, <3>2 DEF new
  <2>4. call \in Jobs /\ Says(call, remote, Gone)
    BY <2>2, <2>3
  <2> HIDE DEF call
  <2>5. Becomes(w, call)
    BY <1>5 DEF AddUp, call
  <2> QED BY <1>0, <1>5, <2>4, <2>5, QuietBooks DEF AddUp
<1>6. CASE Note(w)
  <2>1. job[w].at \in {"note", "tell"} /\ job[w].ref \in Refund
    BY <1>0, <1>6 DEF Note, At, Says, PanelSteps, HookSteps
  <2>2. flagged' \subseteq Refund
    BY <1>0, <1>6, <2>1 DEF Note
  <2>3. CASE At(w, "tell")
    <3> DEFINE call == [job[w] EXCEPT !.at = "finish"]
    <3>1. call \in Jobs /\ Says(call, remote, Gone)
      BY <1>0, <2>3 DEF At, Jobs, Says, PanelSteps, HookSteps
    <3> QED BY <1>0, <1>6, <2>2, <2>3, <3>1, QuietBooks DEF Note, Goto
  <2>4. CASE ~At(w, "tell")
    BY <1>0, <1>6, <2>2, <2>4, IdleIsAJob, IdleSays, QuietBooks DEF Note, Return
  <2> QED BY <2>3, <2>4
<1>7. CASE \E e \in events : Deliver(w, e)
  <2>1. PICK e \in events : Deliver(w, e)
    BY <1>7
  <2> DEFINE call == Call("apply", e[2], e[1], e[3])
  <2>2. e[1] \in {"refunded", "failed"} /\ e[2] \in Refund /\ e[3] \in Nat
    BY <1>0 DEF Event
  <2>3. /\ remote[e[2]] = IF e[1] = "refunded" THEN "succeeded" ELSE "failed"
        /\ e[3] <= Gone
    BY DEF Faithful, EventsAreTrue
  <2>4. call \in Jobs
    BY <2>2, RefundsAssumption DEF Jobs, Call, PanelSteps, HookSteps, RemoteStates
  <2>5. Says(call, remote, Gone)
    BY <2>2, <2>3, RefundsAssumption DEF Call, Says, PanelSteps, HookSteps
  <2> QED BY <1>0, <2>1, <2>4, <2>5, QuietBooks DEF Deliver
<1>8. CASE Read(w)
  <2>1. PICK step \in {"move", "enter"} :
          /\ Becomes(w, Reading(w, step)) /\ Reading(w, step) \in Jobs
          /\ Reading(w, step).at = step /\ Reading(w, step).ref = job[w].ref
          /\ Reading(w, step).kind = job[w].kind /\ Reading(w, step).sum = job[w].sum
          /\ step = "move" => job[w].at = "settle"
          /\ step = "enter" => job[w].at = "apply" /\ job[w].kind = "refunded"
    BY <1>8, ReadIsACall
  <2>2. Says(Reading(w, step), remote, Gone)
    BY <1>0, <2>1 DEF Says, PanelSteps, HookSteps
  <2> QED BY <1>0, <1>8, <2>1, <2>2, ReadIsQuiet, QuietBooks
<1> QED BY <1>1, <1>2, <1>3, <1>4, <1>5, <1>6, <1>7, <1>8
-----------------------------------------------------------------------------
(***************************************************************************)
(* What is written in the books.                                           *)
(***************************************************************************)
LEMMA OutcomeIsAMove ==
  ASSUME status \in OrderStatuses, sales \in Int, lost \in BOOLEAN, NEW full \in BOOLEAN, NEW from,
         Outcome(from, full)
  PROVE  /\ status' \in OrderStatuses /\ sales' \in Int /\ lost' \in BOOLEAN
         /\ status' = "REFUNDED" => full \/ status = "REFUNDED"
BY DEF Outcome, AfterTransition, CanTransition, OrderStatuses

\* A refund that the processor has made, with a total it has given back.
LEMMA MoneyGoesBack ==
  ASSUME Faithful, NEW w \in Worker, job[w].ref \in Refund, job[w].sum \in Nat,
         remote[job[w].ref] = "succeeded", job[w].sum <= Gone,
         GiveBack(w), UNCHANGED remoteVars, UNCHANGED size
  PROVE  /\ status' \in OrderStatuses /\ sales' \in Int /\ state' \in {"SUCCEEDED", "REFUNDED"}
         /\ total' \in Nat /\ row' \in [Refund -> RowStates] /\ known' \subseteq Refund
         /\ lost' \in BOOLEAN
         /\ RowsAreTrue' /\ BooksAreTrue'
<1> DEFINE r == job[w].ref
           n == job[w].sum
           full == n >= Paid
<1>1. /\ status \in OrderStatuses /\ sales \in Int /\ state \in {"SUCCEEDED", "REFUNDED"}
      /\ total \in Nat /\ row \in [Refund -> RowStates] /\ known \subseteq Refund /\ lost \in BOOLEAN
  BY DEF Faithful, RefundTypeOK
<1>2. Gone' = Gone /\ Gone \in Nat /\ remote' = remote
  BY Quiet DEF remoteVars
<1>0. /\ r \in Refund /\ n \in Nat /\ n <= Gone /\ remote[r] = "succeeded"
      /\ row' = [row EXCEPT ![r] = "SUCCEEDED"] /\ known' = known \cup {r}
      /\ total' = Raised(n) /\ state' = IF full THEN "REFUNDED" ELSE state
      /\ full \in BOOLEAN /\ (full <=> n >= Paid) /\ Outcome(job[w].from, full)
  BY DEF GiveBack
<1> HIDE DEF r, n, full
<1>3. /\ status' \in OrderStatuses /\ sales' \in Int /\ lost' \in BOOLEAN
      /\ status' = "REFUNDED" => n >= Paid \/ status = "REFUNDED"
  BY <1>0, <1>1, OutcomeIsAMove
<1>4. row' \in [Refund -> RowStates] /\ \A q \in Refund : row'[q] = "SUCCEEDED" =>
        q = r \/ row[q] = "SUCCEEDED"
  BY <1>0, <1>1 DEF RowStates
<1>5. RowsAreTrue'
  BY <1>0, <1>2, <1>4 DEF RowsAreTrue, Faithful
<1>6. total' \in Nat /\ total' <= Gone
  BY <1>0, <1>1, <1>2 DEF Raised, Faithful, BooksAreTrue
<1>7. state' \in {"SUCCEEDED", "REFUNDED"} /\ known' \subseteq Refund
  BY <1>0, <1>1
<1>8. state' = "REFUNDED" \/ status' = "REFUNDED" => Gone >= Paid
  BY <1>0, <1>2, <1>3, RefundsAssumption DEF Faithful, BooksAreTrue
<1>9. BooksAreTrue'
  BY <1>2, <1>6, <1>8 DEF BooksAreTrue
<1> QED BY <1>3, <1>4, <1>5, <1>6, <1>7, <1>9

\* A row that is not written as given back.
LEMMA RowIsWritten ==
  ASSUME Faithful, NEW r \in Refund, NEW to \in RowStates \ {"SUCCEEDED"},
         row' = [row EXCEPT ![r] = to], UNCHANGED <<payVars, remoteVars, size>>
  PROVE  /\ status' \in OrderStatuses /\ sales' \in Int /\ state' \in {"SUCCEEDED", "REFUNDED"}
         /\ total' \in Nat /\ row' \in [Refund -> RowStates] /\ lost' \in BOOLEAN
         /\ RowsAreTrue' /\ BooksAreTrue'
<1>1. Gone' = Gone /\ remote' = remote
  BY Quiet DEF remoteVars
<1>2. row \in [Refund -> RowStates]
  BY DEF Faithful, RefundTypeOK
<1>3. RowsAreTrue'
  BY <1>1, <1>2 DEF RowsAreTrue, Faithful
<1>4. BooksAreTrue'
  BY <1>1 DEF BooksAreTrue, Faithful, payVars
<1> QED BY <1>2, <1>3, <1>4 DEF Faithful, RefundTypeOK, payVars

LEMMA AnswersAreKnown ==
  \A a \in RemoteStates :
    /\ RefundStatusFrom(a) \in {"PENDING", "SUCCEEDED", "FAILED"}
    /\ RefundStatusFrom(a) = "SUCCEEDED" <=> a = "succeeded"
    /\ RefundStatusFrom(a) = "FAILED" <=> a = "failed"
BY DEF RefundStatusFrom, RemoteStates

LEMMA BookCalls ==
  ASSUME Faithful, NEW w \in Worker,
         \/ RecordRefusal(w) \/ RecordAnswer(w) \/ Settle(w)
         \/ ApplyRefunded(w) \/ ApplyRefundFailed(w)
  PROVE  Faithful'
<1> DEFINE r == job[w].ref
<1>0. /\ job \in [Worker -> Jobs] /\ handled \subseteq events /\ flagged \subseteq Refund
      /\ crashes \in 0..MaxCrashes /\ known \subseteq Refund
      /\ Says(job[w], remote, Gone) /\ job[w] \in Jobs
  BY DEF Faithful, RefundTypeOK, CallsAreTrue
<1>1. CASE RecordRefusal(w)
  <2>1. r \in Refund
    BY <1>0, <1>1 DEF RecordRefusal, At, Says, PanelSteps
  <2>2. Becomes(w, Idle)
    BY <1>1 DEF RecordRefusal, Return
  <2>3. /\ row' = [row EXCEPT ![r] = "FAILED"] /\ UNCHANGED <<payVars, remoteVars, size>>
        /\ UNCHANGED <<known, flagged, handled, crashes, overlapped>>
    BY <1>1 DEF RecordRefusal
  <2> HIDE DEF r
  <2>4. "FAILED" \in RowStates \ {"SUCCEEDED"}
    BY DEF RowStates
  <2> QED BY <1>0, <2>1, <2>2, <2>3, <2>4, RowIsWritten, IdleIsAJob, IdleSays, QuietStep
<1>2. CASE RecordAnswer(w)
  <2> DEFINE to == RefundStatusFrom(job[w].heard)
  <2>1. r \in Refund /\ job[w].at = "heard"
    BY <1>0, <1>2 DEF RecordAnswer, At, Says, PanelSteps
  <2>2. to \in RowStates \ {"SUCCEEDED"}
    BY <1>0, <1>2, AnswersAreKnown DEF RecordAnswer, Jobs, RowStates
  <2>3. /\ row' = [row EXCEPT ![r] = to] /\ UNCHANGED <<payVars, remoteVars, size>>
        /\ UNCHANGED <<flagged, handled, crashes, overlapped>> /\ known' \subseteq Refund
    BY <1>0, <1>2, <2>1 DEF RecordAnswer
  <2> HIDE DEF r, to
  <2>4. CASE Return(w)
    BY <1>0, <2>1, <2>2, <2>3, <2>4, RowIsWritten, IdleIsAJob, IdleSays, QuietStep DEF Return
  <2>5. CASE Goto(w, "note")
    <3> DEFINE call == [job[w] EXCEPT !.at = "note"]
    <3>1. call \in Jobs /\ Says(call, remote, Gone)
      BY <1>0, <2>1 DEF Jobs, Says, PanelSteps, HookSteps, r
    <3>2. Becomes(w, call)
      BY <2>5 DEF Goto
    <3> QED BY <1>0, <2>1, <2>2, <2>3, <3>1, <3>2, RowIsWritten, QuietStep
  <2> QED BY <1>2, <2>4, <2>5 DEF RecordAnswer
<1>3. CASE Settle(w)
  <2>1. r \in Refund /\ job[w].sum \in Nat /\ job[w].sum <= Gone /\ remote[r] = "succeeded"
    BY <1>0, <1>3 DEF Settle, At, Says, PanelSteps
  <2>2. GiveBack(w) /\ UNCHANGED <<flagged, size, remoteVars, handled, crashes, overlapped>>
    BY <1>3 DEF Settle
  <2>3. Becomes(w, Idle)
    BY <1>3 DEF Settle, Return
  <2> QED BY <1>0, <2>1, <2>2, <2>3, MoneyGoesBack, IdleIsAJob, IdleSays, QuietStep
<1>4. CASE ApplyRefunded(w)
  <2> DEFINE call == Call("finish", r, "refunded", job[w].sum)
  <2>1. r \in Refund /\ job[w].sum \in Nat /\ job[w].sum <= Gone /\ remote[r] = "succeeded"
    BY <1>0, <1>4 DEF ApplyRefunded, At, Says, HookSteps
  <2>2. GiveBack(w) /\ UNCHANGED <<flagged, size, remoteVars, handled, crashes, overlapped>>
    BY <1>4 DEF ApplyRefunded
  <2>3. call \in Jobs /\ Says(call, remote, Gone)
    BY <2>1, IdleIsAJob DEF Call, Says, PanelSteps, HookSteps
  <2>4. Becomes(w, call)
    BY <1>4 DEF ApplyRefunded
  <2> HIDE DEF call
  <2> QED BY <1>0, <2>1, <2>2, <2>3, <2>4, MoneyGoesBack, QuietStep
<1>5. CASE ApplyRefundFailed(w)
  <2> DEFINE call == [job[w] EXCEPT !.at = "tell"]
  <2>1. r \in Refund
    BY <1>0, <1>5 DEF ApplyRefundFailed, At, Says, HookSteps
  <2>2. /\ row' = [row EXCEPT ![r] = "FAILED"] /\ UNCHANGED <<payVars, remoteVars, size>>
        /\ UNCHANGED <<flagged, handled, crashes, overlapped>> /\ known' \subseteq Refund
    BY <1>0, <1>5, <2>1 DEF ApplyRefundFailed
  <2>3. call \in Jobs /\ Says(call, remote, Gone)
    BY <1>0, <1>5 DEF ApplyRefundFailed, At, Jobs, Says, PanelSteps, HookSteps
  <2>4. Becomes(w, call)
    BY <1>5 DEF ApplyRefundFailed, Goto
  <2> HIDE DEF r, call
  <2>5. "FAILED" \in RowStates \ {"SUCCEEDED"}
    BY DEF RowStates
  <2> QED BY <1>0, <2>1, <2>2, <2>3, <2>4, <2>5, RowIsWritten, QuietStep
<1> QED BY <1>1, <1>2, <1>3, <1>4, <1>5
-----------------------------------------------------------------------------
(***************************************************************************)
(* What the processor does, and the row that is written before it is asked.*)
(***************************************************************************)
\* Sums while only the amount of a refund changes that is not in them.
LEMMA AmountIsNew ==
  ASSUME Faithful, NEW r \in Refund, NEW n, size' = [size EXCEPT ![r] = n]
  PROVE  \A S : r \notin S => SumOf(size', S) = SumOf(size, S)
<1>1. size \in [Refund -> 0..Paid]
  BY DEF Faithful, RefundTypeOK
<1>2. \A q \in Refund \ {r} : size'[q] = size[q]
  BY <1>1
<1> SUFFICES ASSUME NEW S, r \notin S PROVE SumOf(size', S) = SumOf(size, S)
  OBVIOUS
<1>3. \A q \in S \cap Refund : size'[q] = size[q]
  BY <1>2
<1> HIDE DEF Faithful
<1>4. UnitsOf(size', S) = UnitsOf(size, S)
  BY <1>3 DEF UnitsOf
<1> QED BY <1>4 DEF SumOf

LEMMA RowComesFirst ==
  ASSUME Faithful, NEW w \in Worker, NEW r \in Refund, CreateRow(w, r)
  PROVE  Faithful'
<1> DEFINE call == Call("ask", r, "none", 0)
<1>0. /\ job \in [Worker -> Jobs] /\ row \in [Refund -> RowStates] /\ size \in [Refund -> 0..Paid]
      /\ job[w].sum \in 1..Paid
  BY DEF Faithful, RefundTypeOK, CallsAreTrue, CreateRow, At, Says
<1>1. remote[r] = "none" /\ size' = [size EXCEPT ![r] = job[w].sum] /\ UNCHANGED remoteVars
  BY DEF CreateRow, Fresh
<1>2. r \notin Live /\ r \notin Back
  BY <1>1 DEF Live, Back, RemoteIn
<1>3. Gone' = SumOf(size', Back) /\ UnderWay' = SumOf(size', Live)
  BY <1>1 DEF Gone, UnderWay, Back, Live, RemoteIn, remoteVars
<1>4. Gone' = Gone /\ UnderWay' = UnderWay
  BY <1>1, <1>2, <1>3, AmountIsNew DEF Gone, UnderWay
<1>5. Forward /\ Gone \in Nat /\ remote' = remote
  BY <1>1, <1>4, UnitsAreFinite DEF Forward, Gone, remoteVars
<1>6. call \in Jobs /\ Says(call, remote', Gone')
  BY DEF Jobs, Call, Says, PanelSteps, HookSteps, RemoteStates
<1>7. CallsAreTrue' /\ job' \in [Worker -> Jobs]
  BY <1>5, <1>6, CallMoves DEF CreateRow, Becomes
<1>8. row' \in [Refund -> RowStates] /\ RowsAreTrue'
  BY <1>0, <1>5 DEF CreateRow, RowStates, RowsAreTrue, Faithful
<1>9. size' \in [Refund -> 0..Paid]
  BY <1>0, <1>1, RefundsAssumption
<1>10. RefundTypeOK'
  BY <1>7, <1>8, <1>9 DEF CreateRow, RefundTypeOK, Faithful, payVars, remoteVars
<1>11. EventsAreTrue' /\ BooksAreTrue' /\ Cap'
  BY <1>1, <1>4, <1>5
     DEF EventsAreTrue, BooksAreTrue, Cap, Watched, Faithful, CreateRow, payVars, remoteVars
<1> QED BY <1>7, <1>8, <1>10, <1>11 DEF Faithful

\* A refund comes under way: nothing has gone back by it yet.
LEMMA RefundStarts ==
  ASSUME Faithful, NEW r \in Refund, remote[r] = "none", remote' = [remote EXCEPT ![r] = "pending"],
         \/ size' = size
         \/ \E n \in 1..Paid : size' = [size EXCEPT ![r] = n],
         UNCHANGED <<events, payVars>>
  PROVE  /\ Forward /\ Gone' = Gone /\ EventsAreTrue' /\ BooksAreTrue'
         /\ remote' \in [Refund -> RemoteStates] /\ size' \in [Refund -> 0..Paid]
         /\ Live' = Live \cup {r} /\ SumOf(size', Live) = UnderWay
<1>1. remote \in [Refund -> RemoteStates] /\ size \in [Refund -> 0..Paid] /\ events \subseteq Event
  BY DEF Faithful, RefundTypeOK
<1>2. remote' \in [Refund -> RemoteStates] /\ size' \in [Refund -> 0..Paid]
  BY <1>1, RefundsAssumption DEF RemoteStates
<1>3. Back' = Back /\ Live' = Live \cup {r} /\ r \notin Back /\ r \notin Live
  BY <1>1 DEF Back, Live, RemoteIn
<1>4. \A S : r \notin S => SumOf(size', S) = SumOf(size, S)
  <2>1. CASE size' = size
    BY <2>1
  <2>2. CASE \E n \in 1..Paid : size' = [size EXCEPT ![r] = n]
    <3>1. PICK n \in 1..Paid : size' = [size EXCEPT ![r] = n]
      BY <2>2
    <3> QED BY <3>1, AmountIsNew
  <2> QED BY <2>1, <2>2
<1>5. SumOf(size', Live) = UnderWay /\ SumOf(size', Back) = Gone
  BY <1>3, <1>4 DEF UnderWay, Gone
<1>6. Gone' = Gone
  BY <1>3, <1>5 DEF Gone
<1>7. Gone \in Nat
  BY UnitsAreFinite DEF Gone
<1>8. Forward
  BY <1>1, <1>6, <1>7 DEF Forward
<1>9. EventsAreTrue'
  <2> SUFFICES ASSUME NEW e \in events
               PROVE  /\ remote'[e[2]] = IF e[1] = "refunded" THEN "succeeded" ELSE "failed"
                      /\ e[3] <= Gone
    BY <1>6 DEF EventsAreTrue
  <2>1. e[2] \in Refund /\ remote[e[2]] = (IF e[1] = "refunded" THEN "succeeded" ELSE "failed")
        /\ e[3] <= Gone
    BY <1>1 DEF Faithful, EventsAreTrue, Event
  <2>2. remote'[e[2]] = remote[e[2]]
    BY <1>8, <2>1 DEF Forward
  <2> QED BY <2>1, <2>2
<1>10. BooksAreTrue'
  BY <1>6 DEF BooksAreTrue, Faithful, payVars
<1> QED BY <1>2, <1>3, <1>5, <1>6, <1>8, <1>9, <1>10
LEMMA ProcessorIsAsked ==
  ASSUME Faithful, NEW w \in Worker, Ask(w), strict \/ Cap'
  PROVE  Faithful'
<1> DEFINE r == job[w].ref
<1>0. /\ job \in [Worker -> Jobs] /\ job[w] \in Jobs /\ r \in Refund /\ size \in [Refund -> 0..Paid]
      /\ job[w].at = "ask" /\ remote[r] \in RemoteStates /\ remote \in [Refund -> RemoteStates]
  BY DEF Faithful, RefundTypeOK, CallsAreTrue, Ask, At, Says, PanelSteps
<1>1. /\ UNCHANGED <<payVars, rowVars, size, strict, events, handled, crashes, overlapped>>
      /\ \/ /\ remote' = [remote EXCEPT ![r] = "pending"] /\ remote[r] = "none"
            /\ (strict => Fits(size[r])) /\ Goto(w, "wait")
         \/ /\ UNCHANGED remote
            /\ (remote[r] # "none" /\ Goto(w, "wait")) \/ Goto(w, "refused")
  BY DEF Ask
<1>2. \A step \in {"wait", "refused"} :
        LET call == [job[w] EXCEPT !.at = step] IN
        /\ call \in Jobs
        /\ \A rem, n : (step = "wait" => rem[r] # "none") => Says(call, rem, n)
  BY <1>0 DEF Jobs, Says, PanelSteps, HookSteps
<1>3. /\ Forward /\ EventsAreTrue' /\ BooksAreTrue' /\ remote' \in [Refund -> RemoteStates]
      /\ Cap'
  <2>1. CASE remote' = [remote EXCEPT ![r] = "pending"] /\ remote[r] = "none"
    <3>1. size' = size /\ UNCHANGED <<events, payVars>>
      BY <1>1
    <3>2. /\ Forward /\ EventsAreTrue' /\ BooksAreTrue' /\ remote' \in [Refund -> RemoteStates]
          /\ Live' = Live \cup {r}
      BY <1>0, <2>1, <3>1, RefundStarts
    <3>3. strict => Cap'
      <4> SUFFICES ASSUME strict PROVE Cap'
        OBVIOUS
      <4>1. size[r] + UnderWay <= Paid
        <5>1. remote'[r] # remote[r]
          BY <1>0, <2>1
        <5>2. Fits(size[r])
          BY <1>1, <5>1
        <5> QED BY <5>2, SumIsSumOf DEF Fits, UnderWay, Live
      <4>2. UnderWay' = SumOf(size, Live \cup {r})
        BY <3>1, <3>2 DEF UnderWay
      <4>3. SumOf(size, Live \cup {r}) <= UnderWay + size[r]
        BY <1>0, SumAdds DEF UnderWay
      <4>4. UnderWay \in Nat /\ UnderWay' \in Nat /\ size[r] \in Nat
        BY <1>0, <4>2, UnitsAreFinite, RefundsAssumption DEF UnderWay
      <4> QED BY <4>1, <4>2, <4>3, <4>4, RefundsAssumption DEF Cap
    <3> QED BY <3>2, <3>3
  <2>2. CASE UNCHANGED remote
    <3>1. UNCHANGED <<remote, size, events, payVars>>
      BY <1>1, <2>2
    <3>2. Forward /\ EventsAreTrue' /\ Cap' /\ Gone' = Gone
      BY <1>1, <3>1, Quiet DEF Watched
    <3>3. BooksAreTrue' /\ remote' \in [Refund -> RemoteStates]
      BY <3>1, <3>2 DEF BooksAreTrue, Faithful, RefundTypeOK, payVars
    <3> QED BY <3>2, <3>3
  <2> QED BY <1>1, <2>1, <2>2
<1>4. CallsAreTrue' /\ job' \in [Worker -> Jobs]
  <2>1. PICK step \in {"wait", "refused"} : Goto(w, step) /\ (step = "wait" => remote'[r] # "none")
    <3>1. CASE remote' = [remote EXCEPT ![r] = "pending"] /\ Goto(w, "wait")
      <4>1. remote'[r] = "pending"
        BY <1>0, <3>1 DEF Faithful, RefundTypeOK
      <4> QED BY <3>1, <4>1
    <3>2. CASE UNCHANGED remote
      <4>1. (remote[r] # "none" /\ Goto(w, "wait")) \/ Goto(w, "refused")
        <5>1. remote[r] = "none" => remote' # [remote EXCEPT ![r] = "pending"]
          BY <1>0, <3>2
        <5> QED BY <1>1, <5>1
      <4>2. CASE remote[r] # "none" /\ Goto(w, "wait")
        BY <3>2, <4>2
      <4>3. CASE Goto(w, "refused")
        BY <4>3
      <4> QED BY <4>1, <4>2, <4>3
    <3> QED BY <1>1, <3>1, <3>2
  <2> DEFINE call == [job[w] EXCEPT !.at = step]
  <2>2. call \in Jobs /\ Says(call, remote', Gone')
    BY <1>2, <2>1
  <2>3. job' = [job EXCEPT ![w] = call]
    BY <2>1 DEF Goto, Becomes
  <2> HIDE DEF call
  <2> QED BY <1>3, <2>2, <2>3, CallMoves
<1>5. RowsAreTrue'
  BY <1>1, <1>3 DEF RowsAreTrue, Faithful, Forward, rowVars
<1>6. RefundTypeOK'
  BY <1>1, <1>3, <1>4 DEF RefundTypeOK, Faithful, payVars, rowVars
<1> QED BY <1>3, <1>4, <1>5, <1>6 DEF Faithful

LEMMA DashboardRefunds ==
  ASSUME Faithful, NEW r \in Refund, NEW n \in 1..Paid, Dashboard(r, n)
  PROVE  Faithful'
<1>1. /\ strict /\ remote[r] = "none" /\ Fits(n)
      /\ size' = [size EXCEPT ![r] = n] /\ remote' = [remote EXCEPT ![r] = "pending"]
      /\ UNCHANGED <<payVars, rowVars, strict, events, handled, job, crashes, overlapped>>
  BY DEF Dashboard, Fresh
<1>2. /\ Forward /\ Gone' = Gone /\ EventsAreTrue' /\ BooksAreTrue'
      /\ remote' \in [Refund -> RemoteStates] /\ size' \in [Refund -> 0..Paid]
      /\ Live' = Live \cup {r} /\ SumOf(size', Live) = UnderWay
  BY <1>1, RefundStarts
<1>3. Cap'
  <2>1. n + UnderWay <= Paid
    BY <1>1, SumIsSumOf DEF Fits, UnderWay, Live
  <2>2. size'[r] = n
    BY <1>1 DEF Faithful, RefundTypeOK
  <2>3. SumOf(size', Live \cup {r}) <= SumOf(size', Live) + n
    <3>1. size'[r] \in 0..Paid
      BY <1>2
    <3> HIDE DEF Faithful
    <3> QED BY <2>2, <3>1, SumAdds
  <2>4. UnderWay' = SumOf(size', Live \cup {r})
    BY <1>2 DEF UnderWay
  <2>5. UnderWay \in Nat /\ UnderWay' \in Nat
    BY <2>4, UnitsAreFinite DEF UnderWay
  <2> QED BY <1>2, <2>1, <2>3, <2>4, <2>5, RefundsAssumption DEF Cap
<1>4. CallsAreTrue'
  <2> SUFFICES ASSUME NEW w \in Worker PROVE Says(job[w], remote', Gone')
    BY <1>1 DEF CallsAreTrue
  <2>1. Says(job[w], remote, Gone) /\ job[w].sum \in Int
    BY DEF Faithful, RefundTypeOK, CallsAreTrue, Jobs
  <2>2. Gone \in Nat /\ Gone' \in Nat
    BY <1>2, UnitsAreFinite DEF Gone
  <2> QED BY <1>2, <2>1, <2>2, StillSaid DEF Forward
<1>5. RowsAreTrue'
  BY <1>1, <1>2 DEF RowsAreTrue, Faithful, Forward, rowVars
<1>6. RefundTypeOK'
  BY <1>1, <1>2 DEF RefundTypeOK, Faithful, payVars, rowVars
<1> QED BY <1>2, <1>3, <1>4, <1>5, <1>6 DEF Faithful

LEMMA GatewayAnswers ==
  ASSUME Faithful, NEW r \in Refund, NEW kind \in {"refunded", "failed"}, Complete(r, kind)
  PROVE  Faithful'
<1> DEFINE end == IF kind = "refunded" THEN "succeeded" ELSE "failed"
           n == Sum({q \in Refund : remote'[q] = "succeeded"})
<1>0. remote \in [Refund -> RemoteStates] /\ size \in [Refund -> 0..Paid]
  BY DEF Faithful, RefundTypeOK
<1>1. /\ remote[r] = "pending" /\ remote' = [remote EXCEPT ![r] = end]
      /\ events' = events \cup {<<kind, r, n>>}
      /\ UNCHANGED <<payVars, rowVars, size, strict, handled, job, crashes, overlapped>>
  BY DEF Complete
<1>2. remote' \in [Refund -> RemoteStates]
  BY <1>0, <1>1 DEF RemoteStates
<1>3. Back \subseteq Back' /\ Back' \subseteq Live /\ Live' \subseteq Live
  BY <1>0, <1>1, <1>2 DEF Back, Live, RemoteIn
<1>4. Gone \in Nat /\ Gone' \in Nat /\ UnderWay \in Nat /\ UnderWay' \in Nat
  BY UnitsAreFinite DEF Gone, UnderWay
<1>5. Gone <= Gone' /\ Gone' <= UnderWay /\ UnderWay' <= UnderWay
  BY <1>1, <1>3, SumGrows DEF Gone, UnderWay
<1>6. Forward
  BY <1>0, <1>1, <1>5 DEF Forward
<1>7. n = Gone' /\ n \in Nat
  BY <1>1, <1>4, SumIsSumOf DEF Gone, Back, RemoteIn
<1> HIDE DEF n
<1>8. EventsAreTrue'
  <2> SUFFICES ASSUME NEW e \in events'
               PROVE  /\ remote'[e[2]] = IF e[1] = "refunded" THEN "succeeded" ELSE "failed"
                      /\ e[3] <= Gone'
    BY DEF EventsAreTrue
  <2>1. CASE e = <<kind, r, n>>
    BY <1>0, <1>1, <1>4, <1>7, <2>1
  <2>2. CASE e \in events
    <3>1. /\ e[2] \in Refund /\ e[3] \in Nat /\ e[3] <= Gone
          /\ remote[e[2]] = (IF e[1] = "refunded" THEN "succeeded" ELSE "failed")
      BY <2>2 DEF Faithful, RefundTypeOK, EventsAreTrue, Event
    <3>2. remote'[e[2]] = remote[e[2]]
      BY <1>6, <3>1 DEF Forward
    <3> QED BY <1>4, <1>5, <3>1, <3>2, RefundsAssumption
  <2> QED BY <1>1, <2>1, <2>2
<1>9. CallsAreTrue'
  <2> SUFFICES ASSUME NEW w \in Worker PROVE Says(job[w], remote', Gone')
    BY <1>1 DEF CallsAreTrue
  <2>1. Says(job[w], remote, Gone) /\ job[w].sum \in Int
    BY DEF Faithful, RefundTypeOK, CallsAreTrue, Jobs
  <2> QED BY <1>4, <1>6, <2>1, StillSaid DEF Forward
<1>10. RowsAreTrue'
  BY <1>1, <1>6 DEF RowsAreTrue, Faithful, Forward, rowVars
<1>11. BooksAreTrue' /\ Cap'
  <2>1. total \in Nat /\ total <= Gone /\ (Watched => UnderWay <= Paid) /\ (Watched' => Watched)
        /\ (state = "REFUNDED" \/ status = "REFUNDED" => Gone >= Paid)
    BY <1>1 DEF Faithful, RefundTypeOK, BooksAreTrue, Cap, Watched
  <2> QED BY <1>1, <1>4, <1>5, <2>1, RefundsAssumption DEF BooksAreTrue, Cap, payVars
<1>12. <<kind, r, n>> \in Event
  BY <1>7 DEF Event
<1>13. RefundTypeOK'
  BY <1>1, <1>2, <1>12 DEF RefundTypeOK, Faithful, payVars, rowVars
<1> QED BY <1>8, <1>9, <1>10, <1>11, <1>13 DEF Faithful
-----------------------------------------------------------------------------
(***************************************************************************)
(* A processor without a check: the cap holds by the rows alone.           *)
(***************************************************************************)
\* Whatever is under way is owed by a row.
LEMMA OwedIsACap ==
  ASSUME HasRow', FailedIsFailed', OwedFits',
         row' \in [Refund -> RowStates], remote' \in [Refund -> RemoteStates]
  PROVE  Cap'
<1>1. Live' \subseteq Owed'
  BY DEF HasRow, FailedIsFailed, Live, Owed, RemoteIn, RowsIn, RowStates, RemoteStates
<1>2. UnderWay' <= SumOf(size', Owed')
  BY <1>1, SumGrows DEF UnderWay
<1>3. UnderWay' \in Nat /\ SumOf(size', Owed') \in Nat
  BY UnitsAreFinite DEF UnderWay
<1>4. SumOf(size', Owed') <= Paid
  BY DEF OwedFits
<1> QED BY <1>2, <1>3, <1>4, RefundsAssumption DEF Cap

\* A call moves on, and owes nothing that was not owed.
LEMMA BlindStep ==
  ASSUME Faithful, Blind, Sole, NEW w \in Worker, NEW call \in Jobs, Becomes(w, call),
         call.at \in PanelSteps => job[w].at \in PanelSteps \/ Alone(w),
         HasRow', FailedIsFailed', size' = size,
         call.at = "refused" => remote'[call.ref] = "none",
         call.at \in {"ask", "refused"} /\ remote'[call.ref] = "none" => row'[call.ref] = "PENDING",
         \/ job[w].at \in PanelSteps
         \/ /\ UNCHANGED remote
            /\ \A q \in Refund : remote[q] = "none" => row'[q] = row[q],
         \A q \in Refund : row'[q] \in {"PENDING", "SUCCEEDED"} => q \in Owed,
         call.at \in Asking => call.ref \in Owed,
         call.at = "create" => SumOf(size, Owed) + call.sum <= Paid
  PROVE  Blind'
<1>1. /\ OneCall /\ AsksAreOwed /\ OwedFits
      /\ job \in [Worker -> Jobs] /\ \A v \in Worker : Says(job[v], remote, Gone)
  BY DEF Blind, Faithful, RefundTypeOK, CallsAreTrue
<1>2. job'[w] = call /\ \A v \in Worker \ {w} : job'[v] = job[v]
  BY <1>1 DEF Becomes
<1>3. OneCall'
  BY <1>1, <1>2 DEF OneCall, Alone
<1>4. AsksAreOwed'
  <2> SUFFICES ASSUME NEW v \in Worker
               PROVE  /\ job'[v].at = "refused" => remote'[job'[v].ref] = "none"
                      /\ job'[v].at \in {"ask", "refused"} /\ remote'[job'[v].ref] = "none"
                           => row'[job'[v].ref] = "PENDING"
    BY DEF AsksAreOwed, At
  <2>1. CASE v = w
    BY <1>2, <2>1
  <2>2. CASE v # w /\ job[v].at \in {"ask", "refused"}
    <3>1. job[v].ref \in Refund /\ job[v].at \in PanelSteps
      BY <1>1, <2>2 DEF Says, PanelSteps
    <3>2. job[w].at \notin PanelSteps
      BY <1>1, <2>2, <3>1 DEF OneCall
    <3> QED BY <1>1, <1>2, <2>2, <3>1, <3>2 DEF AsksAreOwed, At
  <2> QED BY <1>2, <2>1, <2>2
<1>5. Owed' \subseteq Owed
  <2>1. \A v \in Worker : job'[v].at \in Asking => job'[v].ref \in Owed
    BY <1>2 DEF Owed
  <2> QED BY <2>1 DEF Owed, RowsIn
<1>6. OwedFits'
  <2>1. SumOf(size, Owed') <= SumOf(size, Owed)
    BY <1>5, SumGrows
  <2>2. SumOf(size, Owed') \in Nat /\ SumOf(size, Owed) \in Nat
    BY UnitsAreFinite
  <2>3. \A v \in Worker : job'[v].at = "create" => /\ job'[v].sum \in Int
                                                   /\ SumOf(size, Owed) + job'[v].sum <= Paid
    BY <1>1, <1>2 DEF OwedFits, At, Jobs
  <2>4. SumOf(size', Owed') = SumOf(size, Owed')
    OBVIOUS
  <2>5. SumOf(size, Owed) <= Paid
    BY <1>1 DEF OwedFits
  <2> HIDE DEF Faithful, Blind
  <2>6. ASSUME NEW v \in Worker, job'[v].at = "create"
        PROVE  SumOf(size', Owed') + job'[v].sum <= Paid
    BY <2>1, <2>2, <2>3, <2>4, <2>6, RefundsAssumption
  <2> QED BY <2>1, <2>2, <2>4, <2>5, <2>6, RefundsAssumption DEF OwedFits, At
<1> QED BY <1>3, <1>4, <1>6 DEF Blind
\* A call that writes no row.
LEMMA BlindQuiet ==
  ASSUME Faithful, Blind, Sole, NEW w \in Worker, NEW call \in Jobs, Becomes(w, call),
         call.at \in PanelSteps => job[w].at \in PanelSteps \/ Alone(w),
         UNCHANGED <<row, size, remote>>,
         call.at # "refused", call.at = "ask" => row[call.ref] = "PENDING",
         call.at \in Asking => call.ref \in Owed,
         call.at = "create" => SumOf(size, Owed) + call.sum <= Paid
  PROVE  Blind'
<1>1. HasRow' /\ FailedIsFailed'
  BY DEF Blind, HasRow, FailedIsFailed
<1>2. \A q \in Refund : row'[q] \in {"PENDING", "SUCCEEDED"} => q \in Owed
  BY DEF Owed, RowsIn
<1>3. /\ call.at = "refused" => remote'[call.ref] = "none"
      /\ call.at \in {"ask", "refused"} /\ remote'[call.ref] = "none" => row'[call.ref] = "PENDING"
  OBVIOUS
<1>4. UNCHANGED remote /\ \A q \in Refund : remote[q] = "none" => row'[q] = row[q]
  OBVIOUS
<1> HIDE DEF Faithful, Blind
<1> QED BY <1>1, <1>2, <1>3, <1>4, BlindStep

LEMMA BlindPanel ==
  ASSUME Faithful, Blind, Sole, Sole', NEW w \in Worker,
         \/ \E n \in 1..Paid : StartRefund(w, n)
         \/ \E r \in Refund : RetryRefund(w, r)
         \/ Hear(w) \/ Lose(w) \/ AddUp(w) \/ Read(w) \/ Note(w)
         \/ \E e \in events : Deliver(w, e)
         \/ Finish(w) \/ Crash(w)
  PROVE  Blind'
<1> USE DEF rowVars, remoteVars
<1>0. /\ job \in [Worker -> Jobs] /\ Says(job[w], remote, Gone) /\ job[w] \in Jobs
      /\ remote \in [Refund -> RemoteStates] /\ events \subseteq Event
  BY DEF Faithful, RefundTypeOK, CallsAreTrue
<1>1. ASSUME NEW n \in 1..Paid, StartRefund(w, n) PROVE Blind'
  <2> DEFINE call == Call("create", NoRefund, "none", n)
  <2>1. call \in Jobs
    BY DEF Jobs, Call, PanelSteps, RemoteStates
  <2>2. call.at = "create" /\ call.sum = n
    BY DEF Call
  <2>0. Alone(w)
    BY <1>1 DEF StartRefund, Started, Sole
  <2>3. Owed \cap Refund \subseteq RowsIn({"PENDING", "SUCCEEDED"})
    BY <1>1, <2>0 DEF StartRefund, At, Alone, Owed, Asking, PanelSteps
  <2>4. SumOf(size, Owed) <= Committed
    BY <2>3, SumGrows, SumIsSumOf DEF Committed
  <2>5. Committed \in Nat /\ SumOf(size, Owed) \in Nat
    BY SumIsSumOf, UnitsAreFinite DEF Committed
  <2>6. SumOf(size, Owed) + call.sum <= Paid
    BY <1>1, <2>2, <2>4, <2>5, RefundsAssumption DEF StartRefund
  <2>7. Becomes(w, call) /\ UNCHANGED <<row, size, remote>> /\ Alone(w)
    BY <1>1, <2>0 DEF StartRefund
  <2> HIDE DEF call, Faithful, Blind
  <2> QED BY <2>1, <2>2, <2>6, <2>7, BlindQuiet DEF Asking
<1>2. ASSUME NEW r \in Refund, RetryRefund(w, r) PROVE Blind'
  <2> DEFINE call == Call("ask", r, "none", 0)
  <2>1. call \in Jobs
    BY DEF Jobs, Call, PanelSteps, RemoteStates
  <2>2. call.at = "ask" /\ call.ref = r
    BY DEF Call
  <2>3. row[r] = "PENDING" /\ r \in Owed
    BY <1>2 DEF RetryRefund, Unconfirmed, RowsIn, Owed
  <2>4. Becomes(w, call) /\ UNCHANGED <<row, size, remote>> /\ Alone(w)
    BY <1>2 DEF RetryRefund, Started, Sole
  <2> HIDE DEF call, Faithful, Blind
  <2> QED BY <2>1, <2>2, <2>3, <2>4, BlindQuiet DEF Asking
<1>3. CASE Hear(w)
  <2> DEFINE call == [job[w] EXCEPT !.at = "heard", !.heard = remote[job[w].ref]]
  <2>1. job[w].at = "wait" /\ job[w].ref \in Refund /\ remote[job[w].ref] \in RemoteStates
    BY <1>0, <1>3 DEF Hear, At, Says, PanelSteps
  <2>2. call \in Jobs /\ call.at = "heard" /\ call.ref = job[w].ref
    BY <1>0, <2>1 DEF Jobs, PanelSteps
  <2>3. job[w].ref \in Owed /\ job[w].at \in PanelSteps
    BY <2>1 DEF Owed, Asking, PanelSteps
  <2>4. Becomes(w, call) /\ UNCHANGED <<row, size, remote>>
    BY <1>3 DEF Hear
  <2> HIDE DEF call, Faithful, Blind
  <2> QED BY <2>2, <2>3, <2>4, BlindQuiet DEF Asking
<1>4. CASE AddUp(w)
  <2> DEFINE call == [job[w] EXCEPT !.at = "settle", !.sum = GivenByRows(job[w].ref)]
  <2>1. job[w].at = "heard"
    BY <1>4 DEF AddUp, At
  <2>2. GivenByRows(job[w].ref) \in Int
    BY SumIsSumOf, UnitsAreFinite DEF GivenByRows
  <2>3. ASSUME NEW n \in Int
        PROVE  LET new == [job[w] EXCEPT !.at = "settle", !.sum = n] IN
               new \in Jobs /\ new.at = "settle" /\ new.ref = job[w].ref
    <3>1. "settle" \in PanelSteps
      BY DEF PanelSteps
    <3>2. job[w] \in Jobs
      BY <1>0
    <3> QED BY <3>1, <3>2 DEF Jobs
  <2>4. call \in Jobs /\ call.at = "settle" /\ call.ref = job[w].ref
    BY <2>2, <2>3
  <2>5. job[w].ref \in Owed /\ job[w].at \in PanelSteps
    BY <2>1 DEF Owed, Asking, PanelSteps
  <2> HIDE DEF call
  <2>6. Becomes(w, call) /\ UNCHANGED <<row, size, remote>>
    BY <1>4 DEF AddUp, call
  <2> HIDE DEF Faithful, Blind
  <2> QED BY <2>4, <2>5, <2>6, BlindQuiet DEF Asking
<1>5. CASE Becomes(w, Idle)
  <2>1. UNCHANGED <<row, size, remote>>
    <3>1. ASSUME \E e \in events : Deliver(w, e) PROVE FALSE
      <4>1. PICK e \in events : Deliver(w, e)
        BY <3>1
      <4>2. job'[w] = Call("apply", e[2], e[1], e[3])
        BY <1>0, <4>1 DEF Deliver, Becomes
      <4>3. job'[w] = Idle
        BY <1>0, <1>5 DEF Becomes
      <4> QED BY <4>2, <4>3 DEF Idle, Call
    <3>2. CASE Lose(w) \/ Finish(w) \/ Crash(w) \/ Note(w) \/ Hear(w) \/ AddUp(w) \/ Read(w)
      BY <3>2, ReadIsQuiet DEF Lose, Finish, Crash, Note, Hear, AddUp
    <3>3. CASE \/ \E n \in 1..Paid : StartRefund(w, n)
               \/ \E r \in Refund : RetryRefund(w, r)
      BY <3>3 DEF StartRefund, RetryRefund
    <3> QED BY <3>1, <3>2, <3>3
  <2>2. Idle.at \notin PanelSteps /\ Idle.at \notin Asking
    BY IdleIsAJob DEF PanelSteps, Asking
  <2>3. Idle.at \notin {"refused", "ask", "create"}
    BY IdleIsAJob
  <2> HIDE DEF Faithful, Blind
  <2> QED BY <1>5, <2>1, <2>2, <2>3, IdleIsAJob, BlindQuiet
<1>6. CASE Note(w)
  <2>1. CASE At(w, "tell")
    <3> DEFINE call == [job[w] EXCEPT !.at = "finish"]
    <3>1. call \in Jobs /\ call.at = "finish"
      BY <1>0 DEF Jobs, HookSteps
    <3>2. Becomes(w, call) /\ UNCHANGED <<row, size, remote>>
      BY <1>6, <2>1 DEF Note, Goto
    <3> HIDE DEF call, Faithful, Blind
    <3> QED BY <3>1, <3>2, BlindQuiet DEF PanelSteps, Asking
  <2>2. CASE ~At(w, "tell")
    BY <1>5, <1>6, <2>2 DEF Note, Return
  <2> QED BY <2>1, <2>2
<1>7. ASSUME NEW e \in events, Deliver(w, e) PROVE Blind'
  <2> DEFINE call == Call("apply", e[2], e[1], e[3])
  <2>1. e[1] \in {"refunded", "failed"} /\ e[2] \in Refund /\ e[3] \in Nat
    BY <1>0 DEF Event
  <2>2. call \in Jobs /\ call.at = "apply"
    BY <2>1, RefundsAssumption DEF Jobs, Call, PanelSteps, HookSteps, RemoteStates
  <2>3. Becomes(w, call) /\ UNCHANGED <<row, size, remote>>
    BY <1>7 DEF Deliver
  <2> HIDE DEF call, Faithful, Blind
  <2> QED BY <2>2, <2>3, BlindQuiet DEF PanelSteps, Asking
<1>8. CASE Lose(w) \/ Finish(w) \/ Crash(w)
  BY <1>5, <1>8 DEF Lose, Finish, Crash, Return
<1>9. CASE Read(w)
  <2>1. PICK step \in {"move", "enter"} :
          /\ Becomes(w, Reading(w, step)) /\ Reading(w, step) \in Jobs
          /\ Reading(w, step).at = step /\ Reading(w, step).ref = job[w].ref
          /\ step = "move" => job[w].at = "settle"
    BY <1>9, ReadIsACall
  <2>2. UNCHANGED <<row, size, remote>>
    BY <1>9, ReadIsQuiet
  <2>3. /\ Reading(w, step).at \in PanelSteps => job[w].at \in PanelSteps
        /\ Reading(w, step).at \in Asking => Reading(w, step).ref \in Owed
    BY <2>1 DEF PanelSteps, Asking, Owed
  <2>4. Reading(w, step).at \notin {"refused", "ask", "create"}
    BY <2>1
  <2> HIDE DEF Faithful, Blind
  <2> QED BY <2>1, <2>2, <2>3, <2>4, BlindQuiet
<1> QED BY <1>1, <1>2, <1>3, <1>4, <1>6, <1>7, <1>8, <1>9
\* A call that writes a row: as failed only if nothing came of the refund, as
\* anything else only if it is owed already.
LEMMA BlindWrite ==
  ASSUME Faithful, Blind, Sole, NEW w \in Worker, NEW call \in Jobs, Becomes(w, call),
         call.at \notin Asking \cup {"create"},
         call.at \in PanelSteps => job[w].at \in PanelSteps,
         NEW r \in Refund, NEW to \in {"PENDING", "SUCCEEDED", "FAILED"},
         row' = [row EXCEPT ![r] = to], UNCHANGED <<size, remote>>,
         to = "FAILED" => remote[r] \in {"none", "failed"},
         to # "FAILED" => r \in Owed,
         job[w].at \in PanelSteps \/ remote[r] # "none"
  PROVE  Blind'
<1>1. row \in [Refund -> RowStates] /\ HasRow /\ FailedIsFailed
  BY DEF Faithful, RefundTypeOK, Blind
<1>2. row'[r] = to /\ \A q \in Refund \ {r} : row'[q] = row[q]
  BY <1>1
<1>3. HasRow' /\ FailedIsFailed'
  BY <1>1, <1>2 DEF HasRow, FailedIsFailed
<1>4. \A q \in Refund : row'[q] \in {"PENDING", "SUCCEEDED"} => q \in Owed
  BY <1>2 DEF Owed, RowsIn
<1>5. \/ job[w].at \in PanelSteps
      \/ UNCHANGED remote /\ \A q \in Refund : remote[q] = "none" => row'[q] = row[q]
  BY <1>2
<1>6. call.at \notin {"ask", "refused", "create"}
  BY DEF Asking
<1> HIDE DEF Faithful, Blind
<1> QED BY <1>3, <1>4, <1>5, <1>6, BlindStep

\* What the processor has given back is owed.
LEMMA BackIsOwed ==
  ASSUME Faithful, Blind, Sole, NEW r \in Refund, remote[r] = "succeeded"
  PROVE  r \in Owed
<1>1. row[r] \in RowStates /\ row[r] # "NONE" /\ row[r] # "FAILED"
  BY DEF Faithful, RefundTypeOK, Blind, HasRow, FailedIsFailed
<1> QED BY <1>1 DEF RowStates, Owed, RowsIn

LEMMA BlindBooks ==
  ASSUME Faithful, Blind, Sole, NEW w \in Worker,
         \/ RecordRefusal(w) \/ RecordAnswer(w) \/ Settle(w)
         \/ ApplyRefunded(w) \/ ApplyRefundFailed(w)
  PROVE  Blind'
<1> DEFINE r == job[w].ref
<1> USE DEF remoteVars
<1>0. /\ job \in [Worker -> Jobs] /\ Says(job[w], remote, Gone) /\ job[w] \in Jobs /\ AsksAreOwed
  BY DEF Faithful, RefundTypeOK, CallsAreTrue, Blind
<1>00. Idle \in Jobs /\ Idle.at \notin Asking \cup {"create"} /\ Idle.at \notin PanelSteps
  BY IdleIsAJob DEF PanelSteps, Asking
<1>1. CASE RecordRefusal(w)
  <2>1. r \in Refund /\ job[w].at \in PanelSteps /\ remote[r] = "none"
    BY <1>0, <1>1 DEF RecordRefusal, At, Says, PanelSteps, AsksAreOwed
  <2>2. Becomes(w, Idle) /\ row' = [row EXCEPT ![r] = "FAILED"] /\ UNCHANGED <<size, remote>>
    BY <1>1 DEF RecordRefusal, Return
  <2> HIDE DEF r, Faithful, Blind
  <2> QED BY <1>00, <2>1, <2>2, BlindWrite
<1>2. CASE RecordAnswer(w)
  <2> DEFINE to == RefundStatusFrom(job[w].heard)
             noted == [job[w] EXCEPT !.at = "note"]
  <2>1. r \in Refund /\ job[w].at = "heard" /\ job[w].heard \in RemoteStates
        /\ job[w].heard # "succeeded"
    BY <1>0, <1>2 DEF RecordAnswer, At, Says, PanelSteps, Jobs
  <2>2. to \in {"PENDING", "SUCCEEDED", "FAILED"} /\ (to = "FAILED" => remote[r] = "failed")
    BY <1>0, <2>1, AnswersAreKnown DEF Says
  <2>3. r \in Owed /\ job[w].at \in PanelSteps
    BY <2>1 DEF Owed, Asking, PanelSteps
  <2>4. row' = [row EXCEPT ![r] = to] /\ UNCHANGED <<size, remote>>
    BY <1>2 DEF RecordAnswer
  <2>5. Becomes(w, Idle) \/ Becomes(w, noted)
    BY <1>2 DEF RecordAnswer, Return, Goto
  <2>6. noted \in Jobs /\ noted.at = "note"
    BY <1>0 DEF Jobs, PanelSteps
  <2>7. PICK call \in {Idle, noted} : Becomes(w, call)
    BY <2>5
  <2>8. call \in Jobs /\ call.at \notin Asking \cup {"create"}
    BY <1>00, <2>6 DEF Asking
  <2> HIDE DEF r, to, noted, Faithful, Blind
  <2> QED BY <2>1, <2>2, <2>3, <2>4, <2>7, <2>8, BlindWrite
<1>3. CASE Settle(w)
  <2>1. r \in Refund /\ job[w].at \in PanelSteps /\ remote[r] = "succeeded"
    BY <1>0, <1>3 DEF Settle, At, Says, PanelSteps
  <2>2. Becomes(w, Idle) /\ row' = [row EXCEPT ![r] = "SUCCEEDED"] /\ UNCHANGED <<size, remote>>
    BY <1>3 DEF Settle, Return, GiveBack
  <2> HIDE DEF r, Faithful, Blind
  <2> QED BY <1>00, <2>1, <2>2, BackIsOwed, BlindWrite
<1>4. CASE ApplyRefunded(w)
  <2> DEFINE call == Call("finish", r, "refunded", job[w].sum)
  <2>1. r \in Refund /\ remote[r] = "succeeded" /\ job[w].sum \in Nat
    BY <1>0, <1>4 DEF ApplyRefunded, At, Says, HookSteps
  <2>2. Becomes(w, call) /\ row' = [row EXCEPT ![r] = "SUCCEEDED"] /\ UNCHANGED <<size, remote>>
    BY <1>4 DEF ApplyRefunded, GiveBack
  <2>3. call \in Jobs /\ call.at \notin Asking \cup {"create"} /\ call.at \notin PanelSteps
    BY <2>1, IdleIsAJob DEF Call, HookSteps, Asking, PanelSteps
  <2> HIDE DEF r, call, Faithful, Blind
  <2> QED BY <2>1, <2>2, <2>3, BackIsOwed, BlindWrite
<1>5. CASE ApplyRefundFailed(w)
  <2> DEFINE call == [job[w] EXCEPT !.at = "tell"]
  <2>1. r \in Refund /\ remote[r] = "failed"
    BY <1>0, <1>5 DEF ApplyRefundFailed, At, Says, HookSteps
  <2>2. Becomes(w, call) /\ row' = [row EXCEPT ![r] = "FAILED"] /\ UNCHANGED <<size, remote>>
    BY <1>5 DEF ApplyRefundFailed, Goto
  <2>3. call \in Jobs /\ call.at \notin Asking \cup {"create"} /\ call.at \notin PanelSteps
    BY <1>0 DEF Jobs, HookSteps, Asking, PanelSteps
  <2> HIDE DEF r, call, Faithful, Blind
  <2> QED BY <2>1, <2>2, <2>3, BlindWrite
<1> QED BY <1>1, <1>2, <1>3, <1>4, <1>5

\* The processor is asked: only for a refund whose row is there and counts.
LEMMA BlindAsks ==
  ASSUME Faithful, Blind, Sole, NEW w \in Worker, Ask(w)
  PROVE  Blind' /\ Cap'
<1> DEFINE r == job[w].ref
<1>0. /\ job \in [Worker -> Jobs] /\ job[w] \in Jobs /\ r \in Refund
      /\ job[w].at = "ask" /\ remote \in [Refund -> RemoteStates] /\ row \in [Refund -> RowStates]
      /\ AsksAreOwed /\ HasRow /\ FailedIsFailed
  BY DEF Faithful, RefundTypeOK, CallsAreTrue, Ask, At, Says, PanelSteps, Blind
<1>1. UNCHANGED <<row, size>> /\ job[w].at \in PanelSteps /\ r \in Owed
  BY <1>0 DEF Ask, rowVars, PanelSteps, Owed, Asking
<1>2. \/ remote' = [remote EXCEPT ![r] = "pending"] /\ remote[r] = "none" /\ Goto(w, "wait")
      \/ UNCHANGED remote /\ remote[r] # "none" /\ Goto(w, "wait")
      \/ UNCHANGED remote /\ remote[r] = "none" /\ Goto(w, "refused")
  BY DEF Ask
<1>3. remote[r] = "none" => row[r] = "PENDING"
  BY <1>0 DEF AsksAreOwed
<1>4. HasRow' /\ FailedIsFailed' /\ remote' \in [Refund -> RemoteStates]
  BY <1>0, <1>1, <1>2, <1>3 DEF HasRow, FailedIsFailed, RemoteStates
<1>5. \A q \in Refund : row'[q] \in {"PENDING", "SUCCEEDED"} => q \in Owed
  BY <1>1 DEF Owed, RowsIn
<1>6. PICK step \in {"wait", "refused"} :
        Goto(w, step) /\ (step = "refused" => UNCHANGED remote /\ remote[r] = "none")
  BY <1>2
<1> DEFINE call == [job[w] EXCEPT !.at = step]
<1>7. call \in Jobs /\ call.at = step /\ call.ref = r
  BY <1>0 DEF Jobs, PanelSteps
<1>8. Becomes(w, call)
  BY <1>6 DEF Goto
<1>9. /\ call.at = "refused" => remote'[call.ref] = "none"
      /\ call.at \in {"ask", "refused"} /\ remote'[call.ref] = "none" => row'[call.ref] = "PENDING"
  BY <1>1, <1>3, <1>6, <1>7
<1>10. call.at # "create" /\ (call.at \in Asking => call.ref \in Owed)
  BY <1>1, <1>7
<1> HIDE DEF r, call, Faithful, Blind
<1>11. Blind'
  BY <1>1, <1>4, <1>5, <1>7, <1>8, <1>9, <1>10, BlindStep
<1>12. OwedFits'
  <2>1. Sole'
    BY DEF Sole, Ask
  <2> QED BY <1>11, <2>1 DEF Blind
<1> QED BY <1>0, <1>1, <1>4, <1>11, <1>12, OwedIsACap
\* The row of a new refund, of an amount the call has kept room for.
LEMMA BlindRow ==
  ASSUME Faithful, Blind, Sole, NEW w \in Worker, NEW r \in Refund, CreateRow(w, r)
  PROVE  Blind'
<1> DEFINE call == Call("ask", r, "none", 0)
<1>0. /\ job \in [Worker -> Jobs] /\ job[w].at = "create" /\ job[w].sum \in 1..Paid
      /\ row \in [Refund -> RowStates] /\ size \in [Refund -> 0..Paid]
      /\ row[r] = "NONE" /\ remote[r] = "none" /\ \A v \in Worker : job[v].ref # r
      /\ OneCall /\ HasRow /\ FailedIsFailed /\ AsksAreOwed /\ OwedFits
      /\ \A v \in Worker : Says(job[v], remote, Gone)
  BY DEF Faithful, RefundTypeOK, CallsAreTrue, CreateRow, At, Says, Fresh, Blind
<1>1. /\ row' = [row EXCEPT ![r] = "PENDING"] /\ size' = [size EXCEPT ![r] = job[w].sum]
      /\ remote' = remote /\ Becomes(w, call)
  BY DEF CreateRow, remoteVars
<1>2. call \in Jobs /\ call.at = "ask" /\ call.ref = r
  BY IdleIsAJob DEF Call
<1>3. job'[w] = call /\ \A v \in Worker \ {w} : job'[v] = job[v]
  BY <1>0, <1>1 DEF Becomes
<1>4. row'[r] = "PENDING" /\ size'[r] = job[w].sum /\ \A q \in Refund \ {r} : row'[q] = row[q]
  BY <1>0, <1>1
<1> HIDE DEF call
<1>5. job[w].at \in PanelSteps /\ \A v \in Worker \ {w} : job[v].at \notin PanelSteps
  BY <1>0 DEF OneCall, PanelSteps
<1>6. OneCall'
  BY <1>3, <1>5 DEF OneCall
<1>7. HasRow' /\ FailedIsFailed'
  BY <1>0, <1>1, <1>4 DEF HasRow, FailedIsFailed
<1>8. AsksAreOwed'
  BY <1>2, <1>3, <1>4, <1>5 DEF AsksAreOwed, At, PanelSteps
<1>9. Owed' \subseteq Owed \cup {r} /\ r \notin Owed
  BY <1>0, <1>2, <1>3, <1>4 DEF Owed, RowsIn
<1>10. SumOf(size', Owed \cup {r}) <= SumOf(size, Owed) + job[w].sum
  <2>1. SumOf(size', Owed) = SumOf(size, Owed)
    BY <1>1, <1>9, AmountIsNew
  <2>2. size'[r] \in 0..Paid
    BY <1>0, <1>4, RefundsAssumption
  <2> HIDE DEF Faithful, Blind
  <2> QED BY <1>4, <2>1, <2>2, SumAdds
<1>11. SumOf(size, Owed) + job[w].sum <= Paid
  BY <1>0 DEF OwedFits, At
<1>12. SumOf(size', Owed') <= SumOf(size', Owed \cup {r})
  BY <1>9, SumGrows
<1>13. /\ SumOf(size', Owed') \in Nat /\ SumOf(size', Owed \cup {r}) \in Nat
       /\ SumOf(size, Owed) \in Nat
  BY UnitsAreFinite
<1>14. SumOf(size', Owed') <= Paid
  BY <1>0, <1>10, <1>11, <1>12, <1>13, RefundsAssumption
<1>15. \A v \in Worker : job'[v].at # "create"
  BY <1>2, <1>3, <1>5 DEF PanelSteps
<1>16. OwedFits'
  BY <1>14, <1>15 DEF OwedFits, At
<1> QED BY <1>6, <1>7, <1>8, <1>16 DEF Blind

\* The gateway's verdict takes nothing that was not owed.
LEMMA BlindGateway ==
  ASSUME Faithful, Blind, Sole, NEW r \in Refund, NEW kind \in {"refunded", "failed"},
         Complete(r, kind)
  PROVE  Blind'
<1> DEFINE end == IF kind = "refunded" THEN "succeeded" ELSE "failed"
<1>0. /\ remote \in [Refund -> RemoteStates] /\ remote[r] = "pending"
      /\ remote' = [remote EXCEPT ![r] = end] /\ UNCHANGED <<row, size, job>>
      /\ OneCall /\ HasRow /\ FailedIsFailed /\ AsksAreOwed /\ OwedFits
  BY DEF Faithful, RefundTypeOK, Complete, rowVars, Blind
<1>1. remote'[r] \in {"succeeded", "failed"} /\ \A q \in Refund \ {r} : remote'[q] = remote[q]
  BY <1>0
<1>2. HasRow' /\ FailedIsFailed'
  BY <1>0, <1>1 DEF HasRow, FailedIsFailed
<1>3. \A w \in Worker : job[w].at \in {"ask", "refused"} => job[w].ref \in Refund
  BY DEF Faithful, CallsAreTrue, Says, PanelSteps
<1>4. AsksAreOwed'
  BY <1>0, <1>1, <1>3 DEF AsksAreOwed, At
<1>5. OneCall' /\ OwedFits'
  BY <1>0 DEF OneCall, OwedFits, Owed, RowsIn, At, SumOf, UnitsOf
<1> QED BY <1>2, <1>4, <1>5 DEF Blind
-----------------------------------------------------------------------------
(***************************************************************************)
(* Together.                                                               *)
(***************************************************************************)
Sound == Faithful /\ Blind

LEMMA ItStartsSound == Init => Sound
<1> SUFFICES ASSUME Init PROVE Sound
  OBVIOUS
<1>1. RefundTypeOK
  <2>1. status \in OrderStatuses /\ sales \in Int
    BY DEF Init, OrderStatuses
  <2>4. lost \in BOOLEAN /\ overlapped \in BOOLEAN
    BY Zenon DEF Init
  <2>2. job \in [Worker -> Jobs] /\ crashes \in 0..MaxCrashes
    BY RefundsAssumption, IdleIsAJob DEF Init
  <2>3. row \in [Refund -> RowStates] /\ size \in [Refund -> 0..Paid]
        /\ remote \in [Refund -> RemoteStates]
    BY RefundsAssumption DEF Init, RowStates, RemoteStates
  <2> QED BY <2>1, <2>2, <2>3, <2>4 DEF Init, RefundTypeOK
<1>2. Live = {} /\ Back = {}
  BY DEF Init, Live, Back, RemoteIn
<1>3. SumOf(size, {}) = 0
  <2>1. UnitsOf(size, {}) = {}
    BY DEF UnitsOf
  <2> QED BY <2>1, FS_EmptySet DEF SumOf
<1>4. Gone = 0 /\ UnderWay = 0
  BY <1>2, <1>3 DEF Gone, UnderWay
<1>5. \A w \in Worker : job[w].at = "idle"
  BY IdleIsAJob DEF Init
<1>6. CallsAreTrue /\ EventsAreTrue /\ RowsAreTrue
  BY <1>5 DEF Init, CallsAreTrue, Says, PanelSteps, HookSteps, EventsAreTrue, RowsAreTrue
<1>7. BooksAreTrue /\ Cap
  BY <1>4, RefundsAssumption DEF Init, BooksAreTrue, Cap
<1>8. OneCall /\ AsksAreOwed
  BY <1>5 DEF OneCall, AsksAreOwed, At, PanelSteps
<1>9. HasRow /\ FailedIsFailed
  BY DEF Init, HasRow, FailedIsFailed
<1>10. Owed = {}
  BY <1>5 DEF Init, Owed, RowsIn, Asking
<1>11. OwedFits
  BY <1>3, <1>5, <1>10, RefundsAssumption DEF OwedFits, At
<1> QED BY <1>1, <1>6, <1>7, <1>8, <1>9, <1>11 DEF Sound, Faithful, Blind

LEMMA NothingHappens ==
  ASSUME Sound, UNCHANGED vars
  PROVE  Sound'
<1> USE DEF vars, payVars, rowVars, remoteVars
<1>1. RefundTypeOK' /\ RowsAreTrue'
  BY DEF Sound, Faithful, RefundTypeOK, RowsAreTrue
<1>2. Forward /\ Gone' = Gone /\ EventsAreTrue' /\ Cap'
  BY Quiet DEF Sound, Watched
<1>3. CallsAreTrue' /\ BooksAreTrue'
  BY <1>2 DEF Sound, Faithful, CallsAreTrue, BooksAreTrue
<1>4. Blind'
  BY DEF Sound, Blind, Sole, OneCall, HasRow, FailedIsFailed, AsksAreOwed, OwedFits, Owed, RowsIn,
         At, SumOf, UnitsOf
<1> QED BY <1>1, <1>2, <1>3, <1>4 DEF Sound, Faithful

\* Delivery or staff move the order: neither ends it.
LEMMA OthersAreHarmless ==
  ASSUME Sound, OthersMove
  PROVE  Sound'
<1> USE DEF rowVars, remoteVars
<1>1. /\ UNCHANGED <<sales, state, total, lost, row, known, flagged, size, remote, strict, events>>
      /\ UNCHANGED <<handled, job, crashes, overlapped>>
  BY DEF OthersMove
<1>2. status' \in OrderStatuses \ {"REFUNDED"}
  BY DEF OthersMove, DeliveryMoves, OrderStatuses
<1>3. Forward /\ Gone' = Gone /\ EventsAreTrue' /\ Cap'
  BY <1>1, Quiet DEF Sound, Watched
<1>4. RefundTypeOK' /\ RowsAreTrue' /\ CallsAreTrue' /\ BooksAreTrue'
  BY <1>1, <1>2, <1>3 DEF Sound, Faithful, RefundTypeOK, RowsAreTrue, CallsAreTrue, BooksAreTrue
<1>5. Blind'
  BY <1>1 DEF Sound, Blind, Sole, OneCall, HasRow, FailedIsFailed, AsksAreOwed, OwedFits, Owed,
              RowsIn, At, SumOf, UnitsOf
<1> QED BY <1>3, <1>4, <1>5 DEF Sound, Faithful

\* The processor's mode is its own, and requests that overlapped stay so.
LEMMA HistoryStays ==
  ASSUME Sound, [Next]_vars
  PROVE  strict' = strict /\ (Sole' => Sole)
<1>1. overlapped \in BOOLEAN
  BY DEF Sound, Faithful, RefundTypeOK
<1>2. ASSUME NEW w \in Worker, Begin(w) \/ Proceed(w) \/ Crash(w)
      PROVE  strict' = strict /\ (overlapped => overlapped')
  <2>1. CASE Read(w)
    BY <2>1, ReadIsQuiet DEF remoteVars
  <2>2. CASE \/ \E n \in 1..Paid : StartRefund(w, n)
             \/ \E r \in Refund : RetryRefund(w, r)
    BY <1>1, <2>2 DEF StartRefund, RetryRefund, Started, remoteVars
  <2>3. CASE \/ \E r \in Refund : CreateRow(w, r)
             \/ \E e \in events : Deliver(w, e)
             \/ Ask(w) \/ Hear(w) \/ Lose(w) \/ RecordRefusal(w) \/ RecordAnswer(w) \/ AddUp(w)
             \/ Settle(w) \/ Note(w) \/ ApplyRefunded(w) \/ ApplyRefundFailed(w) \/ Finish(w)
             \/ Crash(w)
    BY <2>3 DEF Deliver, CreateRow, Ask, Hear, Lose, RecordRefusal, RecordAnswer, AddUp, Settle,
                Note, ApplyRefunded, ApplyRefundFailed, Finish, Crash, remoteVars
  <2> QED BY <1>2, <2>1, <2>2, <2>3 DEF Begin, Proceed, Read
<1>3. Processor \/ OthersMove \/ UNCHANGED vars => UNCHANGED <<strict, overlapped>>
  BY DEF Processor, Dashboard, Complete, OthersMove, vars, remoteVars
<1> QED BY <1>2, <1>3 DEF Next, Sole

LEMMA ItStaysSound == Sound /\ [Next]_vars => Sound'
<1> SUFFICES ASSUME Sound, [Next]_vars PROVE Sound'
  OBVIOUS
<1>0. /\ Faithful /\ Blind /\ strict' = strict /\ (Sole' => Sole)
      /\ ~Sole' => Blind'
  BY HistoryStays DEF Sound, Blind
<1>1. ASSUME NEW r \in Refund, NEW n \in 1..Paid, Dashboard(r, n) PROVE Sound'
  <2>1. ~Sole'
    BY <1>0, <1>1 DEF Dashboard, Sole
  <2> QED BY <1>0, <1>1, <2>1, DashboardRefunds DEF Sound
<1>2. ASSUME NEW r \in Refund, NEW kind \in {"refunded", "failed"}, Complete(r, kind)
      PROVE  Sound'
  BY <1>0, <1>2, GatewayAnswers, BlindGateway DEF Sound
<1>3. ASSUME NEW w \in Worker, Begin(w) \/ Proceed(w) \/ Crash(w) PROVE Sound'
  <2>1. CASE \/ \E n \in 1..Paid : StartRefund(w, n)
             \/ \E r \in Refund : RetryRefund(w, r)
             \/ Hear(w) \/ Lose(w) \/ AddUp(w) \/ Read(w) \/ Note(w)
             \/ \E e \in events : Deliver(w, e)
             \/ Finish(w) \/ Crash(w)
    <3>1. Faithful'
      BY <1>0, <2>1, PanelCalls
    <3>2. Sole' => Blind'
      BY <1>0, <2>1, BlindPanel
    <3> QED BY <1>0, <3>1, <3>2 DEF Sound
  <2>2. CASE \/ RecordRefusal(w) \/ RecordAnswer(w) \/ Settle(w)
             \/ ApplyRefunded(w) \/ ApplyRefundFailed(w)
    <3>1. Faithful'
      BY <1>0, <2>2, BookCalls
    <3>2. Sole' => Blind'
      BY <1>0, <2>2, BlindBooks
    <3> QED BY <1>0, <3>1, <3>2 DEF Sound
  <2>3. CASE \E r \in Refund : CreateRow(w, r)
    <3>1. PICK r \in Refund : CreateRow(w, r)
      BY <2>3
    <3> QED BY <1>0, <3>1, RowComesFirst, BlindRow DEF Sound
  <2>4. CASE Ask(w)
    <3>1. Sole' => Blind' /\ Cap'
      BY <1>0, <2>4, BlindAsks
    <3>2. strict \/ Cap'
      BY <1>0, <3>1 DEF Sole, Cap, Watched
    <3>3. Faithful'
      BY <1>0, <2>4, <3>2, ProcessorIsAsked
    <3> QED BY <1>0, <3>1, <3>3 DEF Sound
  <2> QED BY <1>3, <2>1, <2>2, <2>3, <2>4 DEF Begin, Proceed, Read
<1>4. CASE UNCHANGED vars
  BY <1>4, NothingHappens
<1>5. CASE OthersMove
  BY <1>5, OthersAreHarmless
<1> QED BY <1>1, <1>2, <1>3, <1>4, <1>5 DEF Next, Processor

LEMMA AlwaysSound == Spec => []Sound
BY ItStartsSound, ItStaysSound, PTL DEF Spec

\* Every variable keeps its type: in particular an event's total and the total
\* of the payment are amounts that were really added up.
THEOREM RefundTyping == Spec => []RefundTypeOK
<1>1. Sound => RefundTypeOK
  BY DEF Sound, Faithful
<1> QED BY <1>1, AlwaysSound, PTL

\* No more is given back than was paid, whatever number of answers is lost and
\* of refunds asked for again: by the processor's check where it has one, and
\* otherwise, as long as requests of the panel never overlapped, by the cap over
\* the rows and the reference a retry goes by.
THEOREM NeverOverRefunded == Spec => []NotOverRefunded
<1>1. Sound => NotOverRefunded
  BY SumIsSumOf DEF Sound, Faithful, Cap, Watched, UnderWay, Live, NotOverRefunded
<1> QED BY <1>1, AlwaysSound, PTL

\* What the payment and the order say was given back has been, whichever calls
\* add the rows up side by side and however old the event that is applied.
THEOREM RefundsAreReal == Spec => []RefundedIsReal
<1>1. Sound => RefundedIsReal
  BY SumIsSumOf DEF Sound, Faithful, BooksAreTrue, Gone, Back, Given, RefundedIsReal
<1> QED BY <1>1, AlwaysSound, PTL
-----------------------------------------------------------------------------
(***************************************************************************)
(* The books and the processor in the end.  Beyond Sound: a refund is of   *)
(* some money; the processor's latest total, and each of its rejections,   *)
(* is in an event; an event that has been worked left its mark; the payment*)
(* shows what its total says, and so does the order unless a compare-and-  *)
(* set was lost: what a transaction read of the order is out of date only  *)
(* by the moves of others, since it holds the payment while it raises it.  *)
(***************************************************************************)
Sized(c, rows) ==
  /\ c.at \in Asking => rows[c.ref] # "NONE"
  /\ c.at \in {"settle", "move"} \/ (c.at \in HookSteps /\ c.kind = "refunded") => c.sum >= 1

AmountsAreReal ==
  /\ \A r \in Refund : row[r] # "NONE" \/ remote[r] # "none" => size[r] >= 1
  /\ \A e \in events : e[1] = "refunded" => e[3] >= 1
  /\ \A w \in Worker : Sized(job[w], row)

NewsIsOut ==
  /\ Gone > 0 => \E e \in events : e[1] = "refunded" /\ e[3] = Gone
  /\ \A r \in Refund : remote[r] = "failed" => \E e \in events : e[1] = "failed" /\ e[2] = r

\* What working an event leaves behind: t is the payment's total, noted the
\* refunds staff know of.
Worked(t, noted, kind, r, n) == IF kind = "refunded" THEN n <= t ELSE r \in noted

Told(c, t, noted) == /\ c.at = "tell" => c.kind = "failed"
                     /\ c.at = "finish" => Worked(t, noted, c.kind, c.ref, c.sum)

NewsIsWorked == /\ \A e \in handled : Worked(total, flagged, e[1], e[2], e[3])
                /\ \A w \in Worker : Told(job[w], total, flagged)

\* Where an entry of n would have the order.
Final(n) == IF n >= Paid THEN "REFUNDED" ELSE "PARTIALLY_REFUNDED"

BooksAreOne ==
  /\ state = IF total >= Paid THEN "REFUNDED" ELSE "SUCCEEDED"
  /\ sales = IF status = "REFUNDED" THEN 0 ELSE 1
  /\ status \in Refundable \cup {"REFUNDED"}
  /\ status = "REFUNDED" => total >= Paid
  /\ status = "PARTIALLY_REFUNDED" => total > 0
  /\ ~lost => /\ total > 0 => status \in RefundOutcomes
              /\ total >= Paid => status = "REFUNDED"

\* What a transaction read of the order, against its status s, the payment's total
\* t and whether a compare-and-set was lost.
ReadIsTrue(c, t, s, l) ==
  c.at \in {"move", "enter"} =>
    /\ c.from \in Refundable \cup {"REFUNDED"}
    /\ c.from \in RefundOutcomes => s \in RefundOutcomes
    /\ c.from = "REFUNDED" => s = "REFUNDED"
    /\ ~l /\ c.sum <= t => ~CanTransition(c.from, Final(c.sum))

ReadsAreTrue == /\ \A w \in Worker : ReadIsTrue(job[w], total, status, lost)
                /\ \A v, w \in Worker : HoldsPayment(v) /\ HoldsPayment(w) => v = w

Kept == Sound /\ AmountsAreReal /\ NewsIsOut /\ NewsIsWorked /\ BooksAreOne /\ ReadsAreTrue

LEMMA SumIsPositive ==
  ASSUME NEW f, NEW S, NEW r \in S \cap Refund, f[r] \in Nat, f[r] >= 1
  PROVE  SumOf(f, S) >= 1
<1>1. <<r, 1>> \in UnitsOf(f, S)
  BY RefundsAssumption DEF UnitsOf
<1>2. SumOf(f, S) # 0
  BY <1>1, UnitsAreFinite, FS_EmptySet DEF SumOf
<1> QED BY <1>2, UnitsAreFinite

LEMMA FinalMoves ==
  \A from \in Refundable \cup {"REFUNDED"} : \A n :
    CanTransition(from, Final(n)) <=>
      from # "REFUNDED" /\ (from = "PARTIALLY_REFUNDED" => n >= Paid)
BY DEF CanTransition, OrderTransitions, Refundable, RefundOutcomes, Final

\* An entry of n, as the ledger sees it: one that raises the total, or one that
\* finds the order behind, which takes a lost compare-and-set.
Followed(n) == /\ status' = Final(n)
               /\ sales' = IF n >= Paid THEN 0 ELSE sales
               /\ lost' = lost

Entered(n) ==
  \/ /\ n > total /\ total' = n /\ state' = (IF n >= Paid THEN "REFUNDED" ELSE state)
     /\ Followed(n) \/ (lost' /\ UNCHANGED <<status, sales>>)
  \/ /\ n <= total /\ UNCHANGED <<total, state>>
     /\ (lost /\ status # "REFUNDED" /\ Followed(n)) \/ UNCHANGED <<lost, status, sales>>

LEMMA EntryIsBooked ==
  ASSUME RefundTypeOK, BooksAreOne, NEW w \in Worker, job[w].at \in {"move", "enter"},
         job[w].sum \in Nat, job[w].sum >= 1, GiveBack(w),
         ReadIsTrue(job[w], total, status, lost)
  PROVE  /\ BooksAreOne' /\ total' = Raised(job[w].sum) /\ Entered(job[w].sum)
         /\ lost' \in BOOLEAN /\ (lost => lost')
         /\ status \in RefundOutcomes => status' \in RefundOutcomes
         /\ status = "REFUNDED" => status' = "REFUNDED"
<1> DEFINE n == job[w].sum
           from == job[w].from
           can == CanTransition(from, Final(n))
<1>1. /\ total \in Nat /\ Paid \in Nat \ {0} /\ n \in Nat /\ n >= 1 /\ lost \in BOOLEAN
      /\ state' = IF n >= Paid THEN "REFUNDED" ELSE state
      /\ total' = Raised(n)
      /\ status \in Refundable \cup {"REFUNDED"}
      /\ from \in Refundable \cup {"REFUNDED"}
      /\ from \in RefundOutcomes => status \in RefundOutcomes
      /\ from = "REFUNDED" => status = "REFUNDED"
      /\ ~lost /\ n <= total => ~can
  BY RefundsAssumption DEF RefundTypeOK, BooksAreOne, GiveBack, ReadIsTrue
<1>2. /\ status' = IF status = from /\ can THEN Final(n) ELSE status
      /\ lost' = (lost \/ (can /\ status # from))
      /\ sales' = IF n >= Paid /\ status' # status THEN sales - 1 ELSE sales
  BY DEF GiveBack, Outcome, AfterTransition, Final
<1>3. can <=> from # "REFUNDED" /\ (from = "PARTIALLY_REFUNDED" => n >= Paid)
  BY <1>1, FinalMoves
<1>4. /\ "PARTIALLY_REFUNDED" \in RefundOutcomes /\ "REFUNDED" \in RefundOutcomes
      /\ "PARTIALLY_REFUNDED" \in Refundable /\ "REFUNDED" \notin Refundable
      /\ \A x \in RefundOutcomes : x = "REFUNDED" \/ x = "PARTIALLY_REFUNDED"
  BY DEF RefundOutcomes, Refundable
<1> HIDE DEF n, from, can
<1>5. CASE status = from /\ can
  <2>1. status # "REFUNDED" /\ status' = Final(n) /\ lost' = lost /\ status' # status
    BY <1>1, <1>2, <1>3, <1>5 DEF Final
  <2>2. sales' = (IF n >= Paid THEN 0 ELSE sales) /\ sales = 1
    BY <1>2, <2>1 DEF BooksAreOne
  <2>3. n <= total => lost
    BY <1>1, <1>5
  <2>4. BooksAreOne'
    <3>1. CASE n > total
      <4>1. total' = n
        BY <1>1, <3>1 DEF Raised
      <4> QED BY <1>1, <1>4, <2>1, <2>2, <3>1, <4>1 DEF BooksAreOne, Final
    <3>2. CASE n <= total
      <4>1. total' = total /\ lost'
        BY <1>1, <2>1, <2>3, <3>2 DEF Raised
      <4> QED BY <1>1, <1>4, <2>1, <2>2, <3>2, <4>1 DEF BooksAreOne, Final
    <3> QED BY <1>1, <3>1, <3>2
  <2>5. Entered(n)
    <3>1. CASE n > total
      <4>1. total' = n
        BY <1>1, <3>1 DEF Raised
      <4> QED BY <1>1, <2>1, <2>2, <3>1, <4>1 DEF Entered, Followed
    <3>2. CASE n <= total
      <4>1. total' = total /\ state' = state
        BY <1>1, <3>2 DEF Raised, BooksAreOne
      <4> QED BY <1>1, <2>1, <2>2, <2>3, <3>2, <4>1 DEF Entered, Followed
    <3> QED BY <1>1, <3>1, <3>2
  <2> QED BY <1>1, <1>4, <2>1, <2>4, <2>5 DEF Final, n
<1>6. CASE ~(status = from /\ can)
  <2>1. UNCHANGED <<status, sales>>
    BY <1>2, <1>6
  <2>2. CASE can
    <3>1. lost' /\ (n <= total => lost)
      BY <1>1, <1>2, <1>6, <2>2
    <3>2. BooksAreOne'
      BY <1>1, <1>4, <2>1, <3>1 DEF BooksAreOne, Raised
    <3>3. Entered(n)
      <4>1. CASE n > total
        BY <1>1, <2>1, <3>1, <4>1 DEF Entered, Raised
      <4>2. CASE n <= total
        <5>1. total' = total /\ state' = state
          BY <1>1, <1>2, <3>1, <4>2 DEF Raised, BooksAreOne
        <5>2. lost = TRUE
          BY <1>1, <3>1, <4>2, Zenon
        <5>3. lost' = TRUE
          BY <1>2, <5>2, Zenon
        <5> QED BY <2>1, <4>2, <5>1, <5>2, <5>3 DEF Entered
      <4> QED BY <1>1, <4>1, <4>2
    <3> QED BY <1>1, <1>2, <2>1, <3>1, <3>2, <3>3 DEF n
  <2>3. CASE ~can
    <3>1. lost' = lost
      BY <1>1, <1>2, <2>3
    <3>2. status \in RefundOutcomes /\ (n >= Paid => status = "REFUNDED")
      BY <1>1, <1>3, <1>4, <2>3
    <3>3. n > total => status = Final(n)
      BY <1>1, <1>4, <3>2 DEF BooksAreOne, Final
    <3>4. BooksAreOne'
      BY <1>1, <2>1, <3>1, <3>2, <3>3 DEF BooksAreOne, Raised, Final
    <3>5. Entered(n)
      <4>1. CASE n > total
        BY <1>1, <2>1, <3>1, <3>2, <3>3, <4>1 DEF Entered, Followed, Raised, BooksAreOne
      <4>2. CASE n <= total
        BY <1>1, <2>1, <3>1, <4>2 DEF Entered, Raised, BooksAreOne
      <4> QED BY <1>1, <4>1, <4>2
    <3> QED BY <1>1, <2>1, <3>1, <3>4, <3>5 DEF n
  <2> QED BY <2>2, <2>3
<1> QED BY <1>5, <1>6

\* A call moves on, and no row is left without an amount.
LEMMA AmountsMove ==
  ASSUME Faithful, AmountsAreReal, NEW w \in Worker, NEW call \in Jobs, Becomes(w, call),
         Sized(call, row'), UNCHANGED <<size, events>>,
         \A r \in Refund : row[r] # "NONE" => row'[r] # "NONE",
         \A r \in Refund : row'[r] # "NONE" \/ remote'[r] # "none" => row[r] # "NONE" \/ remote[r] # "none"
  PROVE  AmountsAreReal'
<1>1. job \in [Worker -> Jobs]
  BY DEF Faithful, RefundTypeOK
<1>2. job'[w] = call /\ \A v \in Worker \ {w} : job'[v] = job[v]
  BY <1>1 DEF Becomes
<1>3. \A v \in Worker : job[v].at \in Asking => job[v].ref \in Refund
  BY DEF Faithful, CallsAreTrue, Says, Asking, PanelSteps
<1>4. \A v \in Worker : Sized(job'[v], row')
  BY <1>2, <1>3 DEF AmountsAreReal, Sized
<1> QED BY <1>4 DEF AmountsAreReal

\* A call that writes no row.
LEMMA AmountsWait ==
  ASSUME Faithful, AmountsAreReal, NEW w \in Worker,
         \/ \E n \in 1..Paid : StartRefund(w, n)
         \/ \E r \in Refund : RetryRefund(w, r)
         \/ Hear(w) \/ Lose(w) \/ AddUp(w) \/ Read(w) \/ Note(w)
         \/ \E e \in events : Deliver(w, e)
         \/ Finish(w) \/ Crash(w) \/ Ask(w)
  PROVE  AmountsAreReal'
<1> USE DEF rowVars, remoteVars
<1>0. /\ job \in [Worker -> Jobs] /\ events \subseteq Event /\ remote \in [Refund -> RemoteStates]
      /\ Says(job[w], remote, Gone) /\ job[w] \in Jobs /\ Sized(job[w], row)
      /\ size \in [Refund -> 0..Paid]
  BY DEF Faithful, RefundTypeOK, CallsAreTrue, AmountsAreReal
<1>1. UNCHANGED <<row, size, events>>
  BY ReadIsQuiet DEF StartRefund, RetryRefund, Hear, Lose, AddUp, Note, Deliver, Finish, Crash, Ask
<1>2. \A call \in Jobs : Becomes(w, call) /\ Sized(call, row) /\ UNCHANGED remote => AmountsAreReal'
  BY <1>1, AmountsMove
<1>3. CASE \E n \in 1..Paid : StartRefund(w, n)
  <2>1. PICK n \in 1..Paid : StartRefund(w, n)
    BY <1>3
  <2> DEFINE call == Call("create", NoRefund, "none", n)
  <2>2. call \in Jobs /\ Sized(call, row)
    BY IdleIsAJob DEF Call, Sized, HookSteps, Asking
  <2> QED BY <1>2, <2>1, <2>2 DEF StartRefund
<1>4. CASE \E r \in Refund : RetryRefund(w, r)
  <2>1. PICK r \in Refund : RetryRefund(w, r)
    BY <1>4
  <2> DEFINE call == Call("ask", r, "none", 0)
  <2>2. call \in Jobs /\ Sized(call, row)
    BY <2>1, IdleIsAJob DEF Call, Sized, HookSteps, RetryRefund, Unconfirmed, RowsIn
  <2> QED BY <1>2, <2>1, <2>2 DEF RetryRefund
<1>5. CASE Hear(w)
  <2> DEFINE call == [job[w] EXCEPT !.at = "heard", !.heard = remote[job[w].ref]]
  <2>1. job[w].at = "wait" /\ job[w].ref \in Refund
    BY <1>0, <1>5 DEF Hear, At, Says, PanelSteps
  <2>2. call \in Jobs /\ Sized(call, row)
    BY <1>0, <2>1 DEF Jobs, Sized, PanelSteps, HookSteps, RemoteStates, Asking
  <2> QED BY <1>2, <1>5, <2>2 DEF Hear
<1>6. CASE Lose(w) \/ Crash(w) \/ Finish(w)
  <2>1. Becomes(w, Idle) /\ UNCHANGED remote
    BY <1>6 DEF Lose, Crash, Finish, Return
  <2>2. Idle \in Jobs /\ Sized(Idle, row)
    BY IdleIsAJob DEF Sized, Asking, HookSteps
  <2> QED BY <1>2, <2>1, <2>2
<1>7. CASE AddUp(w)
  <2> DEFINE r == job[w].ref
             S == RowsIn({"SUCCEEDED"}) \cup {r}
             call == [job[w] EXCEPT !.at = "settle", !.sum = GivenByRows(r)]
  <2>1. job[w].at = "heard" /\ r \in Refund
    BY <1>0, <1>7 DEF AddUp, At, Says, PanelSteps
  <2>2. row[r] # "NONE"
    BY <1>0, <2>1 DEF Sized, Asking
  <2>3. GivenByRows(r) = SumOf(size, S)
    BY SumIsSumOf DEF GivenByRows
  <2>4. size[r] \in Nat /\ size[r] >= 1
    BY <1>0, <2>1, <2>2, RefundsAssumption DEF AmountsAreReal
  <2>5. GivenByRows(r) \in Nat /\ GivenByRows(r) >= 1
    BY <2>1, <2>3, <2>4, SumIsPositive, UnitsAreFinite
  <2>6. \A n \in Nat : [job[w] EXCEPT !.at = "settle", !.sum = n] \in Jobs
    <3>1. "settle" \in PanelSteps /\ \A n \in Nat : n \in Int
      BY DEF PanelSteps
    <3> QED BY <1>0, <3>1 DEF Jobs
  <2>7. call \in Jobs /\ call.at = "settle" /\ call.ref = r /\ call.sum >= 1
    BY <1>0, <2>5, <2>6 DEF Jobs
  <2>8. Sized(call, row)
    BY <2>2, <2>7 DEF Sized
  <2> QED BY <1>2, <1>7, <2>7, <2>8 DEF AddUp
<1>8. CASE Note(w)
  <2>1. CASE At(w, "tell")
    <3> DEFINE call == [job[w] EXCEPT !.at = "finish"]
    <3>1. call \in Jobs /\ Sized(call, row)
      BY <1>0, <2>1 DEF At, Jobs, Sized, HookSteps, Asking
    <3> QED BY <1>2, <1>8, <2>1, <3>1 DEF Note, Goto
  <2>2. CASE ~At(w, "tell")
    <3>1. Idle \in Jobs /\ Sized(Idle, row)
      BY IdleIsAJob DEF Sized, Asking, HookSteps
    <3> QED BY <1>2, <1>8, <2>2, <3>1 DEF Note, Return
  <2> QED BY <2>1, <2>2
<1>9. CASE \E e \in events : Deliver(w, e)
  <2>1. PICK e \in events : Deliver(w, e)
    BY <1>9
  <2> DEFINE call == Call("apply", e[2], e[1], e[3])
  <2>2. e[1] \in {"refunded", "failed"} /\ e[2] \in Refund /\ e[3] \in Nat
    BY <1>0 DEF Event
  <2>3. call \in Jobs
    BY <2>2, RefundsAssumption DEF Jobs, Call, PanelSteps, HookSteps, RemoteStates
  <2>4. Sized(call, row)
    BY <2>1 DEF Call, Sized, HookSteps, Asking, AmountsAreReal
  <2> QED BY <1>2, <2>1, <2>3, <2>4 DEF Deliver
<1>10. CASE Ask(w)
  <2> DEFINE r == job[w].ref
  <2>1. job[w].at = "ask" /\ r \in Refund /\ row[r] # "NONE"
    BY <1>0, <1>10 DEF Ask, At, Says, PanelSteps, Sized, Asking
  <2>2. PICK step \in {"wait", "refused"} : Goto(w, step)
    BY <1>10 DEF Ask
  <2> DEFINE call == [job[w] EXCEPT !.at = step]
  <2>3. call \in Jobs /\ Sized(call, row)
    BY <1>0, <2>1 DEF Jobs, PanelSteps, Sized, Asking, HookSteps
  <2>4. \A q \in Refund : remote'[q] # "none" => remote[q] # "none" \/ row[q] # "NONE"
    BY <1>0, <1>10, <2>1 DEF Ask
  <2>5. Becomes(w, call)
    BY <2>2 DEF Goto
  <2> HIDE DEF call
  <2> QED BY <1>1, <2>3, <2>4, <2>5, AmountsMove
<1>11. CASE Read(w)
  <2>1. PICK step \in {"move", "enter"} :
          /\ Becomes(w, Reading(w, step)) /\ Reading(w, step) \in Jobs
          /\ Reading(w, step).at = step /\ Reading(w, step).ref = job[w].ref
          /\ Reading(w, step).kind = job[w].kind /\ Reading(w, step).sum = job[w].sum
          /\ step = "move" => job[w].at = "settle"
          /\ step = "enter" => job[w].at = "apply" /\ job[w].kind = "refunded"
    BY <1>11, ReadIsACall
  <2>2. Sized(Reading(w, step), row)
    BY <1>0, <2>1 DEF Sized, Asking, HookSteps
  <2> QED BY <1>2, <1>11, <2>1, <2>2, ReadIsQuiet
<1> QED BY <1>3, <1>4, <1>5, <1>6, <1>7, <1>8, <1>9, <1>10, <1>11

\* A call that writes a row.
LEMMA AmountsWritten ==
  ASSUME Faithful, AmountsAreReal, NEW w \in Worker,
         \/ RecordRefusal(w) \/ RecordAnswer(w) \/ Settle(w)
         \/ ApplyRefunded(w) \/ ApplyRefundFailed(w)
  PROVE  AmountsAreReal'
<1> DEFINE r == job[w].ref
<1> USE DEF rowVars, remoteVars
<1>0. /\ row \in [Refund -> RowStates] /\ Says(job[w], remote, Gone) /\ job[w] \in Jobs
      /\ Sized(job[w], row)
  BY DEF Faithful, RefundTypeOK, CallsAreTrue, AmountsAreReal
<1>1. UNCHANGED <<size, events, remote>>
  BY DEF RecordRefusal, RecordAnswer, Settle, ApplyRefunded, ApplyRefundFailed
<1>2. r \in Refund /\ (row[r] # "NONE" \/ remote[r] # "none")
  BY <1>0 DEF RecordRefusal, RecordAnswer, Settle, ApplyRefunded, ApplyRefundFailed, At, Says,
              Sized, PanelSteps, HookSteps, Asking
<1>3. \E to \in {"PENDING", "SUCCEEDED", "FAILED"} : row' = [row EXCEPT ![r] = to]
  <2>1. job[w].heard \in RemoteStates
    BY <1>0 DEF Jobs
  <2> QED BY <2>1, AnswersAreKnown
        DEF RecordRefusal, RecordAnswer, Settle, ApplyRefunded, ApplyRefundFailed, GiveBack
<1>4. \A q \in Refund : (row[q] # "NONE" => row'[q] # "NONE")
                        /\ (row'[q] # "NONE" => row[q] # "NONE" \/ remote[q] # "none")
  BY <1>0, <1>2, <1>3
<1>5. PICK call \in {Idle, [job[w] EXCEPT !.at = "note"], Call("finish", r, "refunded", job[w].sum),
                     [job[w] EXCEPT !.at = "tell"]} :
        /\ Becomes(w, call)
        /\ call.at = "tell" => job[w].at = "apply"
        /\ call.at = "finish" => job[w].at = "enter"
  <2>1. /\ Idle.at = "idle" /\ [job[w] EXCEPT !.at = "note"].at = "note"
        /\ [job[w] EXCEPT !.at = "tell"].at = "tell"
        /\ Call("finish", r, "refunded", job[w].sum).at = "finish"
    BY <1>0, IdleIsAJob DEF Jobs, Call
  <2> QED BY <2>1 DEF RecordRefusal, RecordAnswer, Settle, ApplyRefunded, ApplyRefundFailed, Return, Goto, At
<1>6. /\ call \in Jobs /\ call.at \in {"idle", "note", "tell", "finish"}
      /\ call.at = "tell" => call.kind = job[w].kind /\ call.sum = job[w].sum
      /\ call.at = "finish" => call.kind = "refunded" /\ call.sum = job[w].sum
  <2>1. job[w].sum \in Int
    BY <1>0 DEF Jobs
  <2> QED BY <1>0, <1>2, <1>5, <2>1, IdleIsAJob DEF Jobs, Call, PanelSteps, HookSteps
<1>9. job[w].at = "enter" => job[w].sum >= 1
  BY <1>0 DEF Says, Sized, HookSteps
<1>7. Sized(call, row')
  BY <1>0, <1>5, <1>6, <1>9 DEF Sized, Asking, HookSteps
<1> QED BY <1>1, <1>4, <1>5, <1>6, <1>7, AmountsMove

LEMMA AmountsStay ==
  ASSUME Faithful, AmountsAreReal, [Next]_vars
  PROVE  AmountsAreReal'
<1> USE DEF rowVars, remoteVars
<1>0. /\ row \in [Refund -> RowStates] /\ remote \in [Refund -> RemoteStates]
      /\ size \in [Refund -> 0..Paid] /\ events \subseteq Event /\ job \in [Worker -> Jobs]
  BY DEF Faithful, RefundTypeOK
<1>1. ASSUME NEW r \in Refund, NEW n \in 1..Paid, Dashboard(r, n) PROVE AmountsAreReal'
  BY <1>0, <1>1, RefundsAssumption DEF Dashboard, AmountsAreReal
<1>2. ASSUME NEW r \in Refund, NEW kind \in {"refunded", "failed"}, Complete(r, kind)
      PROVE  AmountsAreReal'
  <2> DEFINE S == {q \in Refund : remote'[q] = "succeeded"}
  <2>1. /\ remote[r] = "pending" /\ UNCHANGED <<row, size, job>>
        /\ remote' = [remote EXCEPT ![r] = IF kind = "refunded" THEN "succeeded" ELSE "failed"]
        /\ events' = events \cup {<<kind, r, Sum(S)>>}
    BY <1>2 DEF Complete
  <2>2. size[r] \in Nat /\ size[r] >= 1
    BY <1>0, <2>1, RefundsAssumption DEF AmountsAreReal
  <2>3. kind = "refunded" => r \in S
    BY <1>0, <2>1
  <2> HIDE DEF S
  <2>4. kind = "refunded" => Sum(S) >= 1
    BY <2>2, <2>3, SumIsSumOf, SumIsPositive
  <2>5. \A e \in events' : e[1] = "refunded" => e[3] >= 1
    BY <2>1, <2>4 DEF AmountsAreReal
  <2>6. \A q \in Refund : remote'[q] # "none" => remote[q] # "none"
    BY <1>0, <2>1
  <2> QED BY <2>1, <2>5, <2>6 DEF AmountsAreReal
<1>3. ASSUME NEW w \in Worker, NEW r \in Refund, CreateRow(w, r) PROVE AmountsAreReal'
  <2> DEFINE call == Call("ask", r, "none", 0)
  <2>1. /\ job[w].at = "create" /\ job[w].sum \in 1..Paid /\ row[r] = "NONE"
        /\ row' = [row EXCEPT ![r] = "PENDING"] /\ size' = [size EXCEPT ![r] = job[w].sum]
        /\ Becomes(w, call) /\ UNCHANGED <<remote, events>>
    BY <1>3 DEF CreateRow, Fresh, At, Faithful, CallsAreTrue, Says
  <2>2. \A q \in Refund : (row'[q] # "NONE" \/ remote'[q] # "none") => size'[q] >= 1
    BY <1>0, <2>1, RefundsAssumption DEF AmountsAreReal
  <2>3. row'[r] = "PENDING" /\ \A q \in Refund : row[q] # "NONE" => row'[q] # "NONE"
    BY <1>0, <2>1
  <2>4. Sized(call, row')
    BY <2>3 DEF Call, Sized, HookSteps
  <2>5. \A v \in Worker : job[v].at \in Asking => job[v].ref \in Refund
    BY DEF Faithful, CallsAreTrue, Says, Asking, PanelSteps
  <2>6. \A v \in Worker : Sized(job'[v], row')
    BY <1>0, <2>1, <2>3, <2>4, <2>5 DEF Becomes, Sized, AmountsAreReal
  <2> QED BY <2>1, <2>2, <2>6 DEF AmountsAreReal
<1>4. ASSUME NEW w \in Worker, Begin(w) \/ Proceed(w) \/ Crash(w) PROVE AmountsAreReal'
  BY <1>3, <1>4, AmountsWait, AmountsWritten DEF Begin, Proceed, Read
<1>5. CASE OthersMove \/ UNCHANGED vars
  BY <1>5 DEF OthersMove, vars, AmountsAreReal
<1> QED BY <1>1, <1>2, <1>4, <1>5 DEF Next, Processor

\* Only the gateway's verdict is news: it gives back more, or rejects a refund.
LEMMA NoNews ==
  ASSUME Faithful, [Next]_vars,
         \A r \in Refund, kind \in {"refunded", "failed"} : ~Complete(r, kind)
  PROVE  /\ events' = events /\ Gone' = Gone
         /\ \A r \in Refund : remote'[r] = "failed" => remote[r] = "failed"
<1> USE DEF rowVars, remoteVars, payVars
<1>0. remote \in [Refund -> RemoteStates] /\ job \in [Worker -> Jobs]
  BY DEF Faithful, RefundTypeOK
<1>1. ASSUME UNCHANGED <<events, remote, size>>
      PROVE  /\ events' = events /\ Gone' = Gone
             /\ \A r \in Refund : remote'[r] = "failed" => remote[r] = "failed"
  BY <1>1, Quiet
<1>2. ASSUME NEW r \in Refund, NEW n \in 1..Paid, Dashboard(r, n)
      PROVE  /\ events' = events /\ Gone' = Gone
             /\ \A q \in Refund : remote'[q] = "failed" => remote[q] = "failed"
  <2>1. /\ remote[r] = "none" /\ remote' = [remote EXCEPT ![r] = "pending"]
        /\ size' = [size EXCEPT ![r] = n] /\ UNCHANGED <<events, payVars>>
    BY <1>2 DEF Dashboard, Fresh
  <2>2. Gone' = Gone
    BY <2>1, RefundStarts
  <2> QED BY <1>0, <2>1, <2>2
<1>3. ASSUME NEW w \in Worker, NEW r \in Refund, CreateRow(w, r)
      PROVE  /\ events' = events /\ Gone' = Gone
             /\ \A q \in Refund : remote'[q] = "failed" => remote[q] = "failed"
  <2>1. r \notin Back /\ size' = [size EXCEPT ![r] = job[w].sum] /\ UNCHANGED <<events, remote>>
    BY <1>3 DEF CreateRow, Fresh, Back, RemoteIn
  <2>2. Gone' = SumOf(size', Back)
    BY <2>1 DEF Gone, Back, RemoteIn
  <2> QED BY <2>1, <2>2, AmountIsNew DEF Gone
<1>4. ASSUME NEW w \in Worker, Ask(w)
      PROVE  /\ events' = events /\ Gone' = Gone
             /\ \A q \in Refund : remote'[q] = "failed" => remote[q] = "failed"
  <2> DEFINE r == job[w].ref
  <2>1. r \in Refund /\ UNCHANGED <<events, size, payVars>>
        /\ \/ UNCHANGED remote
           \/ remote[r] = "none" /\ remote' = [remote EXCEPT ![r] = "pending"]
    BY <1>4 DEF Ask, At, Faithful, CallsAreTrue, Says, PanelSteps
  <2>2. CASE UNCHANGED remote
    BY <1>1, <2>1, <2>2
  <2>3. CASE remote[r] = "none" /\ remote' = [remote EXCEPT ![r] = "pending"]
    <3>1. Gone' = Gone
      BY <2>1, <2>3, RefundStarts
    <3> QED BY <1>0, <2>1, <2>3, <3>1
  <2> QED BY <2>1, <2>2, <2>3
<1>5. ASSUME NEW w \in Worker, Begin(w) \/ Proceed(w) \/ Crash(w)
      PROVE  \/ \E r \in Refund : CreateRow(w, r)
             \/ Ask(w)
             \/ UNCHANGED <<events, remote, size>>
  BY <1>5, ReadIsQuiet
     DEF Begin, Proceed, Read, Crash, StartRefund, RetryRefund, Deliver, Hear, Lose, RecordRefusal,
         RecordAnswer, AddUp, Settle, Note, ApplyRefunded, ApplyRefundFailed, Finish
<1>6. CASE OthersMove \/ UNCHANGED vars
  BY <1>1, <1>6 DEF OthersMove, vars
<1> QED BY <1>1, <1>2, <1>3, <1>4, <1>5, <1>6 DEF Next, Processor

LEMMA NewsComesOut ==
  ASSUME Faithful, NewsIsOut, [Next]_vars
  PROVE  NewsIsOut' /\ Gone' >= Gone
<1>0. /\ remote \in [Refund -> RemoteStates] /\ Gone \in Nat
  BY UnitsAreFinite DEF Faithful, RefundTypeOK, Gone
<1>1. ASSUME NEW r \in Refund, NEW kind \in {"refunded", "failed"}, Complete(r, kind)
      PROVE  NewsIsOut' /\ Gone' >= Gone
  <2> DEFINE S == {q \in Refund : remote'[q] = "succeeded"}
             e == <<kind, r, Sum(S)>>
  <2>1. /\ remote[r] = "pending" /\ size' = size
        /\ remote' = [remote EXCEPT ![r] = IF kind = "refunded" THEN "succeeded" ELSE "failed"]
        /\ events' = events \cup {e}
    BY <1>1 DEF Complete
  <2>2. Back' = S /\ Back \subseteq S /\ (kind = "failed" => Back' = Back)
    BY <1>0, <2>1 DEF Back, RemoteIn
  <2>3. Gone' = SumOf(size, S)
    BY <2>1, <2>2 DEF Gone
  <2>4. Gone' = Sum(S) /\ Gone' >= Gone /\ Gone' \in Nat
    BY <2>2, <2>3, SumIsSumOf, SumGrows, UnitsAreFinite DEF Gone
  <2>5. kind = "failed" => Gone' = Gone
    BY <2>1, <2>2 DEF Gone
  <2>6. Gone' > 0 => \E f \in events' : f[1] = "refunded" /\ f[3] = Gone'
    <3>1. CASE kind = "refunded"
      <4>1. e \in events' /\ e[1] = "refunded" /\ e[3] = Gone'
        BY <2>1, <2>4, <3>1
      <4> QED BY <4>1
    <3>2. CASE kind = "failed"
      BY <2>1, <2>5, <3>2 DEF NewsIsOut
    <3> QED BY <3>1, <3>2
  <2>7. ASSUME NEW q \in Refund, remote'[q] = "failed"
        PROVE  \E f \in events' : f[1] = "failed" /\ f[2] = q
    <3>1. CASE q = r
      <4>1. kind = "failed"
        BY <1>0, <2>1, <2>7, <3>1
      <4>2. e \in events' /\ e[1] = "failed" /\ e[2] = q
        BY <2>1, <3>1, <4>1
      <4> QED BY <4>2
    <3>2. CASE q # r
      BY <1>0, <2>1, <2>7, <3>2 DEF NewsIsOut
    <3> QED BY <3>1, <3>2
  <2> QED BY <2>4, <2>6, <2>7 DEF NewsIsOut
<1>2. CASE \A r \in Refund, kind \in {"refunded", "failed"} : ~Complete(r, kind)
  <2>1. /\ events' = events /\ Gone' = Gone
        /\ \A r \in Refund : remote'[r] = "failed" => remote[r] = "failed"
    BY <1>2, NoNews
  <2> QED BY <1>0, <2>1 DEF NewsIsOut
<1> QED BY <1>1, <1>2

\* Every step of a call but the read of the order takes it elsewhere.
LEMMA OthersDoNotRead ==
  ASSUME Faithful, NEW w \in Worker, Begin(w) \/ Proceed(w) \/ Crash(w), ~Read(w)
  PROVE  \E call : Becomes(w, call) /\ call.at \notin {"move", "enter"}
<1>1. job[w] \in Jobs
  BY DEF Faithful, RefundTypeOK
<1>2. /\ Idle.at = "idle"
      /\ \A step, r, kind, n : Call(step, r, kind, n).at = step
      /\ \A step : [job[w] EXCEPT !.at = step].at = step
      /\ \A h : [job[w] EXCEPT !.at = "heard", !.heard = h].at = "heard"
      /\ \A n : [job[w] EXCEPT !.at = "settle", !.sum = n].at = "settle"
  BY <1>1 DEF Idle, Call, Jobs
<1>3. ASSUME NEW call, Becomes(w, call), call.at \notin {"move", "enter"}
      PROVE  \E c : Becomes(w, c) /\ c.at \notin {"move", "enter"}
  BY <1>3
<1>4. CASE Lose(w) \/ RecordRefusal(w) \/ Settle(w) \/ Finish(w) \/ Crash(w)
  <2>1. Becomes(w, Idle)
    BY <1>4 DEF Lose, RecordRefusal, Settle, Finish, Crash, Return
  <2> QED BY <1>2, <2>1
<1>5. CASE \/ \E n \in 1..Paid : StartRefund(w, n)
           \/ \E r \in Refund : RetryRefund(w, r) \/ CreateRow(w, r)
           \/ \E e \in events : Deliver(w, e)
           \/ ApplyRefunded(w)
  <2>1. \E step \in {"create", "ask", "apply", "finish"} : \E r, kind, n :
          Becomes(w, Call(step, r, kind, n))
    BY <1>5 DEF StartRefund, RetryRefund, CreateRow, Deliver, ApplyRefunded
  <2>2. PICK step \in {"create", "ask", "apply", "finish"} : \E r, kind, n :
          Becomes(w, Call(step, r, kind, n))
    BY <2>1
  <2>3. PICK r, kind, n : Becomes(w, Call(step, r, kind, n))
    BY <2>2
  <2> QED BY <1>2, <2>2, <2>3
<1>6. CASE Ask(w) \/ RecordAnswer(w) \/ Note(w) \/ ApplyRefundFailed(w)
  <2>1. Becomes(w, Idle) \/ \E step \in {"wait", "refused", "note", "finish", "tell"} :
                                Becomes(w, [job[w] EXCEPT !.at = step])
    BY <1>6 DEF Ask, RecordAnswer, Note, ApplyRefundFailed, Goto, Return
  <2>2. CASE Becomes(w, Idle)
    BY <1>2, <2>2
  <2>3. CASE \E step \in {"wait", "refused", "note", "finish", "tell"} :
               Becomes(w, [job[w] EXCEPT !.at = step])
    <3>1. PICK step \in {"wait", "refused", "note", "finish", "tell"} :
            Becomes(w, [job[w] EXCEPT !.at = step])
      BY <2>3
    <3> QED BY <1>2, <3>1
  <2> QED BY <2>1, <2>2, <2>3
<1>7. CASE Hear(w)
  <2>1. Becomes(w, [job[w] EXCEPT !.at = "heard", !.heard = remote[job[w].ref]])
    BY <1>7 DEF Hear
  <2> QED BY <1>2, <2>1
<1>8. CASE AddUp(w)
  <2>1. Becomes(w, [job[w] EXCEPT !.at = "settle", !.sum = GivenByRows(job[w].ref)])
    BY <1>8 DEF AddUp
  <2> QED BY <1>2, <2>1
<1> QED BY <1>4, <1>5, <1>6, <1>7, <1>8 DEF Begin, Proceed, Read

\* The payment and the order change by the entry of a call that has read the
\* order, or by somebody else's move of the order.
LEMMA BooksMove ==
  ASSUME Faithful, [Next]_vars
  PROVE  \/ UNCHANGED payVars
         \/ OthersMove
         \/ \E w \in Worker : /\ Settle(w) \/ ApplyRefunded(w)
                             /\ job[w].at \in {"move", "enter"} /\ GiveBack(w)
                             /\ UNCHANGED <<remoteVars, size, flagged, handled>>
<1>1. ASSUME NEW w \in Worker, Settle(w) \/ ApplyRefunded(w)
      PROVE  /\ job[w].at \in {"move", "enter"} /\ GiveBack(w)
             /\ UNCHANGED <<remoteVars, size, flagged, handled>>
  BY <1>1 DEF Settle, ApplyRefunded, At
<1>2. ASSUME NEW w \in Worker, Begin(w) \/ Proceed(w) \/ Crash(w)
      PROVE  Settle(w) \/ ApplyRefunded(w) \/ UNCHANGED payVars
  BY <1>2, ReadIsQuiet
     DEF Begin, Proceed, Read, Crash, StartRefund, RetryRefund, Deliver, CreateRow, Ask, Hear, Lose,
         RecordRefusal, RecordAnswer, AddUp, Note, ApplyRefundFailed, Finish
<1>3. Processor => UNCHANGED payVars
  BY DEF Processor, Dashboard, Complete
<1> QED BY <1>1, <1>2, <1>3 DEF Next, vars

\* A call about to enter a refund enters some money that has gone.
LEMMA EntryIsReal ==
  ASSUME Faithful, AmountsAreReal, NEW w \in Worker, job[w].at \in {"move", "enter"}
  PROVE  job[w].sum \in Nat /\ job[w].sum >= 1 /\ job[w].sum <= Gone
BY DEF Faithful, CallsAreTrue, Says, AmountsAreReal, Sized, PanelSteps, HookSteps

LEMMA BooksStayOne ==
  ASSUME Faithful, AmountsAreReal, BooksAreOne, ReadsAreTrue, [Next]_vars
  PROVE  /\ BooksAreOne' /\ total' >= total /\ (lost => lost')
         /\ status \in RefundOutcomes => status' \in RefundOutcomes
         /\ status = "REFUNDED" => status' = "REFUNDED"
<1>0. RefundTypeOK /\ total \in Nat
  BY DEF Faithful, RefundTypeOK
<1>1. CASE UNCHANGED payVars
  BY <1>0, <1>1 DEF payVars, BooksAreOne
<1>2. CASE OthersMove
  <2>1. /\ UNCHANGED <<sales, state, total, lost>>
        /\ status \in Refundable \ RefundOutcomes /\ status' \in Refundable \ RefundOutcomes
    BY <1>2 DEF OthersMove, DeliveryMoves, Refundable, RefundOutcomes
  <2>2. status # "REFUNDED" /\ status' # "REFUNDED" /\ status' # "PARTIALLY_REFUNDED"
    BY <2>1 DEF RefundOutcomes
  <2> QED BY <1>0, <2>1, <2>2 DEF BooksAreOne
<1>3. ASSUME NEW w \in Worker, job[w].at \in {"move", "enter"}, GiveBack(w)
      PROVE  /\ BooksAreOne' /\ total' >= total /\ (lost => lost')
             /\ status \in RefundOutcomes => status' \in RefundOutcomes
             /\ status = "REFUNDED" => status' = "REFUNDED"
  <2>1. ReadIsTrue(job[w], total, status, lost) /\ job[w].sum \in Nat /\ job[w].sum >= 1
    BY <1>3, EntryIsReal DEF ReadsAreTrue
  <2>2. /\ BooksAreOne' /\ total' = Raised(job[w].sum) /\ (lost => lost')
        /\ status \in RefundOutcomes => status' \in RefundOutcomes
        /\ status = "REFUNDED" => status' = "REFUNDED"
    BY <1>0, <1>3, <2>1, EntryIsBooked
  <2> QED BY <1>0, <2>1, <2>2 DEF Raised
<1> QED BY <1>1, <1>2, <1>3, BooksMove

\* What a transaction read stays true while it holds the payment.
LEMMA ReadsStayTrue ==
  ASSUME Faithful, AmountsAreReal, BooksAreOne, ReadsAreTrue, [Next]_vars
  PROVE  ReadsAreTrue'
<1>0. /\ RefundTypeOK /\ total \in Nat /\ job \in [Worker -> Jobs] /\ Paid \in Nat \ {0}
      /\ \A v \in Worker : job[v].sum \in Int
  BY RefundsAssumption DEF Faithful, RefundTypeOK, Jobs
<1>1. /\ total' >= total /\ (lost => lost') /\ total' \in Nat
      /\ status \in RefundOutcomes => status' \in RefundOutcomes
      /\ status = "REFUNDED" => status' = "REFUNDED"
  <2>1. total' \in Nat
    BY <1>0, BooksMove, EntryIsReal DEF payVars, OthersMove, GiveBack, Raised
  <2> QED BY <2>1, BooksStayOne
\* The total is raised by the call that holds the payment, and it lets go.
<1>2. ASSUME NEW v \in Worker, job[v].at \in {"move", "enter"}, job'[v] = job[v],
             ~(job[v].sum <= total)
      PROVE  ~(job[v].sum <= total')
  <2>1. HoldsPayment(v)
    BY <1>0, <1>2 DEF HoldsPayment, TakesPayment
  <2>2. CASE UNCHANGED payVars \/ OthersMove
    BY <1>2, <2>2 DEF payVars, OthersMove
  <2>3. ASSUME NEW w \in Worker, Settle(w) \/ ApplyRefunded(w), job[w].at \in {"move", "enter"},
               GiveBack(w)
        PROVE  ~(job[v].sum <= total')
    <3>1. total' = Raised(job[w].sum) /\ job[w].sum \in Nat
      BY <2>3, EntryIsReal DEF GiveBack
    <3>2. CASE job[w].sum <= total
      BY <1>0, <1>2, <3>1, <3>2 DEF Raised
    <3>3. CASE job[w].sum > total
      <4>1. HoldsPayment(w)
        BY <2>3, <3>3 DEF HoldsPayment, TakesPayment
      <4>2. v = w
        BY <2>1, <4>1 DEF ReadsAreTrue
      <4>3. job'[w].at \in {"idle", "finish"}
        BY <1>0, <2>3, IdleIsAJob DEF Settle, ApplyRefunded, Return, Becomes, Call
      <4> QED BY <1>2, <4>2, <4>3
    <3> QED BY <1>0, <3>1, <3>2, <3>3
  <2> QED BY <2>2, <2>3, BooksMove
\* So a call that stays where it is read the truth, and holds no more than before.
<1>3. ASSUME NEW v \in Worker, job'[v] = job[v]
      PROVE  /\ ReadIsTrue(job'[v], total', status', lost')
             /\ HoldsPayment(v)' => HoldsPayment(v)
  <2>1. ReadIsTrue(job[v], total, status, lost)
    BY DEF ReadsAreTrue
  <2>2. ReadIsTrue(job'[v], total', status', lost')
    BY <1>0, <1>1, <1>2, <1>3, <2>1 DEF ReadIsTrue
  <2>3. HoldsPayment(v)' => HoldsPayment(v)
    BY <1>0, <1>1, <1>3 DEF HoldsPayment, TakesPayment, At
  <2> QED BY <2>2, <2>3
<1>4. CASE \A v \in Worker : job'[v] = job[v]
  BY <1>3, <1>4 DEF ReadsAreTrue
<1>5. ASSUME NEW w \in Worker, NEW call, Becomes(w, call), call.at \notin {"move", "enter"}
      PROVE  ReadsAreTrue'
  <2>1. job'[w] = call /\ \A v \in Worker \ {w} : job'[v] = job[v]
    BY <1>0, <1>5 DEF Becomes
  <2>2. ReadIsTrue(job'[w], total', status', lost') /\ ~HoldsPayment(w)'
    BY <1>5, <2>1 DEF ReadIsTrue, HoldsPayment
  <2>3. \A v \in Worker : ReadIsTrue(job'[v], total', status', lost')
    BY <1>3, <2>1, <2>2
  <2>4. \A v \in Worker : HoldsPayment(v)' => HoldsPayment(v)
    BY <1>3, <2>1, <2>2
  <2> QED BY <2>3, <2>4 DEF ReadsAreTrue
<1>6. ASSUME NEW w \in Worker, Read(w) PROVE ReadsAreTrue'
  <2>1. PICK step \in {"move", "enter"} :
          /\ Becomes(w, Reading(w, step))
          /\ Reading(w, step).at = step /\ Reading(w, step).sum = job[w].sum
          /\ Reading(w, step).from = status
          /\ step = "move" => job[w].at = "settle"
          /\ step = "enter" => job[w].at = "apply" /\ job[w].kind = "refunded"
    BY <1>6, ReadIsACall
  <2>2. UNCHANGED <<total, status, lost>>
    BY <1>6, ReadIsQuiet DEF payVars
  <2>3. job'[w] = Reading(w, step) /\ \A v \in Worker \ {w} : job'[v] = job[v]
    BY <1>0, <2>1 DEF Becomes
  <2>4. job[w].sum >= 1
    BY <2>1 DEF AmountsAreReal, Sized, HookSteps
  <2>5. ~lost /\ job[w].sum <= total => ~CanTransition(status, Final(job[w].sum))
    <3>1. SUFFICES ASSUME ~lost, job[w].sum <= total
                   PROVE  ~CanTransition(status, Final(job[w].sum))
      OBVIOUS
    <3>2. /\ status \in RefundOutcomes /\ status \in Refundable \cup {"REFUNDED"}
          /\ job[w].sum >= Paid => status = "REFUNDED"
      BY <1>0, <2>4, <3>1 DEF BooksAreOne
    <3>3. status = "REFUNDED" \/ status = "PARTIALLY_REFUNDED"
      BY <3>2 DEF RefundOutcomes
    <3> QED BY <1>0, <3>2, <3>3, FinalMoves
  <2>6. ReadIsTrue(job'[w], total', status', lost')
    BY <2>1, <2>2, <2>3, <2>5 DEF ReadIsTrue, BooksAreOne
  <2>7. HoldsPayment(w)' => TakesPayment(w)
    BY <2>1, <2>2, <2>3 DEF HoldsPayment, TakesPayment, At
  <2>8. TakesPayment(w) => \A v \in Worker \ {w} : ~HoldsPayment(v)
    BY <1>6 DEF Read, ReadToSettle, ReadToApply, ReadOrder
  <2>9. \A v \in Worker \ {w} : /\ ReadIsTrue(job'[v], total', status', lost')
                                /\ HoldsPayment(v)' => HoldsPayment(v)
    BY <1>3, <2>3
  <2> QED BY <2>6, <2>7, <2>8, <2>9 DEF ReadsAreTrue
<1>7. Processor \/ OthersMove \/ UNCHANGED vars => job' = job
  BY DEF Processor, Dashboard, Complete, OthersMove, vars
<1> QED BY <1>4, <1>5, <1>6, <1>7, OthersDoNotRead DEF Next

\* An event is worked before the store says that it was.
LEMMA NewsIsKeptWorked ==
  ASSUME Faithful, AmountsAreReal, BooksAreOne, ReadsAreTrue, NewsIsWorked, [Next]_vars
  PROVE  NewsIsWorked'
<1> USE DEF rowVars
<1>0. /\ job \in [Worker -> Jobs] /\ total \in Nat /\ total' \in Nat /\ total' >= total
      /\ events \subseteq Event /\ handled \subseteq events
  <2>1. total' \in Nat
    <3>1. total \in Nat
      BY DEF Faithful, RefundTypeOK
    <3> QED BY <3>1, BooksMove, EntryIsReal DEF payVars, OthersMove, GiveBack, Raised
  <2> QED BY <2>1, BooksStayOne DEF Faithful, RefundTypeOK
<1>1. flagged \subseteq flagged'
  BY ReadIsQuiet
     DEF Next, Processor, OthersMove, Dashboard, Complete, Begin, Proceed, Read, Crash, StartRefund,
         RetryRefund, Deliver, CreateRow, Ask, Hear, Lose, RecordRefusal, RecordAnswer, AddUp, Settle,
         Note, ApplyRefunded, ApplyRefundFailed, Finish, vars
<1>2. \A kind, r : \A n \in Int :
        Worked(total, flagged, kind, r, n) => Worked(total', flagged', kind, r, n)
  BY <1>0, <1>1 DEF Worked
<1>3. \A v \in Worker : job[v].sum \in Int
  BY <1>0 DEF Jobs
<1>4. \A e \in handled : e[3] \in Int
  BY <1>0, RefundsAssumption DEF Event
<1>5. \A e \in handled : Worked(total', flagged', e[1], e[2], e[3])
  BY <1>2, <1>4 DEF NewsIsWorked
<1>6. \A v \in Worker : Told(job[v], total', flagged')
  BY <1>2, <1>3 DEF NewsIsWorked, Told
<1>7. ASSUME NEW w \in Worker, NEW call, Becomes(w, call), Told(call, total', flagged'),
             handled' = handled
      PROVE  NewsIsWorked'
  <2>1. \A v \in Worker : job'[v] = IF v = w THEN call ELSE job[v]
    BY <1>0, <1>7 DEF Becomes
  <2> QED BY <1>5, <1>6, <1>7, <2>1 DEF NewsIsWorked
<1>8. ASSUME NEW w \in Worker, handled' = handled,
             \/ Return(w)
             \/ \E step \in {"ask", "wait", "refused", "note"} : Goto(w, step)
             \/ \E step \in {"create", "ask", "apply"} : \E r, kind, n :
                  Becomes(w, Call(step, r, kind, n))
      PROVE  NewsIsWorked'
  <2>1. \A t, noted : Told(Idle, t, noted)
    BY IdleIsAJob DEF Told
  <2>2. \A step \in {"ask", "wait", "refused", "note"} : \A t, noted :
          Told([job[w] EXCEPT !.at = step], t, noted)
    BY <1>0 DEF Told, Jobs
  <2>3. \A step \in {"create", "ask", "apply"} : \A r, kind, n, t, noted :
          Told(Call(step, r, kind, n), t, noted)
    BY DEF Told, Call
  <2> QED BY <1>7, <1>8, <2>1, <2>2, <2>3 DEF Return, Goto
<1>9. ASSUME NEW w \in Worker, Hear(w) \/ AddUp(w) PROVE NewsIsWorked'
  <2>1. handled' = handled /\ job[w] \in Jobs
    BY <1>0, <1>9 DEF Hear, AddUp
  <2>2. \A h, n, t, noted : /\ Told([job[w] EXCEPT !.at = "heard", !.heard = h], t, noted)
                            /\ Told([job[w] EXCEPT !.at = "settle", !.sum = n], t, noted)
    BY <2>1 DEF Told, Jobs
  <2> QED BY <1>7, <1>9, <2>1, <2>2 DEF Hear, AddUp
<1>10. ASSUME NEW w \in Worker, Note(w) PROVE NewsIsWorked'
  <2>1. handled' = handled /\ job[w] \in Jobs /\ flagged' = flagged \cup {job[w].ref}
    BY <1>0, <1>10 DEF Note
  <2>2. CASE At(w, "tell")
    <3> DEFINE call == [job[w] EXCEPT !.at = "finish"]
    <3>1. call.kind = "failed" /\ call.ref = job[w].ref /\ call.at = "finish"
      BY <2>1, <2>2 DEF Jobs, At, NewsIsWorked, Told
    <3>2. Told(call, total', flagged')
      BY <2>1, <3>1 DEF Told, Worked
    <3> QED BY <1>7, <1>10, <2>1, <2>2, <3>2 DEF Note, Goto
  <2>3. CASE ~At(w, "tell")
    BY <1>8, <1>10, <2>1, <2>3 DEF Note
  <2> QED BY <2>2, <2>3
<1>11. ASSUME NEW w \in Worker, ApplyRefunded(w) PROVE NewsIsWorked'
  <2> DEFINE call == Call("finish", job[w].ref, "refunded", job[w].sum)
  <2>1. handled' = handled /\ total' = Raised(job[w].sum) /\ job[w].sum \in Int
    BY <1>0, <1>11 DEF ApplyRefunded, GiveBack, Jobs
  <2>2. Told(call, total', flagged')
    BY <1>0, <2>1 DEF Call, Told, Worked, Raised
  <2> QED BY <1>7, <1>11, <2>1, <2>2 DEF ApplyRefunded
<1>12. ASSUME NEW w \in Worker, ApplyRefundFailed(w) PROVE NewsIsWorked'
  <2> DEFINE call == [job[w] EXCEPT !.at = "tell"]
  <2>1. handled' = handled /\ job[w] \in Jobs /\ job[w].kind = "failed"
    BY <1>0, <1>12 DEF ApplyRefundFailed
  <2>2. call.kind = "failed" /\ call.at = "tell"
    BY <2>1 DEF Jobs
  <2>3. Told(call, total', flagged')
    BY <2>2 DEF Told
  <2> QED BY <1>7, <1>12, <2>1, <2>3 DEF ApplyRefundFailed, Goto
<1>13. ASSUME NEW w \in Worker, Finish(w) PROVE NewsIsWorked'
  <2>1. /\ job' = [job EXCEPT ![w] = Idle] /\ job[w].at = "finish"
        /\ handled' = handled \cup
             {e \in events : e[1] = job[w].kind /\ e[2] = job[w].ref /\ e[3] = job[w].sum}
    BY <1>13 DEF Finish, At, Return, Becomes
  <2>2. Worked(total', flagged', job[w].kind, job[w].ref, job[w].sum)
    BY <1>6, <2>1 DEF Told
  <2>3. \A e \in handled' : Worked(total', flagged', e[1], e[2], e[3])
    BY <1>5, <2>1, <2>2
  <2>4. \A v \in Worker : Told(job'[v], total', flagged')
    BY <1>0, <1>6, <2>1, IdleIsAJob DEF Told
  <2> QED BY <2>3, <2>4 DEF NewsIsWorked
<1>14. ASSUME NEW w \in Worker,
              \/ Begin(w) \/ Crash(w) \/ Lose(w) \/ \E r \in Refund : CreateRow(w, r)
              \/ Ask(w) \/ RecordRefusal(w) \/ RecordAnswer(w) \/ Settle(w)
       PROVE  NewsIsWorked'
  BY <1>8, <1>14 DEF Begin, StartRefund, RetryRefund, Deliver, Crash, Lose, CreateRow, Ask,
                     RecordRefusal, RecordAnswer, Settle
<1>18. ASSUME NEW w \in Worker, Read(w) PROVE NewsIsWorked'
  <2>1. PICK step \in {"move", "enter"} : /\ Becomes(w, Reading(w, step))
                                          /\ Reading(w, step).at = step
    BY <1>18, ReadIsACall
  <2>2. handled' = handled /\ Told(Reading(w, step), total', flagged')
    BY <1>18, <2>1, ReadIsQuiet DEF Told
  <2> QED BY <1>7, <2>1, <2>2
<1>15. ASSUME NEW w \in Worker, Begin(w) \/ Proceed(w) \/ Crash(w) PROVE NewsIsWorked'
  BY <1>9, <1>10, <1>11, <1>12, <1>13, <1>14, <1>15, <1>18 DEF Proceed, Read
<1>16. ASSUME UNCHANGED <<job, handled>> PROVE NewsIsWorked'
  BY <1>5, <1>6, <1>16 DEF NewsIsWorked
<1>17. Processor \/ OthersMove \/ UNCHANGED vars => UNCHANGED <<job, handled>>
  BY DEF Processor, OthersMove, Dashboard, Complete, vars
<1> QED BY <1>15, <1>16, <1>17 DEF Next
-----------------------------------------------------------------------------
LEMMA NothingIsGone == Init => Gone = 0
<1> SUFFICES ASSUME Init PROVE Gone = 0
  OBVIOUS
<1>1. Back = {}
  BY DEF Init, Back, RemoteIn
<1>2. UnitsOf(size, {}) = {}
  BY DEF UnitsOf
<1> QED BY <1>1, <1>2, FS_EmptySet DEF Gone, SumOf

LEMMA ItStartsKept == Init => Kept
<1> SUFFICES ASSUME Init PROVE Kept
  OBVIOUS
<1>1. Sound /\ Gone = 0
  BY ItStartsSound, NothingIsGone
<1>2. AmountsAreReal
  BY IdleIsAJob DEF Init, AmountsAreReal, Sized, Asking, HookSteps
<1>3. NewsIsOut /\ NewsIsWorked
  BY <1>1, IdleIsAJob DEF Init, NewsIsOut, NewsIsWorked, Told
<1>4. BooksAreOne /\ ReadsAreTrue
  BY RefundsAssumption, IdleIsAJob
     DEF Init, BooksAreOne, Refundable, ReadsAreTrue, ReadIsTrue, HoldsPayment
<1> QED BY <1>1, <1>2, <1>3, <1>4 DEF Kept

LEMMA ItStaysKept == Kept /\ [Next]_vars => Kept'
<1> SUFFICES ASSUME Kept, [Next]_vars PROVE Kept'
  OBVIOUS
<1>1. Faithful /\ Sound /\ AmountsAreReal /\ NewsIsOut /\ NewsIsWorked /\ BooksAreOne /\ ReadsAreTrue
  BY DEF Kept, Sound
<1> QED BY <1>1, ItStaysSound, AmountsStay, NewsComesOut, NewsIsKeptWorked, BooksStayOne,
           ReadsStayTrue DEF Kept

LEMMA AlwaysKept == Spec => []Kept
BY ItStartsKept, ItStaysKept, PTL DEF Spec

LEMMA GivenIsGone == Given = Gone /\ Given' = Gone'
BY DEF Given, Gone, Back, Sum, Units, SumOf, UnitsOf

\* When every event has been worked and nothing is under way, the payment shows
\* what the processor has given back, and staff know of every refund it rejected,
\* for any number of refunds, lost answers and dead calls; the order shows it as
\* well unless delivery or staff moved it between a refund's read and its write.
THEOREM BooksEndUpRight == Spec => []BooksAgree
<1>1. Kept => BooksAgree
  <2> SUFFICES ASSUME Kept, events = handled, \A w \in Worker : At(w, "idle")
               PROVE  /\ total = Gone
                      /\ state = (IF Gone >= Paid THEN "REFUNDED" ELSE "SUCCEEDED")
                      /\ RemoteIn({"failed"}) \subseteq flagged
                      /\ ~lost => /\ status \in RefundOutcomes \equiv Gone > 0
                                  /\ status = "REFUNDED" \equiv Gone >= Paid
    BY GivenIsGone DEF BooksAgree
  <2>1. /\ total \in Nat /\ total <= Gone /\ Gone \in Nat
        /\ NewsIsOut /\ NewsIsWorked /\ BooksAreOne
    BY UnitsAreFinite DEF Kept, Sound, Faithful, RefundTypeOK, BooksAreTrue, Gone
  <2>2. Gone > 0 => Gone <= total
    BY <2>1 DEF NewsIsOut, NewsIsWorked, Worked
  <2>3. total = Gone
    BY <2>1, <2>2
  <2>4. RemoteIn({"failed"}) \subseteq flagged
    BY <2>1 DEF RemoteIn, NewsIsOut, NewsIsWorked, Worked
  <2>5. ~lost => /\ status \in RefundOutcomes \equiv total > 0
                 /\ status = "REFUNDED" \equiv total >= Paid
    BY <2>1, RefundsAssumption DEF BooksAreOne, RefundOutcomes
  <2>6. state = (IF total >= Paid THEN "REFUNDED" ELSE "SUCCEEDED")
    BY <2>1 DEF BooksAreOne
  <2> QED BY <2>3, <2>4, <2>5, <2>6
<1> QED BY <1>1, AlwaysKept, PTL

\* A step of the store, the processor, staff or delivery is, to the ledger, nothing,
\* more money given back, one entry of a larger total than the last, or an order
\* that catches up with one that it missed.
LEMMA StepKeepsLedger == Kept /\ [Next]_vars => [Ledger!Next]_(Ledger!refundVars)
<1> SUFFICES ASSUME Kept, [Next]_vars PROVE [Ledger!Next]_(Ledger!refundVars)
  OBVIOUS
<1> DEFINE out == IF status \in RefundOutcomes THEN status ELSE "none"
<1>1. /\ Faithful /\ AmountsAreReal /\ BooksAreOne /\ ReadsAreTrue /\ NewsIsOut /\ RefundTypeOK
      /\ total \in Nat /\ total <= Gone /\ Paid \in Nat \ {0}
  BY RefundsAssumption DEF Kept, Sound, Faithful, RefundTypeOK, BooksAreTrue
<1>2. Given = Gone /\ Given' = Gone' /\ Gone \in Nat /\ Gone' \in Nat
  BY GivenIsGone, UnitsAreFinite DEF Gone
<1>3. ASSUME UNCHANGED <<total, state, sales, lost>>, out' = out
      PROVE  [Ledger!Next]_(Ledger!refundVars)
  <2>1. Gone' >= Gone
    BY <1>1, NewsComesOut
  <2>2. CASE Gone' = Gone
    BY <1>2, <1>3, <2>2 DEF Ledger!refundVars
  <2>3. CASE Gone' > Gone
    <3>1. Ledger!GiveMore
      BY <1>2, <1>3, <2>3 DEF Ledger!GiveMore
    <3> QED BY <3>1 DEF Ledger!Next
  <2> QED BY <1>2, <2>1, <2>2, <2>3
<1>4. CASE UNCHANGED payVars
  BY <1>3, <1>4 DEF payVars
<1>5. CASE OthersMove
  <2>1. UNCHANGED <<total, state, sales, lost>>
    BY <1>5 DEF OthersMove
  <2>2. out' = out
    BY <1>5 DEF OthersMove, DeliveryMoves, RefundOutcomes
  <2> QED BY <1>3, <2>1, <2>2
<1>6. ASSUME NEW w \in Worker, job[w].at \in {"move", "enter"}, GiveBack(w),
             UNCHANGED <<remoteVars, size, flagged, handled>>
      PROVE  [Ledger!Next]_(Ledger!refundVars)
  <2> DEFINE n == job[w].sum
  <2>1. n \in Nat /\ n >= 1 /\ n <= Gone /\ ReadIsTrue(job[w], total, status, lost)
    BY <1>1, <1>6, EntryIsReal DEF ReadsAreTrue
  <2>2. Entered(n) /\ lost \in BOOLEAN /\ lost' \in BOOLEAN
    BY <1>1, <1>6, <2>1, EntryIsBooked DEF RefundTypeOK
  <2>3. Gone' = Gone
    BY <1>1, <1>6, Quiet DEF remoteVars
  <2>4. (status = "REFUNDED" <=> out = "REFUNDED") /\ (Followed(n) => out' = Final(n))
    BY DEF RefundOutcomes, Followed, Final
  <2>5. UNCHANGED <<status, sales>> => out' = out
    OBVIOUS
  <2> HIDE DEF n, out
  <2>6. Followed(n) => out' = (IF n >= Paid THEN "REFUNDED" ELSE "PARTIALLY_REFUNDED")
                       /\ sales' = (IF n >= Paid THEN 0 ELSE sales) /\ lost' = lost
    BY <2>4 DEF Followed, Final
  <2>7. CASE n > total /\ total' = n /\ state' = (IF n >= Paid THEN "REFUNDED" ELSE state)
             /\ (Followed(n) \/ (lost' /\ UNCHANGED <<status, sales>>))
    <3>1. total' \in (total + 1)..Given
      BY <1>1, <1>2, <2>1, <2>7
    <3>2. Given' = Given
      BY <1>2, <2>3
    <3>3. Ledger!Book
      BY <2>2, <2>5, <2>6, <2>7, <3>1, <3>2 DEF Ledger!Book, Ledger!Follow, Ledger!Miss, out
    <3> QED BY <3>3 DEF Ledger!Next
  <2>8. CASE /\ n <= total /\ UNCHANGED <<total, state>>
             /\ lost /\ status # "REFUNDED" /\ Followed(n)
    <3>1. n \in 1..total
      BY <1>1, <2>1, <2>8
    <3>2. Given' = Given
      BY <1>2, <2>3
    <3>3. Ledger!CatchUp(n)
      BY <2>4, <2>6, <2>8, <3>2 DEF Ledger!CatchUp, Ledger!Follow, out
    <3> QED BY <3>1, <3>3 DEF Ledger!Next
  <2>9. CASE UNCHANGED <<total, state, lost, status, sales>>
    BY <1>3, <2>5, <2>9
  <2> QED BY <2>2, <2>7, <2>8, <2>9 DEF Entered
<1> QED BY <1>1, <1>4, <1>5, <1>6, BooksMove

\* The refunds implement the ledger, for any number of refunds and calls and any
\* amount paid.
THEOREM RefundsKeepLedger == Spec => LedgerKept
<1>1. Init => Ledger!Init
  <2> SUFFICES ASSUME Init PROVE Ledger!Init
    OBVIOUS
  <2>1. Given = 0
    BY GivenIsGone, NothingIsGone
  <2> QED BY <2>1 DEF Init, Ledger!Init, RefundOutcomes
<1> QED BY <1>1, StepKeepsLedger, AlwaysKept, PTL DEF Spec, LedgerKept, Ledger!Spec
=============================================================================
