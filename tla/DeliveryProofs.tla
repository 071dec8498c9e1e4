--------------------------- MODULE DeliveryProofs ---------------------------
(***************************************************************************)
(* Proofs about what the jobs deliver: callbacks (Callbacks), for every    *)
(* set of orders and generations, every retry schedule and every lease     *)
(* that is not shorter than a job may run; their replays under idempotency *)
(* keys (Retries) and outgoing mail (Mail), for every number of keys,      *)
(* mails and workers.                                                      *)
(***************************************************************************)
EXTENDS MCDelivery, FiniteSetTheorems, TLAPS

-----------------------------------------------------------------------------
(* The inductive invariant.                                                *)

(* An order that is not paid has no callback.                              *)
UnpaidHasNone ==
    \A e \in Events : status[OrderOf(e)] = "unpaid" => event[e].state = "absent"

(* As long as the outcome of an attempt can be recorded, the attempt is    *)
(* the last of its event, as old as the event says, and nobody but a       *)
(* refund has touched the event since.                                     *)
AttemptCurrent ==
    \A a \in inflight : a.age < Patience =>
        /\ event[a.event].tries = a.no
        /\ event[a.event].age = a.age
        /\ event[a.event].state \in {"running", "cancelled"}

IInv == TypeOK /\ UnpaidHasNone /\ AttemptCurrent /\ OneAttemptPerEvent

-----------------------------------------------------------------------------
(* Rows.                                                                   *)

LEMMA EventShape ==
    ASSUME NEW e \in Events
    PROVE  /\ OrderOf(e) \in Orders /\ GenerationOf(e) \in Generations
           /\ e = <<OrderOf(e), GenerationOf(e)>>
BY DEF Events, OrderOf, GenerationOf

LEMMA BlankRow ==
    /\ Blank \in EventRow
    /\ [Blank EXCEPT !.state = "pending"] \in EventRow
BY RetryAssumption, PatienceAssumption DEF Blank, EventRow

EventState ==
    {"absent", "pending", "running", "success", "failed", "cancelled"}

(* A row after a change of its state and date.                             *)
LEMMA RowUpdate ==
    ASSUME NEW row \in EventRow, NEW w \in 0 .. MaxDelay,
           NEW s \in EventState
    PROVE  /\ [row EXCEPT !.state = s, !.wait = w] \in EventRow
           /\ [row EXCEPT !.state = s, !.wait = w].state = s
           /\ [row EXCEPT !.state = s, !.wait = w].tries = row.tries
           /\ [row EXCEPT !.state = s, !.wait = w].age = row.age
BY DEF EventRow, EventState

(* A row after the passing of time.                                        *)
LEMMA RowTick ==
    ASSUME NEW row \in EventRow
    PROVE  LET new == [row EXCEPT !.wait = IF @ > 0 THEN @ - 1 ELSE 0,
                                  !.age = Aged(@, Lease)]
           IN  /\ new \in EventRow
               /\ new.state = row.state /\ new.tries = row.tries
               /\ new.age = Aged(row.age, Lease)
<1> DEFINE w == IF row.wait > 0 THEN row.wait - 1 ELSE 0
           a == Aged(row.age, Lease)
<1>1. w \in 0 .. MaxDelay
  BY RetryAssumption DEF EventRow
<1>2. a \in 0 .. Lease
  BY PatienceAssumption DEF EventRow, Aged
<1> HIDE DEF w, a
<1>3. LET new == [row EXCEPT !.wait = w, !.age = a]
      IN  /\ new \in EventRow
          /\ new.state = row.state /\ new.tries = row.tries /\ new.age = a
  BY <1>1, <1>2 DEF EventRow
<1> QED BY <1>3 DEF w, a

LEMMA AttemptTick ==
    ASSUME NEW a \in Attempt
    PROVE  LET new == [a EXCEPT !.age = Aged(@, Patience)]
           IN  /\ new \in Attempt
               /\ new.event = a.event /\ new.no = a.no
               /\ new.age = Aged(a.age, Patience)
<1> DEFINE g == Aged(a.age, Patience)
<1>1. g \in 0 .. Patience
  BY PatienceAssumption DEF Attempt, Aged
<1> HIDE DEF g
<1>2. LET new == [a EXCEPT !.age = g]
      IN  new \in Attempt /\ new.event = a.event /\ new.no = a.no /\ new.age = g
  BY <1>1 DEF Attempt
<1> QED BY <1>2 DEF g

LEMMA DelayBound ==
    ASSUME NEW no \in 1 .. MaxAttempts
    PROVE  RetryDelay(no) \in 0 .. MaxDelay
BY RetryAssumption DEF RetryDelay

-----------------------------------------------------------------------------
(* Callbacks begin in states that satisfy the invariant.                   *)
LEMMA Initially == Init => IInv
<1> SUFFICES ASSUME Init PROVE IInv
  OBVIOUS
<1>1. TypeOK
  BY BlankRow DEF Init, TypeOK
<1>2. UnpaidHasNone
  BY DEF Init, UnpaidHasNone, Blank
<1>3. AttemptCurrent /\ OneAttemptPerEvent
  BY DEF Init, AttemptCurrent, OneAttemptPerEvent
<1> QED BY <1>1, <1>2, <1>3 DEF IInv

(* What a step that starts no attempt owes the invariant: every event that *)
(* has a recordable attempt keeps its count and age, and its state unless  *)
(* it is cancelled.                                                        *)
LEMMA NoNewAttempt ==
    ASSUME IInv, inflight' \subseteq inflight,
           \A a \in inflight' : a.age < Patience =>
              /\ event'[a.event].tries = event[a.event].tries
              /\ event'[a.event].age = event[a.event].age
              /\ event'[a.event].state \in {event[a.event].state, "cancelled"}
    PROVE  AttemptCurrent' /\ OneAttemptPerEvent'
<1>1. AttemptCurrent'
  BY DEF IInv, AttemptCurrent
<1>2. OneAttemptPerEvent'
  BY DEF IInv, OneAttemptPerEvent
<1> QED BY <1>1, <1>2

(* The new event of an order is written over an absent row, and rows of    *)
(* recordable attempts are not absent.                                     *)
LEMMA NewEventKeeps ==
    ASSUME IInv, NEW e \in Events, event[e].state = "absent",
           NewEvent(e), UNCHANGED inflight
    PROVE  /\ event' \in [Events -> EventRow]
           /\ AttemptCurrent' /\ OneAttemptPerEvent'
           /\ \A f \in Events : f # e => event'[f] = event[f]
           /\ \A f \in Events :
                 event[f].state = "success" => event'[f].state = "success"
<1>1. event \in [Events -> EventRow]
  BY DEF IInv, TypeOK
<1>2. event' \in [Events -> EventRow]
  BY <1>1, BlankRow DEF NewEvent
<1>3. \A f \in Events : f # e => event'[f] = event[f]
  BY <1>1 DEF NewEvent
<1>4. \A a \in inflight : a.age < Patience => a.event # e /\ a.event \in Events
  BY DEF IInv, AttemptCurrent, TypeOK, Attempt
<1>5. AttemptCurrent' /\ OneAttemptPerEvent'
  BY <1>3, <1>4, NoNewAttempt
<1> QED BY <1>2, <1>3, <1>5

-----------------------------------------------------------------------------
(* The steps.  Each keeps the invariant and, for SuccessIsFinal, every     *)
(* confirmed event.                                                        *)

Kept ==
    /\ IInv'
    /\ \A e \in Events :
          event[e].state = "success" => event'[e].state = "success"

LEMMA JobsTyped ==
    ASSUME IInv
    PROVE  /\ \A S : Enqueue(S) => job' \in [Orders -> {"none", "queued", "working", "completed"}]
           /\ \A o, ok : JobEnds(o, ok) => job' \in [Orders -> {"none", "queued", "working", "completed"}]
<1>1. job \in [Orders -> {"none", "queued", "working", "completed"}]
  BY DEF IInv, TypeOK
<1> QED BY <1>1 DEF Enqueue, JobEnds

(* Steps of the queue alone.                                               *)
LEMMA QueueStep ==
    ASSUME IInv, UNCHANGED <<status, event, inflight>>,
           job' \in [Orders -> {"none", "queued", "working", "completed"}]
    PROVE  Kept
<1>1. TypeOK'
  BY DEF IInv, TypeOK
<1>2. UnpaidHasNone' /\ AttemptCurrent' /\ OneAttemptPerEvent'
  BY DEF IInv, UnpaidHasNone, AttemptCurrent, OneAttemptPerEvent
<1> QED BY <1>1, <1>2 DEF Kept, IInv

LEMMA MarkPaidStep ==
    ASSUME IInv, NEW o \in Orders, MarkPaid(o)
    PROVE  Kept
<1> DEFINE e == <<o, 1>>
<1>1. e \in Events /\ OrderOf(e) = o
  BY GenerationAssumption DEF Events, OrderOf
<1>2. event[e].state = "absent"
  BY <1>1 DEF MarkPaid, IInv, UnpaidHasNone
<1>3. NewEvent(e) /\ UNCHANGED inflight
  BY DEF MarkPaid
<1>4. /\ event' \in [Events -> EventRow]
      /\ AttemptCurrent' /\ OneAttemptPerEvent'
      /\ \A f \in Events : f # e => event'[f] = event[f]
      /\ \A f \in Events : event[f].state = "success" => event'[f].state = "success"
  <2> HIDE DEF e
  <2> QED BY <1>1, <1>2, <1>3, NewEventKeeps
<1>5. status' \in [Orders -> {"unpaid", "paid", "refunded"}]
      /\ status'[o] = "paid" /\ \A p \in Orders : p # o => status'[p] = status[p]
  BY DEF MarkPaid, IInv, TypeOK
<1>6. TypeOK'
  BY <1>4, <1>5, JobsTyped DEF MarkPaid, IInv, TypeOK
<1>7. UnpaidHasNone'
  <2> SUFFICES ASSUME NEW f \in Events, status'[OrderOf(f)] = "unpaid"
               PROVE  event'[f].state = "absent"
    BY DEF UnpaidHasNone
  <2>1. OrderOf(f) # o /\ OrderOf(f) \in Orders
    BY <1>5, EventShape
  <2>2. f # e
    BY <2>1, <1>1
  <2> QED BY <2>1, <2>2, <1>4, <1>5 DEF IInv, UnpaidHasNone
<1> QED BY <1>4, <1>6, <1>7 DEF Kept, IInv

LEMMA ReplayStep ==
    ASSUME IInv, NEW e \in Events, Replay(e)
    PROVE  Kept
<1> DEFINE next == <<OrderOf(e), GenerationOf(e) + 1>>
<1>1. /\ next \in Events /\ NewEvent(next) /\ UNCHANGED <<status, inflight>>
      /\ Latest(e) /\ status[OrderOf(e)] = "paid" /\ Enqueue({OrderOf(e)})
  BY DEF Replay
<1>2. OrderOf(next) = OrderOf(e) /\ ~ (GenerationOf(next) <= GenerationOf(e))
  BY EventShape, GenerationAssumption DEF OrderOf, GenerationOf
<1>3. event[next].state = "absent"
  BY <1>1, <1>2 DEF Latest
<1>4. /\ event' \in [Events -> EventRow]
      /\ AttemptCurrent' /\ OneAttemptPerEvent'
      /\ \A f \in Events : f # next => event'[f] = event[f]
      /\ \A f \in Events : event[f].state = "success" => event'[f].state = "success"
  <2> HIDE DEF next
  <2> QED BY <1>1, <1>3, NewEventKeeps
<1>5. TypeOK'
  BY <1>1, <1>4, JobsTyped DEF IInv, TypeOK
<1>6. UnpaidHasNone'
  <2> SUFFICES ASSUME NEW f \in Events, status[OrderOf(f)] = "unpaid"
               PROVE  event'[f].state = "absent"
    BY <1>1 DEF UnpaidHasNone
  <2>1. f # next
    BY <1>1, <1>2
  <2> QED BY <2>1, <1>4 DEF IInv, UnpaidHasNone
<1> QED BY <1>4, <1>5, <1>6 DEF Kept, IInv

LEMMA RefundStep ==
    ASSUME IInv, NEW o \in Orders, Refund(o)
    PROVE  Kept
<1>1. event \in [Events -> EventRow] /\ inflight \subseteq Attempt
  BY DEF IInv, TypeOK
<1>2. ASSUME NEW e \in Events
      PROVE  /\ event'[e] \in EventRow
             /\ event'[e].tries = event[e].tries /\ event'[e].age = event[e].age
             /\ event'[e].state = event[e].state
                \/ /\ event[e].state \in {"pending", "failed"}
                   /\ event'[e].state = "cancelled" /\ OrderOf(e) = o
  <2>1. CASE OrderOf(e) = o /\ event[e].state \in {"pending", "failed"}
    <3>1. event'[e] = [event[e] EXCEPT !.state = "cancelled", !.wait = 0]
      BY <2>1 DEF Refund
    <3>2. 0 \in 0 .. MaxDelay
      BY RetryAssumption
    <3>3. event[e] \in EventRow
      BY <1>1
    <3>4. /\ event'[e] \in EventRow /\ event'[e].state = "cancelled"
          /\ event'[e].tries = event[e].tries /\ event'[e].age = event[e].age
      <4> DEFINE s == "cancelled"
                 w == 0
                 row == event[e]
      <4>1. s \in EventState /\ w \in 0 .. MaxDelay /\ row \in EventRow
        BY <3>2, <3>3 DEF EventState
      <4>2. event'[e] = [row EXCEPT !.state = s, !.wait = w]
        BY <3>1
      <4> HIDE DEF s, w, row
      <4>3. /\ [row EXCEPT !.state = s, !.wait = w] \in EventRow
            /\ [row EXCEPT !.state = s, !.wait = w].state = s
            /\ [row EXCEPT !.state = s, !.wait = w].tries = row.tries
            /\ [row EXCEPT !.state = s, !.wait = w].age = row.age
        BY <4>1, RowUpdate, Zenon
      <4>4. /\ event'[e] \in EventRow /\ event'[e].state = s
            /\ event'[e].tries = row.tries /\ event'[e].age = row.age
        BY <4>2, <4>3, Zenon
      <4> QED BY <4>4 DEF s, row
    <3> QED BY <2>1, <3>4
  <2>2. CASE ~ (OrderOf(e) = o /\ event[e].state \in {"pending", "failed"})
    <3>1. event'[e] = event[e]
      BY <2>2 DEF Refund
    <3> QED BY <3>1, <1>1
  <2> QED BY <2>1, <2>2
<1>3. event' \in [Events -> EventRow]
  BY <1>2 DEF Refund
<1>4. /\ status' \in [Orders -> {"unpaid", "paid", "refunded"}]
      /\ \A p \in Orders : status'[p] = "unpaid" => status[p] = "unpaid" /\ p # o
  BY DEF Refund, IInv, TypeOK
<1>5. TypeOK'
  BY <1>3, <1>4 DEF Refund, IInv, TypeOK
<1>6. UnpaidHasNone'
  BY <1>2, <1>4, EventShape DEF IInv, UnpaidHasNone
<1>7. \A a \in inflight : a.event \in Events
  BY <1>1 DEF Attempt
<1>8. AttemptCurrent' /\ OneAttemptPerEvent'
  BY <1>2, <1>7, NoNewAttempt DEF Refund
<1>9. \A e \in Events : event[e].state = "success" => event'[e].state = "success"
  BY <1>2
<1> QED BY <1>5, <1>6, <1>8, <1>9 DEF Kept, IInv

-----------------------------------------------------------------------------
(* Steps that write the state and the date of one event.                   *)

LEMMA Written ==
    ASSUME event \in [Events -> EventRow], NEW e \in Events,
           NEW s \in EventState, NEW w \in 0 .. MaxDelay,
           event' = [event EXCEPT ![e].state = s, ![e].wait = w]
    PROVE  /\ event' \in [Events -> EventRow]
           /\ event'[e].state = s /\ event'[e].tries = event[e].tries
           /\ event'[e].age = event[e].age
           /\ \A f \in Events : f # e => event'[f] = event[f]
<1> DEFINE row == event[e]
           new == [row EXCEPT !.state = s, !.wait = w]
<1>1. row \in EventRow
  OBVIOUS
<1>2. /\ event'[e] = new
      /\ \A f \in Events : f # e => event'[f] = event[f]
      /\ DOMAIN event' = Events /\ event' = [f \in Events |-> event'[f]]
  OBVIOUS
<1>3. /\ new \in EventRow /\ new.state = s
      /\ new.tries = row.tries /\ new.age = row.age
  <2>1. PICK r \in EventRow : r = row
    BY <1>1
  <2>2. /\ [r EXCEPT !.state = s, !.wait = w] \in EventRow
        /\ [r EXCEPT !.state = s, !.wait = w].state = s
        /\ [r EXCEPT !.state = s, !.wait = w].tries = r.tries
        /\ [r EXCEPT !.state = s, !.wait = w].age = r.age
    BY RowUpdate
  <2> QED BY <2>1, <2>2
<1> HIDE DEF new
<1>4. event' \in [Events -> EventRow]
  BY <1>2, <1>3
<1> QED BY <1>2, <1>3, <1>4

(* The write keeps the invariant if the event existed, and if its          *)
(* recordable attempts are gone or it is cancelled.                        *)
LEMMA WrittenKeeps ==
    ASSUME IInv, NEW e \in Events, NEW s \in EventState,
           NEW w \in 0 .. MaxDelay,
           event' = [event EXCEPT ![e].state = s, ![e].wait = w],
           event[e].state \notin {"absent", "success"},
           inflight' \subseteq inflight, UNCHANGED status,
           \A a \in inflight' : a.age < Patience /\ a.event = e => s = "cancelled",
           job' \in [Orders -> {"none", "queued", "working", "completed"}]
    PROVE  Kept
<1>1. event \in [Events -> EventRow] /\ inflight \subseteq Attempt
  BY DEF IInv, TypeOK
<1>2. /\ event' \in [Events -> EventRow]
      /\ event'[e].state = s /\ event'[e].tries = event[e].tries
      /\ event'[e].age = event[e].age
      /\ \A f \in Events : f # e => event'[f] = event[f]
  BY <1>1, Written
<1>3. TypeOK'
  BY <1>1, <1>2 DEF IInv, TypeOK
<1>4. UnpaidHasNone'
  BY <1>2 DEF IInv, UnpaidHasNone
<1>5. \A a \in inflight : a.event \in Events
  BY <1>1 DEF Attempt
<1>6. AttemptCurrent' /\ OneAttemptPerEvent'
  BY <1>2, <1>5, NoNewAttempt
<1>7. \A f \in Events : event[f].state = "success" => event'[f].state = "success"
  BY <1>2
<1> QED BY <1>3, <1>4, <1>6, <1>7 DEF Kept, IInv

LEMMA SelectedIsDue ==
    ASSUME NEW o, NEW e \in Selected(o)
    PROVE  e \in Events /\ OrderOf(e) = o /\ event[e].state \in Open
BY DEF Selected, Due

(* The lease: an event nobody leases has no recordable attempt, because a  *)
(* job may not run longer than the lease.                                  *)
LEMMA LeaseCovers ==
    ASSUME IInv, NEW e \in Events, event[e].state \in Open, ~ Leased(e)
    PROVE  \A a \in inflight : a.age < Patience => a.event # e
<1> SUFFICES ASSUME NEW a \in inflight, a.age < Patience, a.event = e
             PROVE  FALSE
  OBVIOUS
<1>1. event[e].age = a.age /\ event[e].state = "running"
  BY DEF IInv, AttemptCurrent, Open
<1>2. a.age \in Nat
  BY PatienceAssumption DEF IInv, TypeOK, Attempt
<1> QED BY <1>1, <1>2, PatienceAssumption DEF Leased

LEMMA ClaimRefundedStep ==
    ASSUME IInv, NEW o \in Orders, ClaimRefunded(o)
    PROVE  Kept
<1>1. PICK e \in Selected(o) :
         event' = [event EXCEPT ![e].state = "cancelled", ![e].wait = 0]
  BY DEF ClaimRefunded
<1>2. e \in Events /\ event[e].state \notin {"absent", "success"}
  BY SelectedIsDue DEF Open
<1>3. job' \in [Orders -> {"none", "queued", "working", "completed"}]
  BY DEF ClaimRefunded, IInv, TypeOK
<1>4. "cancelled" \in EventState /\ 0 \in 0 .. MaxDelay
  BY RetryAssumption DEF EventState
<1>5. inflight' = inflight /\ UNCHANGED status
  BY DEF ClaimRefunded
<1> QED BY <1>1, <1>2, <1>3, <1>4, <1>5, WrittenKeeps

LEMMA ClaimExhaustedStep ==
    ASSUME IInv, NEW o \in Orders, ClaimExhausted(o)
    PROVE  Kept
<1>1. PICK e \in Selected(o) :
         ~ Leased(e) /\ event' = [event EXCEPT ![e].state = "failed", ![e].wait = 0]
  BY DEF ClaimExhausted
<1>2. /\ e \in Events /\ event[e].state \in Open
      /\ event[e].state \notin {"absent", "success"}
  BY SelectedIsDue DEF Open
<1>3. job' \in [Orders -> {"none", "queued", "working", "completed"}]
  BY DEF ClaimExhausted, IInv, TypeOK
<1>4. "failed" \in EventState /\ 0 \in 0 .. MaxDelay
  BY RetryAssumption DEF EventState
<1>5. \A a \in inflight : a.age < Patience => a.event # e
  BY <1>1, <1>2, LeaseCovers
<1>6. inflight' = inflight /\ UNCHANGED status
  BY DEF ClaimExhausted
<1> QED BY <1>1, <1>2, <1>3, <1>4, <1>5, <1>6, WrittenKeeps

LEMMA FinishStep ==
    ASSUME IInv, NEW a, NEW ok, Finish(a, ok)
    PROVE  Kept
<1> DEFINE e == a.event
           s == IF ok THEN "success" ELSE "failed"
           w == IF ok THEN 0 ELSE RetryDelay(a.no)
<1>1. a \in inflight /\ a.age < Patience /\ inflight' = inflight \ {a}
  BY DEF Finish
<1>2. a \in Attempt
  BY <1>1 DEF IInv, TypeOK
<1>3. e \in Events /\ event[e].state \in {"running", "cancelled"}
  BY <1>1, <1>2 DEF Attempt, IInv, AttemptCurrent
<1>4. s \in EventState
  BY DEF EventState
<1>5. w \in 0 .. MaxDelay
  BY <1>2, DelayBound, RetryAssumption DEF Attempt
<1>6. event' = [event EXCEPT ![e].state = s, ![e].wait = w]
  BY DEF Finish
<1>7. \A b \in inflight' : b.age < Patience => b.event # e
  BY <1>1 DEF IInv, OneAttemptPerEvent
<1>8. job' \in [Orders -> {"none", "queued", "working", "completed"}]
  BY JobsTyped DEF Finish
<1>9. UNCHANGED status
  BY DEF Finish
<1> HIDE DEF e, s, w
<1> QED BY <1>1, <1>3, <1>4, <1>5, <1>6, <1>7, <1>8, <1>9, WrittenKeeps

LEMMA LoseStep ==
    ASSUME IInv, NEW a, Lose(a)
    PROVE  Kept
<1>1. job' \in [Orders -> {"none", "queued", "working", "completed"}]
  BY JobsTyped DEF Lose, IInv, TypeOK
<1>2. inflight' \subseteq inflight /\ UNCHANGED <<status, event>>
  BY DEF Lose
<1>3. TypeOK'
  BY <1>1, <1>2 DEF IInv, TypeOK
<1>4. AttemptCurrent' /\ OneAttemptPerEvent'
  BY <1>2, NoNewAttempt
<1>5. UnpaidHasNone'
  BY <1>2 DEF IInv, UnpaidHasNone
<1> QED BY <1>2, <1>3, <1>4, <1>5 DEF Kept, IInv

-----------------------------------------------------------------------------
(* A new attempt, and the passing of time.                                 *)

LEMMA ClaimAttemptStep ==
    ASSUME IInv, NEW o \in Orders, ClaimAttempt(o)
    PROVE  Kept
<1>1. PICK e \in Selected(o) :
         /\ ~ Leased(e) /\ ~ Exhausted(e)
         /\ event' = [event EXCEPT ![e] =
                         [state |-> "running", wait |-> 0,
                          tries |-> event[e].tries + 1, age |-> 0]]
         /\ inflight' = inflight \cup
               {[event |-> e, no |-> event[e].tries + 1, age |-> 0]}
  BY DEF ClaimAttempt
<1> DEFINE no == event[e].tries + 1
           new == [event |-> e, no |-> no, age |-> 0]
           row == [state |-> "running", wait |-> 0, tries |-> no, age |-> 0]
<1>2. /\ e \in Events /\ event[e].state \in Open
      /\ event[e].state \notin {"absent", "success"}
  BY SelectedIsDue DEF Open
<1>3. event \in [Events -> EventRow] /\ inflight \subseteq Attempt
  BY DEF IInv, TypeOK
<1>4. no \in 1 .. MaxAttempts
  <2>1. event[e].tries \in 0 .. MaxAttempts
    BY <1>2, <1>3 DEF EventRow
  <2> QED BY <2>1, <1>1, RetryAssumption DEF Exhausted
<1>5. row \in EventRow /\ new \in Attempt
  BY <1>2, <1>4, RetryAssumption, PatienceAssumption DEF EventRow, Attempt
<1>6. /\ event' \in [Events -> EventRow] /\ event'[e] = row
      /\ \A f \in Events : f # e => event'[f] = event[f]
  BY <1>1, <1>2, <1>3, <1>5
<1>7. inflight' = inflight \cup {new}
  BY <1>1
<1>8. row.state = "running" /\ row.tries = no /\ row.age = 0
      /\ new.event = e /\ new.no = no /\ new.age = 0
  OBVIOUS
<1> HIDE DEF no, new, row
<1>9. job' \in [Orders -> {"none", "queued", "working", "completed"}]
      /\ UNCHANGED status
  BY DEF ClaimAttempt, IInv, TypeOK
<1>10. TypeOK'
  BY <1>3, <1>5, <1>6, <1>7, <1>9 DEF IInv, TypeOK
<1>11. UnpaidHasNone'
  BY <1>2, <1>6, <1>9 DEF IInv, UnpaidHasNone
<1>12. \A a \in inflight : a.age < Patience => a.event # e /\ a.event \in Events
  BY <1>1, <1>2, <1>3, LeaseCovers DEF Attempt
<1>13. AttemptCurrent'
  <2> SUFFICES ASSUME NEW a \in inflight', a.age < Patience
               PROVE  /\ event'[a.event].tries = a.no
                      /\ event'[a.event].age = a.age
                      /\ event'[a.event].state \in {"running", "cancelled"}
    BY DEF AttemptCurrent
  <2>1. CASE a = new
    BY <2>1, <1>6, <1>8
  <2>2. CASE a \in inflight
    BY <2>2, <1>6, <1>12 DEF IInv, AttemptCurrent
  <2> QED BY <2>1, <2>2, <1>7
<1>14. OneAttemptPerEvent'
  BY <1>7, <1>8, <1>12 DEF IInv, OneAttemptPerEvent
<1>15. \A f \in Events : event[f].state = "success" => event'[f].state = "success"
  BY <1>2, <1>6
<1> QED BY <1>10, <1>11, <1>13, <1>14, <1>15 DEF Kept, IInv

LEMMA TickStep ==
    ASSUME IInv, Tick
    PROVE  Kept
<1>1. event \in [Events -> EventRow] /\ inflight \subseteq Attempt
  BY DEF IInv, TypeOK
<1>2. ASSUME NEW e \in Events
      PROVE  /\ event'[e] \in EventRow
             /\ event'[e].state = event[e].state
             /\ event'[e].tries = event[e].tries
             /\ event'[e].age = Aged(event[e].age, Lease)
  <2> DEFINE row == event[e]
  <2>1. row \in EventRow
    BY <1>1
  <2>2. event'[e] = [row EXCEPT !.wait = IF @ > 0 THEN @ - 1 ELSE 0,
                                !.age = Aged(@, Lease)]
    BY DEF Tick
  <2> HIDE DEF row
  <2>3. /\ event'[e] \in EventRow /\ event'[e].state = row.state
        /\ event'[e].tries = row.tries /\ event'[e].age = Aged(row.age, Lease)
    BY <2>1, <2>2, RowTick, Zenon
  <2> QED BY <2>3 DEF row
<1>3. event' \in [Events -> EventRow]
  BY <1>2 DEF Tick
<1>4. ASSUME NEW b \in inflight'
      PROVE  /\ b \in Attempt
             /\ \E a \in inflight : /\ b = [a EXCEPT !.age = Aged(@, Patience)]
                                    /\ b.event = a.event /\ b.no = a.no
                                    /\ b.age = Aged(a.age, Patience)
  <2>1. PICK a \in inflight : b = [a EXCEPT !.age = Aged(@, Patience)]
    BY DEF Tick
  <2>2. a \in Attempt
    BY <1>1
  <2>3. /\ b \in Attempt /\ b.event = a.event /\ b.no = a.no
        /\ b.age = Aged(a.age, Patience)
    BY <2>1, <2>2, AttemptTick, Zenon
  <2> QED BY <2>1, <2>3
<1>5. TypeOK'
  BY <1>3, <1>4 DEF Tick, IInv, TypeOK
<1>6. UnpaidHasNone'
  BY <1>2 DEF Tick, IInv, UnpaidHasNone
<1>7. ASSUME NEW a \in inflight, Aged(a.age, Patience) < Patience
      PROVE  /\ a.age < Patience /\ a.event \in Events
             /\ Aged(a.age, Patience) = Aged(a.age, Lease)
  BY <1>1, <1>7, PatienceAssumption DEF Attempt, Aged
<1>8. AttemptCurrent'
  <2> SUFFICES ASSUME NEW b \in inflight', b.age < Patience
               PROVE  /\ event'[b.event].tries = b.no
                      /\ event'[b.event].age = b.age
                      /\ event'[b.event].state \in {"running", "cancelled"}
    BY DEF AttemptCurrent
  <2>1. PICK a \in inflight : /\ b.event = a.event /\ b.no = a.no
                              /\ b.age = Aged(a.age, Patience)
    BY <1>4
  <2>2. /\ event[a.event].tries = a.no /\ event[a.event].age = a.age
        /\ event[a.event].state \in {"running", "cancelled"}
        /\ a.event \in Events /\ Aged(a.age, Patience) = Aged(a.age, Lease)
    BY <2>1, <1>7 DEF IInv, AttemptCurrent
  <2> QED BY <2>1, <2>2, <1>2
<1>9. OneAttemptPerEvent'
  <2> SUFFICES ASSUME NEW b \in inflight', NEW c \in inflight', b.event = c.event,
                      b.age < Patience, c.age < Patience
               PROVE  b = c
    BY DEF OneAttemptPerEvent
  <2>1. PICK x \in inflight : /\ b = [x EXCEPT !.age = Aged(@, Patience)]
                              /\ b.event = x.event /\ b.age = Aged(x.age, Patience)
    BY <1>4
  <2>2. PICK y \in inflight : /\ c = [y EXCEPT !.age = Aged(@, Patience)]
                              /\ c.event = y.event /\ c.age = Aged(y.age, Patience)
    BY <1>4
  <2>3. x = y
    BY <2>1, <2>2, <1>7 DEF IInv, OneAttemptPerEvent
  <2> QED BY <2>1, <2>2, <2>3
<1>10. \A e \in Events : event[e].state = "success" => event'[e].state = "success"
  BY <1>2
<1> QED BY <1>5, <1>6, <1>8, <1>9, <1>10 DEF Kept, IInv

-----------------------------------------------------------------------------
(* Every step keeps the invariant and every confirmed event.               *)
LEMMA StepKeeps == IInv /\ [Next]_vars => Kept
<1> SUFFICES ASSUME IInv, [Next]_vars PROVE Kept
  OBVIOUS
<1> DEFINE JobState == {"none", "queued", "working", "completed"}
<1>1. CASE Tick
  BY <1>1, TickStep
<1>2. CASE Scan
  BY <1>2, JobsTyped, QueueStep DEF Scan
<1>3. ASSUME NEW o \in Orders, MarkPaid(o) PROVE Kept
  BY <1>3, MarkPaidStep
<1>4. ASSUME NEW o \in Orders, Refund(o) PROVE Kept
  BY <1>4, RefundStep
<1>5. ASSUME NEW o \in Orders, Claim(o) PROVE Kept
  <2>1. CASE ClaimNothing(o)
    <3>1. job' \in [Orders -> JobState]
      BY <2>1 DEF ClaimNothing, IInv, TypeOK
    <3> QED BY <2>1, <3>1, QueueStep DEF ClaimNothing
  <2>2. CASE ClaimRefunded(o)
    BY <2>2, ClaimRefundedStep
  <2>3. CASE ClaimExhausted(o)
    BY <2>3, ClaimExhaustedStep
  <2>4. CASE ClaimAttempt(o)
    BY <2>4, ClaimAttemptStep
  <2> QED BY <1>5, <2>1, <2>2, <2>3, <2>4 DEF Claim
<1>6. ASSUME NEW o \in Orders, Rescue(o) \/ CleanJob(o) PROVE Kept
  <2>1. job' \in [Orders -> JobState]
    BY <1>6 DEF Rescue, CleanJob, IInv, TypeOK
  <2> QED BY <1>6, <2>1, QueueStep DEF Rescue, CleanJob
<1>7. ASSUME NEW e \in Events, Replay(e) PROVE Kept
  BY <1>7, ReplayStep
<1>8. ASSUME NEW a \in inflight, Ends(a) PROVE Kept
  BY <1>8, FinishStep, LoseStep DEF Ends
<1>9. CASE UNCHANGED vars
  <2>1. UNCHANGED <<status, event, inflight>> /\ job' = job
    BY <1>9 DEF vars
  <2> QED BY <2>1, QueueStep DEF IInv, TypeOK
<1> QED BY <1>1, <1>2, <1>3, <1>4, <1>5, <1>6, <1>7, <1>8, <1>9 DEF Next, Deliver

(* The rows of callback_events and the attempts under way keep their       *)
(* shape: attempts are counted up to MaxAttempts, dates stay within the    *)
(* longest delay.                                                          *)
THEOREM TypeCorrect == Spec => []TypeOK
<1>1. IInv /\ [Next]_vars => IInv'
  BY StepKeeps DEF Kept
<1>2. IInv => TypeOK
  BY DEF IInv
<1> QED BY Initially, <1>1, <1>2, PTL DEF Spec

(* However often the queue runs a job twice and workers die, no event has  *)
(* two attempts whose outcome can be recorded: the lease of two minutes is *)
(* not shorter than a job may run, and that is all the proof needs.        *)
THEOREM AttemptsExclusive == Spec => []OneAttemptPerEvent
<1>1. IInv /\ [Next]_vars => IInv'
  BY StepKeeps DEF Kept
<1>2. IInv => OneAttemptPerEvent
  BY DEF IInv
<1> QED BY Initially, <1>1, <1>2, PTL DEF Spec

(* A confirmed callback stays confirmed, although the outcome of an        *)
(* attempt is written over the event without looking at its state.         *)
THEOREM ConfirmationIsFinal == Spec => SuccessIsFinal
<1> DEFINE Final == \A e \in Events :
              event[e].state = "success" => event'[e].state = "success"
<1>1. IInv /\ [Next]_vars => IInv' /\ [Final]_vars
  BY StepKeeps DEF Kept
<1> QED BY Initially, <1>1, PTL DEF Spec, SuccessIsFinal

-----------------------------------------------------------------------------
(* Rows of callback_events are never deleted.                              *)

RowsStay ==
    \A e \in Events : event[e].state # "absent" => event'[e].state # "absent"

LEMMA NewEventStays ==
    ASSUME TypeOK, NEW f \in Events, NewEvent(f)
    PROVE  RowsStay /\ event'[f].state # "absent"
BY DEF NewEvent, RowsStay, TypeOK, Blank

(* A write that gives one row another state than "absent".                 *)
LEMMA WrittenStays ==
    ASSUME TypeOK, NEW f \in Events, NEW s \in EventState \ {"absent"},
           NEW w \in 0 .. MaxDelay,
           event' = [event EXCEPT ![f].state = s, ![f].wait = w]
    PROVE  RowsStay
<1>1. event \in [Events -> EventRow] /\ s \in EventState
  BY DEF TypeOK
<1>2. event'[f].state = s /\ \A e \in Events : e # f => event'[e] = event[e]
  BY <1>1, Written
<1> QED BY <1>2 DEF RowsStay

LEMMA ClaimStays ==
    ASSUME TypeOK, NEW o \in Orders, Claim(o)
    PROVE  RowsStay
<1>0. 0 \in 0 .. MaxDelay
  BY RetryAssumption
<1>1. CASE ClaimNothing(o)
  BY <1>1 DEF ClaimNothing, RowsStay
<1>2. CASE ClaimRefunded(o)
  <2>1. PICK e \in Selected(o) :
          event' = [event EXCEPT ![e].state = "cancelled", ![e].wait = 0]
    BY <1>2 DEF ClaimRefunded
  <2> QED BY <2>1, <1>0, WrittenStays DEF Selected, EventState
<1>3. CASE ClaimExhausted(o)
  <2>1. PICK e \in Selected(o) :
          event' = [event EXCEPT ![e].state = "failed", ![e].wait = 0]
    BY <1>3 DEF ClaimExhausted
  <2> QED BY <2>1, <1>0, WrittenStays DEF Selected, EventState
<1>4. CASE ClaimAttempt(o)
  <2>1. PICK e \in Selected(o) :
          event' = [event EXCEPT ![e] = [state |-> "running", wait |-> 0,
                                 tries |-> event[e].tries + 1, age |-> 0]]
    BY <1>4 DEF ClaimAttempt
  <2> QED BY <2>1 DEF RowsStay, TypeOK
<1> QED BY <1>1, <1>2, <1>3, <1>4 DEF Claim

LEMMA EndsStays ==
    ASSUME TypeOK, NEW a \in inflight, Ends(a)
    PROVE  RowsStay
<1>1. CASE Lose(a)
  BY <1>1 DEF Lose, RowsStay
<1>2. ASSUME NEW ok \in BOOLEAN, Finish(a, ok) PROVE RowsStay
  <2>1. a \in Attempt /\ a.event \in Events
    BY DEF TypeOK, Attempt
  <2>2. (IF ok THEN 0 ELSE RetryDelay(a.no)) \in 0 .. MaxDelay
    BY <2>1, DelayBound, RetryAssumption DEF Attempt
  <2> QED BY <1>2, <2>1, <2>2, WrittenStays DEF Finish, EventState
<1> QED BY <1>1, <1>2 DEF Ends

LEMMA DeliverStays ==
    ASSUME TypeOK, Deliver
    PROVE  RowsStay
<1>1. CASE Tick
  <2> SUFFICES ASSUME NEW e \in Events
               PROVE  event'[e].state = event[e].state
    BY DEF RowsStay
  <2>1. event[e] \in EventRow
    BY DEF TypeOK
  <2>2. event'[e] = [event[e] EXCEPT !.wait = IF @ > 0 THEN @ - 1 ELSE 0,
                                     !.age = Aged(@, Lease)]
    BY <1>1 DEF Tick
  <2> QED BY <2>1, <2>2, RowTick
<1>2. CASE Scan
  BY <1>2 DEF Scan, RowsStay
<1>3. ASSUME NEW o \in Orders, MarkPaid(o) PROVE RowsStay
  <2>1. <<o, 1>> \in Events
    BY GenerationAssumption DEF Events
  <2> QED BY <1>3, <2>1, NewEventStays DEF MarkPaid
<1>4. ASSUME NEW o \in Orders, Refund(o) PROVE RowsStay
  BY <1>4 DEF Refund, RowsStay, TypeOK, EventRow
<1>5. ASSUME NEW o \in Orders, Claim(o) PROVE RowsStay
  BY <1>5, ClaimStays
<1>6. ASSUME NEW o \in Orders, Rescue(o) \/ CleanJob(o) PROVE RowsStay
  BY <1>6 DEF Rescue, CleanJob, RowsStay
<1>7. ASSUME NEW a \in inflight, Ends(a) PROVE RowsStay
  BY <1>7, EndsStays
<1> QED BY <1>1, <1>2, <1>3, <1>4, <1>5, <1>6, <1>7 DEF Deliver

-----------------------------------------------------------------------------
(* Replays under a key.                                                    *)

(* What a key's row tells, if it has one, is all that was ever answered    *)
(* during the row's life, and it is a callback that exists.                *)
AnswersFromRecord ==
    /\ record \in [Keys -> Events \cup {NoRecord}]
    /\ told \in [Keys -> SUBSET Events]
    /\ \A k \in Keys :
          /\ told[k] \subseteq {record[k]}
          /\ Recorded(k) => event[record[k]].state # "absent"

ReplayInv == IInv /\ AnswersFromRecord

LEMMA ReplayInitially == RetriesInit => ReplayInv
<1> SUFFICES ASSUME RetriesInit PROVE ReplayInv
  OBVIOUS
<1>1. IInv
  BY Initially DEF RetriesInit
<1>2. AnswersFromRecord
  BY DEF RetriesInit, AnswersFromRecord, Recorded
<1> QED BY <1>1, <1>2 DEF ReplayInv

(* While the records stay as they are, a step only has to keep the rows.   *)
LEMMA RecordsRest ==
    ASSUME AnswersFromRecord, RowsStay, UNCHANGED <<record, told>>
    PROVE  AnswersFromRecord'
BY DEF AnswersFromRecord, RowsStay, Recorded

LEMMA ReplayFirstStep ==
    ASSUME ReplayInv, NEW k \in Keys, NEW e \in Events, ReplayFirst(k, e)
    PROVE  AnswersFromRecord'
<1> DEFINE next == <<OrderOf(e), GenerationOf(e) + 1>>
<1>1. /\ next \in Events /\ NewEvent(next)
      /\ record[k] = NoRecord
      /\ record' = [record EXCEPT ![k] = next]
      /\ told' = [told EXCEPT ![k] = @ \cup {next}]
  BY DEF ReplayFirst, Replay, Answer, Recorded
<1> HIDE DEF next
<1>2. RowsStay /\ event'[next].state # "absent"
  BY <1>1, NewEventStays DEF ReplayInv, IInv
<1>3. told[k] = {}
  BY <1>1, RetriesAssumption DEF ReplayInv, AnswersFromRecord
<1>4. /\ record' \in [Keys -> Events \cup {NoRecord}]
      /\ told' \in [Keys -> SUBSET Events]
  BY <1>1 DEF ReplayInv, AnswersFromRecord
<1>5. ASSUME NEW j \in Keys
      PROVE  /\ told'[j] \subseteq {record'[j]}
             /\ record'[j] # NoRecord => event'[record'[j]].state # "absent"
  <2>1. CASE j = k
    BY <2>1, <1>1, <1>2, <1>3 DEF ReplayInv, AnswersFromRecord
  <2>2. CASE j # k
    <3>1. record'[j] = record[j] /\ told'[j] = told[j]
      BY <2>2, <1>1 DEF ReplayInv, AnswersFromRecord
    <3> QED BY <3>1, <1>2 DEF ReplayInv, AnswersFromRecord, Recorded, RowsStay
  <2> QED BY <2>1, <2>2
<1> QED BY <1>4, <1>5 DEF AnswersFromRecord, Recorded

LEMMA ReplayStepKeeps == ReplayInv /\ [RetriesNext]_retriesVars => ReplayInv'
<1> SUFFICES ASSUME ReplayInv, [RetriesNext]_retriesVars PROVE ReplayInv'
  OBVIOUS
<1>1. [Next]_vars
  BY DEF RetriesNext, ReplayFirst, ReplayAgain, Lapse, Next, retriesVars
<1>2. IInv'
  BY <1>1, StepKeeps DEF ReplayInv, Kept
<1>3. AnswersFromRecord'
  <2>1. CASE Deliver /\ UNCHANGED <<record, told>>
    BY <2>1, DeliverStays, RecordsRest DEF ReplayInv, IInv
  <2>2. ASSUME NEW k \in Keys, Lapse(k) PROVE AnswersFromRecord'
    BY <2>2 DEF Lapse, ReplayInv, AnswersFromRecord, Recorded, vars
  <2>3. ASSUME NEW k \in Keys, NEW e \in Events, ReplayFirst(k, e)
        PROVE  AnswersFromRecord'
    BY <2>3, ReplayFirstStep
  <2>4. ASSUME NEW k \in Keys, NEW o \in Orders, ReplayAgain(k, o)
        PROVE  AnswersFromRecord'
    BY <2>4 DEF ReplayAgain, Answer, ReplayInv, AnswersFromRecord, Recorded, vars
  <2>5. CASE UNCHANGED retriesVars
    BY <2>5 DEF retriesVars, vars, ReplayInv, AnswersFromRecord, Recorded
  <2> QED BY <2>1, <2>2, <2>3, <2>4, <2>5 DEF RetriesNext
<1> QED BY <1>2, <1>3 DEF ReplayInv

LEMMA AnswersAgree == ReplayInv => OneReplayPerKey
<1> SUFFICES ASSUME ReplayInv, NEW k \in Keys
             PROVE  /\ Cardinality(told[k]) <= 1
                    /\ \A e \in told[k] : event[e].state # "absent"
  BY DEF OneReplayPerKey
<1>1. told[k] \subseteq {record[k]}
  BY DEF ReplayInv, AnswersFromRecord
<1>2. IsFiniteSet({record[k]}) /\ Cardinality({record[k]}) = 1
  BY FS_Singleton
<1>3. Cardinality(told[k]) <= 1
  BY <1>1, <1>2, FS_Subset
<1>4. ASSUME NEW e \in told[k] PROVE event[e].state # "absent"
  <2>1. e = record[k] /\ e \in Events
    BY <1>1 DEF ReplayInv, AnswersFromRecord
  <2> QED BY <2>1, RetriesAssumption DEF ReplayInv, AnswersFromRecord, Recorded
<1> QED BY <1>3, <1>4

(* A merchant who asks again with a key, as often as he likes and however  *)
(* long after the first replay ended, has made one replay while the row of *)
(* idempotency_records lives, and every answer names that callback.        *)
THEOREM ReplayedOncePerKey == RetriesSpec => []OneReplayPerKey
BY ReplayInitially, ReplayStepKeeps, AnswersAgree, PTL DEF RetriesSpec

(* The same next to mail, as the model is run.                             *)
LEMMA DeliveryReplays == DeliverySpec => []OneReplayPerKey
<1>1. DeliveryInit => ReplayInv
  BY ReplayInitially DEF DeliveryInit
<1>2. [DeliveryNext]_<<part, retriesVars, mailVars>> => [RetriesNext]_retriesVars
  BY DEF DeliveryNext, RetriesNext
<1> QED BY <1>1, <1>2, ReplayStepKeeps, AnswersAgree, PTL DEF DeliverySpec

-----------------------------------------------------------------------------
(* Mail.                                                                   *)

(* A mail in somebody's batch is in nobody else's: it is unsent and its    *)
(* pause is not over, so nobody may claim it.                              *)
ClaimedOnce ==
    \A w \in Workers : \A m \in batch[w] :
        /\ mail[m].state \in {"queued", "failed"}
        /\ mail[m].attempts >= 1 /\ ~ mail[m].rested
        /\ \A v \in Workers : m \in batch[v] => v = w

(* A worker sends what it claimed.                                         *)
SendsClaimed ==
    \A w \in Workers : answer[w] # Post!NoAnswer => answer[w].mail \in batch[w]

(* The server takes a mail at most once per counted attempt; the attempt   *)
(* of a mail in a batch is still unused unless its answer is there.        *)
AcceptedWithinAttempts ==
    \A m \in Mails :
        /\ accepted[m] <= mail[m].attempts
        /\ \A w \in Workers : m \in batch[w] /\ answer[w].mail # m
              => accepted[m] < mail[m].attempts

MailInv ==
    Post!TypeOK /\ ClaimedOnce /\ SendsClaimed /\ AcceptedWithinAttempts

(* No answer is an answer about no mail.                                   *)
LEMMA NoMail == Post!NoAnswer.mail \notin Mails
BY DeliveryAssumption DEF Post!MailAssumption, Post!NoAnswer

(* What a step keeps.                                                      *)
MailKept ==
    /\ MailInv'
    /\ \A m \in Mails : mail[m].state = "sent" =>
          mail'[m].state = "sent" /\ accepted'[m] = accepted[m]

LEMMA MailInitially == Post!Init => MailInv
BY DeliveryAssumption
   DEF DeliveryAssumption, Post!MailAssumption, Post!Init, Post!TypeOK,
       Post!MailRow, MailInv, ClaimedOnce, SendsClaimed, AcceptedWithinAttempts

(* Rows after a claim and after the record of an outcome.                  *)
LEMMA MailRowClaimed ==
    ASSUME NEW row \in Post!MailRow, row.attempts < MailAttempts
    PROVE  LET new == [row EXCEPT !.attempts = @ + 1, !.rested = FALSE]
           IN  /\ new \in Post!MailRow /\ new.state = row.state
               /\ new.attempts = row.attempts + 1 /\ ~ new.rested
<1>1. row.attempts + 1 \in 0 .. MailAttempts
  BY DeliveryAssumption DEF Post!MailRow, Post!MailAssumption
<1> QED BY <1>1 DEF Post!MailRow

LEMMA MailQueueStep ==
    ASSUME MailInv, NEW m \in Mails, Post!Queue(m)
    PROVE  MailKept
<1>1. /\ mail' \in [Mails -> Post!MailRow]
      /\ \A n \in Mails : n # m => mail'[n] = mail[n]
      /\ mail'[m].attempts = mail[m].attempts
      /\ mail[m].state = "absent"
      /\ \A w \in Workers : m \notin batch[w]
  BY DEF MailInv, Post!TypeOK, Post!Queue, Post!MailRow, ClaimedOnce
<1>2. batch' = batch /\ answer' = answer /\ accepted' = accepted
  BY DEF Post!Queue
<1>3. Post!TypeOK' /\ SendsClaimed'
  BY <1>1, <1>2 DEF MailInv, Post!TypeOK, SendsClaimed
<1>4. ClaimedOnce' /\ AcceptedWithinAttempts'
  BY <1>1, <1>2
     DEF MailInv, Post!TypeOK, ClaimedOnce, AcceptedWithinAttempts
<1> QED BY <1>1, <1>2, <1>3, <1>4 DEF MailKept, MailInv

LEMMA MailRestStep ==
    ASSUME MailInv, NEW m \in Mails, Post!Rest(m)
    PROVE  MailKept
<1>1. /\ mail' \in [Mails -> Post!MailRow]
      /\ \A n \in Mails : n # m => mail'[n] = mail[n]
      /\ mail'[m].attempts = mail[m].attempts
      /\ mail'[m].state = mail[m].state
      /\ \A w \in Workers : m \notin batch[w]
  BY DEF MailInv, Post!TypeOK, Post!Rest, Post!MailRow, Post!UnderWay
<1>2. batch' = batch /\ answer' = answer /\ accepted' = accepted
  BY DEF Post!Rest
<1>3. Post!TypeOK' /\ SendsClaimed'
  BY <1>1, <1>2 DEF MailInv, Post!TypeOK, SendsClaimed
<1>4. ClaimedOnce' /\ AcceptedWithinAttempts'
  BY <1>1, <1>2
     DEF MailInv, Post!TypeOK, ClaimedOnce, AcceptedWithinAttempts
<1> QED BY <1>1, <1>2, <1>3, <1>4 DEF MailKept, MailInv

(* A claim takes mails that nobody has: their pause is over, or they were  *)
(* never tried.                                                            *)
LEMMA MailClaimStep ==
    ASSUME MailInv, NEW w \in Workers, Post!Claim(w)
    PROVE  MailKept
<1>1. PICK S \in SUBSET {m \in Mails : Post!Due(m)} :
        /\ batch' = [batch EXCEPT ![w] = S]
        /\ mail' = [m \in Mails |->
              IF m \in S
              THEN [mail[m] EXCEPT !.attempts = @ + 1, !.rested = FALSE]
              ELSE mail[m]]
  BY DEF Post!Claim
<1>2. /\ batch[w] = {} /\ answer' = answer /\ accepted' = accepted
      /\ answer[w] = Post!NoAnswer
  BY DEF Post!Claim, MailInv, SendsClaimed
<1>3. ASSUME NEW m \in S
      PROVE  /\ m \in Mails /\ \A v \in Workers : m \notin batch[v]
             /\ mail[m].state \in {"queued", "failed"}
             /\ mail'[m] \in Post!MailRow
             /\ mail'[m].state = mail[m].state
             /\ mail'[m].attempts = mail[m].attempts + 1
             /\ ~ mail'[m].rested
  <2>1. m \in Mails /\ Post!Due(m) /\ mail[m] \in Post!MailRow
    BY DEF MailInv, Post!TypeOK
  <2>2. \A v \in Workers : m \notin batch[v]
    BY <2>1 DEF MailInv, ClaimedOnce, Post!Due, Post!MailRow
  <2>3. mail'[m] = [mail[m] EXCEPT !.attempts = @ + 1, !.rested = FALSE]
    BY <1>1, <2>1
  <2>4. mail[m].attempts < MailAttempts /\ mail[m].state \in {"queued", "failed"}
    BY <2>1 DEF Post!Due
  <2> QED BY <2>1, <2>2, <2>3, <2>4, MailRowClaimed
<1>4. \A m \in Mails : m \notin S => mail'[m] = mail[m]
  BY <1>1
<1>5. /\ batch'[w] = S /\ \A v \in Workers : v # w => batch'[v] = batch[v]
      /\ batch' \in [Workers -> SUBSET Mails]
  BY <1>1, <1>3 DEF MailInv, Post!TypeOK
<1>6. Post!TypeOK'
  <2>1. mail' \in [Mails -> Post!MailRow]
    BY <1>1, <1>3, <1>4 DEF MailInv, Post!TypeOK
  <2> QED BY <2>1, <1>2, <1>5 DEF MailInv, Post!TypeOK
<1>7. ClaimedOnce'
  <2> SUFFICES ASSUME NEW v \in Workers, NEW m \in batch'[v]
               PROVE  /\ mail'[m].state \in {"queued", "failed"}
                      /\ mail'[m].attempts >= 1 /\ ~ mail'[m].rested
                      /\ \A u \in Workers : m \in batch'[u] => u = v
    BY DEF ClaimedOnce
  <2>1. CASE v = w
    <3>1. m \in S /\ mail[m].attempts \in Nat
      BY <2>1, <1>3, <1>5 DEF MailInv, Post!TypeOK, Post!MailRow
    <3> QED BY <2>1, <3>1, <1>3, <1>5
  <2>2. CASE v # w
    <3>1. m \in batch[v] /\ m \in Mails
      BY <2>2, <1>5 DEF MailInv, Post!TypeOK
    <3>2. m \notin S /\ mail'[m] = mail[m]
      BY <3>1, <1>3, <1>4
    <3> QED BY <2>2, <3>1, <3>2, <1>5 DEF MailInv, ClaimedOnce
  <2> QED BY <2>1, <2>2
<1>8. SendsClaimed'
  BY <1>2, <1>5 DEF MailInv, SendsClaimed
<1>9. AcceptedWithinAttempts'
  <2> SUFFICES ASSUME NEW m \in Mails
               PROVE  /\ accepted'[m] <= mail'[m].attempts
                      /\ \A v \in Workers :
                            m \in batch'[v] /\ answer'[v].mail # m
                              => accepted'[m] < mail'[m].attempts
    BY DEF AcceptedWithinAttempts
  <2>1. /\ accepted[m] \in Nat /\ mail[m].attempts \in Nat
        /\ accepted[m] <= mail[m].attempts
    BY DEF MailInv, Post!TypeOK, Post!MailRow, AcceptedWithinAttempts
  <2>2. CASE m \in S
    BY <2>1, <2>2, <1>2, <1>3
  <2>3. CASE m \notin S
    BY <2>1, <2>3, <1>2, <1>4, <1>5 DEF MailInv, AcceptedWithinAttempts
  <2> QED BY <2>2, <2>3
<1> QED BY <1>2, <1>3, <1>4, <1>6, <1>7, <1>8, <1>9 DEF MailKept, MailInv

LEMMA MailSendStep ==
    ASSUME MailInv, NEW w \in Workers, NEW m \in batch[w],
           NEW taken \in BOOLEAN, NEW ok \in BOOLEAN, Post!Send(w, m, taken, ok)
    PROVE  MailKept
<1>1. /\ m \in Mails /\ answer[w] = Post!NoAnswer
      /\ mail' = mail /\ batch' = batch
      /\ mail[m].state \in {"queued", "failed"}
      /\ \A v \in Workers : m \in batch[v] => v = w
  BY DEF Post!Send, MailInv, Post!TypeOK, ClaimedOnce
<1>2. /\ accepted[m] \in Nat /\ accepted[m] < mail[m].attempts
      /\ mail[m].attempts \in 0 .. MailAttempts
  <2>1. answer[w].mail # m
    BY <1>1, NoMail
  <2> QED BY <2>1, <1>1
          DEF MailInv, Post!TypeOK, Post!MailRow, AcceptedWithinAttempts
<1>3. /\ answer' \in [Workers -> Post!Answer \cup {Post!NoAnswer}]
      /\ answer'[w].mail = m /\ answer'[w] # Post!NoAnswer
      /\ \A v \in Workers : v # w => answer'[v] = answer[v]
  <2>1. [mail |-> m, ok |-> ok] \in Post!Answer
    BY <1>1 DEF Post!Answer
  <2>2. [mail |-> m, ok |-> ok] # Post!NoAnswer
    BY <1>1, DeliveryAssumption DEF Post!NoAnswer, Post!MailAssumption
  <2>3. answer' = [answer EXCEPT ![w] = [mail |-> m, ok |-> ok]]
    BY DEF Post!Send
  <2> QED BY <2>1, <2>2, <2>3 DEF MailInv, Post!TypeOK
<1>4. /\ accepted'[m] \in {accepted[m], accepted[m] + 1}
      /\ \A n \in Mails : n # m => accepted'[n] = accepted[n]
      /\ DOMAIN accepted' = Mails /\ accepted' = [n \in Mails |-> accepted'[n]]
  BY <1>1 DEF Post!Send, MailInv, Post!TypeOK
<1>5. accepted' \in [Mails -> 0 .. MailAttempts]
  <2>1. accepted'[m] \in 0 .. MailAttempts
    BY <1>2, <1>4, DeliveryAssumption DEF Post!MailAssumption
  <2> QED BY <2>1, <1>4 DEF MailInv, Post!TypeOK
<1>6. Post!TypeOK' /\ SendsClaimed' /\ ClaimedOnce'
  BY <1>1, <1>3, <1>5 DEF MailInv, Post!TypeOK, SendsClaimed, ClaimedOnce
<1>7. AcceptedWithinAttempts'
  <2> SUFFICES ASSUME NEW n \in Mails
               PROVE  /\ accepted'[n] <= mail'[n].attempts
                      /\ \A v \in Workers :
                            n \in batch'[v] /\ answer'[v].mail # n
                              => accepted'[n] < mail'[n].attempts
    BY DEF AcceptedWithinAttempts
  <2>1. CASE n = m
    BY <2>1, <1>1, <1>2, <1>3, <1>4
  <2>2. CASE n # m
    <3>1. mail'[n] = mail[n] /\ accepted'[n] = accepted[n]
      BY <2>2, <1>1, <1>4
    <3>2. accepted[n] <= mail[n].attempts
      BY DEF MailInv, AcceptedWithinAttempts
    <3>3. ASSUME NEW v \in Workers, n \in batch'[v], answer'[v].mail # n
          PROVE  accepted[n] < mail[n].attempts
      <4>1. n \in batch[v]
        BY <3>3, <1>1
      <4>2. answer[v].mail # n
        BY <3>3, <1>1, <1>3, NoMail
      <4> QED BY <4>1, <4>2 DEF MailInv, AcceptedWithinAttempts
    <3> QED BY <3>1, <3>2, <3>3
  <2> QED BY <2>1, <2>2
<1> QED BY <1>1, <1>4, <1>6, <1>7 DEF MailKept, MailInv

(* The outcome is written without looking at the row; nobody else can have *)
(* sent the mail, because nobody else has it.                              *)
LEMMA MailRecordStep ==
    ASSUME MailInv, NEW w \in Workers, Post!Record(w)
    PROVE  MailKept
<1> DEFINE m == answer[w].mail
           s == IF answer[w].ok THEN "sent" ELSE "failed"
<1>1. /\ m \in batch[w] /\ m \in Mails /\ s \in {"sent", "failed"}
      /\ mail[m].state \in {"queued", "failed"}
      /\ \A v \in Workers : m \in batch[v] => v = w
  BY DEF Post!Record, MailInv, SendsClaimed, Post!TypeOK, ClaimedOnce
<1>2. /\ mail' = [mail EXCEPT ![m].state = s, ![m].rested = FALSE]
      /\ batch' = [batch EXCEPT ![w] = @ \ {m}]
      /\ answer' = [answer EXCEPT ![w] = Post!NoAnswer]
      /\ accepted' = accepted
  BY DEF Post!Record
<1> HIDE DEF m, s
<1>3. mail'[m] = [mail[m] EXCEPT !.state = s, !.rested = FALSE]
  BY <1>1, <1>2 DEF MailInv, Post!TypeOK
<1>4. /\ \A n \in Mails : n # m => mail'[n] = mail[n]
      /\ mail' = [n \in Mails |-> mail'[n]]
  BY <1>1, <1>2 DEF MailInv, Post!TypeOK
<1>5. mail'[m] \in Post!MailRow /\ mail'[m].attempts = mail[m].attempts
  <2>1. mail[m] \in Post!MailRow
    BY <1>1 DEF MailInv, Post!TypeOK
  <2>2. PICK row, new : row = mail[m] /\ new = mail'[m]
    OBVIOUS
  <2>3. new = [row EXCEPT !.state = s, !.rested = FALSE]
    BY <1>3, <2>2
  <2>4. row \in Post!MailRow /\ s \in {"sent", "failed"}
    BY <1>1, <2>1, <2>2
  <2>5. new \in Post!MailRow
    BY <2>3, <2>4 DEF Post!MailRow
  <2>6. new.attempts = row.attempts
    BY <2>3, <2>4 DEF Post!MailRow
  <2> QED BY <2>2, <2>5, <2>6
<1>6. /\ batch' \in [Workers -> SUBSET Mails]
      /\ \A v \in Workers : m \notin batch'[v] /\ batch'[v] \subseteq batch[v]
      /\ \A v \in Workers : v # w => batch'[v] = batch[v]
  BY <1>1, <1>2 DEF MailInv, Post!TypeOK
<1>7. /\ answer' \in [Workers -> Post!Answer \cup {Post!NoAnswer}]
      /\ answer'[w] = Post!NoAnswer
      /\ \A v \in Workers : v # w => answer'[v] = answer[v]
  BY <1>2 DEF MailInv, Post!TypeOK
<1>8. mail' \in [Mails -> Post!MailRow]
  BY <1>4, <1>5 DEF MailInv, Post!TypeOK
<1>9. Post!TypeOK'
  BY <1>2, <1>6, <1>7, <1>8 DEF MailInv, Post!TypeOK
<1>10. ClaimedOnce' /\ SendsClaimed'
  <2>1. ASSUME NEW v \in Workers, NEW n \in batch'[v]
        PROVE  n \in batch[v] /\ n # m /\ mail'[n] = mail[n]
    BY <1>4, <1>6 DEF MailInv, Post!TypeOK
  <2> QED BY <2>1, <1>6, <1>7 DEF MailInv, ClaimedOnce, SendsClaimed
<1>11. AcceptedWithinAttempts'
  <2> SUFFICES ASSUME NEW n \in Mails
               PROVE  /\ accepted'[n] <= mail'[n].attempts
                      /\ \A v \in Workers :
                            n \in batch'[v] /\ answer'[v].mail # n
                              => accepted'[n] < mail'[n].attempts
    BY DEF AcceptedWithinAttempts
  <2>1. mail'[n].attempts = mail[n].attempts /\ accepted'[n] = accepted[n]
    BY <1>2, <1>4, <1>5
  <2>2. ASSUME NEW v \in Workers, n \in batch'[v], answer'[v].mail # n
        PROVE  accepted[n] < mail[n].attempts
    <3>1. CASE v # w
      BY <2>2, <3>1, <1>6, <1>7 DEF MailInv, AcceptedWithinAttempts
    <3>2. CASE v = w
      <4>1. n \in batch[w] /\ answer[w].mail # n
        BY <2>2, <3>2, <1>6 DEF m
      <4> QED BY <4>1 DEF MailInv, AcceptedWithinAttempts
    <3> QED BY <3>1, <3>2
  <2> QED BY <2>1, <2>2 DEF MailInv, AcceptedWithinAttempts
<1> QED BY <1>1, <1>2, <1>4, <1>9, <1>10, <1>11 DEF MailKept, MailInv

LEMMA MailLoseStep ==
    ASSUME MailInv, NEW w \in Workers, Post!Lose(w)
    PROVE  MailKept
<1>1. /\ mail' = mail /\ accepted' = accepted
      /\ batch' \in [Workers -> SUBSET Mails]
      /\ batch'[w] = {}
      /\ \A v \in Workers : v # w => batch'[v] = batch[v] /\ answer'[v] = answer[v]
      /\ answer' \in [Workers -> Post!Answer \cup {Post!NoAnswer}]
      /\ answer'[w] = Post!NoAnswer
  BY DEF Post!Lose, MailInv, Post!TypeOK
<1>2. Post!TypeOK' /\ ClaimedOnce' /\ SendsClaimed'
  BY <1>1 DEF MailInv, Post!TypeOK, ClaimedOnce, SendsClaimed
<1>3. AcceptedWithinAttempts'
  BY <1>1 DEF MailInv, AcceptedWithinAttempts
<1> QED BY <1>1, <1>2, <1>3 DEF MailKept, MailInv

LEMMA MailStepKeeps == MailInv /\ [Post!Next]_mailVars => MailKept
<1> SUFFICES ASSUME MailInv, [Post!Next]_mailVars PROVE MailKept
  OBVIOUS
<1>1. ASSUME NEW m \in Mails, Post!Queue(m) \/ Post!Rest(m) PROVE MailKept
  BY <1>1, MailQueueStep, MailRestStep
<1>2. ASSUME NEW w \in Workers, Post!Claim(w) PROVE MailKept
  BY <1>2, MailClaimStep
<1>3. ASSUME NEW w \in Workers, Post!Work(w) PROVE MailKept
  <2>1. CASE Post!Record(w)
    BY <2>1, MailRecordStep
  <2>2. CASE Post!Lose(w)
    BY <2>2, MailLoseStep
  <2>3. ASSUME NEW m \in batch[w], NEW taken \in BOOLEAN, NEW ok \in BOOLEAN,
               Post!Send(w, m, taken, ok)
        PROVE  MailKept
    BY <2>3, MailSendStep
  <2> QED BY <1>3, <2>1, <2>2, <2>3 DEF Post!Work
<1>4. CASE UNCHANGED mailVars
  BY <1>4 DEF mailVars, MailKept, MailInv, Post!TypeOK, ClaimedOnce,
              SendsClaimed, AcceptedWithinAttempts
<1> QED BY <1>1, <1>2, <1>3, <1>4 DEF Post!Next

(* The rows of mail_deliveries keep their shape, and the mail server takes *)
(* no mail more often than its attempts are counted, at most MailAttempts  *)
(* times, whatever workers die between the sending and the recording.      *)
THEOREM MailTyped == DeliverySpec => []Post!TypeOK
<1>1. DeliveryInit => MailInv
  BY MailInitially DEF DeliveryInit
<1>2. [DeliveryNext]_<<part, retriesVars, mailVars>> => [Post!Next]_mailVars
  BY DEF DeliveryNext
<1>3. MailInv /\ [Post!Next]_mailVars => MailInv'
  BY MailStepKeeps DEF MailKept
<1>4. MailInv => Post!TypeOK
  BY DEF MailInv
<1> QED BY <1>1, <1>2, <1>3, <1>4, PTL DEF DeliverySpec

(* A mail recorded as sent stays sent and is not sent again, although the  *)
(* outcome is written without looking at the row: the claim that counts    *)
(* the attempt starts a pause longer than the job, and that keeps every    *)
(* other worker away until the outcome is written or the worker is gone.   *)
THEOREM SentStaysSent == DeliverySpec => SentIsFinal
<1> DEFINE Final == \A m \in Mails : mail[m].state = "sent" =>
              mail'[m].state = "sent" /\ accepted'[m] = accepted[m]
<1>1. DeliveryInit => MailInv
  BY MailInitially DEF DeliveryInit
<1>2. [DeliveryNext]_<<part, retriesVars, mailVars>> => [Post!Next]_mailVars
  BY DEF DeliveryNext
<1>3. MailInv /\ [Post!Next]_mailVars => MailInv' /\ [Final]_mailVars
  BY MailStepKeeps DEF MailKept
<1>4. mailVars = Post!vars
  BY DEF mailVars, Post!vars
<1> QED BY <1>1, <1>2, <1>3, <1>4, PTL
        DEF DeliverySpec, SentIsFinal, Post!SentIsFinal, Post!vars, mailVars

=============================================================================
