----------------------------- MODULE Callbacks -----------------------------
(***************************************************************************)
(* Payment callbacks to the merchants' servers (internal/payment           *)
(* callback.go and the callback jobs of internal/jobs).                    *)
(*                                                                         *)
(* A paid order has callback events, one per generation; a generation is   *)
(* retried on a schedule, a merchant may ask for a new one.  The job of an *)
(* order claims the newest due event in one transaction (the Claim...      *)
(* actions), sends the request outside any transaction, and records the    *)
(* outcome in a second one (Finish).  Between the two the process may die  *)
(* (Lose), time may pass, the order may be refunded and the queue may hand *)
(* the job to another worker.                                              *)
(*                                                                         *)
(* Times are counted down: wait is the time left until next_attempt_at (0  *)
(* when it is past or NULL, which the queries treat alike), age the time   *)
(* since the last attempt started.                                         *)
(***************************************************************************)
EXTENDS Integers, FiniteSets

CONSTANTS
    Orders,         \* external orders, their ids
    Generations,    \* bound: 1 .. n, the code stops at 2^31 - 1
    MaxAttempts,    \* 10
    Delay,          \* callbackRetryDelay, from attempt number to ticks
    MaxDelay,       \* 24 hours, the longest of them
    Lease,          \* 2 minutes, after which an attempt counts as dead
    Patience,       \* how long a job may run: River cancels it after 1 minute
    ScanLimit       \* 200

ASSUME GenerationAssumption ==
    /\ Generations \subseteq Nat \ {0} /\ 1 \in Generations
    /\ Orders \subseteq Nat
ASSUME RetryAssumption ==
    /\ MaxAttempts \in Nat \ {0} /\ MaxDelay \in Nat
    /\ Delay \in [1 .. MaxAttempts - 1 -> 1 .. MaxDelay]
ASSUME PatienceAssumption ==
    Lease \in Nat /\ Patience \in Nat /\ Patience <= Lease

VARIABLES
    status,    \* [Orders -> orders.status]
    event,     \* [Events -> row of callback_events]
    inflight,  \* attempts between their claim and their outcome
    job        \* [Orders -> state of the order's job in River]

vars == <<status, event, inflight, job>>

Events == Orders \X Generations
OrderOf(e) == e[1]
GenerationOf(e) == e[2]

EventRow ==
    [state : {"absent", "pending", "running", "success", "failed", "cancelled"},
     wait : 0 .. MaxDelay, tries : 0 .. MaxAttempts, age : 0 .. Lease]

Attempt == [event : Events, no : 1 .. MaxAttempts, age : 0 .. Patience]

TypeOK ==
    /\ status \in [Orders -> {"unpaid", "paid", "refunded"}]
    /\ event \in [Events -> EventRow]
    /\ inflight \subseteq Attempt
    /\ job \in [Orders -> {"none", "queued", "working", "completed"}]

Blank == [state |-> "absent", wait |-> 0, tries |-> 0, age |-> Lease]

Init ==
    /\ status = [o \in Orders |-> "unpaid"]
    /\ event = [e \in Events |-> Blank]
    /\ inflight = {}
    /\ job = [o \in Orders |-> "none"]

-----------------------------------------------------------------------------
(* The job queue.  A job is unique by its order in every state it can be   *)
(* in, completed included, until River's cleaner removes it.               *)

Enqueue(S) ==
    job' = [o \in Orders |-> IF o \in S /\ job[o] = "none"
                             THEN "queued" ELSE job[o]]

(* The worker's job ends, successfully or not; a failed job runs again.    *)
JobEnds(o, ok) ==
    job' = [job EXCEPT ![o] = IF @ # "working" THEN @
                              ELSE IF ok THEN "completed" ELSE "queued"]

(* The queue cannot tell a slow worker from a dead one.                    *)
Rescue(o) ==
    /\ job[o] = "working"
    /\ job' = [job EXCEPT ![o] = "queued"]
    /\ UNCHANGED <<status, event, inflight>>

CleanJob(o) ==
    /\ job[o] = "completed"
    /\ job' = [job EXCEPT ![o] = "none"]
    /\ UNCHANGED <<status, event, inflight>>

-----------------------------------------------------------------------------
(* What the order's transactions do to its callbacks.                      *)

NewEvent(e) ==
    event' = [event EXCEPT ![e] = [Blank EXCEPT !.state = "pending"]]

(* Service.MarkPaidTx with scheduleCallbackTx.                             *)
MarkPaid(o) ==
    /\ status[o] = "unpaid"
    /\ status' = [status EXCEPT ![o] = "paid"]
    /\ NewEvent(<<o, 1>>)
    /\ Enqueue({o})
    /\ UNCHANGED inflight

(* Service.markRefundedTx.                                                 *)
Refund(o) ==
    /\ status[o] = "paid"
    /\ status' = [status EXCEPT ![o] = "refunded"]
    /\ event' = [e \in Events |->
                    IF OrderOf(e) = o /\ event[e].state \in {"pending", "failed"}
                    THEN [event[e] EXCEPT !.state = "cancelled", !.wait = 0]
                    ELSE event[e]]
    /\ UNCHANGED <<inflight, job>>

(* e is the newest generation of its order.                                *)
Latest(e) ==
    /\ event[e].state # "absent"
    /\ \A f \in Events :
          OrderOf(f) = OrderOf(e) /\ event[f].state # "absent"
             => GenerationOf(f) <= GenerationOf(e)

(* Service.ReplayCallback; a replayed idempotency key changes nothing.     *)
Replay(e) ==
    LET next == <<OrderOf(e), GenerationOf(e) + 1>>
    IN  /\ status[OrderOf(e)] = "paid"
        /\ Latest(e)
        /\ event[e].state \notin {"pending", "running"}
        /\ next \in Events
        /\ NewEvent(next)
        /\ Enqueue({OrderOf(e)})
        /\ UNCHANGED <<status, inflight>>

-----------------------------------------------------------------------------
(* The claim: first transaction of Service.ProcessCallback.                *)

(* Mutant of Open: a delivered callback counts as unfinished.              *)
OpenAll == {"pending", "failed", "running", "success"}

Open == {"pending", "failed", "running"}

Due(e) == event[e].state \in Open /\ event[e].wait = 0

(* The row the SELECT takes: the newest due generation.                    *)
Selected(o) ==
    {e \in Events : /\ OrderOf(e) = o
                    /\ Due(e)
                    /\ \A f \in Events : OrderOf(f) = o /\ Due(f)
                          => GenerationOf(f) <= GenerationOf(e)}

(* Mutant of Leased: a running event may be claimed at once.               *)
LeasedNever(e) == FALSE

(* Somebody else's attempt is less than two minutes old.                   *)
Leased(e) == event[e].state = "running" /\ event[e].age < Lease

Exhausted(e) == event[e].tries + 1 > MaxAttempts

(* Nothing is due, or another worker is at it.                             *)
ClaimNothing(o) ==
    /\ job[o] = "queued"
    /\ \/ Selected(o) = {}
       \/ status[o] = "paid" /\ \E e \in Selected(o) : Leased(e)
    /\ job' = [job EXCEPT ![o] = "completed"]
    /\ UNCHANGED <<status, event, inflight>>

ClaimRefunded(o) ==
    /\ job[o] = "queued"
    /\ status[o] # "paid"
    /\ \E e \in Selected(o) :
          event' = [event EXCEPT ![e].state = "cancelled", ![e].wait = 0]
    /\ job' = [job EXCEPT ![o] = "completed"]
    /\ UNCHANGED <<status, inflight>>

ClaimExhausted(o) ==
    /\ job[o] = "queued"
    /\ status[o] = "paid"
    /\ \E e \in Selected(o) :
          /\ ~ Leased(e) /\ Exhausted(e)
          /\ event' = [event EXCEPT ![e].state = "failed", ![e].wait = 0]
    /\ job' = [job EXCEPT ![o] = "completed"]
    /\ UNCHANGED <<status, inflight>>

(* The next attempt starts.                                                *)
ClaimAttempt(o) ==
    /\ job[o] = "queued"
    /\ status[o] = "paid"
    /\ \E e \in Selected(o) :
          /\ ~ Leased(e) /\ ~ Exhausted(e)
          /\ event' = [event EXCEPT ![e] =
                          [state |-> "running", wait |-> 0,
                           tries |-> event[e].tries + 1, age |-> 0]]
          /\ inflight' = inflight \cup
                {[event |-> e, no |-> event[e].tries + 1, age |-> 0]}
    /\ job' = [job EXCEPT ![o] = "working"]
    /\ UNCHANGED status

-----------------------------------------------------------------------------
(* The outcome.                                                            *)

RetryDelay(no) == IF no < MaxAttempts THEN Delay[no] ELSE 0

(* Service.finishCallbackAttempt writes the outcome of attempt a over      *)
(* whatever state the event is in.                                         *)
Finish(a, ok) ==
    /\ a \in inflight
    /\ a.age < Patience
    /\ event' = [event EXCEPT
                    ![a.event].state = IF ok THEN "success" ELSE "failed",
                    ![a.event].wait = IF ok THEN 0 ELSE RetryDelay(a.no)]
    /\ inflight' = inflight \ {a}
    /\ JobEnds(OrderOf(a.event), ok)
    /\ UNCHANGED status

(* The attempt is never recorded: the process dies and its job stays       *)
(* "working", or the second transaction fails and the job with it.         *)
Lose(a) ==
    /\ a \in inflight
    /\ inflight' = inflight \ {a}
    /\ \/ UNCHANGED job
       \/ JobEnds(OrderOf(a.event), FALSE)
    /\ UNCHANGED <<status, event>>

-----------------------------------------------------------------------------
(* Mutant of Wanted: attempts that died are not looked for.                *)
WantedIdle ==
    {o \in Orders : /\ status[o] = "paid"
                    /\ \E e \in Events : /\ OrderOf(e) = o /\ Due(e)
                                         /\ event[e].state # "running"}

(* callbackScanWorker: every 15 seconds the first ScanLimit paid orders    *)
(* with a due event get a job.                                             *)
Wanted ==
    {o \in Orders : /\ status[o] = "paid"
                    /\ \E e \in Events : OrderOf(e) = o /\ Due(e)}

Scan ==
    /\ Enqueue({o \in Wanted : Cardinality({p \in Wanted : p < o}) < ScanLimit})
    /\ UNCHANGED <<status, event, inflight>>

Aged(n, top) == IF n < top THEN n + 1 ELSE top

Tick ==
    /\ event' = [e \in Events |->
                    [event[e] EXCEPT !.wait = IF @ > 0 THEN @ - 1 ELSE 0,
                                     !.age = Aged(@, Lease)]]
    /\ inflight' = {[a EXCEPT !.age = Aged(@, Patience)] : a \in inflight}
    /\ UNCHANGED <<status, job>>

Claim(o) ==
    ClaimNothing(o) \/ ClaimRefunded(o) \/ ClaimExhausted(o) \/ ClaimAttempt(o)

Ends(a) == Lose(a) \/ \E ok \in BOOLEAN : Finish(a, ok)

Deliver ==
    \/ Tick \/ Scan
    \/ \E o \in Orders : \/ MarkPaid(o) \/ Refund(o)
                         \/ Claim(o) \/ Rescue(o) \/ CleanJob(o)
    \/ \E a \in inflight : Ends(a)

Next == Deliver \/ \E e \in Events : Replay(e)

Spec == Init /\ [][Next]_vars

(* Time passes, the scan is periodic, River runs queued jobs, rescues      *)
(* stuck ones and cleans completed ones; a request returns or is cut off.  *)
FairSpec ==
    /\ Spec
    /\ WF_vars(Tick) /\ WF_vars(Scan)
    /\ \A o \in Orders : /\ WF_vars(Claim(o))
                         /\ WF_vars(Rescue(o))
                         /\ WF_vars(CleanJob(o))
    /\ WF_vars(\E a \in inflight : Ends(a))

-----------------------------------------------------------------------------
(* Properties.                                                             *)

(* An event never has two requests under way that can still be recorded,   *)
(* although the queue may run the same job twice and workers may die: the  *)
(* two-minute lease of ProcessCallback covers the time a job may take.     *)
OneAttemptPerEvent ==
    \A a, b \in inflight :
        /\ a.event = b.event
        /\ a.age < Patience /\ b.age < Patience
        => a = b

(* Once the merchant confirmed a callback, its event stays "success": no   *)
(* outcome of an earlier attempt, no retry, refund or scan undoes it,      *)
(* although finishCallbackAttempt overwrites without looking.              *)
SuccessIsFinal ==
    [][\A e \in Events :
          event[e].state = "success" => event'[e].state = "success"]_vars

Unfinished(e) ==
    /\ event[e].state \in Open
    /\ ~ (event[e].state = "failed" /\ event[e].tries = MaxAttempts)

(* The merchant is still to be told that order o is paid.                  *)
Owed(o) ==
    /\ status[o] = "paid"
    /\ \E e \in Events : OrderOf(e) = o /\ Latest(e) /\ Unfinished(e)

(* The scan does not reach order o: enough orders before it have a callback *)
(* whose attempts are used up.  Such a callback is due for ever, since its  *)
(* next_attempt_at is NULL, and keeps its order in the page.                *)
UsedUp(e) == Due(e) /\ ~ Unfinished(e)

Crowded(o) ==
    Cardinality({p \in Wanted :
        p < o /\ \E e \in Events : OrderOf(e) = p /\ UsedUp(e)}) >= ScanLimit

(* The newest callback of a paid order ends, is confirmed, used up or      *)
(* refunded, although callbacks before it, the order's one job, workers    *)
(* that die and the scan, which looks at a page of orders, are in its way. *)
(* Other orders in the page delay it, but only those whose callbacks are   *)
(* used up can keep it waiting for ever.  (A merchant's replays are bound  *)
(* to end: generations are limited.)                                       *)
NewestEnds == \A o \in Orders : Owed(o) ~> ~ Owed(o) \/ Crowded(o)

(* A full refund cancels the order's uncompleted callbacks, those whose    *)
(* request is under way excepted until it returns.                         *)
RefundCancelsCallbacks ==
    \A e \in Events :
        status[OrderOf(e)] = "refunded" =>
            event[e].state \notin {"pending", "failed"}
=============================================================================
