------------------------------ MODULE Retries ------------------------------
(***************************************************************************)
(* Callbacks, replayed under idempotency keys (internal/payment            *)
(* idempotency.go).  Whoever got no answer asks again with the same key,   *)
(* for as long as it takes; beginIdempotencyTx, recordIdempotencyTx and    *)
(* the replay are one transaction, which holds the merchant's row and the  *)
(* key's advisory lock.  Supplements and refunds use the records alike.    *)
(***************************************************************************)
EXTENDS Callbacks

CONSTANTS
    Keys,           \* idempotency keys
    NoRecord

ASSUME RetriesAssumption == NoRecord \notin Events

VARIABLES
    record,     \* [Keys -> row of idempotency_records, by the event it tells]
    told        \* [Keys -> events that answers named during the row's life]

retriesVars == <<vars, record, told>>

RetriesTypeOK ==
    /\ TypeOK
    /\ record \in [Keys -> Events \cup {NoRecord}]
    /\ told \in [Keys -> SUBSET Events]

RetriesInit ==
    /\ Init
    /\ record = [k \in Keys |-> NoRecord]
    /\ told = [k \in Keys |-> {}]

(* Mutant of Recorded: the lookup misses the row.                          *)
RecordedNever(k) == FALSE

(* beginIdempotencyTx finds a row, and it is of the same request.          *)
Recorded(k) == record[k] # NoRecord
SameRequest(k, o) == OrderOf(record[k]) = o

Answer(k, e) == told' = [told EXCEPT ![k] = @ \cup {e}]

(* Service.ReplayCallback for the first time with this key, ...            *)
ReplayFirst(k, e) ==
    LET next == <<OrderOf(e), GenerationOf(e) + 1>>
    IN  /\ ~ Recorded(k)
        /\ Replay(e)
        /\ record' = [record EXCEPT ![k] = next]
        /\ Answer(k, next)

(* ... and again; for another order it is refused.                         *)
ReplayAgain(k, o) ==
    /\ Recorded(k) /\ SameRequest(k, o)
    /\ Answer(k, record[k])
    /\ UNCHANGED <<vars, record>>

(* 24 hours later the row counts as absent.                                *)
Lapse(k) ==
    /\ Recorded(k)
    /\ record' = [record EXCEPT ![k] = NoRecord]
    /\ told' = [told EXCEPT ![k] = {}]
    /\ UNCHANGED vars

RetriesNext ==
    \/ Deliver /\ UNCHANGED <<record, told>>
    \/ \E k \in Keys : \/ Lapse(k)
                       \/ \E e \in Events : ReplayFirst(k, e)
                       \/ \E o \in Orders : ReplayAgain(k, o)

RetriesSpec == RetriesInit /\ [][RetriesNext]_retriesVars

(* Callbacks' fairness (Callbacks!FairSpec); nobody has to ask.            *)
RetriesFairSpec ==
    /\ RetriesSpec
    /\ WF_vars(Tick) /\ WF_vars(Scan)
    /\ \A o \in Orders : /\ WF_vars(Claim(o))
                         /\ WF_vars(Rescue(o))
                         /\ WF_vars(CleanJob(o))
    /\ WF_vars(\E a \in inflight : Ends(a))

-----------------------------------------------------------------------------
(* Properties.                                                             *)

(* However often a merchant asks with one key while its row lives, the     *)
(* callback is replayed once and every answer names the same event, also   *)
(* when that event has long ended and another replay would be allowed.     *)
OneReplayPerKey ==
    \A k \in Keys :
        /\ Cardinality(told[k]) <= 1
        /\ \A e \in told[k] : event[e].state # "absent"
=============================================================================
