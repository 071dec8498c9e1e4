---------------------------- MODULE MCDelivery -----------------------------
(***************************************************************************)
(* What the jobs of internal/jobs deliver: callbacks, with their replays   *)
(* (Retries), and mail (Mail).  The two share nothing but the queue that   *)
(* runs their jobs, so each behaviour runs one of them, which part says,   *)
(* and the instances add up.  Callbacks come in two instances: one order   *)
(* that is replayed (callbacks), and all orders with one callback each,    *)
(* which are more than the scan looks at (page).                           *)
(***************************************************************************)
EXTENDS MCCallbacks

CONSTANTS Mails, Workers, MailAttempts, BatchLimit

VARIABLES part, mail, batch, answer, accepted

mailVars == <<mail, batch, answer, accepted>>

Post == INSTANCE Mail WITH MaxAttempts <- MailAttempts

ASSUME DeliveryAssumption == Post!MailAssumption

Parts == {"callbacks", "page", "mail"}

DeliveryInit == RetriesInit /\ Post!Init /\ part \in Parts

FirstOnly ==
    \A o \in Orders : status[o] = "unpaid" \/ \A p \in Orders : o <= p

DeliveryNext ==
    /\ UNCHANGED part
    /\ \/ part = "callbacks" /\ RetriesNext /\ FirstOnly' /\ UNCHANGED mailVars
       \/ part = "page" /\ Deliver /\ UNCHANGED <<record, told, mailVars>>
       \/ part = "mail" /\ Post!Next /\ UNCHANGED retriesVars

(* The fairness of Retries and of Mail.  Where one does not run, it is as  *)
(* it began, with no callback due and no mail queued, and none of the      *)
(* actions that fairness asks for is enabled.                              *)
DeliveryFairness ==
    /\ WF_vars(Tick) /\ WF_vars(Scan)
    /\ \A o \in Orders : /\ WF_vars(Claim(o))
                         /\ WF_vars(Rescue(o))
                         /\ WF_vars(CleanJob(o))
    /\ WF_vars(\E a \in inflight : Ends(a))
    /\ \A w \in Workers : WF_mailVars(Post!Claim(w)) /\ WF_mailVars(Post!Work(w))
    /\ \A m \in Mails : WF_mailVars(Post!Rest(m))

DeliverySpec ==
    /\ DeliveryInit /\ [][DeliveryNext]_<<part, retriesVars, mailVars>>
    /\ DeliveryFairness

-----------------------------------------------------------------------------
(* The properties of Mail under names that a configuration can list.       *)

(* A mail that is sent stays sent, and is not sent again.                  *)
SentIsFinal == Post!SentIsFinal

(* A queued mail is sent, or all its attempts are used.                    *)
MailEnds == Post!MailEnds
=============================================================================
