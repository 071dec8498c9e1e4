-------------------------------- MODULE Mail --------------------------------
(***************************************************************************)
(* Outgoing mail (internal/jobs mail.go, mailer.go and the transactions    *)
(* that queue a message with their own writes).                            *)
(*                                                                         *)
(* A worker of the mail job claims a batch in one transaction (Claim),     *)
(* which counts the attempt, talks to the mail server outside of any       *)
(* (Send) and writes each outcome in a statement of its own (Record).      *)
(* Between them the process may die, or the job reach its time limit       *)
(* (Lose): nothing tells the row then, and the next claim is the retry.    *)
(*                                                                         *)
(* Times: rested says that the pause after the last attempt is over.       *)
(***************************************************************************)
EXTENDS Integers, FiniteSets

CONSTANTS
    Mails,          \* rows of mail_deliveries, by dedupe key
    Workers,        \* the jobs that may run at once
    MaxAttempts,    \* 4
    BatchLimit      \* 100

(* Assumed of the constants, by MCDelivery. *)
MailAssumption ==
    /\ MaxAttempts \in Nat \ {0} /\ BatchLimit \in Nat \ {0}
    /\ "none" \notin Mails

VARIABLES
    mail,       \* [Mails -> row of mail_deliveries]
    batch,      \* [Workers -> mails claimed and not yet recorded]
    answer,     \* [Workers -> what the server said of the mail just sent]
    accepted    \* [Mails -> how often the server took the mail]

vars == <<mail, batch, answer, accepted>>

MailRow == [state : {"absent", "queued", "sent", "failed"},
            attempts : 0 .. MaxAttempts, rested : BOOLEAN]

NoAnswer == [mail |-> "none", ok |-> FALSE]
Answer == [mail : Mails, ok : BOOLEAN]

TypeOK ==
    /\ mail \in [Mails -> MailRow]
    /\ batch \in [Workers -> SUBSET Mails]
    /\ answer \in [Workers -> Answer \cup {NoAnswer}]
    /\ accepted \in [Mails -> 0 .. MaxAttempts]

Init ==
    /\ mail = [m \in Mails |-> [state |-> "absent", attempts |-> 0, rested |-> TRUE]]
    /\ batch = [w \in Workers |-> {}]
    /\ answer = [w \in Workers |-> NoAnswer]
    /\ accepted = [m \in Mails |-> 0]

UnderWay(m) == \E w \in Workers : m \in batch[w]

-----------------------------------------------------------------------------
(* queueMailTx, QueueMailer.Send and QueueMailTest; a second message with  *)
(* the key of an earlier one is dropped (ON CONFLICT DO NOTHING).          *)
Queue(m) ==
    /\ mail[m].state = "absent"
    /\ mail' = [mail EXCEPT ![m].state = "queued"]
    /\ UNCHANGED <<batch, answer, accepted>>

(* 1, 5 and 30 minutes from updated_at.  A job is cut off one minute after *)
(* it began, so the pause after a claim outlasts the job that claimed.     *)
Rest(m) ==
    /\ ~ mail[m].rested /\ ~ UnderWay(m)
    /\ mail' = [mail EXCEPT ![m].rested = TRUE]
    /\ UNCHANGED <<batch, answer, accepted>>

(* Mutants of Due: no pause after a claim; failed mails are not retried.   *)
DueAtOnce(m) ==
    /\ mail[m].state \in {"queued", "failed"}
    /\ mail[m].attempts < MaxAttempts

DueOnce(m) ==
    /\ mail[m].state = "queued"
    /\ mail[m].attempts < MaxAttempts
    /\ mail[m].attempts = 0 \/ mail[m].rested

Due(m) ==
    /\ mail[m].state \in {"queued", "failed"}
    /\ mail[m].attempts < MaxAttempts
    /\ mail[m].attempts = 0 \/ mail[m].rested

(* The first transaction of deliverQueued: the due mails, oldest first, as *)
(* many as the limit allows.                                               *)
Claim(w) ==
    LET due == {m \in Mails : Due(m)}
    IN  /\ batch[w] = {}
        /\ \E S \in (SUBSET due) \ {{}} :
              /\ Cardinality(S) <= BatchLimit
              /\ Cardinality(S) < BatchLimit => S = due
              /\ batch' = [batch EXCEPT ![w] = S]
              /\ mail' = [m \in Mails |->
                    IF m \in S
                    THEN [mail[m] EXCEPT !.attempts = @ + 1, !.rested = FALSE]
                    ELSE mail[m]]
        /\ UNCHANGED <<answer, accepted>>

(* mailWorker.send: the server may take the mail and the answer be lost;   *)
(* no configuration, no password or no connection fail without a server.   *)
Send(w, m, taken, ok) ==
    /\ m \in batch[w] /\ answer[w] = NoAnswer
    /\ ok => taken
    /\ answer' = [answer EXCEPT ![w] = [mail |-> m, ok |-> ok]]
    /\ accepted' = [accepted EXCEPT ![m] = IF taken THEN @ + 1 ELSE @]
    /\ UNCHANGED <<mail, batch>>

(* The UPDATE of the outcome does not look at the row.                     *)
Record(w) ==
    /\ answer[w] # NoAnswer
    /\ LET m == answer[w].mail IN
          /\ mail' = [mail EXCEPT
                ![m].state = IF answer[w].ok THEN "sent" ELSE "failed",
                ![m].rested = FALSE]
          /\ batch' = [batch EXCEPT ![w] = @ \ {m}]
    /\ answer' = [answer EXCEPT ![w] = NoAnswer]
    /\ UNCHANGED accepted

(* A crash, the job's time limit, or a failed UPDATE, which ends the loop: *)
(* the rest of the batch has used up an attempt.                           *)
Lose(w) ==
    /\ batch[w] # {}
    /\ batch' = [batch EXCEPT ![w] = {}]
    /\ answer' = [answer EXCEPT ![w] = NoAnswer]
    /\ UNCHANGED <<mail, accepted>>

Work(w) ==
    \/ Record(w) \/ Lose(w)
    \/ \E m \in batch[w], taken, ok \in BOOLEAN : Send(w, m, taken, ok)

Next ==
    \/ \E m \in Mails : Queue(m) \/ Rest(m)
    \/ \E w \in Workers : Claim(w) \/ Work(w)

Spec == Init /\ [][Next]_vars

(* The job is periodic, every 15 seconds, and ends: at its own loop's end, *)
(* at its time limit or with its process.  Time passes.                    *)
FairSpec ==
    /\ Spec
    /\ \A w \in Workers : WF_vars(Claim(w)) /\ WF_vars(Work(w))
    /\ \A m \in Mails : WF_vars(Rest(m))

-----------------------------------------------------------------------------
(* Properties.                                                             *)

(* "sent" is final: no other worker's attempt at the same mail, begun      *)
(* before or after, ends later and overwrites it or sends the mail again.  *)
SentIsFinal ==
    [][\A m \in Mails : mail[m].state = "sent" =>
          mail'[m].state = "sent" /\ accepted'[m] = accepted[m]]_vars

(* A queued mail is sent, or all its attempts are used: none is forgotten, *)
(* whatever the workers lose.                                              *)
MailEnds ==
    \A m \in Mails : mail[m].state = "queued" ~>
        mail[m].state = "sent" \/ mail[m].attempts = MaxAttempts
=============================================================================
