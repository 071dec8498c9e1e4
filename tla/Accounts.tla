------------------------------ MODULE Accounts ------------------------------
(***************************************************************************)
(* Merchants' accounts and the codes sent by mail that let their owners    *)
(* register, reset a password, change name, mailbox or password and reset  *)
(* the interface key (internal/auth service.go; internal/merchant).        *)
(*                                                                         *)
(* A request that presents codes runs in one transaction, but every        *)
(* attempt is counted on another connection before the code is compared    *)
(* (consumeCode): Count commits at once, Check compares and keeps the row  *)
(* locked, Commit makes the change.  Sending a code (SendBegin,            *)
(* SendCommit, SendEnd) looks at the last code, replaces it and mails the  *)
(* new one in three steps, the first and the last outside a transaction.   *)
(*                                                                         *)
(* age: 0 within the 60 seconds of the cooldown, 1 within the ten minutes  *)
(* of the code's life, 2 expired.                                          *)
(***************************************************************************)
EXTENDS Integers, Sequences, FiniteSets, SequencesExt

CONSTANTS
    Merchants, Boxes, Names,
    Codes,          \* ids of email_codes
    Requests,       \* requests that may run at once
    Senders,        \* requests for a code that may run at once
    Deeds,          \* what requests ask for, each the set of its purposes
    Mixes,          \* bound: deeds that occur together, senders at once
    MaxTries,       \* maxCodeAttempts, 5
    Nobody          \* subject of a public request, mailbox of no merchant

PurposeOrder ==
    <<"register", "reset_password", "change_username", "change_email_old",
      "change_email_new", "change_password", "reset_key">>

Purposes == ToSet(PurposeOrder)
PublicPurposes == {"register", "reset_password"}
OldAndNew == {"change_email_old", "change_email_new"}

ASSUME AccountAssumption ==
    /\ Codes \subseteq Nat
    /\ MaxTries \in Nat \ {0}
    /\ Deeds \subseteq (SUBSET Purposes) \ {{}}
    /\ \A D \in Deeds :
          /\ D \cap {"register", "reset_password", "reset_key"} # {}
                => Cardinality(D) = 1
          /\ D \cap OldAndNew \in {{}, OldAndNew}
    /\ \A x \in Mixes : x.deeds \subseteq Deeds /\ x.senders \in Nat
    /\ Nobody \notin Merchants \cup Boxes \cup Names

VARIABLES
    merchant,   \* [Merchants -> row of merchants], box = Nobody: no such row
    sessions,   \* merchants with a session that is not revoked
    code,       \* [Codes -> row of email_codes]
    sender,     \* [Senders -> request for a code under way]
    request,    \* [Requests -> request that presents codes under way]
    compared,   \* [Codes -> comparisons with what somebody presented]
    spent,      \* [Codes -> changes committed on the strength of the code]
    mix         \* one of Mixes

vars == <<merchant, sessions, code, sender, request, compared, spent, mix>>

NoCode == [state |-> "absent", purpose |-> "register", subject |-> Nobody,
           box |-> Nobody, name |-> Nobody, age |-> 0, tries |-> 0]
Unsent == [stage |-> "idle", row |-> NoCode, since |-> {}, code |-> 0]
Idle == [stage |-> "idle", deed |-> {}, merchant |-> Nobody, box |-> Nobody,
         newBox |-> Nobody, name |-> Nobody,
         counted |-> [code |-> 0, right |-> FALSE], proved |-> <<>>]

TypeOK ==
    /\ \A m \in Merchants :
          /\ merchant[m].box \in Boxes \cup {Nobody}
          /\ merchant[m].name \in Names \cup {Nobody}
          /\ merchant[m].password \in 0 .. Cardinality(Codes)
          /\ merchant[m].key \in 0 .. Cardinality(Codes)
    /\ sessions \subseteq Merchants
    /\ \A c \in Codes : /\ code[c].state \in {"absent", "live", "consumed"}
                        /\ code[c].age \in 0 .. 2
                        /\ code[c].tries \in 0 .. MaxTries
    /\ \A s \in Senders : sender[s].stage \in {"idle", "checked", "mailing"}
    /\ \A r \in Requests :
          /\ request[r].stage \in {"idle", "proving", "counted"}
          /\ ToSet(request[r].proved) \subseteq Codes
    /\ mix \in Mixes
    /\ compared \in [Codes -> Nat] /\ spent \in [Codes -> Nat]

(* Those of Registered exist already; the others can be registered.        *)
InitWith(Registered) ==
    /\ merchant \in [Merchants ->
          [box : Boxes \cup {Nobody}, name : Names \cup {Nobody},
           password : {0}, key : {0}]]
    /\ \A m \in Merchants : /\ (merchant[m].box # Nobody) = (m \in Registered)
                            /\ (merchant[m].name # Nobody) = (m \in Registered)
    /\ \A m, n \in Registered : m # n => /\ merchant[m].box # merchant[n].box
                                         /\ merchant[m].name # merchant[n].name
    /\ sessions = {}
    /\ code = [c \in Codes |-> NoCode]
    /\ sender = [s \in Senders |-> Unsent]
    /\ request = [r \in Requests |-> Idle]
    /\ compared = [c \in Codes |-> 0]
    /\ spent = [c \in Codes |-> 0]
    /\ mix \in Mixes

Exists(m) == merchant[m].box # Nobody
Live(c) == code[c].state = "live"
Locked(c) == \E r \in Requests : c \in ToSet(request[r].proved)

-----------------------------------------------------------------------------
(* Sending a code.                                                         *)

(* Service.SendEmailCode, for mailboxes at which the code can be of use.   *)
MaySend(row) ==
    /\ row.subject = Nobody => row.purpose \in PublicPurposes
    /\ row.subject # Nobody =>
          /\ row.subject \in sessions
          /\ row.purpose \notin PublicPurposes
          /\ (row.box = merchant[row.subject].box)
                = (row.purpose # "change_email_new")
    /\ (row.name # Nobody) = (row.purpose \in {"register", "change_username"})

(* The query of the last code: same purpose, mailbox and subject.          *)
SameLine(c, row) ==
    /\ code[c].state # "absent"
    /\ code[c].purpose = row.purpose /\ code[c].box = row.box
    /\ code[c].subject = row.subject

Rivals(row) == {c \in Codes : SameLine(c, row) /\ Live(c)}

(* Service.issueEmailCode up to its transaction.                           *)
SendBegin(s, row) ==
    /\ sender[s] = Unsent
    /\ Cardinality({t \in Senders : sender[t] # Unsent}) < mix.senders  \* bound
    /\ MaySend(row)
    /\ row.purpose = "reset_password" => \E m \in Merchants : merchant[m].box = row.box
    /\ ~ \E c \in Codes : SameLine(c, row) /\ code[c].age = 0
    /\ sender' = [sender EXCEPT ![s] =
                     [stage |-> "checked", row |-> row, since |-> Rivals(row),
                      code |-> 0]]
    /\ UNCHANGED <<merchant, sessions, code, request, compared, spent, mix>>

(* Its transaction: the new code and the end of the others.  One that a    *)
(* transaction running beside it inserts meanwhile may not be seen.        *)
SendCommit(s, c) ==
    LET row == sender[s].row
    IN  /\ sender[s].stage = "checked"
        /\ code[c].state = "absent"
        /\ \A d \in Codes : d < c => code[d].state # "absent"
        /\ \E unseen \in SUBSET (Rivals(row) \ sender[s].since) :
              LET ended == Rivals(row) \ unseen
              IN  /\ \A d \in ended : ~ Locked(d)
                  /\ code' = [d \in Codes |->
                        IF d = c THEN [row EXCEPT !.state = "live"]
                        ELSE IF d \in ended
                             THEN [code[d] EXCEPT !.state = "consumed"]
                             ELSE code[d]]
        /\ sender' = [sender EXCEPT ![s] =
                        [Unsent EXCEPT !.stage = "mailing", !.code = c]]
        /\ UNCHANGED <<merchant, sessions, request, compared, spent, mix>>

(* The mail is queued, or the code withdrawn; a crash leaves it unsent.    *)
SendEnd(s, withdrawn) ==
    /\ sender[s].stage = "mailing"
    /\ withdrawn => ~ Locked(sender[s].code)
    /\ code' = [code EXCEPT ![sender[s].code].state =
                   IF withdrawn THEN "consumed" ELSE @]
    /\ sender' = [sender EXCEPT ![s] = Unsent]
    /\ UNCHANGED <<merchant, sessions, request, compared, spent, mix>>

-----------------------------------------------------------------------------
(* Presenting codes.                                                       *)

(* ResetPassword and LockBusinessRows lock the merchant's row at once, the *)
(* others with their UPDATE.                                               *)
LocksFirst(deed) == deed \cap {"reset_password", "reset_key"} # {}
Held(m) == \E r \in Requests : /\ request[r].merchant = m
                               /\ LocksFirst(request[r].deed)

(* Register, ResetPassword, ChangeIdentity, ResetKey and SetRSAPublicKey   *)
(* up to the first code.  The mailbox is that of the row as read now.      *)
Begin(r, deed, m, newBox, name) ==
    /\ request[r] = Idle
    /\ deed \in mix.deeds
    /\ (deed = {"register"}) = ~ Exists(m)
    /\ deed \cap PublicPurposes = {} => m \in sessions
    /\ LocksFirst(deed) => ~ Held(m)
    /\ (newBox # Nobody) = (deed \cap {"register", "change_email_new"} # {})
    /\ (name # Nobody) = (deed \cap {"register", "change_username"} # {})
    /\ request' = [request EXCEPT ![r] =
          [Idle EXCEPT !.stage = "proving", !.deed = deed, !.merchant = m,
                       !.box = merchant[m].box, !.newBox = newBox, !.name = name]]
    /\ UNCHANGED <<merchant, sessions, code, sender, compared, spent, mix>>

(* The purposes of a request, in the order in which it proves them.        *)
Steps(r) == SelectSeq(PurposeOrder, LAMBDA p : p \in request[r].deed)

(* The rows the code for purpose p may be (consumeCode's arguments).       *)
Expected(r, p) ==
    {c \in Codes :
        /\ Live(c) /\ code[c].purpose = p
        /\ code[c].subject = IF p \in PublicPurposes THEN Nobody
                                                     ELSE request[r].merchant
        /\ code[c].box = IF p \in {"register", "change_email_new"}
                         THEN request[r].newBox ELSE request[r].box
        /\ code[c].name = IF p \in {"register", "change_username"}
                          THEN request[r].name ELSE Nobody}

(* Mutant of Attempted: the attempt is written in the transaction, which a *)
(* wrong code rolls back.                                                  *)
AttemptedInside(c) == code

Attempted(c) == [code EXCEPT ![c].tries = @ + 1]

(* consumeCode, on the pool: the newest code, if it has attempts left.     *)
Count(r, right) ==
    /\ request[r].stage = "proving"
    /\ Len(request[r].proved) < Len(Steps(r))
    /\ LET p == Steps(r)[Len(request[r].proved) + 1]
       IN  \E c \in Expected(r, p) :
              /\ \A d \in Expected(r, p) : d <= c
              /\ ~ Locked(c)
              /\ code[c].tries < MaxTries
              /\ code' = Attempted(c)
              /\ request' = [request EXCEPT ![r].stage = "counted",
                    ![r].counted = [code |-> c, right |-> right /\ code[c].age < 2]]
    /\ UNCHANGED <<merchant, sessions, sender, compared, spent, mix>>

(* Mutant of Usable: the row is not looked at again.                       *)
UsableAnyway(c) == TRUE

(* consumeCode, in the transaction: the row is locked if it is still live. *)
Usable(c) == Live(c)

Check(r) ==
    LET c == request[r].counted.code
        found == Usable(c)
    IN  /\ request[r].stage = "counted"
        /\ ~ Locked(c)
        /\ request' = [request EXCEPT ![r] =
              IF found /\ request[r].counted.right
              THEN [request[r] EXCEPT !.stage = "proving",
                                      !.proved = Append(request[r].proved, c),
                                      !.counted = Idle.counted]
              ELSE Idle]
        /\ compared' = [compared EXCEPT ![c] = IF found THEN @ + 1 ELSE @]
        /\ UNCHANGED <<merchant, sessions, code, sender, spent, mix>>

Taken(r, m) ==
    \E n \in Merchants \ {m} :
        \/ request[r].newBox # Nobody /\ merchant[n].box = request[r].newBox
        \/ request[r].name # Nobody /\ merchant[n].name = request[r].name

(* The rest of the transaction; a unique index refuses what is taken.      *)
Commit(r) ==
    LET q == request[r]
        used == ToSet(q.proved)
        resets == q.deed \cap {"reset_password", "change_password"} # {}
    IN  /\ q.stage = "proving"
        /\ Len(q.proved) = Len(Steps(r))
        /\ ~ LocksFirst(q.deed) => ~ Held(q.merchant)
        /\ q.deed = {"register"} => ~ Exists(q.merchant)
        /\ ~ Taken(r, q.merchant)
        /\ merchant' = [merchant EXCEPT ![q.merchant] =
              [box |-> IF q.newBox # Nobody THEN q.newBox ELSE @.box,
               name |-> IF q.name # Nobody THEN q.name ELSE @.name,
               password |-> IF resets THEN @.password + 1 ELSE @.password,
               key |-> IF q.deed = {"reset_key"} THEN @.key + 1 ELSE @.key]]
        /\ sessions' = IF resets THEN sessions \ {q.merchant} ELSE sessions
        /\ code' = [c \in Codes |-> IF c \in used
                                    THEN [code[c] EXCEPT !.state = "consumed"]
                                    ELSE code[c]]
        /\ spent' = [c \in Codes |-> IF c \in used THEN spent[c] + 1 ELSE spent[c]]
        /\ request' = [request EXCEPT ![r] = Idle]
        /\ UNCHANGED <<sender, compared, mix>>

(* The transaction is rolled back: no code, a conflict, another check of   *)
(* the handler, a lost connection.  What Count wrote stays.                *)
GiveUp(r) ==
    /\ request[r].stage # "idle"
    /\ request' = [request EXCEPT ![r] = Idle]
    /\ UNCHANGED <<merchant, sessions, code, sender, compared, spent, mix>>

-----------------------------------------------------------------------------
SignIn(m) ==
    /\ Exists(m) /\ m \notin sessions
    /\ sessions' = sessions \cup {m}
    /\ UNCHANGED <<merchant, code, sender, request, compared, spent, mix>>

(* Time passes; codes sent earlier are at least as old.                    *)
Tick ==
    /\ code' = [c \in Codes |->
                   [code[c] EXCEPT !.age = IF code[c].state # "absent" /\ @ < 2
                                           THEN @ + 1 ELSE @]]
    /\ UNCHANGED <<merchant, sessions, sender, request, compared, spent, mix>>

Rows ==
    [state : {"absent"}, purpose : UNION mix.deeds, subject : Merchants \cup {Nobody},
     box : Boxes, name : Names \cup {Nobody}, age : {0}, tries : {0}]

Send(s) ==
    \/ \E row \in Rows : SendBegin(s, row)
    \/ \E c \in Codes : SendCommit(s, c)
    \/ \E withdrawn \in BOOLEAN : SendEnd(s, withdrawn)

Handle(r) ==
    \/ \E deed \in mix.deeds, m \in Merchants, newBox \in Boxes \cup {Nobody},
          name \in Names \cup {Nobody} : Begin(r, deed, m, newBox, name)
    \/ \E right \in BOOLEAN : Count(r, right)
    \/ Check(r) \/ Commit(r) \/ GiveUp(r)

Next ==
    \/ Tick
    \/ \E m \in Merchants : SignIn(m)
    \/ \E s \in Senders : Send(s)
    \/ \E r \in Requests : Handle(r)

-----------------------------------------------------------------------------
(* Properties.                                                             *)

(* However requests race, fail and are repeated, nobody learns the result  *)
(* of more than MaxTries comparisons with one code: an attempt is counted  *)
(* where a rollback cannot undo it, before the comparison it pays for.     *)
CodeGuessesBounded ==
    \A c \in Codes : compared[c] <= MaxTries

(* A code pays for one change at most, and one that has been replaced,     *)
(* withdrawn or spent between its count and its check pays for none,       *)
(* although two codes may be live after two requests for a code raced.     *)
CodeBuysOneChange ==
    [][\A c \in Codes : spent'[c] # spent[c] =>
          /\ code[c].state = "live" /\ code'[c].state = "consumed"
          /\ spent'[c] = 1]_vars
=============================================================================
