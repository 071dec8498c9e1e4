------------------------------ MODULE Sessions ------------------------------
(***************************************************************************)
(* The administrator's way in (internal/auth service.go, account.go): the  *)
(* initialization code, login with and without a second factor, setting    *)
(* the factor up and off, and the recovery code of the server's terminal   *)
(* with the repair session it opens (internal/settings                     *)
(* updateRecoverySecurity).  Merchants log in by the same functions.       *)
(*                                                                         *)
(* What is handed out for later use is a row of auth_challenges: a login   *)
(* that waits for its factor, a setup that waits for its first code, a     *)
(* recovery code, a repair session.  A request reads and then writes; what *)
(* it read is in its slot of request meanwhile.                            *)
(***************************************************************************)
EXTENDS Integers, FiniteSets

CONSTANTS
    Ids,            \* ids of auth_challenges, ascending
    Requests,       \* requests that may run at once
    MaxTries,       \* maxCodeAttempts, 5
    MaxRotations,   \* bound on initialization codes
    RecoveryCodes   \* stored by one confirmation, 10

(* Assumed of the constants, by MCConsole. *)
SessionAssumption ==
    /\ Ids \subseteq Nat \ {0}
    /\ MaxTries \in Nat \ {0} /\ MaxRotations \in Nat \ {0}
    /\ RecoveryCodes \in Nat \ {0}

VARIABLES
    admins,     \* rows of admins
    bootstrap,  \* the row of bootstrap: its last code, and whether it is good
    challenge,  \* [Ids -> row of auth_challenges]
    secret,     \* the setup whose secret is totp_cipher, 0 if NULL
    backups,    \* [Ids -> unused recovery_codes stored by that setup]
    signedIn,   \* a session that is not revoked exists
    request,    \* [Requests -> request under way]
    rotating,   \* RotateBootstrapCode, past its check
    issuing,    \* IssueConsoleRecoveryCode: the rows its UPDATE found
    compared,   \* [Ids -> factors compared]
    used        \* [Ids -> what was granted on the strength of the row]

vars == <<admins, bootstrap, challenge, secret, backups, signedIn, request,
          rotating, issuing, compared, used>>

Kinds == {"login", "totp_setup", "code", "repair"}
NoChallenge == [state |-> "absent", kind |-> "login", expired |-> FALSE, tries |-> 0]
Idle == [does |-> "nothing", on |-> 0]
NotIssuing == {0}

TypeOK ==
    /\ admins \in 0 .. 2
    /\ bootstrap \in [code : 0 .. MaxRotations, good : BOOLEAN]
    /\ challenge \in [Ids -> [state : {"absent", "live", "consumed"}, kind : Kinds,
                              expired : BOOLEAN, tries : 0 .. MaxTries]]
    /\ secret \in Ids \cup {0}
    /\ backups \in [Ids -> 0 .. RecoveryCodes]
    /\ signedIn \in BOOLEAN /\ rotating \in BOOLEAN
    /\ request \in [Requests -> [does : {"nothing", "bootstrap", "login", "factor",
                                         "confirm", "disable", "repair"},
                                 on : Nat]]
    /\ issuing \subseteq Ids \/ issuing = NotIssuing
    /\ compared \in [Ids -> Nat] /\ used \in [Ids -> Nat]

Init ==
    /\ admins = 0
    /\ bootstrap = [code |-> 0, good |-> FALSE]
    /\ challenge = [c \in Ids |-> NoChallenge]
    /\ secret = 0 /\ backups = [c \in Ids |-> 0]
    /\ signedIn = FALSE
    /\ request = [r \in Requests |-> Idle]
    /\ rotating = FALSE /\ issuing = NotIssuing
    /\ compared = [c \in Ids |-> 0] /\ used = [c \in Ids |-> 0]

Live(c) == challenge[c].state = "live"
Usable(c) == Live(c) /\ ~ challenge[c].expired

Free(c) == challenge[c].state = "absent" /\ \A d \in Ids : d < c => challenge[d].state # "absent"

Issued(rows, c, kind) ==
    [rows EXCEPT ![c] = [NoChallenge EXCEPT !.state = "live", !.kind = kind]]

Start(r, what, c) ==
    /\ request[r] = Idle
    /\ request' = [request EXCEPT ![r] = [does |-> what, on |-> c]]

Doing(r, what) == request[r].does = what
Done(r) == request' = [request EXCEPT ![r] = Idle]

(* A row buys something: it is consumed in the same transaction.           *)
Use(c) ==
    /\ challenge' = [challenge EXCEPT ![c].state = "consumed"]
    /\ used' = [used EXCEPT ![c] = @ + 1]

-----------------------------------------------------------------------------
(* The initialization code.                                                *)

(* Service.RotateBootstrapCode: its count, and then its UPDATE.            *)
RotateBegin ==
    /\ ~ rotating /\ admins = 0 /\ bootstrap.code < MaxRotations
    /\ rotating' = TRUE
    /\ UNCHANGED <<admins, bootstrap, challenge, secret, backups, signedIn,
                   request, issuing, compared, used>>

RotateCommit ==
    /\ rotating
    /\ rotating' = FALSE
    /\ bootstrap' = [code |-> bootstrap.code + 1, good |-> TRUE]
    /\ UNCHANGED <<admins, challenge, secret, backups, signedIn, request,
                   issuing, compared, used>>

(* Service.Bootstrap with code k: the first count ...                      *)
BootstrapBegin(r, k) ==
    /\ admins = 0
    /\ k \in 1 .. bootstrap.code
    /\ Start(r, "bootstrap", k)
    /\ UNCHANGED <<admins, bootstrap, challenge, secret, backups, signedIn,
                   rotating, issuing, compared, used>>

(* Mutant of Admitted: the count of administrators is not taken again, and *)
(* a code is only compared.                                                *)
AdmittedEarlier(k) == bootstrap.code = k

(* ... and what is read again under the lock on the row.                   *)
Admitted(k) == admins = 0 /\ bootstrap.good /\ bootstrap.code = k

BootstrapCommit(r) ==
    /\ Doing(r, "bootstrap") /\ Admitted(request[r].on)
    /\ admins' = admins + 1
    /\ bootstrap' = [bootstrap EXCEPT !.good = FALSE]
    /\ signedIn' = TRUE
    /\ Done(r)
    /\ UNCHANGED <<challenge, secret, backups, rotating, issuing, compared, used>>

-----------------------------------------------------------------------------
(* Login.                                                                  *)

(* Service.Login with the right password: on says whether totp_cipher was  *)
(* set when the account was read.                                          *)
LoginBegin(r) ==
    /\ admins > 0
    /\ Start(r, "login", IF secret = 0 THEN 0 ELSE 1)
    /\ UNCHANGED <<admins, bootstrap, challenge, secret, backups, signedIn,
                   rotating, issuing, compared, used>>

LoginAtOnce(r) ==
    /\ Doing(r, "login") /\ request[r].on = 0
    /\ signedIn' = TRUE
    /\ Done(r)
    /\ UNCHANGED <<admins, bootstrap, challenge, secret, backups, rotating,
                   issuing, compared, used>>

LoginChallenge(r, c) ==
    /\ Doing(r, "login") /\ request[r].on = 1
    /\ Free(c)
    /\ challenge' = Issued(challenge, c, "login")
    /\ Done(r)
    /\ UNCHANGED <<admins, bootstrap, secret, backups, signedIn, rotating,
                   issuing, compared, used>>

(* Service.VerifySecondFactor: the attempt is counted on the pool ...      *)
Counted(rows, c) == [rows EXCEPT ![c].tries = @ + 1]

FactorCount(r, c) ==
    /\ Live(c) /\ challenge[c].kind = "login"
    /\ challenge[c].tries < MaxTries
    /\ Start(r, "factor", c)
    /\ challenge' = Counted(challenge, c)
    /\ UNCHANGED <<admins, bootstrap, secret, backups, signedIn, rotating,
                   issuing, compared, used>>

(* ... and compared in a transaction that reads the row again: a code of   *)
(* the secret, or one of the recovery codes stored by setup b.             *)
Fits(c) == Usable(c)

FactorAccept(r, b) ==
    LET c == request[r].on
    IN  /\ Doing(r, "factor") /\ Fits(c)
        /\ b = 0 => secret # 0
        /\ b # 0 => backups[b] > 0
        /\ backups' = IF b = 0 THEN backups ELSE [backups EXCEPT ![b] = @ - 1]
        /\ compared' = [compared EXCEPT ![c] = @ + 1]
        /\ Use(c)
        /\ signedIn' = TRUE
        /\ Done(r)
        /\ UNCHANGED <<admins, bootstrap, secret, rotating, issuing>>

FactorRefuse(r) ==
    /\ Doing(r, "factor")
    /\ compared' = [compared EXCEPT ![request[r].on] =
                       IF Fits(request[r].on) THEN @ + 1 ELSE @]
    /\ Done(r)
    /\ UNCHANGED <<admins, bootstrap, challenge, secret, backups, signedIn,
                   rotating, issuing, used>>

(* Logout, ChangeAdminPassword and the password resets of merchants.       *)
SessionsEnd ==
    /\ signedIn
    /\ signedIn' = FALSE
    /\ UNCHANGED <<admins, bootstrap, challenge, secret, backups, request,
                   rotating, issuing, compared, used>>

-----------------------------------------------------------------------------
(* The second factor.                                                      *)

SetupTOTP(c) ==
    /\ signedIn /\ secret = 0
    /\ Free(c)
    /\ challenge' = Issued(challenge, c, "totp_setup")
    /\ UNCHANGED <<admins, bootstrap, secret, backups, signedIn, request,
                   rotating, issuing, compared, used>>

Confirmable(c) ==
    /\ Usable(c) /\ challenge[c].kind = "totp_setup"
    /\ \A r \in Requests : request[r] # [does |-> "confirm", on |-> c]  \* FOR UPDATE

(* Service.ConfirmTOTP.  Its UPDATE of an account without a factor locks   *)
(* the row until the end;                                                  *)
ConfirmFirst(c) ==
    /\ signedIn /\ Confirmable(c) /\ secret = 0
    /\ secret' = c
    /\ backups' = [backups EXCEPT ![c] = RecoveryCodes]
    /\ Use(c)
    /\ UNCHANGED <<admins, bootstrap, signedIn, request, rotating, issuing, compared>>

(* one that finds a factor set changes nothing and locks nothing, and the  *)
(* transaction goes on.                                                    *)
ConfirmLaterBegin(r, c) ==
    /\ signedIn /\ Confirmable(c) /\ secret # 0
    /\ Start(r, "confirm", c)
    /\ UNCHANGED <<admins, bootstrap, challenge, secret, backups, signedIn,
                   rotating, issuing, compared, used>>

ConfirmLaterCommit(r) ==
    /\ Doing(r, "confirm")
    /\ backups' = [backups EXCEPT ![request[r].on] = RecoveryCodes]
    /\ Use(request[r].on)
    /\ Done(r)
    /\ UNCHANGED <<admins, bootstrap, secret, signedIn, rotating, issuing, compared>>

(* Service.DisableTOTP: the account is read without a lock.                *)
DisableBegin(r) ==
    /\ signedIn /\ secret # 0
    /\ Start(r, "disable", secret)
    /\ UNCHANGED <<admins, bootstrap, challenge, secret, backups, signedIn,
                   rotating, issuing, compared, used>>

DisableCommit(r) ==
    /\ Doing(r, "disable")
    /\ secret' = 0
    /\ backups' = [c \in Ids |-> 0]
    /\ Done(r)
    /\ UNCHANGED <<admins, bootstrap, challenge, signedIn, rotating, issuing,
                   compared, used>>

-----------------------------------------------------------------------------
(* Recovery from the terminal.                                             *)

Recovering(c) == Live(c) /\ challenge[c].kind \in {"code", "repair"}

(* Service.IssueConsoleRecoveryCode, one at a time: the rows that its      *)
(* UPDATE finds, for whose locks it may wait, ...                          *)
IssueBegin ==
    /\ admins > 0 /\ issuing = NotIssuing
    /\ \E c \in Ids : Free(c)
    /\ issuing' = {c \in Ids : Recovering(c)}
    /\ UNCHANGED <<admins, bootstrap, challenge, secret, backups, signedIn,
                   request, rotating, compared, used>>

(* ... those it ends, and the new code.                                    *)
Ended == {c \in issuing : Live(c)}

IssueCommit(c) ==
    /\ issuing # NotIssuing
    /\ Free(c)
    /\ challenge' = Issued([d \in Ids |-> IF d \in Ended
                                          THEN [challenge[d] EXCEPT !.state = "consumed"]
                                          ELSE challenge[d]], c, "code")
    /\ issuing' = NotIssuing
    /\ UNCHANGED <<admins, bootstrap, secret, backups, signedIn, request,
                   rotating, compared, used>>

(* Service.RecoverConsole: the code for a repair session.                  *)
RecoverConsole(c, d) ==
    /\ Usable(c) /\ challenge[c].kind = "code"
    /\ Free(d)
    /\ challenge' = [Issued(challenge, d, "repair") EXCEPT ![c].state = "consumed"]
    /\ used' = [used EXCEPT ![c] = @ + 1]
    /\ UNCHANGED <<admins, bootstrap, secret, backups, signedIn, request,
                   rotating, issuing, compared>>

(* Service.ResolveConsoleRecovery, on the pool, and then                   *)
(* updateRecoverySecurity, which ends the session with what it saves.      *)
RepairBegin(r, c) ==
    /\ Usable(c) /\ challenge[c].kind = "repair"
    /\ Start(r, "repair", c)
    /\ UNCHANGED <<admins, bootstrap, challenge, secret, backups, signedIn,
                   rotating, issuing, compared, used>>

(* Mutant of Repairable: the session is taken as it was resolved.          *)
RepairableStill(c) == ~ challenge[c].expired

Repairable(c) == Usable(c)

RepairCommit(r) ==
    /\ Doing(r, "repair") /\ Repairable(request[r].on)
    /\ Use(request[r].on)
    /\ Done(r)
    /\ UNCHANGED <<admins, bootstrap, secret, backups, signedIn, rotating,
                   issuing, compared>>

-----------------------------------------------------------------------------
(* A request fails and rolls back: a check, a conflict, a lost connection. *)
GiveUp(r) ==
    /\ request[r].does \notin {"nothing", "factor"}
    /\ Done(r)
    /\ UNCHANGED <<admins, bootstrap, challenge, secret, backups, signedIn,
                   rotating, issuing, compared, used>>

(* Recovery codes last until the end of 9999.                              *)
Expire(c) ==
    /\ Usable(c) /\ challenge[c].kind # "code"
    /\ challenge' = [challenge EXCEPT ![c].expired = TRUE]
    /\ UNCHANGED <<admins, bootstrap, secret, backups, signedIn, request,
                   rotating, issuing, compared, used>>

Terminal == RotateBegin \/ RotateCommit \/ IssueBegin \/ \E c \in Ids : IssueCommit(c)

Handle(r) ==
    \/ \E k \in 1 .. MaxRotations : BootstrapBegin(r, k)
    \/ BootstrapCommit(r)
    \/ LoginBegin(r) \/ LoginAtOnce(r)
    \/ FactorRefuse(r) \/ \E b \in Ids \cup {0} : FactorAccept(r, b)
    \/ ConfirmLaterCommit(r) \/ DisableBegin(r) \/ DisableCommit(r)
    \/ RepairCommit(r) \/ GiveUp(r)
    \/ \E c \in Ids : \/ LoginChallenge(r, c) \/ FactorCount(r, c)
                      \/ ConfirmLaterBegin(r, c) \/ RepairBegin(r, c)

Next ==
    \/ Terminal \/ SessionsEnd
    \/ \E r \in Requests : Handle(r)
    \/ \E c \in Ids : \/ SetupTOTP(c) \/ ConfirmFirst(c) \/ Expire(c)
                      \/ \E d \in Ids : RecoverConsole(c, d)

Spec == Init /\ [][Next]_vars

-----------------------------------------------------------------------------
(* Properties.                                                             *)

(* One administrator: whatever initialization requests and rotations of    *)
(* the code overlap, a second request finds the first one's account.       *)
OneAdmin == admins <= 1

(* However logins race and fail, MaxTries factors are compared for one     *)
(* challenge, counted where a rollback cannot undo it.                     *)
FactorGuessesBounded == \A c \in Ids : compared[c] <= MaxTries

(* A row of auth_challenges buys one thing: one session for a login, one   *)
(* set of recovery codes for a setup, one repair session for a code, one   *)
(* change of the settings for a repair session; and only a live one does.  *)
ChallengeUsedOnce ==
    [][\A c \in Ids : used'[c] # used[c] =>
          Live(c) /\ challenge'[c].state = "consumed" /\ used'[c] = 1]_vars

(* The terminal's codes do not pile up: after a new one, no earlier code   *)
(* opens a repair session, although codes are spent while it is issued.    *)
OneConsoleCode ==
    Cardinality({c \in Ids : Live(c) /\ challenge[c].kind = "code"}) <= 1

(* "Issuing a new code invalidates any earlier code/session."              *)
NewCodeEndsSessions ==
    [][\A c \in Ids :
          challenge[c].state = "absent" /\ challenge'[c].kind = "code"
          /\ challenge'[c].state = "live" =>
              \A d \in Ids \ {c} : ~ (challenge'[d].state = "live"
                                      /\ challenge'[d].kind \in {"code", "repair"})]_vars
=============================================================================
