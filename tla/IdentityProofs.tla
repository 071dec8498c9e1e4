--------------------------- MODULE IdentityProofs ---------------------------
(***************************************************************************)
(* Proofs about the two ways into the console, as MCConsole runs them: the *)
(* administrator's sessions (Sessions), for every number of challenges,    *)
(* requests and attempts, and the accounts of merchants with the codes     *)
(* they are mailed (Accounts), for every number of codes, requests,        *)
(* senders and attempts; together they bound all guesses in the console.   *)
(***************************************************************************)
EXTENDS MCConsole, TLAPS, FiniteSetTheorems

-----------------------------------------------------------------------------
(* The administrator: the inductive invariant.                             *)

ChallengeRow == [state : {"absent", "live", "consumed"}, kind : Admin!Kinds,
                 expired : BOOLEAN, tries : 0 .. MaxTries]

AskRow == [does : {"nothing", "bootstrap", "login", "factor", "confirm", "disable",
                   "repair"},
           on : Nat]

(* The check of RotateBootstrapCode's bound lasts until its UPDATE.        *)
AdminTyped ==
    /\ Admin!TypeOK
    /\ rotating => bootstrap.code < MaxRotations

(* A request works on a row of its own kind.  Two confirmations never hold *)
(* the same row, and the row they hold is live.                            *)
RequestsSound ==
    \A r \in Requests :
        /\ asking[r].does \in {"factor", "confirm", "repair"} =>
              /\ asking[r].on \in Ids
              /\ challenge[asking[r].on].state # "absent"
        /\ asking[r].does = "factor" => challenge[asking[r].on].kind = "login"
        /\ asking[r].does = "repair" => challenge[asking[r].on].kind = "repair"
        /\ asking[r].does = "confirm" =>
              /\ challenge[asking[r].on].kind = "totp_setup"
              /\ challenge[asking[r].on].state = "live"
              /\ \A q \in Requests :
                    asking[q].does = "confirm" /\ asking[q].on = asking[r].on
                        => q = r

(* While a recovery code is issued, the live codes are among the rows that *)
(* its UPDATE found.                                                       *)
IssuingSound ==
    issuing # Admin!NotIssuing =>
        /\ \A c \in issuing : /\ challenge[c].state # "absent"
                              /\ challenge[c].kind \in {"code", "repair"}
        /\ \A c \in Ids : Admin!Live(c) /\ challenge[c].kind = "code" => c \in issuing

CodesAgree ==
    \A c, d \in Ids :
        /\ Admin!Live(c) /\ challenge[c].kind = "code"
        /\ Admin!Live(d) /\ challenge[d].kind = "code"
        => c = d

GrantedSound ==
    \A c \in Ids : challenge[c].state # "consumed" => granted[c] = 0

(* No attempt is counted on a row that is not there yet.                   *)
BlankRows ==
    \A c \in Ids : challenge[c].state = "absent" => challenge[c].tries = 0

(* Attempts are counted before they are compared.                          *)
FactorsOn(c) ==
    {r \in Requests : asking[r].does = "factor" /\ asking[r].on = c}

FactorsCounted ==
    \A c \in Ids : /\ IsFiniteSet(FactorsOn(c))
                   /\ tested[c] + Cardinality(FactorsOn(c)) <= challenge[c].tries

AdminInv ==
    /\ AdminTyped /\ RequestsSound /\ IssuingSound /\ CodesAgree
    /\ BlankRows /\ GrantedSound /\ FactorsCounted /\ OneAdmin

(* What a step keeps: the invariant, and a row is used once.               *)
UsedWhileLive ==
    \A c \in Ids : granted'[c] # granted[c] =>
        Admin!Live(c) /\ challenge'[c].state = "consumed" /\ granted'[c] = 1

AdminKept == AdminInv' /\ UsedWhileLive

-----------------------------------------------------------------------------
(* How the rows of auth_challenges change.                                 *)

RowsEvolve ==
    \A c \in Ids :
        /\ challenge[c].state # "absent" =>
              /\ challenge'[c].state # "absent"
              /\ challenge'[c].kind = challenge[c].kind
              /\ challenge'[c].state = "live" => challenge[c].state = "live"
        /\ challenge'[c].state = "absent" => challenge'[c] = challenge[c]

NoNewCode ==
    \A c \in Ids :
        challenge[c].state = "absent" /\ challenge'[c].state = "live"
            => challenge'[c].kind # "code"

LEMMA AdminConstants ==
    /\ Ids \subseteq Nat \ {0} /\ 0 \notin Ids
    /\ MaxTries \in Nat \ {0} /\ MaxRotations \in Nat \ {0}
    /\ RecoveryCodes \in Nat \ {0}
BY ConsoleAssumption DEF Admin!SessionAssumption

LEMMA AdminTypes ==
    ASSUME AdminTyped
    PROVE  /\ challenge \in [Ids -> ChallengeRow]
           /\ asking \in [Requests -> AskRow]
           /\ granted \in [Ids -> Nat] /\ tested \in [Ids -> Nat]
           /\ issuing \subseteq Ids \/ issuing = Admin!NotIssuing
BY DEF AdminTyped, Admin!TypeOK, ChallengeRow, AskRow

LEMMA BlankChallenge ==
    /\ Admin!NoChallenge \in ChallengeRow
    /\ Admin!NoChallenge.state = "absent" /\ Admin!NoChallenge.tries = 0
BY AdminConstants DEF ChallengeRow, Admin!NoChallenge, Admin!Kinds

(* A new row.                                                              *)
LEMMA RowIssued ==
    ASSUME AdminTyped, NEW c \in Ids, NEW k \in Admin!Kinds, Admin!Free(c),
           challenge' = Admin!Issued(challenge, c, k)
    PROVE  /\ challenge' \in [Ids -> ChallengeRow]
           /\ challenge[c].state = "absent"
           /\ challenge'[c].state = "live" /\ challenge'[c].kind = k
           /\ challenge'[c].tries = 0
           /\ \A d \in Ids : d # c => challenge'[d] = challenge[d]
           /\ RowsEvolve
<1>1. challenge \in [Ids -> ChallengeRow] /\ challenge[c].state = "absent"
  BY AdminTypes DEF Admin!Free
<1>2. PICK new : new = [Admin!NoChallenge EXCEPT !.state = "live", !.kind = k]
  OBVIOUS
<1>3. challenge' = [challenge EXCEPT ![c] = new]
  BY <1>2 DEF Admin!Issued
<1>4. /\ new \in ChallengeRow /\ new.state = "live" /\ new.kind = k
      /\ new.tries = 0
  BY <1>2, BlankChallenge DEF ChallengeRow
<1>6. /\ challenge'[c] = new
      /\ \A d \in Ids : d # c => challenge'[d] = challenge[d]
      /\ challenge' \in [Ids -> ChallengeRow]
  BY <1>1, <1>3, <1>4
<1>5. RowsEvolve
  BY <1>1, <1>4, <1>6 DEF RowsEvolve, ChallengeRow
<1> QED BY <1>1, <1>4, <1>5, <1>6

(* The end of a row.                                                       *)
LEMMA RowConsumed ==
    ASSUME AdminTyped, NEW c \in Ids, Admin!Live(c),
           challenge' = [challenge EXCEPT ![c].state = "consumed"]
    PROVE  /\ challenge' \in [Ids -> ChallengeRow]
           /\ challenge'[c].state = "consumed"
           /\ challenge'[c].kind = challenge[c].kind
           /\ challenge'[c].tries = challenge[c].tries
           /\ \A d \in Ids : d # c => challenge'[d] = challenge[d]
           /\ \A d \in Ids : challenge'[d].tries = challenge[d].tries
           /\ RowsEvolve /\ NoNewCode
<1>1. challenge \in [Ids -> ChallengeRow] /\ challenge[c].state = "live"
  BY AdminTypes DEF Admin!Live
<1>2. /\ challenge'[c] = [challenge[c] EXCEPT !.state = "consumed"]
      /\ \A d \in Ids : d # c => challenge'[d] = challenge[d]
      /\ challenge' = [d \in Ids |-> challenge'[d]]
  BY <1>1
<1>3. /\ challenge'[c].state = "consumed"
      /\ challenge'[c].kind = challenge[c].kind
      /\ challenge'[c].tries = challenge[c].tries
      /\ challenge'[c] \in ChallengeRow
  BY <1>1, <1>2 DEF ChallengeRow
<1>4. challenge' \in [Ids -> ChallengeRow]
  BY <1>1, <1>2, <1>3
<1>5. RowsEvolve /\ NoNewCode
  BY <1>1, <1>2, <1>3 DEF RowsEvolve, NoNewCode, ChallengeRow
<1>6. \A d \in Ids : challenge'[d].tries = challenge[d].tries
  BY <1>2, <1>3
<1> QED BY <1>2, <1>3, <1>4, <1>5, <1>6

-----------------------------------------------------------------------------
(* Parts of the invariant that most steps do not touch.                    *)

LEMMA CodesKept ==
    ASSUME AdminInv, AdminTyped', RowsEvolve, NoNewCode, UNCHANGED issuing
    PROVE  IssuingSound' /\ CodesAgree' /\ BlankRows'
<1>1. ASSUME NEW c \in Ids, challenge'[c].state = "live",
             challenge'[c].kind = "code"
      PROVE  challenge[c].state = "live" /\ challenge[c].kind = "code"
  BY <1>1 DEF RowsEvolve, NoNewCode
<1>2. CodesAgree'
  BY <1>1 DEF AdminInv, CodesAgree, Admin!Live
<1>3. IssuingSound'
  <2>1. issuing # Admin!NotIssuing => issuing \subseteq Ids
    BY AdminTypes DEF AdminInv
  <2> QED BY <1>1, <2>1 DEF AdminInv, IssuingSound, Admin!Live, RowsEvolve
<1>4. BlankRows'
  BY DEF AdminInv, BlankRows, RowsEvolve
<1> QED BY <1>2, <1>3, <1>4

(* The requests that hold or count nothing come and go as they like.       *)
LEMMA FactorsKept ==
    ASSUME AdminInv, AdminTyped', UNCHANGED tested,
           \A c \in Ids : challenge'[c].tries = challenge[c].tries,
           \A c \in Ids : FactorsOn(c)' = FactorsOn(c)
    PROVE  FactorsCounted'
<1> SUFFICES ASSUME NEW c \in Ids
             PROVE  /\ IsFiniteSet(FactorsOn(c)')
                    /\ tested'[c] + Cardinality(FactorsOn(c)') <= challenge'[c].tries
  BY DEF FactorsCounted
<1>1. /\ IsFiniteSet(FactorsOn(c))
      /\ tested[c] + Cardinality(FactorsOn(c)) <= challenge[c].tries
  BY DEF AdminInv, FactorsCounted
<1>2. tested[c] \in Nat /\ Cardinality(FactorsOn(c)) \in Nat
  BY <1>1, AdminTypes, FS_CardinalityType DEF AdminInv
<1>3. challenge[c].tries \in Nat /\ challenge'[c].tries \in Nat
  BY AdminTypes, AdminConstants DEF AdminInv, AdminTyped, Admin!TypeOK
<1> QED BY <1>1, <1>2, <1>3

LEMMA FactorsSame ==
    ASSUME AdminInv, NEW r \in Requests, NEW x \in AskRow,
           asking' = [asking EXCEPT ![r] = x],
           asking[r].does # "factor", x.does # "factor"
    PROVE  \A c \in Ids : FactorsOn(c)' = FactorsOn(c)
<1>1. asking \in [Requests -> AskRow]
  BY AdminTypes DEF AdminInv
<1>2. \A q \in Requests : q # r => asking'[q] = asking[q]
  BY <1>1
<1>3. asking'[r] = x
  BY <1>1
<1> QED BY <1>2, <1>3 DEF FactorsOn

LEMMA IdleAsk == Admin!Idle \in AskRow /\ Admin!Idle.does = "nothing"
BY DEF Admin!Idle, AskRow

(* A request that begins or ends, while the rows held stay live.           *)
LEMMA RequestsMove ==
    ASSUME AdminInv, RowsEvolve, NEW r \in Requests, NEW x \in AskRow,
           asking' = [asking EXCEPT ![r] = x],
           x.does \in {"factor", "confirm", "repair"} =>
              x.on \in Ids /\ challenge'[x.on].state # "absent",
           x.does = "factor" => challenge'[x.on].kind = "login",
           x.does = "repair" => challenge'[x.on].kind = "repair",
           x.does = "confirm" =>
              /\ challenge'[x.on].kind = "totp_setup"
              /\ challenge'[x.on].state = "live"
              /\ \A q \in Requests : asking[q].does = "confirm" => asking[q].on # x.on,
           \A q \in Requests \ {r} :
              asking[q].does = "confirm" => challenge'[asking[q].on].state = "live"
    PROVE  RequestsSound'
<1>1. asking \in [Requests -> AskRow]
  BY AdminTypes DEF AdminInv
<1>2. asking'[r] = x /\ \A q \in Requests : q # r => asking'[q] = asking[q]
  BY <1>1
<1> SUFFICES
      ASSUME NEW q \in Requests
      PROVE  /\ asking'[q].does \in {"factor", "confirm", "repair"} =>
                  /\ asking'[q].on \in Ids
                  /\ challenge'[asking'[q].on].state # "absent"
             /\ asking'[q].does = "factor" =>
                  challenge'[asking'[q].on].kind = "login"
             /\ asking'[q].does = "repair" =>
                  challenge'[asking'[q].on].kind = "repair"
             /\ asking'[q].does = "confirm" =>
                  /\ challenge'[asking'[q].on].kind = "totp_setup"
                  /\ challenge'[asking'[q].on].state = "live"
                  /\ \A p \in Requests :
                       asking'[p].does = "confirm" /\ asking'[p].on = asking'[q].on
                          => p = q
  BY DEF RequestsSound
<1>3. \A p \in Requests : p = r \/ asking'[p] = asking[p]
  BY <1>2
<1>4. CASE q = r
  BY <1>2, <1>3, <1>4
<1>5. CASE q # r
  <2>1. asking'[q] = asking[q]
    BY <1>2, <1>5
  <2>2. /\ asking[q].does \in {"factor", "confirm", "repair"} =>
             /\ asking[q].on \in Ids
             /\ challenge[asking[q].on].state # "absent"
        /\ asking[q].does = "factor" => challenge[asking[q].on].kind = "login"
        /\ asking[q].does = "repair" => challenge[asking[q].on].kind = "repair"
        /\ asking[q].does = "confirm" =>
             /\ challenge[asking[q].on].kind = "totp_setup"
             /\ \A p \in Requests :
                  asking[p].does = "confirm" /\ asking[p].on = asking[q].on
                     => p = q
    BY DEF AdminInv, RequestsSound
  <2>3. ASSUME asking[q].does = "confirm", NEW p \in Requests,
               asking'[p].does = "confirm", asking'[p].on = asking[q].on
        PROVE  p = q
    BY <1>2, <1>3, <2>2, <2>3
  <2> QED BY <1>5, <2>1, <2>2, <2>3 DEF RowsEvolve
<1> QED BY <1>4, <1>5

LEMMA RequestsStay ==
    ASSUME AdminInv, RowsEvolve, UNCHANGED asking,
           \A q \in Requests :
              asking[q].does = "confirm" => challenge'[asking[q].on].state = "live"
    PROVE  RequestsSound'
BY DEF AdminInv, RequestsSound, RowsEvolve

(* Rows that are used are live and consumed; the others stay as unused as  *)
(* they were.                                                              *)
LEMMA NothingGranted ==
    ASSUME AdminInv, AdminTyped', RowsEvolve, UNCHANGED granted
    PROVE  GrantedSound' /\ UsedWhileLive
<1>1. \A c \in Ids : challenge'[c] \in ChallengeRow
  BY DEF AdminTyped, Admin!TypeOK, ChallengeRow
<1>2. \A c \in Ids : challenge[c] \in ChallengeRow
  BY AdminTypes DEF AdminInv
<1>3. ASSUME NEW c \in Ids, challenge'[c].state # "consumed"
      PROVE  challenge[c].state # "consumed"
  BY <1>1, <1>2, <1>3 DEF ChallengeRow, RowsEvolve
<1> QED BY <1>3 DEF AdminInv, GrantedSound, UsedWhileLive

LEMMA GrantedOnce ==
    ASSUME AdminInv, AdminTyped', RowsEvolve, NEW c \in Ids, Admin!Live(c),
           challenge'[c].state = "consumed",
           granted' = [granted EXCEPT ![c] = @ + 1]
    PROVE  GrantedSound' /\ UsedWhileLive
<1>1. \A d \in Ids : challenge'[d] \in ChallengeRow
  BY DEF AdminTyped, Admin!TypeOK, ChallengeRow
<1>2. \A d \in Ids : challenge[d] \in ChallengeRow
  BY AdminTypes DEF AdminInv
<1>3. ASSUME NEW d \in Ids, challenge'[d].state # "consumed"
      PROVE  challenge[d].state # "consumed"
  BY <1>1, <1>2, <1>3 DEF ChallengeRow, RowsEvolve
<1>4. granted[c] = 0 /\ granted \in [Ids -> Nat]
  BY AdminTypes DEF AdminInv, GrantedSound, Admin!Live
<1>5. granted'[c] = 1 /\ \A d \in Ids : d # c => granted'[d] = granted[d]
  BY <1>4
<1> QED BY <1>3, <1>5 DEF AdminInv, GrantedSound, UsedWhileLive

-----------------------------------------------------------------------------
(* Steps.                                                                  *)

LEMMA AdminInitially == ConsoleInit => AdminInv
<1> SUFFICES ASSUME ConsoleInit PROVE AdminInv
  OBVIOUS
<1>1. Admin!Init
  BY DEF ConsoleInit
<1>2. Admin!NoChallenge \in ChallengeRow /\ Admin!NoChallenge.state = "absent"
      /\ Admin!NoChallenge.tries = 0
  BY BlankChallenge
<1>3. /\ challenge = [c \in Ids |-> Admin!NoChallenge]
      /\ asking = [r \in Requests |-> Admin!Idle]
      /\ tested = [c \in Ids |-> 0] /\ granted = [c \in Ids |-> 0]
      /\ issuing = Admin!NotIssuing /\ admins = 0 /\ rotating = FALSE
  BY <1>1 DEF Admin!Init
<1>4. challenge \in [Ids -> ChallengeRow] /\ asking \in [Requests -> AskRow]
  BY <1>2, <1>3, IdleAsk
<1>5. AdminTyped
  <2>1. bootstrap \in [code : 0 .. MaxRotations, good : BOOLEAN]
    BY <1>1, AdminConstants DEF Admin!Init
  <2>2. secret \in Ids \cup {0} /\ admins \in 0 .. 2
    BY <1>1 DEF Admin!Init
  <2>5. signedIn \in BOOLEAN /\ rotating \in BOOLEAN
    BY <1>1 DEF Admin!Init
  <2>3. backups \in [Ids -> 0 .. RecoveryCodes]
    BY <1>1, AdminConstants DEF Admin!Init
  <2>4. tested \in [Ids -> Nat] /\ granted \in [Ids -> Nat]
    BY <1>3
  <2> QED BY <1>3, <1>4, <2>1, <2>2, <2>3, <2>4, <2>5
          DEF AdminTyped, Admin!TypeOK, ChallengeRow, AskRow
<1>6. /\ RequestsSound /\ IssuingSound /\ CodesAgree /\ BlankRows
      /\ GrantedSound /\ OneAdmin
  BY <1>2, <1>3, IdleAsk
     DEF RequestsSound, BlankRows, IssuingSound, CodesAgree, GrantedSound, OneAdmin,
         Admin!OneAdmin, Admin!Live
<1>7. FactorsCounted
  <2> SUFFICES ASSUME NEW c \in Ids
               PROVE  /\ IsFiniteSet(FactorsOn(c))
                      /\ tested[c] + Cardinality(FactorsOn(c)) <= challenge[c].tries
    BY DEF FactorsCounted
  <2>1. FactorsOn(c) = {}
    BY <1>3, IdleAsk DEF FactorsOn
  <2> QED BY <2>1, <1>2, <1>3, FS_EmptySet
<1> QED BY <1>5, <1>6, <1>7 DEF AdminInv

(* Steps that neither write rows nor count anything.                       *)
LEMMA RowsRest ==
    ASSUME UNCHANGED challenge
    PROVE  /\ RowsEvolve /\ NoNewCode
           /\ \A c \in Ids : challenge'[c].tries = challenge[c].tries
BY DEF RowsEvolve, NoNewCode

LEMMA AdminRests ==
    ASSUME AdminInv, AdminTyped', OneAdmin',
           UNCHANGED <<challenge, asking, issuing, tested, granted>>
    PROVE  AdminKept
<1>1. RequestsSound' /\ GrantedSound' /\ UsedWhileLive
  BY DEF AdminInv, RequestsSound, GrantedSound, UsedWhileLive
<1>2. IssuingSound' /\ CodesAgree' /\ BlankRows'
  BY RowsRest, CodesKept
<1>3. FactorsCounted'
  BY DEF AdminInv, FactorsCounted, FactorsOn
<1> QED BY <1>1, <1>2, <1>3 DEF AdminKept, AdminInv

LEMMA AdminAsks ==
    ASSUME AdminInv, AdminTyped', OneAdmin', NEW r \in Requests,
           NEW x \in AskRow, asking' = [asking EXCEPT ![r] = x],
           asking[r].does # "factor",
           x.does \notin {"factor", "confirm", "repair"},
           UNCHANGED <<challenge, issuing, tested, granted>>
    PROVE  AdminKept
<1>1. GrantedSound' /\ UsedWhileLive
  BY DEF AdminInv, GrantedSound, UsedWhileLive
<1>2. IssuingSound' /\ CodesAgree' /\ BlankRows'
  BY RowsRest, CodesKept
<1>3. FactorsCounted'
  BY RowsRest, FactorsSame, FactorsKept
<1>4. RequestsSound'
  <2>1. \A q \in Requests \ {r} :
           asking[q].does = "confirm" => challenge'[asking[q].on].state = "live"
    BY DEF AdminInv, RequestsSound
  <2> QED BY <2>1, RowsRest, RequestsMove
<1> QED BY <1>1, <1>2, <1>3, <1>4 DEF AdminKept, AdminInv

LEMMA AskStart ==
    ASSUME AdminInv, NEW r \in Requests, NEW c \in Nat,
           NEW d \in {"bootstrap", "login", "factor", "confirm", "disable",
                      "repair"},
           Admin!Start(r, d, c)
    PROVE  \E x \in AskRow :
              /\ x.does = d /\ x.on = c
              /\ asking' = [asking EXCEPT ![r] = x]
              /\ asking' \in [Requests -> AskRow]
              /\ asking[r].does = "nothing"
<1>1. [does |-> d, on |-> c] \in AskRow
  BY DEF AskRow
<1>2. asking' = [asking EXCEPT ![r] = [does |-> d, on |-> c]]
      /\ asking[r] = Admin!Idle
  BY DEF Admin!Start
<1> QED BY <1>1, <1>2, AdminTypes, IdleAsk DEF AdminInv

LEMMA AskDone ==
    ASSUME AdminInv, NEW r \in Requests, Admin!Done(r)
    PROVE  /\ asking' = [asking EXCEPT ![r] = Admin!Idle]
           /\ asking' \in [Requests -> AskRow]
BY IdleAsk, AdminTypes DEF AdminInv, Admin!Done

(* The steps of the initialization code and the terminal's first.          *)
LEMMA TerminalSteps ==
    ASSUME AdminInv,
           Admin!RotateBegin \/ Admin!RotateCommit \/ Admin!SessionsEnd
    PROVE  AdminKept
<1>1. UNCHANGED <<challenge, asking, issuing, tested, granted, admins>>
  BY DEF Admin!RotateBegin, Admin!RotateCommit, Admin!SessionsEnd
<1>2. AdminTyped'
  <2>1. /\ bootstrap' \in [code : 0 .. MaxRotations, good : BOOLEAN]
        /\ rotating' => bootstrap'.code < MaxRotations
    <3>1. bootstrap \in [code : 0 .. MaxRotations, good : BOOLEAN]
      BY DEF AdminInv, AdminTyped, Admin!TypeOK
    <3>2. CASE Admin!RotateBegin
      BY <3>1, <3>2 DEF Admin!RotateBegin
    <3>3. CASE Admin!SessionsEnd
      BY <3>1, <3>3 DEF Admin!SessionsEnd, AdminInv, AdminTyped
    <3>4. CASE Admin!RotateCommit
      <4>1. bootstrap.code + 1 \in 0 .. MaxRotations
        BY <3>1, <3>4, AdminConstants DEF Admin!RotateCommit, AdminInv, AdminTyped
      <4>2. bootstrap' = [code |-> bootstrap.code + 1, good |-> TRUE]
            /\ rotating' = FALSE
        BY <3>4 DEF Admin!RotateCommit
      <4> QED BY <4>1, <4>2
    <3> QED BY <3>2, <3>3, <3>4
  <2>2. /\ signedIn' \in BOOLEAN /\ rotating' \in BOOLEAN
        /\ UNCHANGED <<secret, backups>>
    BY DEF AdminInv, AdminTyped, Admin!TypeOK,
           Admin!RotateBegin, Admin!RotateCommit, Admin!SessionsEnd
  <2> QED BY <1>1, <2>1, <2>2 DEF AdminInv, AdminTyped, Admin!TypeOK
<1>3. OneAdmin'
  BY <1>1 DEF AdminInv, OneAdmin, Admin!OneAdmin
<1> QED BY <1>1, <1>2, <1>3, AdminRests

LEMMA StartSteps ==
    ASSUME AdminInv, NEW r \in Requests,
           \/ \E k \in 1 .. MaxRotations : Admin!BootstrapBegin(r, k)
           \/ Admin!LoginBegin(r) \/ Admin!DisableBegin(r)
    PROVE  AdminKept
<1>1. PICK d \in {"bootstrap", "login", "disable"}, c \in Nat : Admin!Start(r, d, c)
  <2>1. secret \in Nat
    BY AdminConstants DEF AdminInv, AdminTyped, Admin!TypeOK
  <2> QED BY <2>1 DEF Admin!BootstrapBegin, Admin!LoginBegin, Admin!DisableBegin
<1>2. PICK x \in AskRow : /\ x.does = d
                          /\ asking' = [asking EXCEPT ![r] = x]
                          /\ asking' \in [Requests -> AskRow]
                          /\ asking[r].does = "nothing"
  BY <1>1, AskStart
<1>3. UNCHANGED <<admins, bootstrap, challenge, secret, backups, signedIn,
                  rotating, issuing, tested, granted>>
  BY DEF Admin!BootstrapBegin, Admin!LoginBegin, Admin!DisableBegin
<1>4. AdminTyped' /\ OneAdmin'
  BY <1>2, <1>3 DEF AdminInv, AdminTyped, Admin!TypeOK, OneAdmin, Admin!OneAdmin,
                    AskRow
<1> QED BY <1>2, <1>3, <1>4, AdminAsks

LEMMA DoneSteps ==
    ASSUME AdminInv, NEW r \in Requests,
           \/ Admin!BootstrapCommit(r) \/ Admin!LoginAtOnce(r)
           \/ Admin!DisableCommit(r) \/ Admin!GiveUp(r)
    PROVE  AdminKept
<1>1. Admin!Done(r) /\ asking[r].does # "factor"
  BY DEF Admin!BootstrapCommit, Admin!LoginAtOnce, Admin!DisableCommit,
         Admin!GiveUp, Admin!Doing
<1>2. /\ asking' = [asking EXCEPT ![r] = Admin!Idle]
      /\ asking' \in [Requests -> AskRow]
  BY <1>1, AskDone
<1>3. UNCHANGED <<challenge, issuing, tested, granted, rotating>>
  BY DEF Admin!BootstrapCommit, Admin!LoginAtOnce, Admin!DisableCommit,
         Admin!GiveUp
<1>4. /\ bootstrap' \in [code : 0 .. MaxRotations, good : BOOLEAN]
      /\ bootstrap'.code = bootstrap.code
  <2>1. bootstrap \in [code : 0 .. MaxRotations, good : BOOLEAN]
    BY DEF AdminInv, AdminTyped, Admin!TypeOK
  <2>2. bootstrap' = bootstrap \/ bootstrap' = [bootstrap EXCEPT !.good = FALSE]
    BY DEF Admin!BootstrapCommit, Admin!LoginAtOnce, Admin!DisableCommit,
           Admin!GiveUp
  <2> QED BY <2>1, <2>2
<1>7. admins' \in 0 .. 1
  <2>1. admins \in 0 .. 1
    BY DEF AdminInv, AdminTyped, Admin!TypeOK, OneAdmin, Admin!OneAdmin
  <2>2. admins' = admins \/ (admins = 0 /\ admins' = admins + 1)
    BY DEF Admin!BootstrapCommit, Admin!LoginAtOnce, Admin!DisableCommit,
           Admin!GiveUp, Admin!Admitted
  <2> QED BY <2>1, <2>2
<1>8. signedIn' \in BOOLEAN
  BY DEF Admin!BootstrapCommit, Admin!LoginAtOnce, Admin!DisableCommit,
         Admin!GiveUp, AdminInv, AdminTyped, Admin!TypeOK
<1>5. secret' \in Ids \cup {0} /\ backups' \in [Ids -> 0 .. RecoveryCodes]
  BY AdminConstants
     DEF Admin!BootstrapCommit, Admin!LoginAtOnce, Admin!DisableCommit,
         Admin!GiveUp, AdminInv, AdminTyped, Admin!TypeOK
<1>6. AdminTyped' /\ OneAdmin'
  BY <1>2, <1>3, <1>4, <1>5, <1>7, <1>8
     DEF AdminInv, AdminTyped, Admin!TypeOK, OneAdmin, Admin!OneAdmin, AskRow
<1> QED BY <1>1, <1>2, <1>3, <1>6, IdleAsk, AdminAsks

(* A request takes hold of a row: a confirmation of one that nobody holds, *)
(* a repair of one that is only looked at.                                 *)
LEMMA HoldSteps ==
    ASSUME AdminInv, NEW r \in Requests, NEW c \in Ids,
           Admin!ConfirmLaterBegin(r, c) \/ Admin!RepairBegin(r, c)
    PROVE  AdminKept
<1>1. PICK d \in {"confirm", "repair"} :
        /\ Admin!Start(r, d, c)
        /\ challenge[c].state = "live"
        /\ d = "repair" => challenge[c].kind = "repair"
        /\ d = "confirm" =>
              /\ challenge[c].kind = "totp_setup"
              /\ \A q \in Requests : asking[q] # [does |-> "confirm", on |-> c]
  BY DEF Admin!ConfirmLaterBegin, Admin!RepairBegin, Admin!Confirmable,
         Admin!Usable, Admin!Live
<1>2. c \in Nat
  BY AdminConstants
<1>3. PICK x \in AskRow : /\ x.does = d /\ x.on = c
                          /\ asking' = [asking EXCEPT ![r] = x]
                          /\ asking' \in [Requests -> AskRow]
                          /\ asking[r].does = "nothing"
  BY <1>1, <1>2, AskStart
<1>4. UNCHANGED <<admins, bootstrap, challenge, secret, backups, signedIn,
                  rotating, issuing, tested, granted>>
  BY DEF Admin!ConfirmLaterBegin, Admin!RepairBegin
<1>5. AdminTyped' /\ OneAdmin'
  BY <1>3, <1>4 DEF AdminInv, AdminTyped, Admin!TypeOK, OneAdmin, Admin!OneAdmin,
                    AskRow
<1>6. /\ IssuingSound' /\ CodesAgree' /\ BlankRows'
      /\ GrantedSound' /\ UsedWhileLive
  BY <1>4, <1>5, RowsRest, CodesKept, NothingGranted
<1>7. FactorsCounted'
  BY <1>3, <1>4, <1>5, RowsRest, FactorsSame, FactorsKept
<1>8. d = "confirm" =>
        \A q \in Requests : asking[q].does = "confirm" => asking[q].on # c
  <2> SUFFICES ASSUME d = "confirm", NEW q \in Requests,
                      asking[q].does = "confirm", asking[q].on = c
               PROVE  FALSE
    OBVIOUS
  <2>1. asking[q] \in AskRow
    BY AdminTypes DEF AdminInv
  <2>2. asking[q] = [does |-> "confirm", on |-> c]
    BY <2>1 DEF AskRow
  <2> QED BY <1>1, <2>2
<1>9. \A q \in Requests \ {r} :
         asking[q].does = "confirm" => challenge'[asking[q].on].state = "live"
  BY <1>4 DEF AdminInv, RequestsSound
<1>10. RequestsSound'
  BY <1>1, <1>3, <1>4, <1>8, <1>9, RowsRest, RequestsMove
<1> QED BY <1>5, <1>6, <1>7, <1>10 DEF AdminKept, AdminInv

(* New rows that are no codes.                                             *)
LEMMA IssueRowSteps ==
    ASSUME AdminInv, NEW c \in Ids,
           Admin!SetupTOTP(c) \/ \E r \in Requests : Admin!LoginChallenge(r, c)
    PROVE  AdminKept
<1>1. PICK k \in {"login", "totp_setup"} :
        Admin!Free(c) /\ challenge' = Admin!Issued(challenge, c, k)
  BY DEF Admin!SetupTOTP, Admin!LoginChallenge
<1>2. k \in Admin!Kinds /\ k # "code"
  BY DEF Admin!Kinds
<1>3. UNCHANGED <<admins, bootstrap, secret, backups, signedIn,
                  rotating, issuing, tested, granted>>
  BY DEF Admin!SetupTOTP, Admin!LoginChallenge
<1>4. /\ challenge' \in [Ids -> ChallengeRow]
      /\ challenge[c].state = "absent"
      /\ challenge'[c].kind = k /\ challenge'[c].tries = 0
      /\ \A d \in Ids : d # c => challenge'[d] = challenge[d]
      /\ RowsEvolve
  BY <1>1, <1>2, RowIssued DEF AdminInv
<1>5. \A q \in Requests :
         asking[q].does = "confirm" => challenge'[asking[q].on].state = "live"
  BY <1>4 DEF AdminInv, RequestsSound
<1>6. /\ asking' \in [Requests -> AskRow] /\ RequestsSound'
      /\ \A d \in Ids : FactorsOn(d)' = FactorsOn(d)
  <2>1. CASE Admin!SetupTOTP(c)
    <3>1. asking' = asking
      BY <2>1 DEF Admin!SetupTOTP
    <3> QED BY <3>1, <1>4, <1>5, AdminTypes, RequestsStay DEF FactorsOn, AdminInv
  <2>2. ASSUME NEW r \in Requests, Admin!LoginChallenge(r, c)
        PROVE  /\ asking' \in [Requests -> AskRow] /\ RequestsSound'
               /\ \A d \in Ids : FactorsOn(d)' = FactorsOn(d)
    <3>1. Admin!Done(r) /\ asking[r].does # "factor"
      BY <2>2 DEF Admin!LoginChallenge, Admin!Doing
    <3>2. /\ asking' = [asking EXCEPT ![r] = Admin!Idle]
          /\ asking' \in [Requests -> AskRow]
      BY <3>1, AskDone
    <3>3. RequestsSound'
      BY <3>2, <1>4, <1>5, IdleAsk, RequestsMove
    <3> QED BY <3>1, <3>2, <3>3, IdleAsk, FactorsSame
  <2> QED BY <2>1, <2>2
<1>7. AdminTyped' /\ OneAdmin'
  BY <1>3, <1>4, <1>6
     DEF AdminInv, AdminTyped, Admin!TypeOK, OneAdmin, Admin!OneAdmin,
         AskRow, ChallengeRow
<1>8. NoNewCode
  BY <1>2, <1>4 DEF NoNewCode
<1>9. \A d \in Ids : challenge'[d].tries = challenge[d].tries
  <2>1. challenge[c].tries = 0
    BY <1>4 DEF AdminInv, BlankRows
  <2> QED BY <1>4, <2>1
<1>10. FactorsCounted'
  BY <1>3, <1>6, <1>7, <1>9, FactorsKept
<1> QED BY <1>3, <1>4, <1>6, <1>7, <1>8, <1>10, CodesKept, NothingGranted
        DEF AdminKept, AdminInv

(* A row is used; of a setup, nobody else holds it.                        *)
LEMMA HeldByOthers ==
    ASSUME AdminInv, NEW c \in Ids, NEW R \in SUBSET Requests,
           \A d \in Ids : d # c => challenge'[d] = challenge[d],
           \A q \in R : asking[q].does = "confirm" => asking[q].on # c
    PROVE  \A q \in R :
              asking[q].does = "confirm" => challenge'[asking[q].on].state = "live"
BY DEF AdminInv, RequestsSound

LEMMA ConfirmFirstStep ==
    ASSUME AdminInv, NEW c \in Ids, Admin!ConfirmFirst(c)
    PROVE  AdminKept
<1>1. /\ Admin!Live(c) /\ challenge[c].kind = "totp_setup"
      /\ \A q \in Requests : asking[q] # [does |-> "confirm", on |-> c]
      /\ challenge' = [challenge EXCEPT ![c].state = "consumed"]
      /\ granted' = [granted EXCEPT ![c] = @ + 1]
      /\ secret' = c /\ backups' = [backups EXCEPT ![c] = RecoveryCodes]
      /\ UNCHANGED <<admins, bootstrap, signedIn, asking, rotating, issuing, tested>>
  BY DEF Admin!ConfirmFirst, Admin!Confirmable, Admin!Usable, Admin!Use
<1>2. /\ challenge' \in [Ids -> ChallengeRow]
      /\ challenge'[c].state = "consumed"
      /\ \A d \in Ids : d # c => challenge'[d] = challenge[d]
      /\ \A d \in Ids : challenge'[d].tries = challenge[d].tries
      /\ RowsEvolve /\ NoNewCode
  BY <1>1, RowConsumed DEF AdminInv
<1>3. \A q \in Requests : asking[q].does = "confirm" => asking[q].on # c
  <2> SUFFICES ASSUME NEW q \in Requests,
                      asking[q].does = "confirm", asking[q].on = c
               PROVE  FALSE
    OBVIOUS
  <2>1. asking[q] \in AskRow
    BY AdminTypes DEF AdminInv
  <2>2. asking[q] = [does |-> "confirm", on |-> c]
    BY <2>1 DEF AskRow
  <2> QED BY <1>1, <2>2
<1>4. AdminTyped' /\ OneAdmin'
  <2>1. backups' \in [Ids -> 0 .. RecoveryCodes] /\ granted' \in [Ids -> Nat]
    BY <1>1, AdminConstants DEF AdminInv, AdminTyped, Admin!TypeOK
  <2> QED BY <1>1, <1>2, <2>1
          DEF AdminInv, AdminTyped, Admin!TypeOK, OneAdmin, Admin!OneAdmin,
              ChallengeRow
<1>5. GrantedSound' /\ UsedWhileLive
  BY <1>1, <1>2, <1>4, GrantedOnce
<1>6. RequestsSound'
  BY <1>1, <1>2, <1>3, HeldByOthers, RequestsStay
<1>7. FactorsCounted'
  BY <1>1, <1>2, <1>4, FactorsKept DEF FactorsOn
<1> QED BY <1>1, <1>2, <1>4, <1>5, <1>6, <1>7, CodesKept DEF AdminKept, AdminInv

(* A request that held or looked at a row uses it.                         *)
LEMMA UseStep ==
    ASSUME AdminInv, NEW r \in Requests, NEW c \in Ids, Admin!Live(c),
           asking[r].does \in {"confirm", "repair"}, asking[r].on = c,
           Admin!Use(c), Admin!Done(r),
           backups' \in [Ids -> 0 .. RecoveryCodes],
           UNCHANGED <<admins, bootstrap, secret, signedIn, rotating, issuing, tested>>
    PROVE  AdminKept
<1>1. /\ challenge' = [challenge EXCEPT ![c].state = "consumed"]
      /\ granted' = [granted EXCEPT ![c] = @ + 1]
  BY DEF Admin!Use
<1>2. /\ challenge' \in [Ids -> ChallengeRow]
      /\ challenge'[c].state = "consumed"
      /\ \A d \in Ids : d # c => challenge'[d] = challenge[d]
      /\ \A d \in Ids : challenge'[d].tries = challenge[d].tries
      /\ RowsEvolve /\ NoNewCode
  BY <1>1, RowConsumed DEF AdminInv
<1>3. /\ asking' = [asking EXCEPT ![r] = Admin!Idle]
      /\ asking' \in [Requests -> AskRow]
  BY AskDone
<1>4. AdminTyped' /\ OneAdmin'
  <2>1. granted' \in [Ids -> Nat]
    BY <1>1 DEF AdminInv, AdminTyped, Admin!TypeOK
  <2> QED BY <1>2, <1>3, <2>1
          DEF AdminInv, AdminTyped, Admin!TypeOK, OneAdmin, Admin!OneAdmin,
              ChallengeRow, AskRow
<1>5. GrantedSound' /\ UsedWhileLive
  BY <1>1, <1>2, <1>4, GrantedOnce
<1>6. \A q \in Requests \ {r} : asking[q].does = "confirm" => asking[q].on # c
  BY DEF AdminInv, RequestsSound
<1>7. RequestsSound'
  <2>1. \A q \in Requests \ {r} :
           asking[q].does = "confirm" => challenge'[asking[q].on].state = "live"
    BY <1>2, <1>6, HeldByOthers
  <2>2. PICK x \in AskRow : x = Admin!Idle /\ x.does = "nothing"
    BY IdleAsk
  <2>3. asking' = [asking EXCEPT ![r] = x]
    BY <1>3, <2>2
  <2> QED BY <1>2, <2>1, <2>2, <2>3, RequestsMove
<1>8. FactorsCounted'
  BY <1>2, <1>3, <1>4, IdleAsk, FactorsSame, FactorsKept
<1> QED BY <1>2, <1>4, <1>5, <1>7, <1>8, CodesKept DEF AdminKept, AdminInv

LEMMA UseSteps ==
    ASSUME AdminInv, NEW r \in Requests,
           Admin!ConfirmLaterCommit(r) \/ Admin!RepairCommit(r)
    PROVE  AdminKept
<1>1. CASE Admin!ConfirmLaterCommit(r)
  <2>1. /\ asking[r].does = "confirm" /\ asking[r].on \in Ids
        /\ Admin!Live(asking[r].on)
    BY <1>1 DEF Admin!ConfirmLaterCommit, Admin!Doing, AdminInv, RequestsSound,
                Admin!Live
  <2>2. /\ backups \in [Ids -> 0 .. RecoveryCodes]
        /\ RecoveryCodes \in 0 .. RecoveryCodes
    BY AdminConstants DEF AdminInv, AdminTyped, Admin!TypeOK
  <2>3. backups' = [backups EXCEPT ![asking[r].on] = RecoveryCodes]
    BY <1>1 DEF Admin!ConfirmLaterCommit
  <2>4. backups' \in [Ids -> 0 .. RecoveryCodes]
    BY <2>2, <2>3
  <2> QED BY <1>1, <2>1, <2>4, UseStep DEF Admin!ConfirmLaterCommit
<1>2. CASE Admin!RepairCommit(r)
  <2>1. /\ asking[r].does = "repair" /\ asking[r].on \in Ids
        /\ Admin!Live(asking[r].on)
    BY <1>2 DEF Admin!RepairCommit, Admin!Doing, AdminInv, RequestsSound,
                Admin!Repairable, Admin!Usable
  <2>2. backups' \in [Ids -> 0 .. RecoveryCodes]
    BY <1>2 DEF Admin!RepairCommit, AdminInv, AdminTyped, Admin!TypeOK
  <2> QED BY <1>2, <2>1, <2>2, UseStep DEF Admin!RepairCommit
<1> QED BY <1>1, <1>2

(* The terminal's code for a repair session, which is a new row.           *)
LEMMA RecoverStep ==
    ASSUME AdminInv, NEW c \in Ids, NEW d \in Ids, Admin!RecoverConsole(c, d)
    PROVE  AdminKept
<1>1. /\ Admin!Live(c) /\ challenge[c].kind = "code" /\ Admin!Free(d)
      /\ challenge' = [Admin!Issued(challenge, d, "repair")
                          EXCEPT ![c].state = "consumed"]
      /\ granted' = [granted EXCEPT ![c] = @ + 1]
      /\ UNCHANGED <<admins, bootstrap, secret, backups, signedIn, asking,
                     rotating, issuing, tested>>
  BY DEF Admin!RecoverConsole, Admin!Usable
<1>2. challenge[c].state = "live" /\ challenge[d].state = "absent" /\ c # d
      /\ challenge \in [Ids -> ChallengeRow]
  BY <1>1, AdminTypes DEF Admin!Live, Admin!Free, AdminInv
<1>3. PICK new : new = [Admin!NoChallenge EXCEPT !.state = "live", !.kind = "repair"]
  OBVIOUS
<1>4. /\ new \in ChallengeRow /\ new.state = "live" /\ new.kind = "repair"
      /\ new.tries = 0
  BY <1>3, BlankChallenge DEF ChallengeRow, Admin!Kinds
<1>5. challenge' = [[challenge EXCEPT ![d] = new] EXCEPT ![c].state = "consumed"]
  BY <1>1, <1>3 DEF Admin!Issued
<1>6. /\ challenge'[d] = new
      /\ challenge'[c] = [challenge[c] EXCEPT !.state = "consumed"]
      /\ \A e \in Ids : e # c /\ e # d => challenge'[e] = challenge[e]
      /\ challenge' = [e \in Ids |-> challenge'[e]]
  BY <1>2, <1>5
<1>7. /\ challenge'[c].state = "consumed"
      /\ challenge'[c].kind = "code"
      /\ challenge'[c].tries = challenge[c].tries
      /\ challenge'[c] \in ChallengeRow
  BY <1>1, <1>2, <1>6 DEF ChallengeRow
<1>8. challenge' \in [Ids -> ChallengeRow]
  BY <1>2, <1>4, <1>6, <1>7
<1>9. RowsEvolve
  BY <1>1, <1>2, <1>4, <1>6, <1>7 DEF RowsEvolve
<1>10. NoNewCode
  BY <1>1, <1>2, <1>4, <1>6, <1>7 DEF NoNewCode
<1>11. AdminTyped' /\ OneAdmin'
  <2>1. granted' \in [Ids -> Nat]
    BY <1>1 DEF AdminInv, AdminTyped, Admin!TypeOK
  <2> QED BY <1>1, <1>8, <2>1
          DEF AdminInv, AdminTyped, Admin!TypeOK, OneAdmin, Admin!OneAdmin,
              ChallengeRow
<1>12. GrantedSound' /\ UsedWhileLive
  BY <1>1, <1>7, <1>9, <1>11, GrantedOnce
<1>13. \A q \in Requests :
          asking[q].does = "confirm" => challenge'[asking[q].on].state = "live"
  BY <1>1, <1>2, <1>6 DEF AdminInv, RequestsSound
<1>14. RequestsSound'
  BY <1>1, <1>9, <1>13, RequestsStay
<1>15. \A e \in Ids : challenge'[e].tries = challenge[e].tries
  <2>1. challenge[d].tries = 0
    BY <1>2 DEF AdminInv, BlankRows
  <2> QED BY <1>4, <1>6, <1>7, <2>1
<1>16. FactorsCounted'
  BY <1>1, <1>11, <1>15, FactorsKept DEF FactorsOn
<1> QED BY <1>1, <1>9, <1>10, <1>11, <1>12, <1>14, <1>16, CodesKept
        DEF AdminKept, AdminInv

LEMMA ExpireStep ==
    ASSUME AdminInv, NEW c \in Ids, Admin!Expire(c)
    PROVE  AdminKept
<1>1. /\ challenge[c].state = "live"
      /\ challenge' = [challenge EXCEPT ![c].expired = TRUE]
      /\ UNCHANGED <<admins, bootstrap, secret, backups, signedIn, asking,
                     rotating, issuing, tested, granted>>
  BY DEF Admin!Expire, Admin!Usable, Admin!Live
<1>2. challenge \in [Ids -> ChallengeRow]
  BY AdminTypes DEF AdminInv
<1>3. /\ challenge'[c] = [challenge[c] EXCEPT !.expired = TRUE]
      /\ \A d \in Ids : d # c => challenge'[d] = challenge[d]
      /\ challenge' = [d \in Ids |-> challenge'[d]]
  BY <1>1, <1>2
<1>4. /\ challenge'[c].state = "live"
      /\ challenge'[c].kind = challenge[c].kind
      /\ challenge'[c].tries = challenge[c].tries
      /\ challenge'[c] \in ChallengeRow
  BY <1>1, <1>2, <1>3 DEF ChallengeRow
<1>5. challenge' \in [Ids -> ChallengeRow]
  BY <1>2, <1>3, <1>4
<1>6. RowsEvolve /\ NoNewCode
  BY <1>1, <1>3, <1>4 DEF RowsEvolve, NoNewCode
<1>7. AdminTyped' /\ OneAdmin'
  BY <1>1, <1>5
     DEF AdminInv, AdminTyped, Admin!TypeOK, OneAdmin, Admin!OneAdmin, ChallengeRow
<1>8. \A q \in Requests :
         asking[q].does = "confirm" => challenge'[asking[q].on].state = "live"
  BY <1>1, <1>3, <1>4 DEF AdminInv, RequestsSound
<1>9. \A d \in Ids : challenge'[d].tries = challenge[d].tries
  BY <1>3, <1>4
<1>10. FactorsCounted'
  BY <1>1, <1>7, <1>9, FactorsKept DEF FactorsOn
<1> QED BY <1>1, <1>6, <1>7, <1>8, <1>10, CodesKept, NothingGranted, RequestsStay
        DEF AdminKept, AdminInv

(* Second factors: counted, and then compared.                             *)
(* A comparison uses up what was counted for it.                           *)
LEMMA FactorEnds ==
    ASSUME AdminInv, AdminTyped', NEW r \in Requests, NEW c \in Ids,
           asking[r].does = "factor", asking[r].on = c, Admin!Done(r),
           tested'[c] \in {tested[c], tested[c] + 1},
           \A d \in Ids : d # c => tested'[d] = tested[d],
           \A d \in Ids : challenge'[d].tries = challenge[d].tries
    PROVE  FactorsCounted'
<1>1. asking' = [asking EXCEPT ![r] = Admin!Idle]
  BY AskDone
<1>2. /\ asking'[r] = Admin!Idle
      /\ \A q \in Requests : q # r => asking'[q] = asking[q]
  BY <1>1, AdminTypes DEF AdminInv
<1>3. r \in FactorsOn(c)
  BY DEF FactorsOn
<1>4. FactorsOn(c)' = FactorsOn(c) \ {r}
  BY <1>2, IdleAsk DEF FactorsOn
<1>5. \A d \in Ids : d # c => FactorsOn(d)' = FactorsOn(d)
  BY <1>2, IdleAsk DEF FactorsOn
<1>6. \A d \in Ids :
         /\ IsFiniteSet(FactorsOn(d)) /\ Cardinality(FactorsOn(d)) \in Nat
         /\ tested[d] + Cardinality(FactorsOn(d)) <= challenge[d].tries
         /\ tested[d] \in Nat
  BY FS_CardinalityType, AdminTypes DEF AdminInv, FactorsCounted
<1>7. \A d \in Ids : challenge[d].tries \in Nat
  BY AdminTypes, AdminConstants DEF AdminInv, ChallengeRow
<1>8. /\ IsFiniteSet(FactorsOn(c)')
      /\ tested'[c] + Cardinality(FactorsOn(c)') <= challenge'[c].tries
  <2>1. /\ IsFiniteSet(FactorsOn(c)')
        /\ Cardinality(FactorsOn(c)') = Cardinality(FactorsOn(c)) - 1
    BY <1>3, <1>4, <1>6, FS_RemoveElement
  <2>2. challenge'[c].tries = challenge[c].tries
    OBVIOUS
  <2> QED BY <2>1, <2>2, <1>6, <1>7
<1>9. ASSUME NEW d \in Ids, d # c
      PROVE  /\ IsFiniteSet(FactorsOn(d)')
             /\ tested'[d] + Cardinality(FactorsOn(d)') <= challenge'[d].tries
  <2>1. /\ FactorsOn(d)' = FactorsOn(d) /\ tested'[d] = tested[d]
        /\ challenge'[d].tries = challenge[d].tries
    BY <1>5, <1>9
  <2> QED BY <2>1, <1>6
<1> QED BY <1>8, <1>9 DEF FactorsCounted

LEMMA FactorCountStep ==
    ASSUME AdminInv, NEW r \in Requests, NEW c \in Ids, Admin!FactorCount(r, c)
    PROVE  AdminKept
<1>1. /\ challenge[c].state = "live" /\ challenge[c].kind = "login"
      /\ challenge[c].tries < MaxTries
      /\ Admin!Start(r, "factor", c)
      /\ challenge' = [challenge EXCEPT ![c].tries = @ + 1]
      /\ UNCHANGED <<admins, bootstrap, secret, backups, signedIn, rotating,
                     issuing, tested, granted>>
  BY DEF Admin!FactorCount, Admin!Live, Admin!Counted
<1>2. c \in Nat
  BY AdminConstants
<1>3. PICK x \in AskRow : /\ x.does = "factor" /\ x.on = c
                          /\ asking' = [asking EXCEPT ![r] = x]
                          /\ asking' \in [Requests -> AskRow]
                          /\ asking[r].does = "nothing"
  BY <1>1, <1>2, AskStart
<1>4. challenge \in [Ids -> ChallengeRow]
  BY AdminTypes DEF AdminInv
<1>5. /\ challenge'[c] = [challenge[c] EXCEPT !.tries = challenge[c].tries + 1]
      /\ \A d \in Ids : d # c => challenge'[d] = challenge[d]
      /\ challenge' = [d \in Ids |-> challenge'[d]]
  BY <1>1, <1>4
<1>6. challenge[c].tries \in Nat /\ challenge[c].tries + 1 \in 0 .. MaxTries
  BY <1>1, <1>4, AdminConstants DEF ChallengeRow
<1>7. /\ challenge'[c].state = "live" /\ challenge'[c].kind = "login"
      /\ challenge'[c].tries = challenge[c].tries + 1
      /\ challenge'[c] \in ChallengeRow
  BY <1>1, <1>4, <1>5, <1>6 DEF ChallengeRow
<1>8. challenge' \in [Ids -> ChallengeRow]
  BY <1>4, <1>5, <1>7
<1>9. RowsEvolve /\ NoNewCode
  BY <1>1, <1>5, <1>7 DEF RowsEvolve, NoNewCode
<1>10. AdminTyped' /\ OneAdmin'
  BY <1>1, <1>3, <1>8
     DEF AdminInv, AdminTyped, Admin!TypeOK, OneAdmin, Admin!OneAdmin,
         AskRow, ChallengeRow
<1>11. \A q \in Requests :
          asking[q].does = "confirm" => challenge'[asking[q].on].state = "live"
  BY <1>1, <1>5, <1>7 DEF AdminInv, RequestsSound
<1>12. RequestsSound'
  BY <1>3, <1>7, <1>9, <1>11, RequestsMove
<1>13. FactorsCounted'
  <2>1. /\ r \notin FactorsOn(c) /\ FactorsOn(c)' = FactorsOn(c) \cup {r}
        /\ \A d \in Ids : d # c => FactorsOn(d)' = FactorsOn(d)
    <3>1. \A q \in Requests : q # r => asking'[q] = asking[q]
      BY <1>3, AdminTypes DEF AdminInv
    <3>2. asking'[r] = x
      BY <1>3, AdminTypes DEF AdminInv
    <3> QED BY <3>1, <3>2, <1>3 DEF FactorsOn
  <2>2. \A d \in Ids :
           /\ IsFiniteSet(FactorsOn(d)) /\ Cardinality(FactorsOn(d)) \in Nat
           /\ tested[d] + Cardinality(FactorsOn(d)) <= challenge[d].tries
           /\ tested[d] \in Nat /\ tested'[d] = tested[d]
    BY <1>1, FS_CardinalityType, AdminTypes DEF AdminInv, FactorsCounted
  <2>3. /\ IsFiniteSet(FactorsOn(c)')
        /\ tested'[c] + Cardinality(FactorsOn(c)') <= challenge'[c].tries
    <3>1. /\ IsFiniteSet(FactorsOn(c)')
          /\ Cardinality(FactorsOn(c)') = Cardinality(FactorsOn(c)) + 1
      BY <2>1, <2>2, FS_AddElement
    <3> QED BY <3>1, <1>6, <1>7, <2>2
  <2>4. ASSUME NEW d \in Ids, d # c
        PROVE  /\ IsFiniteSet(FactorsOn(d)')
               /\ tested'[d] + Cardinality(FactorsOn(d)') <= challenge'[d].tries
    <3>1. FactorsOn(d)' = FactorsOn(d) /\ challenge'[d].tries = challenge[d].tries
      BY <1>5, <2>1, <2>4
    <3> QED BY <3>1, <2>2
  <2> QED BY <2>3, <2>4 DEF FactorsCounted
<1> QED BY <1>1, <1>9, <1>10, <1>12, <1>13, CodesKept, NothingGranted
        DEF AdminKept, AdminInv

LEMMA FactorRefuseStep ==
    ASSUME AdminInv, NEW r \in Requests, Admin!FactorRefuse(r)
    PROVE  AdminKept
<1>1. PICK c \in Ids : c = asking[r].on
  BY DEF Admin!FactorRefuse, Admin!Doing, AdminInv, RequestsSound
<1>2. /\ asking[r].does = "factor" /\ asking[r].on = c /\ Admin!Done(r)
      /\ tested' = [tested EXCEPT ![c] = IF Admin!Fits(c) THEN @ + 1 ELSE @]
      /\ UNCHANGED <<admins, bootstrap, challenge, secret, backups, signedIn,
                     rotating, issuing, granted>>
  BY <1>1 DEF Admin!FactorRefuse, Admin!Doing
<1>3. /\ tested' \in [Ids -> Nat] /\ tested'[c] \in {tested[c], tested[c] + 1}
      /\ \A d \in Ids : d # c => tested'[d] = tested[d]
  BY <1>2, AdminTypes DEF AdminInv
<1>4. /\ asking' = [asking EXCEPT ![r] = Admin!Idle]
      /\ asking' \in [Requests -> AskRow]
  BY <1>2, AskDone
<1>5. AdminTyped' /\ OneAdmin'
  BY <1>2, <1>3, <1>4
     DEF AdminInv, AdminTyped, Admin!TypeOK, OneAdmin, Admin!OneAdmin, AskRow
<1>6. RowsEvolve /\ NoNewCode
      /\ \A d \in Ids : challenge'[d].tries = challenge[d].tries
  BY <1>2, RowsRest
<1>7. FactorsCounted'
  BY <1>2, <1>3, <1>5, <1>6, FactorEnds
<1>8. \A q \in Requests \ {r} :
         asking[q].does = "confirm" => challenge'[asking[q].on].state = "live"
  BY <1>2 DEF AdminInv, RequestsSound
<1>9. RequestsSound'
  BY <1>4, <1>6, <1>8, IdleAsk, RequestsMove
<1> QED BY <1>2, <1>5, <1>6, <1>7, <1>9, CodesKept, NothingGranted
        DEF AdminKept, AdminInv

LEMMA FactorAcceptStep ==
    ASSUME AdminInv, NEW r \in Requests, NEW b \in Ids \cup {0},
           Admin!FactorAccept(r, b)
    PROVE  AdminKept
<1>1. PICK c \in Ids : c = asking[r].on
  BY DEF Admin!FactorAccept, Admin!Doing, AdminInv, RequestsSound
<1>2. /\ asking[r].does = "factor" /\ asking[r].on = c /\ Admin!Done(r)
      /\ Admin!Live(c)
      /\ tested' = [tested EXCEPT ![c] = @ + 1]
      /\ challenge' = [challenge EXCEPT ![c].state = "consumed"]
      /\ granted' = [granted EXCEPT ![c] = @ + 1]
      /\ signedIn' = TRUE
      /\ UNCHANGED <<admins, bootstrap, secret, rotating, issuing>>
  BY <1>1 DEF Admin!FactorAccept, Admin!Doing, Admin!Fits, Admin!Usable, Admin!Use
<1>3. backups' \in [Ids -> 0 .. RecoveryCodes]
  <2>1. backups \in [Ids -> 0 .. RecoveryCodes]
    BY DEF AdminInv, AdminTyped, Admin!TypeOK
  <2>2. CASE b = 0
    BY <2>1, <2>2 DEF Admin!FactorAccept
  <2>3. CASE b # 0
    <3>1. backups[b] > 0 /\ backups' = [backups EXCEPT ![b] = @ - 1]
      BY <2>3 DEF Admin!FactorAccept
    <3>2. backups[b] - 1 \in 0 .. RecoveryCodes
      BY <2>1, <2>3, <3>1, AdminConstants
    <3> QED BY <2>1, <3>1, <3>2
  <2> QED BY <2>2, <2>3
<1>4. /\ tested' \in [Ids -> Nat] /\ tested'[c] = tested[c] + 1
      /\ \A d \in Ids : d # c => tested'[d] = tested[d]
      /\ granted' \in [Ids -> Nat]
  BY <1>2, AdminTypes DEF AdminInv
<1>5. /\ challenge' \in [Ids -> ChallengeRow]
      /\ challenge'[c].state = "consumed"
      /\ \A d \in Ids : d # c => challenge'[d] = challenge[d]
      /\ \A d \in Ids : challenge'[d].tries = challenge[d].tries
      /\ RowsEvolve /\ NoNewCode
  BY <1>2, RowConsumed DEF AdminInv
<1>6. /\ asking' = [asking EXCEPT ![r] = Admin!Idle]
      /\ asking' \in [Requests -> AskRow]
  BY <1>2, AskDone
<1>7. AdminTyped' /\ OneAdmin'
  BY <1>2, <1>3, <1>4, <1>5, <1>6
     DEF AdminInv, AdminTyped, Admin!TypeOK, OneAdmin, Admin!OneAdmin, AskRow,
         ChallengeRow
<1>8. GrantedSound' /\ UsedWhileLive
  BY <1>2, <1>5, <1>7, GrantedOnce
<1>9. FactorsCounted'
  BY <1>2, <1>4, <1>5, <1>7, FactorEnds
<1>10. challenge[c].kind = "login"
  BY <1>2 DEF AdminInv, RequestsSound
<1>11. \A q \in Requests \ {r} : asking[q].does = "confirm" => asking[q].on # c
  BY <1>10 DEF AdminInv, RequestsSound
<1>12. \A q \in Requests \ {r} :
          asking[q].does = "confirm" => challenge'[asking[q].on].state = "live"
  BY <1>5, <1>11 DEF AdminInv, RequestsSound
<1>13. RequestsSound'
  BY <1>5, <1>6, <1>12, IdleAsk, RequestsMove
<1> QED BY <1>2, <1>5, <1>7, <1>8, <1>9, <1>13, CodesKept DEF AdminKept, AdminInv

-----------------------------------------------------------------------------
(* The terminal's codes.                                                   *)

LEMMA IssueBeginStep ==
    ASSUME AdminInv, Admin!IssueBegin
    PROVE  AdminKept
<1>1. /\ issuing' = {c \in Ids : Admin!Recovering(c)}
      /\ UNCHANGED <<admins, bootstrap, challenge, secret, backups, signedIn,
                     asking, rotating, tested, granted>>
  BY DEF Admin!IssueBegin
<1>2. AdminTyped' /\ OneAdmin'
  BY <1>1 DEF AdminInv, AdminTyped, Admin!TypeOK, OneAdmin, Admin!OneAdmin
<1>3. IssuingSound' /\ CodesAgree' /\ BlankRows'
  BY <1>1 DEF AdminInv, IssuingSound, CodesAgree, BlankRows, Admin!Recovering,
              Admin!Live
<1>4. RequestsSound' /\ GrantedSound' /\ UsedWhileLive
  BY <1>1 DEF AdminInv, RequestsSound, GrantedSound, UsedWhileLive
<1>5. FactorsCounted'
  BY <1>1 DEF AdminInv, FactorsCounted, FactorsOn
<1> QED BY <1>2, <1>3, <1>4, <1>5 DEF AdminKept, AdminInv

(* Every live code was found when the new one began to be issued, and ends *)
(* with it.                                                                *)
LEMMA IssueCommitStep ==
    ASSUME AdminInv, NEW c \in Ids, Admin!IssueCommit(c)
    PROVE  AdminKept
<1>1. /\ issuing # Admin!NotIssuing /\ Admin!Free(c)
      /\ issuing' = Admin!NotIssuing
      /\ UNCHANGED <<admins, bootstrap, secret, backups, signedIn, asking,
                     rotating, tested, granted>>
  BY DEF Admin!IssueCommit
<1>2. PICK new : new = [Admin!NoChallenge EXCEPT !.state = "live", !.kind = "code"]
  OBVIOUS
<1>3. /\ new \in ChallengeRow /\ new.state = "live" /\ new.kind = "code"
      /\ new.tries = 0
  BY <1>2, BlankChallenge DEF ChallengeRow, Admin!Kinds
<1>4. challenge' = [[d \in Ids |-> IF d \in Admin!Ended
                                   THEN [challenge[d] EXCEPT !.state = "consumed"]
                                   ELSE challenge[d]] EXCEPT ![c] = new]
  BY <1>2 DEF Admin!IssueCommit, Admin!Issued
<1>5. /\ challenge[c].state = "absent" /\ challenge \in [Ids -> ChallengeRow]
      /\ c \notin Admin!Ended
  BY <1>1, AdminTypes DEF Admin!Free, Admin!Ended, Admin!Live, AdminInv
<1>6. /\ challenge'[c] = new
      /\ \A d \in Ids : d # c => challenge'[d] =
            IF d \in Admin!Ended THEN [challenge[d] EXCEPT !.state = "consumed"]
                                 ELSE challenge[d]
      /\ challenge' = [d \in Ids |-> challenge'[d]]
  BY <1>4
<1>7. ASSUME NEW d \in Ids, d \in Admin!Ended
      PROVE  /\ d # c /\ challenge[d].state = "live"
             /\ challenge[d].kind \in {"code", "repair"}
             /\ challenge'[d].state = "consumed"
             /\ challenge'[d].kind = challenge[d].kind
             /\ challenge'[d].tries = challenge[d].tries
             /\ challenge'[d] \in ChallengeRow
  <2>1. d # c /\ challenge[d].state = "live"
    BY <1>5, <1>7 DEF Admin!Ended, Admin!Live
  <2>2. challenge[d].kind \in {"code", "repair"}
    BY <1>1, <1>7 DEF AdminInv, IssuingSound, Admin!Ended
  <2>3. challenge'[d] = [challenge[d] EXCEPT !.state = "consumed"]
    BY <1>6, <1>7, <2>1
  <2>4. challenge[d] \in ChallengeRow
    BY <1>5
  <2> QED BY <2>1, <2>2, <2>3, <2>4 DEF ChallengeRow
<1>8. challenge' \in [Ids -> ChallengeRow]
  BY <1>3, <1>5, <1>6, <1>7
<1>9. RowsEvolve
  BY <1>3, <1>5, <1>6, <1>7 DEF RowsEvolve
<1>10. AdminTyped' /\ OneAdmin'
  BY <1>1, <1>8
     DEF AdminInv, AdminTyped, Admin!TypeOK, OneAdmin, Admin!OneAdmin, ChallengeRow
<1>11. ASSUME NEW d \in Ids, challenge'[d].state = "live",
              challenge'[d].kind = "code"
       PROVE  d = c
  <2> SUFFICES ASSUME d # c PROVE FALSE
    OBVIOUS
  <2>1. d \notin Admin!Ended /\ challenge'[d] = challenge[d]
    BY <1>6, <1>7, <1>11
  <2>2. d \in issuing
    BY <1>1, <1>11, <2>1 DEF AdminInv, IssuingSound, Admin!Live
  <2> QED BY <1>11, <2>1, <2>2 DEF Admin!Ended, Admin!Live
<1>12. IssuingSound' /\ CodesAgree'
  BY <1>1, <1>11 DEF IssuingSound, CodesAgree, Admin!Live, Admin!NotIssuing
<1>13. BlankRows'
  BY <1>9 DEF AdminInv, BlankRows, RowsEvolve
<1>14. \A q \in Requests :
          asking[q].does = "confirm" => challenge'[asking[q].on].state = "live"
  <2> SUFFICES ASSUME NEW q \in Requests, asking[q].does = "confirm"
               PROVE  challenge'[asking[q].on].state = "live"
    OBVIOUS
  <2>1. /\ asking[q].on \in Ids /\ challenge[asking[q].on].state = "live"
        /\ challenge[asking[q].on].kind = "totp_setup"
    BY DEF AdminInv, RequestsSound
  <2>2. asking[q].on # c /\ asking[q].on \notin Admin!Ended
    BY <1>5, <1>7, <2>1
  <2> QED BY <1>6, <2>1, <2>2
<1>15. RequestsSound'
  BY <1>1, <1>9, <1>14, RequestsStay
<1>16. \A d \in Ids : challenge'[d].tries = challenge[d].tries
  <2>1. challenge[c].tries = 0
    BY <1>5 DEF AdminInv, BlankRows
  <2> QED BY <1>3, <1>6, <1>7, <2>1
<1>17. FactorsCounted'
  BY <1>1, <1>10, <1>16, FactorsKept DEF FactorsOn
<1> QED BY <1>1, <1>9, <1>10, <1>12, <1>13, <1>15, <1>17, NothingGranted
        DEF AdminKept, AdminInv

-----------------------------------------------------------------------------
LEMMA AdminStepKeeps ==
    AdminInv /\ (Admin!Next \/ UNCHANGED adminVars) => AdminKept
<1> SUFFICES ASSUME AdminInv, Admin!Next \/ UNCHANGED adminVars PROVE AdminKept
  OBVIOUS
<1>1. CASE Admin!Terminal \/ Admin!SessionsEnd
  BY <1>1, TerminalSteps, IssueBeginStep, IssueCommitStep DEF Admin!Terminal
<1>2. ASSUME NEW r \in Requests, Admin!Handle(r) PROVE AdminKept
  <2>1. CASE \/ \E k \in 1 .. MaxRotations : Admin!BootstrapBegin(r, k)
             \/ Admin!LoginBegin(r) \/ Admin!DisableBegin(r)
    BY <2>1, StartSteps
  <2>2. CASE \/ Admin!BootstrapCommit(r) \/ Admin!LoginAtOnce(r)
             \/ Admin!DisableCommit(r) \/ Admin!GiveUp(r)
    BY <2>2, DoneSteps
  <2>3. CASE Admin!FactorRefuse(r) \/ \E b \in Ids \cup {0} : Admin!FactorAccept(r, b)
    BY <2>3, FactorRefuseStep, FactorAcceptStep
  <2>4. CASE Admin!ConfirmLaterCommit(r) \/ Admin!RepairCommit(r)
    BY <2>4, UseSteps
  <2>5. ASSUME NEW c \in Ids,
               \/ Admin!LoginChallenge(r, c) \/ Admin!FactorCount(r, c)
               \/ Admin!ConfirmLaterBegin(r, c) \/ Admin!RepairBegin(r, c)
        PROVE  AdminKept
    BY <2>5, IssueRowSteps, FactorCountStep, HoldSteps
  <2> QED BY <1>2, <2>1, <2>2, <2>3, <2>4, <2>5 DEF Admin!Handle
<1>3. ASSUME NEW c \in Ids, Admin!SetupTOTP(c) \/ Admin!ConfirmFirst(c) \/ Admin!Expire(c)
      PROVE  AdminKept
  BY <1>3, IssueRowSteps, ConfirmFirstStep, ExpireStep
<1>4. ASSUME NEW c \in Ids, NEW d \in Ids, Admin!RecoverConsole(c, d)
      PROVE  AdminKept
  BY <1>4, RecoverStep
<1>5. CASE UNCHANGED adminVars
  <2>1. AdminTyped' /\ OneAdmin'
    BY <1>5 DEF adminVars, AdminInv, AdminTyped, Admin!TypeOK, OneAdmin,
                Admin!OneAdmin
  <2> QED BY <1>5, <2>1, AdminRests DEF adminVars
<1> QED BY <1>1, <1>2, <1>3, <1>4, <1>5 DEF Admin!Next

-----------------------------------------------------------------------------
(* Theorems.                                                               *)

LEMMA AdminRuns ==
    [ConsoleNext]_<<part, vars, otherVars>> => Admin!Next \/ UNCHANGED adminVars
BY DEF ConsoleNext, otherVars

LEMMA AdminAlways == ConsoleSpec => []AdminInv
<1>1. AdminInv /\ [ConsoleNext]_<<part, vars, otherVars>> => AdminInv'
  BY AdminRuns, AdminStepKeeps DEF AdminKept
<1> QED BY AdminInitially, <1>1, PTL DEF ConsoleSpec

(* One administrator, whatever initialization requests and rotations of    *)
(* the initialization code overlap.                                        *)
THEOREM SingleAdmin == ConsoleSpec => []OneAdmin
<1>1. AdminInv => OneAdmin
  BY DEF AdminInv
<1> QED BY AdminAlways, <1>1, PTL

(* MaxTries second factors are compared for one challenge at most: every   *)
(* comparison was counted before it, where no rollback undoes it.          *)
THEOREM FactorsBounded == ConsoleSpec => []Admin!FactorGuessesBounded
<1>1. AdminInv => Admin!FactorGuessesBounded
  <2> SUFFICES ASSUME AdminInv, NEW c \in Ids PROVE tested[c] <= MaxTries
    BY DEF Admin!FactorGuessesBounded
  <2>1. /\ Cardinality(FactorsOn(c)) \in Nat
        /\ tested[c] + Cardinality(FactorsOn(c)) <= challenge[c].tries
    BY FS_CardinalityType DEF AdminInv, FactorsCounted
  <2>2. tested[c] \in Nat
    BY AdminTypes DEF AdminInv
  <2>3. challenge[c].tries \in 0 .. MaxTries
    BY AdminTypes DEF AdminInv, ChallengeRow
  <2> QED BY <2>1, <2>2, <2>3, AdminConstants
<1> QED BY AdminAlways, <1>1, PTL

(* After a new recovery code of the terminal no earlier one is live, also  *)
(* when codes are spent for repair sessions while it is issued.            *)
THEOREM SingleConsoleCode == ConsoleSpec => []OneConsoleCode
<1>1. AdminInv => OneConsoleCode
  <2> SUFFICES ASSUME AdminInv PROVE OneConsoleCode
    OBVIOUS
  <2> DEFINE S == {d \in Ids : Admin!Live(d) /\ challenge[d].kind = "code"}
  <2>1. Cardinality(S) <= 1
    <3>1. CASE S = {}
      BY <3>1, FS_EmptySet
    <3>2. CASE S # {}
      <4>1. PICK c \in S : TRUE
        BY <3>2
      <4>2. S = {c}
        BY <4>1 DEF AdminInv, CodesAgree
      <4> HIDE DEF S
      <4> QED BY <4>2, FS_Singleton
    <3> QED BY <3>1, <3>2
  <2>2. Admin!Cardinality(S) = Cardinality(S)
    BY DEF Admin!Cardinality, Cardinality
  <2> QED BY <2>1, <2>2 DEF OneConsoleCode, Admin!OneConsoleCode
<1> QED BY AdminAlways, <1>1, PTL

(* A row of auth_challenges buys one thing, while it is live: a request    *)
(* that read it before finds it consumed, or holds it until its end.       *)
THEOREM ChallengeBuysOnce == ConsoleSpec => ChallengeUsedOnce
<1>1. AdminInv /\ [ConsoleNext]_<<part, vars, otherVars>>
        => AdminInv' /\ [UsedWhileLive]_adminVars
  BY AdminRuns, AdminStepKeeps DEF AdminKept
<1>2. adminVars = Admin!vars
  BY DEF adminVars, Admin!vars
<1> QED BY AdminInitially, <1>1, <1>2, PTL
        DEF ConsoleSpec, ChallengeUsedOnce, Admin!ChallengeUsedOnce,
            Admin!vars, adminVars, UsedWhileLive

-----------------------------------------------------------------------------
(* Accounts: the inductive invariant.                                      *)

MerchantRow == [box : Boxes \cup {Nobody}, name : Names \cup {Nobody},
                password : Nat, key : Nat]

CodeRow == [state : {"absent", "live", "consumed"}, purpose : Purposes,
            subject : Merchants \cup {Nobody}, box : Boxes \cup {Nobody},
            name : Names \cup {Nobody}, age : 0 .. 2, tries : 0 .. MaxTries]

SenderRow == [stage : {"idle", "checked", "mailing"}, row : CodeRow,
              since : SUBSET Codes, code : Codes \cup {0}]

CountedRow == [code : Codes \cup {0}, right : BOOLEAN]

RequestRow == [stage : {"idle", "proving", "counted"}, deed : SUBSET Purposes,
               merchant : Merchants \cup {Nobody}, box : Boxes \cup {Nobody},
               newBox : Boxes \cup {Nobody}, name : Names \cup {Nobody},
               counted : CountedRow, proved : Seq(Codes)]

AccountTyped ==
    /\ mix \in Mixes
    /\ merchant \in [Merchants -> MerchantRow]
    /\ code \in [Codes -> CodeRow]
    /\ sender \in [Senders -> SenderRow]
    /\ request \in [Requests -> RequestRow]
    /\ compared \in [Codes -> Nat] /\ spent \in [Codes -> Nat]

(* Attempts are written before they are compared, on a row that is there.  *)
CountedOn(c) ==
    {r \in Requests : request[r].stage = "counted" /\ request[r].counted.code = c}

AttemptsCounted ==
    \A c \in Codes : /\ IsFiniteSet(CountedOn(c))
                     /\ compared[c] + Cardinality(CountedOn(c)) <= code[c].tries

CountedSound ==
    \A r \in Requests : request[r].stage = "counted" => request[r].counted.code \in Codes

NotYetTried ==
    /\ \A c \in Codes : code[c].state = "absent" => code[c].tries = 0
    /\ \A s \in Senders : sender[s].row.tries = 0

(* A code that was proved is live and locked until its request ends.       *)
ProvedBy(r) == ToSet(request[r].proved)

ProvedSound ==
    \A r \in Requests : \A c \in ProvedBy(r) :
        /\ c \in Codes /\ code[c].state = "live"
        /\ \A q \in Requests : c \in ProvedBy(q) => q = r

SpentSound ==
    \A c \in Codes : code[c].state # "consumed" => spent[c] = 0

AccountInv ==
    /\ AccountTyped /\ CountedSound /\ AttemptsCounted /\ NotYetTried
    /\ ProvedSound /\ SpentSound

(* What a step keeps: the invariant, and a code pays once, while live.     *)
SpentWhileLive ==
    \A c \in Codes : spent'[c] # spent[c] =>
          /\ code[c].state = "live" /\ code'[c].state = "consumed"
          /\ spent'[c] = 1

AccountKept == AccountInv' /\ SpentWhileLive

-----------------------------------------------------------------------------
(* Rows.                                                                   *)

LEMMA AccountConstants ==
    /\ Codes \subseteq Nat /\ MaxTries \in Nat \ {0} /\ 0 \in 0 .. MaxTries
    /\ \A x \in Mixes : \A D \in x.deeds : D \in SUBSET Purposes
BY AccountAssumption

LEMMA PurposesKnown == "register" \in Purposes
<1>1. PurposeOrder[1] = "register" /\ 1 \in DOMAIN PurposeOrder
  BY DEF PurposeOrder
<1> QED BY <1>1 DEF Purposes, ToSet

LEMMA BlankRowsTyped ==
    /\ NoCode \in CodeRow /\ NoCode.tries = 0 /\ NoCode.state = "absent"
    /\ Unsent \in SenderRow /\ Unsent.row.tries = 0
<1>1. NoCode \in CodeRow /\ NoCode.tries = 0 /\ NoCode.state = "absent"
  BY AccountConstants, PurposesKnown DEF NoCode, CodeRow
<1>2. Unsent \in SenderRow /\ Unsent.row = NoCode
  BY <1>1 DEF Unsent, SenderRow
<1> QED BY <1>1, <1>2

LEMMA EmptyProved == ToSet(<<>>) = {} /\ <<>> \in Seq(Codes)
BY DEF ToSet

LEMMA IdleTyped ==
    Idle \in RequestRow /\ Idle.stage = "idle" /\ Idle.proved = <<>>
<1>1. [code |-> 0, right |-> FALSE] \in CountedRow
  BY DEF CountedRow
<1> QED BY <1>1, EmptyProved DEF Idle, RequestRow

LEMMA ProvedMore ==
    ASSUME NEW s \in Seq(Codes), NEW c \in Codes
    PROVE  Append(s, c) \in Seq(Codes) /\ ToSet(Append(s, c)) = ToSet(s) \cup {c}
<1>1. /\ DOMAIN s = 1 .. Len(s) /\ Len(s) \in Nat
      /\ DOMAIN Append(s, c) = 1 .. Len(s) + 1
      /\ Append(s, c)[Len(s) + 1] = c
      /\ \A i \in 1 .. Len(s) : Append(s, c)[i] = s[i]
  OBVIOUS
<1>2. DOMAIN Append(s, c) = DOMAIN s \cup {Len(s) + 1}
  BY <1>1
<1> QED BY <1>1, <1>2 DEF ToSet

LEMMA ProvedCodes ==
    ASSUME NEW s \in Seq(Codes) PROVE ToSet(s) \subseteq Codes
BY DEF ToSet

-----------------------------------------------------------------------------
(* Parts of the invariant that most steps do not touch.                    *)

LEMMA AttemptsKept ==
    ASSUME AccountInv, UNCHANGED compared,
           \A c \in Codes : code'[c].tries = code[c].tries,
           \A c \in Codes : CountedOn(c)' = CountedOn(c)
    PROVE  AttemptsCounted'
BY DEF AccountInv, AttemptsCounted

(* A request that counted nothing begins, ends or proves.                  *)
LEMMA CountsSame ==
    ASSUME AccountInv, NEW r \in Requests, NEW x \in RequestRow,
           request' = [request EXCEPT ![r] = x],
           request[r].stage # "counted", x.stage # "counted"
    PROVE  \A c \in Codes : CountedOn(c)' = CountedOn(c)
<1>1. /\ \A q \in Requests : q # r => request'[q] = request[q]
      /\ request'[r] = x
  BY DEF AccountInv, AccountTyped
<1> QED BY <1>1 DEF CountedOn

(* A comparison, or the end of a request, uses up what was counted.        *)
LEMMA CountEnds ==
    ASSUME AccountInv, NEW r \in Requests, NEW x \in RequestRow, NEW c \in Codes,
           request' = [request EXCEPT ![r] = x], x.stage # "counted",
           request[r].stage = "counted", request[r].counted.code = c,
           compared'[c] \in {compared[c], compared[c] + 1},
           \A d \in Codes : d # c => compared'[d] = compared[d],
           \A d \in Codes : code'[d].tries = code[d].tries
    PROVE  AttemptsCounted'
<1>1. /\ \A q \in Requests : q # r => request'[q] = request[q]
      /\ request'[r] = x
  BY DEF AccountInv, AccountTyped
<1>2. r \in CountedOn(c)
  BY DEF CountedOn
<1>3. CountedOn(c)' = CountedOn(c) \ {r}
  BY <1>1 DEF CountedOn
<1>4. \A d \in Codes : d # c => CountedOn(d)' = CountedOn(d)
  BY <1>1 DEF CountedOn
<1>5. \A d \in Codes :
         /\ IsFiniteSet(CountedOn(d)) /\ Cardinality(CountedOn(d)) \in Nat
         /\ compared[d] + Cardinality(CountedOn(d)) <= code[d].tries
         /\ compared[d] \in Nat
  BY FS_CardinalityType DEF AccountInv, AttemptsCounted, AccountTyped
<1>6. \A d \in Codes : code[d].tries \in Nat
  BY AccountConstants DEF AccountInv, AccountTyped, CodeRow
<1>7. /\ IsFiniteSet(CountedOn(c)')
      /\ compared'[c] + Cardinality(CountedOn(c)') <= code'[c].tries
  <2>1. /\ IsFiniteSet(CountedOn(c)')
        /\ Cardinality(CountedOn(c)') = Cardinality(CountedOn(c)) - 1
    BY <1>2, <1>3, <1>5, FS_RemoveElement
  <2>2. code'[c].tries = code[c].tries
    OBVIOUS
  <2> QED BY <2>1, <2>2, <1>5, <1>6
<1>8. ASSUME NEW d \in Codes, d # c
      PROVE  /\ IsFiniteSet(CountedOn(d)')
             /\ compared'[d] + Cardinality(CountedOn(d)') <= code'[d].tries
  <2>1. /\ CountedOn(d)' = CountedOn(d) /\ compared'[d] = compared[d]
        /\ code'[d].tries = code[d].tries
    BY <1>4, <1>8
  <2> QED BY <2>1, <1>5
<1> QED BY <1>7, <1>8 DEF AttemptsCounted

(* A lock that is not taken now was taken before; what is locked is live.  *)
LEMMA LocksKept ==
    ASSUME AccountInv,
           \A q \in Requests : ProvedBy(q)' \subseteq ProvedBy(q),
           \A q \in Requests : \A c \in ProvedBy(q)' : code'[c].state = "live"
    PROVE  ProvedSound'
<1> SUFFICES
      ASSUME NEW r \in Requests, NEW c \in ProvedBy(r)'
      PROVE  /\ c \in Codes /\ code'[c].state = "live"
             /\ \A q \in Requests : c \in ProvedBy(q)' => q = r
  BY DEF ProvedSound
<1>1. c \in ProvedBy(r)
  OBVIOUS
<1>2. c \in Codes /\ \A q \in Requests : c \in ProvedBy(q) => q = r
  BY <1>1 DEF AccountInv, ProvedSound
<1> QED BY <1>2

LEMMA NothingSpent ==
    ASSUME AccountInv, UNCHANGED spent,
           \A c \in Codes : code'[c].state # "consumed" => code[c].state # "consumed"
    PROVE  SpentSound' /\ SpentWhileLive
BY DEF AccountInv, SpentSound, SpentWhileLive

-----------------------------------------------------------------------------
(* Steps.                                                                  *)

LEMMA AccountInitially == ConsoleInit => AccountInv
<1> SUFFICES ASSUME ConsoleInit PROVE AccountInv
  OBVIOUS
<1>1. /\ mix \in Mixes
      /\ merchant \in [Merchants -> [box : Boxes \cup {Nobody},
                                     name : Names \cup {Nobody},
                                     password : {0}, key : {0}]]
      /\ code = [c \in Codes |-> NoCode]
      /\ sender = [s \in Senders |-> Unsent]
      /\ request = [r \in Requests |-> Idle]
      /\ compared = [c \in Codes |-> 0]
      /\ spent = [c \in Codes |-> 0]
  BY DEF ConsoleInit, InitWith
<1>2. AccountTyped
  BY <1>1, BlankRowsTyped, IdleTyped DEF AccountTyped, MerchantRow
<1>3. CountedSound /\ \A c \in Codes : CountedOn(c) = {}
  BY <1>1, IdleTyped DEF CountedSound, CountedOn
<1>4. AttemptsCounted
  <2>1. \A c \in Codes : compared[c] + 0 <= code[c].tries
    BY <1>1, BlankRowsTyped
  <2> QED BY <1>3, <2>1, FS_EmptySet DEF AttemptsCounted
<1>5. NotYetTried
  BY <1>1, BlankRowsTyped DEF NotYetTried
<1>6. ProvedSound
  BY <1>1, IdleTyped, EmptyProved DEF ProvedSound, ProvedBy
<1>7. SpentSound
  BY <1>1 DEF SpentSound
<1> QED BY <1>2, <1>3, <1>4, <1>5, <1>6, <1>7 DEF AccountInv

LEMMA AccountRests ==
    ASSUME AccountInv,
           UNCHANGED <<merchant, code, sender, request, compared, spent, mix>>
    PROVE  AccountKept
BY DEF AccountInv, AccountTyped, CountedSound, AttemptsCounted, CountedOn,
       NotYetTried, ProvedSound, ProvedBy, SpentSound, SpentWhileLive, AccountKept

(* Steps of a sender, and of time: requests stay as they are, the codes    *)
(* keep their attempts, and no code that is locked ends.                   *)
LEMMA CodesMove ==
    ASSUME AccountInv, UNCHANGED <<mix, merchant, request, compared, spent>>,
           code' \in [Codes -> CodeRow], sender' \in [Senders -> SenderRow],
           \A s \in Senders : sender'[s].row.tries = 0,
           \A c \in Codes :
              /\ code'[c].tries = code[c].tries
              /\ code'[c].state = "absent" => code[c].state = "absent"
              /\ code'[c].state # "consumed" => code[c].state # "consumed"
              /\ code[c].state = "live" /\ Locked(c) => code'[c].state = "live"
    PROVE  AccountKept
<1>1. AccountTyped'
  BY DEF AccountInv, AccountTyped
<1>2. CountedSound'
  BY DEF AccountInv, CountedSound
<1>3. AttemptsCounted'
  BY AttemptsKept DEF CountedOn
<1>4. NotYetTried'
  BY DEF AccountInv, NotYetTried
<1>5. ProvedSound'
  <2>1. \A q \in Requests : ProvedBy(q)' = ProvedBy(q)
    BY DEF ProvedBy
  <2>2. \A q \in Requests : \A c \in ProvedBy(q) : code'[c].state = "live"
    BY DEF AccountInv, ProvedSound, ProvedBy, Locked
  <2> QED BY <2>1, <2>2, LocksKept
<1>6. SpentSound' /\ SpentWhileLive
  BY NothingSpent
<1> QED BY <1>1, <1>2, <1>3, <1>4, <1>5, <1>6 DEF AccountKept, AccountInv

LEMMA TickStep == AccountInv /\ Tick => AccountKept
<1> SUFFICES ASSUME AccountInv, Tick PROVE AccountKept
  OBVIOUS
<1>1. /\ code' = [c \in Codes |->
                    [code[c] EXCEPT !.age = IF code[c].state # "absent" /\ code[c].age < 2
                                            THEN code[c].age + 1 ELSE code[c].age]]
      /\ UNCHANGED <<merchant, sender, request, compared, spent, mix>>
  BY DEF Tick
<1>2. ASSUME NEW c \in Codes
      PROVE  /\ code'[c] \in CodeRow
             /\ code'[c].tries = code[c].tries
             /\ code'[c].state = code[c].state
  <2>1. code[c] \in CodeRow
    BY DEF AccountInv, AccountTyped
  <2>2. PICK a : a = IF code[c].state # "absent" /\ code[c].age < 2
                     THEN code[c].age + 1 ELSE code[c].age
    OBVIOUS
  <2>3. a \in 0 .. 2
    BY <2>1, <2>2 DEF CodeRow
  <2>4. code'[c] = [code[c] EXCEPT !.age = a]
    BY <1>1, <2>2
  <2> QED BY <2>1, <2>3, <2>4 DEF CodeRow
<1>3. code' \in [Codes -> CodeRow]
  BY <1>1, <1>2
<1> QED BY <1>1, <1>2, <1>3, CodesMove DEF AccountInv, AccountTyped, NotYetTried

LEMMA SendBeginStep ==
    ASSUME AccountInv, NEW s \in Senders, NEW draft \in Rows, SendBegin(s, draft)
    PROVE  AccountKept
<1>1. PICK x : x = [stage |-> "checked", row |-> draft, since |-> Rivals(draft), code |-> 0]
  OBVIOUS
<1>2. /\ sender' = [sender EXCEPT ![s] = x]
      /\ UNCHANGED <<merchant, code, request, compared, spent, mix>>
  BY <1>1 DEF SendBegin
<1>3. draft \in CodeRow /\ draft.tries = 0
  <2>1. UNION mix.deeds \subseteq Purposes
    BY AccountConstants DEF AccountInv, AccountTyped
  <2> QED BY <2>1, AccountConstants DEF Rows, CodeRow
<1>4. Rivals(draft) \subseteq Codes
  BY DEF Rivals
<1>5. x \in SenderRow /\ x.row = draft
  BY <1>1, <1>3, <1>4 DEF SenderRow
<1>6. sender \in [Senders -> SenderRow]
  BY DEF AccountInv, AccountTyped
<1>7. /\ sender' \in [Senders -> SenderRow]
      /\ \A t \in Senders : sender'[t].row.tries = 0
  BY <1>2, <1>3, <1>5, <1>6 DEF AccountInv, NotYetTried
<1> QED BY <1>2, <1>7, CodesMove DEF AccountInv, AccountTyped

LEMMA SenderMoves ==
    ASSUME AccountInv, NEW s \in Senders, NEW x \in SenderRow, x.row.tries = 0,
           sender' = [sender EXCEPT ![s] = x]
    PROVE  /\ sender' \in [Senders -> SenderRow]
           /\ \A t \in Senders : sender'[t].row.tries = 0
BY DEF AccountInv, AccountTyped, NotYetTried

LEMMA SendCommitStep ==
    ASSUME AccountInv, NEW s \in Senders, NEW c \in Codes, SendCommit(s, c)
    PROVE  AccountKept
<1>1. PICK draft : draft = sender[s].row
  OBVIOUS
<1>2. draft \in CodeRow /\ draft.tries = 0
  BY <1>1 DEF AccountInv, AccountTyped, SenderRow, NotYetTried
<1>3. PICK ended \in SUBSET Rivals(draft) :
         /\ \A d \in ended : ~ Locked(d)
         /\ code' = [d \in Codes |->
                       IF d = c THEN [draft EXCEPT !.state = "live"]
                       ELSE IF d \in ended
                            THEN [code[d] EXCEPT !.state = "consumed"]
                            ELSE code[d]]
  BY <1>1 DEF SendCommit
<1>4. PICK x : x = [Unsent EXCEPT !.stage = "mailing", !.code = c]
  OBVIOUS
<1>5. /\ code[c].state = "absent"
      /\ sender' = [sender EXCEPT ![s] = x]
      /\ UNCHANGED <<merchant, request, compared, spent, mix>>
  BY <1>4 DEF SendCommit
<1>6. x \in SenderRow /\ x.row.tries = 0
  BY <1>4, BlankRowsTyped DEF SenderRow
<1>7. /\ code \in [Codes -> CodeRow]
      /\ code[c].tries = 0
  BY <1>5 DEF AccountInv, AccountTyped, NotYetTried
<1>8. ASSUME NEW d \in Codes
      PROVE  /\ code'[d] \in CodeRow
             /\ code'[d].tries = code[d].tries
             /\ code'[d].state = "absent" => code[d].state = "absent"
             /\ code'[d].state # "consumed" => code[d].state # "consumed"
             /\ code[d].state = "live" /\ Locked(d) => code'[d].state = "live"
  <2>1. CASE d = c
    <3>1. code'[c] = [draft EXCEPT !.state = "live"]
      BY <1>3
    <3> QED BY <3>1, <2>1, <1>2, <1>5, <1>7 DEF CodeRow
  <2>2. CASE d # c /\ d \in ended
    <3>1. code'[d] = [code[d] EXCEPT !.state = "consumed"]
      BY <1>3, <2>2
    <3>2. code[d] \in CodeRow /\ code[d].state = "live" /\ ~ Locked(d)
      BY <1>3, <1>7, <2>2 DEF Rivals, Live
    <3> QED BY <3>1, <3>2 DEF CodeRow
  <2>3. CASE d # c /\ d \notin ended
    BY <1>3, <1>7, <2>3
  <2> QED BY <2>1, <2>2, <2>3
<1>9. code' \in [Codes -> CodeRow]
  BY <1>3, <1>8
<1> QED BY <1>5, <1>6, <1>8, <1>9, SenderMoves, CodesMove

LEMMA SendEndStep ==
    ASSUME AccountInv, NEW s \in Senders, NEW withdrawn \in BOOLEAN,
           SendEnd(s, withdrawn)
    PROVE  AccountKept
<1>1. PICK c : c = sender[s].code
  OBVIOUS
<1>2. /\ sender' = [sender EXCEPT ![s] = Unsent]
      /\ UNCHANGED <<merchant, request, compared, spent, mix>>
      /\ withdrawn => ~ Locked(c)
  BY <1>1 DEF SendEnd
<1>3. code \in [Codes -> CodeRow]
  BY DEF AccountInv, AccountTyped
<1>4. code' = [code EXCEPT ![c].state = IF withdrawn THEN "consumed"
                                                     ELSE code[c].state]
  BY <1>1 DEF SendEnd
<1>5. ASSUME NEW d \in Codes
      PROVE  /\ code'[d] \in CodeRow
             /\ code'[d].tries = code[d].tries
             /\ code'[d].state = "absent" => code[d].state = "absent"
             /\ code'[d].state # "consumed" => code[d].state # "consumed"
             /\ code[d].state = "live" /\ Locked(d) => code'[d].state = "live"
  <2>1. code[d] \in CodeRow
    BY <1>3
  <2>2. CASE d = c /\ withdrawn
    <3>1. code'[d] = [code[d] EXCEPT !.state = "consumed"]
      BY <1>3, <1>4, <2>2
    <3> QED BY <1>2, <2>1, <2>2, <3>1 DEF CodeRow
  <2>3. CASE d = c /\ ~ withdrawn
    <3>1. code'[d] = [code[d] EXCEPT !.state = code[d].state]
      BY <1>3, <1>4, <2>3
    <3> QED BY <2>1, <3>1 DEF CodeRow
  <2>4. CASE d # c
    BY <1>3, <1>4, <2>1, <2>4
  <2> QED BY <2>2, <2>3, <2>4
<1>6. code' \in [Codes -> CodeRow]
  BY <1>3, <1>4, <1>5
<1>7. Unsent \in SenderRow /\ Unsent.row.tries = 0
  BY BlankRowsTyped
<1> QED BY <1>2, <1>5, <1>6, <1>7, SenderMoves, CodesMove

-----------------------------------------------------------------------------
(* Requests that present codes.                                            *)

LEMMA RequestMoves ==
    ASSUME AccountInv, NEW r \in Requests, NEW x \in RequestRow,
           request' = [request EXCEPT ![r] = x]
    PROVE  /\ request' \in [Requests -> RequestRow]
           /\ request'[r] = x
           /\ \A q \in Requests : q # r => request'[q] = request[q]
           /\ ProvedBy(r)' = ToSet(x.proved)
           /\ \A q \in Requests : q # r => ProvedBy(q)' = ProvedBy(q)
<1>1. /\ request' \in [Requests -> RequestRow]
      /\ request'[r] = x
      /\ \A q \in Requests : q # r => request'[q] = request[q]
  BY DEF AccountInv, AccountTyped
<1> QED BY <1>1 DEF ProvedBy

(* A request begins, ends or counts, while the rows keep their state.      *)
LEMMA RequestKeeps ==
    ASSUME AccountInv, NEW r \in Requests, NEW x \in RequestRow,
           request' = [request EXCEPT ![r] = x],
           x.stage = "counted" => x.counted.code \in Codes,
           ToSet(x.proved) \subseteq ProvedBy(r),
           code' \in [Codes -> CodeRow],
           \A c \in Codes : code'[c].state = code[c].state,
           \A c \in Codes : code[c].state = "absent" => code'[c].tries = code[c].tries,
           AttemptsCounted', compared' \in [Codes -> Nat],
           UNCHANGED <<mix, merchant, sender, spent>>
    PROVE  AccountKept
<1>1. /\ request' \in [Requests -> RequestRow]
      /\ request'[r] = x
      /\ \A q \in Requests : q # r => request'[q] = request[q]
      /\ ProvedBy(r)' = ToSet(x.proved)
      /\ \A q \in Requests : q # r => ProvedBy(q)' = ProvedBy(q)
  BY RequestMoves
<1>2. AccountTyped'
  BY <1>1 DEF AccountInv, AccountTyped
<1>3. CountedSound'
  BY <1>1 DEF AccountInv, CountedSound
<1>4. NotYetTried'
  BY DEF AccountInv, NotYetTried
<1>5. ProvedSound'
  <2>1. \A q \in Requests : ProvedBy(q)' \subseteq ProvedBy(q)
    BY <1>1
  <2>2. \A q \in Requests : \A c \in ProvedBy(q) :
           c \in Codes /\ code[c].state = "live"
    BY DEF AccountInv, ProvedSound
  <2>3. \A q \in Requests : \A c \in ProvedBy(q)' : code'[c].state = "live"
    BY <2>1, <2>2
  <2> QED BY <2>1, <2>3, LocksKept
<1>6. SpentSound' /\ SpentWhileLive
  BY NothingSpent
<1> QED BY <1>2, <1>3, <1>4, <1>5, <1>6 DEF AccountKept, AccountInv

LEMMA BeginStep ==
    ASSUME AccountInv, NEW r \in Requests, NEW deed \in mix.deeds,
           NEW m \in Merchants, NEW newBox \in Boxes \cup {Nobody},
           NEW name \in Names \cup {Nobody}, Begin(r, deed, m, newBox, name)
    PROVE  AccountKept
<1>1. PICK x : x = [Idle EXCEPT !.stage = "proving", !.deed = deed, !.merchant = m,
                                !.box = merchant[m].box, !.newBox = newBox,
                                !.name = name]
  OBVIOUS
<1>2. /\ request[r] = Idle
      /\ request' = [request EXCEPT ![r] = x]
      /\ UNCHANGED <<merchant, code, sender, compared, spent, mix>>
  BY <1>1 DEF Begin
<1>3. deed \in SUBSET Purposes /\ merchant[m].box \in Boxes \cup {Nobody}
  <2>1. deed \in SUBSET Purposes
    BY AccountConstants DEF AccountInv, AccountTyped
  <2> QED BY <2>1 DEF AccountInv, AccountTyped, MerchantRow
<1>4. x \in RequestRow /\ x.stage = "proving" /\ x.proved = <<>>
  BY <1>1, <1>3, IdleTyped DEF RequestRow
<1>5. AttemptsCounted'
  BY <1>2, <1>4, IdleTyped, CountsSame, AttemptsKept
<1>6. ToSet(x.proved) \subseteq ProvedBy(r)
  BY <1>4, EmptyProved
<1> QED BY <1>2, <1>4, <1>5, <1>6, RequestKeeps DEF AccountInv, AccountTyped

(* The request ends, counted or not.                                       *)
LEMMA GiveUpStep ==
    ASSUME AccountInv, NEW r \in Requests, GiveUp(r)
    PROVE  AccountKept
<1>1. /\ request' = [request EXCEPT ![r] = Idle]
      /\ UNCHANGED <<merchant, code, sender, compared, spent, mix>>
  BY DEF GiveUp
<1>2. /\ Idle \in RequestRow /\ Idle.stage = "idle"
      /\ ToSet(Idle.proved) \subseteq ProvedBy(r)
  BY IdleTyped, EmptyProved
<1>3. AttemptsCounted'
  <2>1. CASE request[r].stage # "counted"
    BY <1>1, <1>2, <2>1, CountsSame, AttemptsKept
  <2>2. CASE request[r].stage = "counted"
    <3>1. PICK c \in Codes : c = request[r].counted.code
      BY <2>2 DEF AccountInv, CountedSound
    <3>2. UNCHANGED <<code, compared>>
      BY <1>1
    <3> QED BY <1>1, <1>2, <2>2, <3>1, <3>2, CountEnds
  <2> QED BY <2>1, <2>2
<1> QED BY <1>1, <1>2, <1>3, RequestKeeps DEF AccountInv, AccountTyped

LEMMA CountStep ==
    ASSUME AccountInv, NEW r \in Requests, NEW right \in BOOLEAN, Count(r, right)
    PROVE  AccountKept
<1>1. PICK c \in Codes :
         /\ code[c].state = "live" /\ code[c].tries < MaxTries
         /\ code' = Attempted(c)
         /\ request' = [request EXCEPT ![r].stage = "counted",
               ![r].counted = [code |-> c, right |-> right /\ code[c].age < 2]]
  BY DEF Count, Expected, Live
<1>2. /\ request[r].stage = "proving"
      /\ UNCHANGED <<merchant, sender, compared, spent, mix>>
  BY DEF Count
<1>3. PICK good \in BOOLEAN : good = (right /\ code[c].age < 2)
  OBVIOUS
<1>4. PICK n : n = [code |-> c, right |-> good]
  OBVIOUS
<1>5. n \in CountedRow /\ n.code = c
  BY <1>4 DEF CountedRow
<1>6. PICK x : x = [request[r] EXCEPT !.stage = "counted", !.counted = n]
  OBVIOUS
<1>7. request[r] \in RequestRow /\ request \in [Requests -> RequestRow]
  BY DEF AccountInv, AccountTyped
<1>8. /\ x \in RequestRow /\ x.stage = "counted" /\ x.counted.code = c
      /\ x.proved = request[r].proved
  BY <1>5, <1>6, <1>7 DEF RequestRow
<1>9. request' = [request EXCEPT ![r] = x]
  <2>1. n = [code |-> c, right |-> right /\ code[c].age < 2]
    BY <1>3, <1>4
  <2>2. request' = [request EXCEPT ![r].stage = "counted", ![r].counted = n]
    BY <1>1, <2>1
  <2> QED BY <1>6, <1>7, <2>2
<1>10. code \in [Codes -> CodeRow] /\ code' = [code EXCEPT ![c].tries = code[c].tries + 1]
  BY <1>1 DEF AccountInv, AccountTyped, Attempted
<1>11. /\ code'[c] = [code[c] EXCEPT !.tries = code[c].tries + 1]
       /\ \A d \in Codes : d # c => code'[d] = code[d]
       /\ code' = [d \in Codes |-> code'[d]]
  BY <1>10
<1>12. code[c].tries \in Nat /\ code[c].tries + 1 \in 0 .. MaxTries
  BY <1>1, <1>10, AccountConstants DEF CodeRow
<1>13. /\ code'[c].state = "live" /\ code'[c].tries = code[c].tries + 1
       /\ code'[c] \in CodeRow
  BY <1>1, <1>10, <1>11, <1>12 DEF CodeRow
<1>14. /\ code' \in [Codes -> CodeRow]
       /\ \A d \in Codes : code'[d].state = code[d].state
       /\ \A d \in Codes : code[d].state = "absent" => code'[d].tries = code[d].tries
  BY <1>1, <1>10, <1>11, <1>13
<1>15. AttemptsCounted'
  <2>1. /\ r \notin CountedOn(c) /\ CountedOn(c)' = CountedOn(c) \cup {r}
        /\ \A d \in Codes : d # c => CountedOn(d)' = CountedOn(d)
    <3>1. \A q \in Requests : q # r => request'[q] = request[q]
      BY <1>7, <1>9
    <3>2. request'[r] = x
      BY <1>7, <1>9
    <3> QED BY <3>1, <3>2, <1>2, <1>8 DEF CountedOn
  <2>2. \A d \in Codes :
           /\ IsFiniteSet(CountedOn(d)) /\ Cardinality(CountedOn(d)) \in Nat
           /\ compared[d] + Cardinality(CountedOn(d)) <= code[d].tries
           /\ compared[d] \in Nat /\ compared'[d] = compared[d]
    BY <1>2, FS_CardinalityType DEF AccountInv, AttemptsCounted, AccountTyped
  <2>3. /\ IsFiniteSet(CountedOn(c)')
        /\ compared'[c] + Cardinality(CountedOn(c)') <= code'[c].tries
    <3>1. /\ IsFiniteSet(CountedOn(c)')
          /\ Cardinality(CountedOn(c)') = Cardinality(CountedOn(c)) + 1
      BY <2>1, <2>2, FS_AddElement
    <3> QED BY <3>1, <1>12, <1>13, <2>2
  <2>4. ASSUME NEW d \in Codes, d # c
        PROVE  /\ IsFiniteSet(CountedOn(d)')
               /\ compared'[d] + Cardinality(CountedOn(d)') <= code'[d].tries
    <3>1. CountedOn(d)' = CountedOn(d) /\ code'[d].tries = code[d].tries
      BY <1>11, <2>1, <2>4
    <3> QED BY <3>1, <2>2
  <2> QED BY <2>3, <2>4 DEF AttemptsCounted
<1>16. ToSet(x.proved) \subseteq ProvedBy(r)
  BY <1>8 DEF ProvedBy
<1>17. compared' \in [Codes -> Nat]
  BY <1>2 DEF AccountInv, AccountTyped
<1> QED BY <1>2, <1>8, <1>9, <1>14, <1>15, <1>16, <1>17, RequestKeeps

LEMMA CheckStep ==
    ASSUME AccountInv, NEW r \in Requests, Check(r)
    PROVE  AccountKept
<1>1. PICK c \in Codes : c = request[r].counted.code
  BY DEF Check, AccountInv, CountedSound
<1>2. PICK x : x = IF Usable(c) /\ request[r].counted.right
                   THEN [request[r] EXCEPT !.stage = "proving",
                                           !.proved = Append(request[r].proved, c),
                                           !.counted = Idle.counted]
                   ELSE Idle
  OBVIOUS
<1>3. /\ request[r].stage = "counted" /\ ~ Locked(c)
      /\ request' = [request EXCEPT ![r] = x]
      /\ compared' = [compared EXCEPT ![c] = IF Usable(c) THEN compared[c] + 1
                                                         ELSE compared[c]]
      /\ UNCHANGED <<merchant, code, sender, spent, mix>>
  BY <1>1, <1>2 DEF Check
<1>4. compared \in [Codes -> Nat] /\ code \in [Codes -> CodeRow]
  BY DEF AccountInv, AccountTyped
<1>5. /\ compared' \in [Codes -> Nat]
      /\ compared'[c] \in {compared[c], compared[c] + 1}
      /\ \A d \in Codes : d # c => compared'[d] = compared[d]
  BY <1>3, <1>4
<1>6. /\ code' \in [Codes -> CodeRow]
      /\ \A d \in Codes : code'[d].state = code[d].state
      /\ \A d \in Codes : code'[d].tries = code[d].tries
  BY <1>3, <1>4
<1>7. CASE ~ (Usable(c) /\ request[r].counted.right)
  <2>1. x = Idle
    BY <1>2, <1>7
  <2>2. x \in RequestRow /\ x.stage = "idle" /\ ToSet(x.proved) \subseteq ProvedBy(r)
    BY <2>1, IdleTyped, EmptyProved
  <2>3. AttemptsCounted'
    BY <1>1, <1>3, <1>5, <1>6, <2>2, CountEnds
  <2> QED BY <1>3, <1>5, <1>6, <2>2, <2>3, RequestKeeps
<1>8. CASE Usable(c) /\ request[r].counted.right
  <2>1. x = [request[r] EXCEPT !.stage = "proving",
                               !.proved = Append(request[r].proved, c),
                               !.counted = Idle.counted]
    BY <1>2, <1>8
  <2>2. request[r] \in RequestRow
    BY DEF AccountInv, AccountTyped
  <2>3. PICK s \in Seq(Codes) : s = request[r].proved
    BY <2>2 DEF RequestRow
  <2>4. Append(s, c) \in Seq(Codes) /\ ToSet(Append(s, c)) = ToSet(s) \cup {c}
    BY ProvedMore
  <2>5. Idle.counted \in CountedRow
    BY IdleTyped DEF RequestRow
  <2>6. PICK t \in Seq(Codes) : t = Append(s, c)
    BY <2>4
  <2>7. x \in RequestRow /\ x.stage = "proving" /\ x.proved = t
    BY <2>1, <2>2, <2>3, <2>5, <2>6 DEF RequestRow
  <2>8. AttemptsCounted'
    BY <1>1, <1>3, <1>5, <1>6, <2>7, CountEnds
  <2>9. /\ request' \in [Requests -> RequestRow]
        /\ request'[r] = x
        /\ \A q \in Requests : q # r => request'[q] = request[q]
        /\ ProvedBy(r)' = ProvedBy(r) \cup {c}
        /\ \A q \in Requests : q # r => ProvedBy(q)' = ProvedBy(q)
    BY <1>3, <2>3, <2>4, <2>6, <2>7, RequestMoves DEF ProvedBy
  <2>10. \A q \in Requests : c \notin ProvedBy(q)
    BY <1>3 DEF Locked, ProvedBy
  <2>11. code[c].state = "live"
    BY <1>8 DEF Usable, Live
  <2>12. ProvedSound'
    <3> SUFFICES
          ASSUME NEW q \in Requests, NEW d \in ProvedBy(q)'
          PROVE  /\ d \in Codes /\ code'[d].state = "live"
                 /\ \A p \in Requests : d \in ProvedBy(p)' => p = q
      BY DEF ProvedSound
    <3>1. CASE d = c
      <4>1. \A p \in Requests : d \in ProvedBy(p)' => p = r
        BY <2>9, <2>10, <3>1
      <4> QED BY <1>6, <2>11, <3>1, <4>1
    <3>2. CASE d # c
      <4>1. \A p \in Requests : d \in ProvedBy(p)' => d \in ProvedBy(p)
        BY <2>9, <3>2
      <4>2. d \in ProvedBy(q)
        BY <4>1
      <4>3. /\ d \in Codes /\ code[d].state = "live"
            /\ \A p \in Requests : d \in ProvedBy(p) => p = q
        BY <4>2 DEF AccountInv, ProvedSound
      <4> QED BY <1>6, <4>1, <4>3
    <3> QED BY <3>1, <3>2
  <2>13. AccountTyped'
    BY <1>3, <1>5, <1>6, <2>9 DEF AccountInv, AccountTyped
  <2>14. CountedSound'
    BY <2>7, <2>9 DEF AccountInv, CountedSound
  <2>15. NotYetTried'
    BY <1>3 DEF AccountInv, NotYetTried
  <2>16. SpentSound' /\ SpentWhileLive
    BY <1>3, <1>6, NothingSpent
  <2> QED BY <2>8, <2>12, <2>13, <2>14, <2>15, <2>16 DEF AccountKept, AccountInv
<1> QED BY <1>7, <1>8

(* What a request pays with, it holds: live codes, and its own.            *)
LEMMA CommitStep ==
    ASSUME AccountInv, NEW r \in Requests, Commit(r)
    PROVE  AccountKept
<1>1. PICK used : used = ProvedBy(r)
  OBVIOUS
<1>2. /\ request[r].stage = "proving"
      /\ code' = [c \in Codes |-> IF c \in used
                                  THEN [code[c] EXCEPT !.state = "consumed"]
                                  ELSE code[c]]
      /\ spent' = [c \in Codes |-> IF c \in used THEN spent[c] + 1 ELSE spent[c]]
      /\ request' = [request EXCEPT ![r] = Idle]
      /\ UNCHANGED <<sender, compared, mix>>
  BY <1>1 DEF Commit, ProvedBy
<1>3. /\ code \in [Codes -> CodeRow] /\ spent \in [Codes -> Nat]
      /\ merchant \in [Merchants -> MerchantRow]
      /\ request[r] \in RequestRow
  BY DEF AccountInv, AccountTyped
<1>4. merchant' \in [Merchants -> MerchantRow]
  <2>1. PICK m : m = request[r].merchant
    OBVIOUS
  <2>2. PICK new :
           /\ merchant' = [merchant EXCEPT ![m] = new]
           /\ new = [box |-> IF request[r].newBox # Nobody THEN request[r].newBox
                                                          ELSE merchant[m].box,
                     name |-> IF request[r].name # Nobody THEN request[r].name
                                                         ELSE merchant[m].name,
                     password |-> IF request[r].deed \cap
                                       {"reset_password", "change_password"} # {}
                                  THEN merchant[m].password + 1
                                  ELSE merchant[m].password,
                     key |-> IF request[r].deed = {"reset_key"}
                             THEN merchant[m].key + 1 ELSE merchant[m].key]
    BY <2>1 DEF Commit
  <2>3. CASE m \notin Merchants
    BY <1>3, <2>2, <2>3
  <2>4. CASE m \in Merchants
    <3>1. merchant[m] \in MerchantRow
      BY <1>3, <2>4
    <3>2. new \in MerchantRow
      BY <1>3, <2>2, <3>1 DEF MerchantRow, RequestRow
    <3> QED BY <1>3, <2>2, <3>2
  <2> QED BY <2>3, <2>4
<1>5. ASSUME NEW c \in Codes, c \in used
      PROVE  /\ code[c].state = "live" /\ spent[c] = 0
             /\ code'[c] = [code[c] EXCEPT !.state = "consumed"]
             /\ code'[c] \in CodeRow /\ code'[c].state = "consumed"
             /\ code'[c].tries = code[c].tries /\ spent'[c] = 1
  <2>1. code[c].state = "live" /\ spent[c] = 0
    BY <1>1, <1>5 DEF AccountInv, ProvedSound, SpentSound
  <2>2. code'[c] = [code[c] EXCEPT !.state = "consumed"] /\ spent'[c] = 1
    BY <1>2, <1>5, <2>1
  <2> QED BY <1>3, <2>1, <2>2 DEF CodeRow
<1>6. ASSUME NEW c \in Codes, c \notin used
      PROVE  code'[c] = code[c] /\ spent'[c] = spent[c]
  BY <1>2, <1>6
<1>7. /\ code' \in [Codes -> CodeRow] /\ spent' \in [Codes -> Nat]
      /\ \A c \in Codes : code'[c].tries = code[c].tries
      /\ \A c \in Codes : code'[c].state = "absent" => code[c].state = "absent"
  <2>1. /\ code' = [c \in Codes |-> code'[c]]
        /\ spent' = [c \in Codes |-> spent'[c]]
    BY <1>2
  <2> QED BY <1>3, <1>5, <1>6, <2>1
<1>8. /\ Idle \in RequestRow /\ Idle.stage = "idle" /\ ToSet(Idle.proved) = {}
  BY IdleTyped, EmptyProved
<1>9. /\ request' \in [Requests -> RequestRow]
      /\ request'[r] = Idle
      /\ \A q \in Requests : q # r => request'[q] = request[q]
      /\ ProvedBy(r)' = {}
      /\ \A q \in Requests : q # r => ProvedBy(q)' = ProvedBy(q)
  BY <1>2, <1>8, RequestMoves
<1>10. AccountTyped'
  BY <1>2, <1>4, <1>7, <1>9 DEF AccountInv, AccountTyped
<1>11. CountedSound'
  BY <1>8, <1>9 DEF AccountInv, CountedSound
<1>12. AttemptsCounted'
  BY <1>2, <1>7, <1>8, CountsSame, AttemptsKept
<1>13. NotYetTried'
  BY <1>2, <1>7 DEF AccountInv, NotYetTried
<1>14. ProvedSound'
  <2>1. \A q \in Requests : ProvedBy(q)' \subseteq ProvedBy(q)
    BY <1>9
  <2>2. ASSUME NEW q \in Requests, NEW c \in ProvedBy(q)'
        PROVE  code'[c].state = "live"
    <3>1. q # r /\ c \in ProvedBy(q)
      BY <1>9, <2>2
    <3>2. c \in Codes /\ code[c].state = "live" /\ c \notin ProvedBy(r)
      BY <3>1 DEF AccountInv, ProvedSound
    <3> QED BY <1>1, <1>6, <3>2
  <2> QED BY <2>1, <2>2, LocksKept
<1>15. SpentSound' /\ SpentWhileLive
  BY <1>5, <1>6 DEF AccountInv, SpentSound, SpentWhileLive
<1> QED BY <1>10, <1>11, <1>12, <1>13, <1>14, <1>15 DEF AccountKept, AccountInv

-----------------------------------------------------------------------------
(* Theorems.                                                               *)

LEMMA AccountStepKeeps == AccountInv /\ [Next]_vars => AccountKept
<1> SUFFICES ASSUME AccountInv, [Next]_vars PROVE AccountKept
  OBVIOUS
<1>1. CASE Tick
  BY <1>1, TickStep
<1>2. ASSUME NEW m \in Merchants, SignIn(m) PROVE AccountKept
  BY <1>2, AccountRests DEF SignIn
<1>3. ASSUME NEW s \in Senders, Send(s) PROVE AccountKept
  BY <1>3, SendBeginStep, SendCommitStep, SendEndStep DEF Send
<1>4. ASSUME NEW r \in Requests, Handle(r) PROVE AccountKept
  BY <1>4, BeginStep, CountStep, CheckStep, CommitStep, GiveUpStep DEF Handle
<1>5. CASE UNCHANGED vars
  BY <1>5, AccountRests DEF vars
<1> QED BY <1>1, <1>2, <1>3, <1>4, <1>5 DEF Next

LEMMA AccountRuns == [ConsoleNext]_<<part, vars, otherVars>> => [Next]_vars
BY DEF ConsoleNext

LEMMA AccountAlways == ConsoleSpec => []AccountInv
<1>1. AccountInv /\ [ConsoleNext]_<<part, vars, otherVars>> => AccountInv'
  BY AccountRuns, AccountStepKeeps DEF AccountKept
<1> QED BY AccountInitially, <1>1, PTL DEF ConsoleSpec

(* However requests race, fail and are repeated, at most MaxTries guesses  *)
(* are compared with one mailed code, and at most MaxTries second factors  *)
(* with one challenge: consumeCode and the second factor of a login count  *)
(* an attempt on the pool, before they compare, where no rollback undoes   *)
(* it.                                                                     *)
THEOREM GuessesCounted == ConsoleSpec => []GuessesBounded
<1>1. AccountInv => CodeGuessesBounded
  <2> SUFFICES ASSUME AccountInv, NEW c \in Codes PROVE compared[c] <= MaxTries
    BY DEF CodeGuessesBounded
  <2>1. /\ Cardinality(CountedOn(c)) \in Nat
        /\ compared[c] + Cardinality(CountedOn(c)) <= code[c].tries
    BY FS_CardinalityType DEF AccountInv, AttemptsCounted
  <2>2. compared[c] \in Nat /\ code[c].tries \in 0 .. MaxTries
    BY DEF AccountInv, AccountTyped, CodeRow
  <2> QED BY <2>1, <2>2, AccountConstants
<1> QED BY AccountAlways, FactorsBounded, <1>1, PTL DEF GuessesBounded

(* A code pays for one change at most, and only while it is live: one that *)
(* was replaced, withdrawn or spent between its count and its check pays   *)
(* for none.                                                               *)
THEOREM CodePaysOnce == ConsoleSpec => CodeBuysOneChange
<1>1. AccountInv /\ [ConsoleNext]_<<part, vars, otherVars>>
        => AccountInv' /\ [SpentWhileLive]_vars
  BY AccountRuns, AccountStepKeeps DEF AccountKept
<1> QED BY AccountInitially, <1>1, PTL
        DEF ConsoleSpec, CodeBuysOneChange, SpentWhileLive

=============================================================================
