----------------------------- MODULE MCConsole ------------------------------
(***************************************************************************)
(* What people do in the console: accounts (Accounts), the administrator's *)
(* way in (Sessions), the site's settings (Settings), a merchant's         *)
(* collection codes (Media), and lists and announcements (Portal).  Rows   *)
(* that one of them writes and another reads (merchants, sessions,         *)
(* key_version) are written under locks that each module has, so each      *)
(* behaviour runs one of them, which part says, and the instances add up.  *)
(***************************************************************************)
EXTENDS Accounts, TLC

CONSTANTS
    m1, m2, b1, r1, r2, s1, s2,
    Ids, MaxRotations, RecoveryCodes,   \* of Sessions
    Clients, FirstClients,              \* of Settings, its merchants
    SiteMixes, Limits, MaxVersion, MaxKey,
    Assets, Orders, NoAsset,            \* of Media
    Lists, RowIds, MaxTime, PageSizes, Readers, Announcements,
    MaxRevision, Nothing                \* of Portal

VARIABLES
    part,
    admins, bootstrap, challenge, secret, backups, signedIn, asking, rotating,
    issuing, tested, granted,
    version, bound, billing, legal, registered, key, own, accepted, saving, kinds,
    stored, row, born, upload, lost, order, hindrances,
    list, clock, rows, walk, announcement, reads, marking, acknowledged

adminVars == <<admins, bootstrap, challenge, secret, backups, signedIn, asking,
               rotating, issuing, tested, granted>>
siteVars == <<version, bound, billing, legal, registered, key, own, accepted,
              saving, kinds>>
codeVars == <<stored, row, born, upload, lost, order, hindrances>>
pageVars == <<list, clock, rows, walk, announcement, reads, marking, acknowledged>>
otherVars == <<adminVars, siteVars, codeVars, pageVars>>

Register == {"register"}
Reset == {"reset_password"}
Change == {"change_username", "change_password"}

SmallDeeds == {Register, Reset, Change}
SmallMixes ==
    {[deeds |-> {Register, Reset}, senders |-> 2],
     [deeds |-> {Change}, senders |-> 2],
     [deeds |-> {Change, Reset}, senders |-> 1]}

KindMixes ==
    {{"payment", "billing", "reset_key"},
     {"payment", "collection", "register", "footer_legal", "other"}}

Admin == INSTANCE Sessions
         WITH request <- asking, compared <- tested, used <- granted

Site == INSTANCE Settings
        WITH Merchants <- Clients, Mixes <- SiteMixes,
             merchants <- registered, request <- saving

Slot == INSTANCE Media

Pages == INSTANCE Portal WITH Limits <- PageSizes

ASSUME ConsoleAssumption ==
    /\ Admin!SessionAssumption
    /\ Site!SettingsAssumption /\ FirstClients \subseteq Clients
    /\ Slot!MediaAssumption /\ Pages!PortalAssumption

ConsoleInit ==
    /\ part \in {"accounts", "admin", "site", "codes", "lists", "announcements"}
    /\ \/ InitWith({})
       \/ part = "accounts" /\ InitWith({m1})
    /\ Admin!Init /\ Site!InitWith(FirstClients) /\ Slot!MediaInit /\ Pages!PortalInit
    /\ part # "accounts" => mix = CHOOSE x \in Mixes : TRUE
    /\ part # "site" => /\ kinds = CHOOSE x \in SiteMixes : TRUE
                        /\ bound = CHOOSE x \in Limits : TRUE
    /\ part # "lists" => list = CHOOSE l \in Lists : TRUE

ConsoleNext ==
    /\ UNCHANGED part
    /\ \/ part = "accounts" /\ Next /\ UNCHANGED otherVars
       \/ /\ part # "accounts" /\ UNCHANGED vars
          /\ \/ /\ part = "admin" /\ Admin!Next
                /\ UNCHANGED <<siteVars, codeVars, pageVars>>
             \/ /\ part = "site" /\ Site!Next
                /\ UNCHANGED <<adminVars, codeVars, pageVars>>
             \/ /\ part = "codes" /\ Slot!MediaNext
                /\ UNCHANGED <<adminVars, siteVars, pageVars>>
             \/ /\ part = "lists" /\ Pages!ListNext
                /\ UNCHANGED <<adminVars, siteVars, codeVars>>
             \/ /\ part = "announcements" /\ Pages!AnnouncementNext
                /\ UNCHANGED <<adminVars, siteVars, codeVars>>

ConsoleSpec == ConsoleInit /\ [][ConsoleNext]_<<part, vars, otherVars>>

Symmetric ==
    {q @@ r : q \in Permutations({r1, r2}), r \in Permutations({s1, s2})}

-----------------------------------------------------------------------------
(* The modules' properties under names that a configuration can list.      *)

(* At most MaxTries comparisons, of a code or of a second factor.          *)
GuessesBounded == CodeGuessesBounded /\ Admin!FactorGuessesBounded

(* One administrator, whatever initializations overlap.                    *)
OneAdmin == Admin!OneAdmin

(* One console recovery code opens a repair session.                       *)
OneConsoleCode == Admin!OneConsoleCode

(* A live challenge buys one thing, a dead one nothing.                    *)
ChallengeUsedOnce == Admin!ChallengeUsedOnce

(* No merchant's collection setting is out of the bounds in force.         *)
CollectionWithinBounds == Site!CollectionWithinBounds

(* The billing key the site believes in is the merchant's.                 *)
CredentialTruth == Site!CredentialTruth

(* Nothing is overwritten that its writer did not see.                     *)
NobodyOverwritesUnseen == Site!NobodyOverwritesUnseen

(* A page that tells the payer to pay shows the picture of the code.       *)
PayerSeesCode == Slot!PayerSeesCode

(* Whoever turns all the pages of a list misses nothing.                   *)
PagesComplete == Pages!PagesComplete

(* An announcement pops up until its present revision is marked.           *)
ShownUntilRead == Pages!ShownUntilRead
=============================================================================
