----------------------------- MODULE SellerAccount -----------------------------
(***************************************************************************)
(* A seller's account: registering, which makes a tenant and then its      *)
(* user, signing in by password or by mail, forgetting the password and    *)
(* setting a new one.  GoTrue, the auth server, is external: addresses are *)
(* unique in it, a user has one recovery token at a time, and a token      *)
(* works once.                                                             *)
(***************************************************************************)
EXTENDS Integers, FiniteSets

CONSTANTS Mailboxes, Signups, Browsers, ResetTabs, MaxLinks

NoTenant == "no tenant"
NoUser == "nobody"

ASSUME AccountAssumption ==
    MaxLinks \in Nat /\ NoTenant \notin Signups /\ NoUser \notin Mailboxes

VARIABLES
    tenants,     \* the tenants there are, named by the registration that made them
    accounts,    \* GoTrue: the tenant of each address's user, or NoTenant
    signups,     \* what each registration is doing, and for which address
    lostSignups, \* those that died, or lost an answer, or could not be undone
    issuedLinks, \* recovery links generated, which numbers them
    works,       \* ... and the one of each address that works, or 0
    inbox,       \* the links mailed and not used; number 0 is a sign-in link
    asking,      \* requests for a reset, per address: "no", "cool", "generate"
    browsers,    \* the user signed in and the user the recovery marker names
    proved,      \* browser and user of each recovery link continued, for its 15 minutes
    tabs         \* submissions of the new password

accountVars == <<tenants, accounts, signups, lostSignups, issuedLinks, works, inbox, asking,
                 browsers, proved, tabs>>
registration == <<tenants, accounts, signups, lostSignups>>
recovery == <<issuedLinks, works, inbox, asking, proved, tabs>>

ClosedTab == [pc |-> "closed", at |-> NoUser, user |-> NoUser, proof |-> FALSE]

AccountInit ==
    /\ tenants = {} /\ accounts = [e \in Mailboxes |-> NoTenant] /\ lostSignups = {}
    /\ signups = [s \in Signups |-> [pc |-> "new", email |-> NoUser]]
    /\ issuedLinks = 0 /\ works = [e \in Mailboxes |-> 0]
    /\ inbox = {} /\ asking = [e \in Mailboxes |-> "no"]
    /\ browsers = [b \in Browsers |-> [user |-> NoUser, marker |-> NoUser]]
    /\ proved = {} /\ tabs = [t \in ResetTabs |-> ClosedTab]

Users == {e \in Mailboxes : accounts[e] # NoTenant}
SignedIn(b) == browsers[b].user # NoUser

-------------------------------------------------------------------------------
(* Registering: registerSeller and provisionSeller. *)
SignupGoes(s, pc) == signups' = [signups EXCEPT ![s].pc = pc]
SignupOver(s) == signups' = [signups EXCEPT ![s] = [pc |-> "over", email |-> NoUser]]

(* Refused for its input or its rate, nothing is kept; else the tenant. *)
CreateTenant(s) == \E e \in Mailboxes :
    /\ signups[s].pc = "new"
    /\ \/ signups' = [signups EXCEPT ![s] = [pc |-> "user", email |-> e]] /\ tenants' = tenants \cup {s}
          /\ UNCHANGED lostSignups
       \/ SignupOver(s) /\ UNCHANGED <<tenants, lostSignups>>
       \/ SignupOver(s) /\ tenants' = tenants \cup {s} /\ lostSignups' = lostSignups \cup {s}
    /\ UNCHANGED <<accounts, browsers, recovery>>

(* createUser: refused if the address is taken; its answer may be lost. *)
CreateUser(s) ==
    LET e == signups[s].email IN
    /\ signups[s].pc = "user"
    /\ \/ /\ e \notin Users /\ accounts' = [accounts EXCEPT ![e] = s]
          /\ \/ SignupGoes(s, "sign in") /\ UNCHANGED lostSignups
             \/ SignupGoes(s, "undo") /\ lostSignups' = lostSignups \cup {s}
       \/ SignupGoes(s, "undo") /\ UNCHANGED <<accounts, lostSignups>>
    /\ UNCHANGED <<tenants, browsers, recovery>>

(* Mutant: only a failure, and not a taken address, is undone. *)
BugTakenNotUndone(s) ==
    /\ signups[s].pc = "undo" /\ SignupOver(s)
    /\ \/ signups[s].email \notin Users /\ tenants' = tenants \ {s} /\ UNCHANGED lostSignups
       \/ signups[s].email \in Users /\ UNCHANGED <<tenants, lostSignups>>
    /\ UNCHANGED <<accounts, browsers, recovery>>

(* The compensating delete, whose result is not looked at. *)
UndoTenant(s) ==
    /\ signups[s].pc = "undo" /\ SignupOver(s)
    /\ \/ tenants' = tenants \ {s} /\ UNCHANGED lostSignups
       \/ UNCHANGED tenants /\ lostSignups' = lostSignups \cup {s}
    /\ UNCHANGED <<accounts, browsers, recovery>>

SignupDies(s) ==
    /\ signups[s].pc \in {"user", "undo", "sign in"} /\ SignupOver(s)
    /\ lostSignups' = lostSignups \cup {s}
    /\ UNCHANGED <<tenants, accounts, browsers, recovery>>

(* signInWithPassword; failing it, the login page has the rest. *)
SignsIn(b, e) == browsers' = [browsers EXCEPT ![b].user = e]
SignInRegistered(s) ==
    /\ signups[s].pc = "sign in" /\ SignupOver(s)
    /\ (\E b \in Browsers : SignsIn(b, signups[s].email)) \/ UNCHANGED browsers
    /\ UNCHANGED <<tenants, accounts, lostSignups, recovery>>

-------------------------------------------------------------------------------
(* Signing in. *)
SignIn(b) == \E e \in Users : SignsIn(b, e) /\ UNCHANGED <<registration, recovery>>
SessionEnds(b) ==
    /\ SignedIn(b) /\ SignsIn(b, NoUser) /\ UNCHANGED <<registration, recovery>>

(* sendMagicLink, and GET auth/confirm for a link of another type than
   recovery: a recovery link is only forwarded to its own page. *)
SendMagicLink == \E e \in Users :
    /\ inbox' = inbox \cup {[email |-> e, number |-> 0]}
    /\ UNCHANGED <<registration, issuedLinks, works, asking, proved, tabs, browsers>>
ConfirmMagicLink(b) == \E mail \in inbox :
    /\ mail.number = 0 /\ SignsIn(b, mail.email) /\ inbox' = inbox \ {mail}
    /\ UNCHANGED <<registration, issuedLinks, works, asking, proved, tabs>>

-------------------------------------------------------------------------------
(* Forgetting: requestReset answers at once and alike, and asks later; no
   more are made here once no link can come of it. *)
RequestReset == \E e \in Mailboxes :
    /\ asking[e] = "no" /\ issuedLinks < MaxLinks /\ asking' = [asking EXCEPT ![e] = "cool"]
    /\ UNCHANGED <<registration, browsers, issuedLinks, works, inbox, proved, tabs>>

(* isWithinRecoveryCooldown and reserveEmailSend; a failed lookup is none. *)
IsWithinRecoveryCooldown(e) ==
    /\ asking[e] = "cool"
    /\ asking' \in {[asking EXCEPT ![e] = pc] : pc \in {"no", "generate"}}
    /\ UNCHANGED <<registration, browsers, issuedLinks, works, inbox, proved, tabs>>

(* generateLink: the link before it is dead from here on.  Then the mail. *)
RequestPasswordReset(e) ==
    /\ asking[e] = "generate" /\ asking' = [asking EXCEPT ![e] = "no"]
    /\ \/ /\ e \in Users /\ issuedLinks < MaxLinks
          /\ issuedLinks' = issuedLinks + 1 /\ works' = [works EXCEPT ![e] = issuedLinks']
          /\ inbox' \in {inbox, inbox \cup {[email |-> e, number |-> issuedLinks']}}
       \/ UNCHANGED <<issuedLinks, works, inbox>>
    /\ UNCHANGED <<registration, browsers, proved, tabs>>

(* continueRecovery: the token is used up, this browser is signed in, and
   its marker names the user. *)
ContinueRecovery(b) == \E mail \in inbox :
    /\ mail.number # 0 /\ works[mail.email] = mail.number
    /\ works' = [works EXCEPT ![mail.email] = 0]
    /\ browsers' = [browsers EXCEPT ![b] = [user |-> mail.email, marker |-> mail.email]]
    /\ proved' = proved \cup {<<b, mail.email>>} /\ inbox' = inbox \ {mail}
    /\ UNCHANGED <<registration, issuedLinks, asking, tabs>>
MarkerExpires(b) ==
    /\ \E e \in Mailboxes : <<b, e>> \in proved
    /\ browsers' = [browsers EXCEPT ![b].marker = NoUser]
    /\ proved' = proved \ {<<b, e>> : e \in Mailboxes}
    /\ UNCHANGED <<registration, issuedLinks, works, inbox, asking, tabs>>

(* Mutant: a marker is a marker, whoever it names. *)
BugAnyMarker(b) == IF SignedIn(b) /\ browsers[b].marker # NoUser THEN {browsers[b].user} ELSE {}

(* getRecoveryUser, verifyRecoveryMarker: the user signed in, if the marker
   names the same one. *)
GetRecoveryUser(b) ==
    IF SignedIn(b) /\ browsers[b].marker = browsers[b].user THEN {browsers[b].user} ELSE {}

(* setNewPassword: the guard; then the update, the other sessions of the user
   and the marker.  The input may be refused, and the session be over. *)
CheckNewPassword(t) == \E b \in Browsers : \E e \in GetRecoveryUser(b) :
    /\ tabs[t].pc = "closed"
    /\ tabs' = [tabs EXCEPT ![t] = [pc |-> "update", at |-> b, user |-> e, proof |-> <<b, e>> \in proved]]
    /\ UNCHANGED <<registration, browsers, issuedLinks, works, inbox, asking, proved>>
SetNewPassword(t) ==
    LET b == tabs[t].at
        e == tabs[t].user
    IN  /\ tabs[t].pc = "update"
        /\ \/ /\ tabs' = [tabs EXCEPT ![t].pc = "updated"]
              /\ \E signedOut \in BOOLEAN : browsers' =
                    [c \in Browsers |->
                        IF c = b THEN [browsers[c] EXCEPT !.marker = NoUser]
                        ELSE IF signedOut /\ browsers[c].user = e THEN [browsers[c] EXCEPT !.user = NoUser]
                        ELSE browsers[c]]
              /\ proved' = proved \ {<<b, e>>}
           \/ tabs' = [tabs EXCEPT ![t] = ClosedTab] /\ UNCHANGED <<browsers, proved>>
        /\ UNCHANGED <<registration, issuedLinks, works, inbox, asking>>

AccountNext ==
    \/ \E s \in Signups : CreateTenant(s) \/ CreateUser(s) \/ UndoTenant(s) \/ SignInRegistered(s)
                          \/ SignupDies(s)
    \/ \E b \in Browsers : SignIn(b) \/ SessionEnds(b) \/ ConfirmMagicLink(b)
                           \/ ContinueRecovery(b) \/ MarkerExpires(b)
    \/ SendMagicLink \/ RequestReset
    \/ \E e \in Mailboxes : IsWithinRecoveryCooldown(e) \/ RequestPasswordReset(e)
    \/ \E t \in ResetTabs : CheckNewPassword(t) \/ SetNewPassword(t)
AccountSpec == AccountInit /\ [][AccountNext]_accountVars

-------------------------------------------------------------------------------
(* Tenants, accounts, recovery links and browsers have their types. *)
AccountTypeOK ==
    /\ tenants \subseteq Signups /\ lostSignups \subseteq Signups
    /\ \A e \in Mailboxes : accounts[e] \in Signups \cup {NoTenant} /\ works[e] \in 0..issuedLinks
    /\ \A b \in Browsers : {browsers[b].user, browsers[b].marker} \subseteq Mailboxes \cup {NoUser}

(* However registrations for one address race, every user has a tenant of
   its own and every tenant its user: except where a registration died, lost
   an answer, or could not undo what it had done. *)
OneTenantEach ==
    /\ \A e \in Users : accounts[e] \in tenants \cup lostSignups
    /\ \A d, e \in Users : accounts[d] = accounts[e] => d = e
    /\ \A s \in tenants \ lostSignups :
          signups[s].pc \in {"user", "undo"} \/ \E e \in Users : accounts[e] = s

(* A password is changed only from a browser that had used a recovery link of
   that very user within its 15 minutes, whoever signed in there since. *)
PasswordNeedsRecovery == \A t \in ResetTabs : tabs[t].pc = "updated" => tabs[t].proof
===============================================================================
