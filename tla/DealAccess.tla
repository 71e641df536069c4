------------------------------ MODULE DealAccess ------------------------------
(***************************************************************************)
(* Who gets into one deal, and to its links: the seller's invitations, the *)
(* buyer's gate (its codes are PortalGate's subject), the one-click flip,  *)
(* and the links a deal room shows.  A link is followed from a page that   *)
(* may be old: the click looks it up again.                                *)
(***************************************************************************)
EXTENDS FiniteSets

CONSTANT Links

Emails == {"own", "buyer"}    \* the seller's login address, the customer's

VARIABLES
    kind,        \* of the workspace: "sample" (is_sample), "demo" (its tenant) or "deal"
    domain,      \* whose address target_domain matches, "nobody" if none
    listed,      \* approved_emails
    sentCode,    \* addresses holding a code that still opens
    sessions,    \* addresses with a valid portal cookie
    links,       \* each link "none", "shared", "private" or "gone"
    click,       \* links looked up and not yet redirected to
    clicked      \* links with a link_click event

accessVars == <<kind, domain, listed, sentCode, sessions, links, click, clicked>>
linkVars == <<links, click, clicked>>

AccessInit ==
    /\ kind \in {"sample", "demo", "deal"} /\ domain \in Emails \cup {"nobody"}
    /\ listed = {} /\ sentCode = {} /\ sessions = {}
    /\ links = [k \in Links |-> "none"] /\ click = {} /\ clicked = {}

(* Mutant: the sample takes anyone on its domain. *)
BugDomainAlways(email) == email \in listed \/ email = domain

(* isEmailApproved, with domain approval off on the sample. *)
IsEmailApproved(email) == email \in listed \/ (kind # "sample" /\ email = domain)

(* sendBuyerInvite: on the sample the seller's own address only.  The code
   itself, with its limits, is PortalGate's. *)
SendInvite(email) ==
    /\ kind = "sample" => email = "own"
    /\ listed' = IF IsEmailApproved(email) THEN listed ELSE listed \cup {email}
    /\ sentCode' \in {sentCode, sentCode \cup {email}}
    /\ UNCHANGED <<kind, domain, sessions, linkVars>>

(* requestAccess: anyone may ask; nobody is told. *)
AskForCode(email) ==
    /\ IsEmailApproved(email) /\ sentCode' = sentCode \cup {email}
    /\ UNCHANGED <<kind, domain, listed, sessions, linkVars>>

(* verifyAccess asks for the code, and not again whether it is approved. *)
EnterWithCode(email) ==
    /\ email \in sentCode
    /\ sentCode' = sentCode \ {email} /\ sessions' = sessions \cup {email}
    /\ UNCHANGED <<kind, domain, listed, linkVars>>

(* flipToBuyerView: the seller's own address, without a code. *)
FlipToBuyerView ==
    /\ IsEmailApproved("own") /\ sessions' = sessions \cup {"own"}
    /\ UNCHANGED <<kind, domain, listed, sentCode, linkVars>>

(* The cookie runs out after twelve hours, the code after fifteen minutes. *)
Expire(email) ==
    /\ sessions' = sessions \ {email} /\ sentCode' = sentCode \ {email}
    /\ sessions' # sessions \/ sentCode' # sentCode
    /\ UNCHANGED <<kind, domain, listed, linkVars>>

(* The seller may write target_domain of the workspace, also of the sample. *)
PointDomain(whose) ==
    /\ domain # whose /\ domain' = whose
    /\ UNCHANGED <<kind, listed, sentCode, sessions, linkVars>>

(* enterView: the demo tenant's rooms open to any address; the first visit
   fills an empty room with the demo links. *)
EnterView(email) ==
    /\ kind = "demo" /\ sessions' = sessions \cup {email}
    /\ links' \in {links, IF \A k \in Links : links[k] \in {"none", "gone"}
                          THEN [k \in Links |-> IF links[k] = "none" THEN "shared" ELSE "gone"]
                          ELSE links}
    /\ UNCHANGED <<kind, domain, listed, sentCode, click, clicked>>

-------------------------------------------------------------------------------
(* Links.  Their order within a category is left out. *)

(* addLink: anything that is not "private" is shared. *)
AddLink(k) == \E visibility \in {"shared", "private"} :
    /\ links[k] = "none" /\ links' = [links EXCEPT ![k] = visibility]
    /\ UNCHANGED <<kind, domain, listed, sentCode, sessions, click, clicked>>

(* setLinkVisibility and deleteLink: by id; no row, no effect. *)
SetLinkVisibility(k) == \E visibility \in {"shared", "private"} :
    /\ links[k] \in {"shared", "private"} /\ links' = [links EXCEPT ![k] = visibility]
    /\ UNCHANGED <<kind, domain, listed, sentCode, sessions, click, clicked>>
DeleteLink(k) ==
    /\ links[k] \in {"shared", "private"} /\ links' = [links EXCEPT ![k] = "gone"]
    /\ UNCHANGED <<kind, domain, listed, sentCode, sessions, click, clicked>>

Findable(k) == links[k] = "shared"

(* GET /api/track: a session of this workspace and a shared link; then the
   event, unless the link is gone, and the redirect. *)
Track(k) ==
    /\ sessions # {} /\ Findable(k) /\ click' = click \cup {k}
    /\ UNCHANGED <<kind, domain, listed, sentCode, sessions, links, clicked>>
LogClick(k) ==
    /\ k \in click /\ click' = click \ {k}
    /\ clicked' \in {clicked, IF links[k] = "gone" THEN clicked ELSE clicked \cup {k}}
    /\ UNCHANGED <<kind, domain, listed, sentCode, sessions, links>>

-------------------------------------------------------------------------------
(* What a browser is shown that says it is this address: the room, or its
   gate.  Under /view only the demo tenant's rooms exist. *)
PortalPage(email) == IF email \in sessions THEN "room" ELSE "gate"
ViewPage(email) == IF kind # "demo" THEN "not found" ELSE PortalPage(email)
Admitted == {email \in Emails : "room" \in {PortalPage(email), ViewPage(email)}}

AccessNext ==
    \/ FlipToBuyerView
    \/ \E email \in Emails : \/ SendInvite(email) \/ AskForCode(email) \/ EnterView(email)
                             \/ EnterWithCode(email) \/ Expire(email)
    \/ \E whose \in Emails \cup {"nobody"} : PointDomain(whose)
    \/ \E k \in Links : \/ AddLink(k) \/ SetLinkVisibility(k) \/ DeleteLink(k)
                        \/ Track(k) \/ LogClick(k)
AccessSpec == AccessInit /\ [][AccessNext]_accessVars

-------------------------------------------------------------------------------
(* Every variable has its type. *)
AccessTypeOK ==
    /\ kind \in {"sample", "demo", "deal"} /\ domain \in Emails \cup {"nobody"}
    /\ listed \subseteq Emails /\ sentCode \subseteq Emails /\ sessions \subseteq Emails
    /\ links \in [Links -> {"none", "shared", "private", "gone"}]
    /\ click \subseteq Links /\ clicked \subseteq click \cup Links

(* Only the seller's own address ever gets into the sample deal, or holds a
   code for it, whatever target_domain is pointed at and whoever asks. *)
SampleStaysOwn == kind = "sample" => (Admitted \cup sentCode) \subseteq {"own"}
===============================================================================
