------------------------------ MODULE PagePrefill ------------------------------
(***************************************************************************)
(* Filling a form from a web page.  The forms that make a workspace ask    *)
(* the server for the title of the page at the domain typed, and offer it  *)
(* as the company's name; the form that adds a link does the same with its *)
(* label and a preview.  The server fetches only public pages, hop by hop. *)
(* Every blur may start a request, and the answers come in any order; an   *)
(* answer arrives in two steps, its headers and then its body.             *)
(***************************************************************************)
EXTENDS Integers, Sequences

CONSTANTS Domains, MaxRedirects, MaxLookups, MaxMade

ASSUME PrefillAssumption == {MaxRedirects, MaxLookups, MaxMade} \subseteq Nat

VARIABLES
    web,     \* what answers at each domain
    form,    \* "company" (onboarding, new workspace) or "link"
    site,    \* the domain field, or the url of a link
    name,    \* the company's name, or the label of a link
    offered, \* the lookup whose title is suggested or previewed, or 0
    status,  \* of the latest lookup: "idle", "loading", "unavailable"
    latest,  \* requestIdRef: the lookup still wanted, or 0
    lookups, \* every request made, in order
    sending, \* the form is being submitted
    created  \* workspaces made

Blank == "blank"
Empty == 0     \* a name: empty, typed by the seller, or the number of the
Typed == -1    \* lookup it was found by
Lookup == [of : Domains, pc : {"sent", "body", "over"}, late : BOOLEAN, landed : Domains \cup {Blank}]

formVars == <<form, site, name, offered, status, latest, lookups, sending, created>>
prefillVars == <<web, formVars>>

-------------------------------------------------------------------------------
(* The pages there are, and the server's fetch of one. *)

(* An IPv6 address may carry an IPv4 one, which is then what is judged. *)
Addresses == {[family |-> f, blocked |-> b, carries |-> c] :
                 f \in {4, 6}, b \in BOOLEAN, c \in {"nothing", "public", "blocked"}}
IsPublicAddress(a) ==
    IF a.family = 6 /\ a.carries # "nothing" THEN a.carries = "public" ELSE ~a.blocked

(* Every record of a name must be public, and there must be one. *)
ResolvePublicAddresses(records) == records # {} /\ \A a \in records : IsPublicAddress(a)

(* A page answers with its title or without one, with an error, or sends on. *)
Public == [family |-> 4, blocked |-> FALSE, carries |-> "nothing"]
Carrier == [family |-> 6, blocked |-> FALSE, carries |-> "blocked"]
Sites == {[records |-> r, answer |-> "titled"] : r \in {{}, {Public, Carrier}}}
         \cup {[records |-> {Public}, answer |-> x] :
                  x \in {"titled", "untitled", "error"} \cup Domains}

(* fetchPublicHtml: each hop is resolved and judged afresh, a bounded number
   of times; "blocked" and "failed" are 400 and 502 to the page. *)
FetchPublicHtml(d) ==
    LET fetch[h \in 0..MaxRedirects, at \in Domains] ==
            IF ~ResolvePublicAddresses(web[at].records) THEN "blocked"
            ELSE IF web[at].answer = "error" THEN "failed"
            ELSE IF web[at].answer \in {"titled", "untitled"} THEN web[at].answer
            ELSE IF h = 0 THEN "blocked" ELSE fetch[h - 1, web[at].answer]
    IN  fetch[MaxRedirects, d]

(* What the route may answer: it may refuse the session or the rate, and an
   answer may be lost or come after the six seconds. *)
Post(d) == {"refused", FetchPublicHtml(d)}

-------------------------------------------------------------------------------
(* requestSuggestion and reset, of useScrapeMetaPrefill. *)
Superseded(i) == lookups[i].pc = "body"
Outdated == [i \in DOMAIN lookups |->
                IF Superseded(i) THEN [lookups[i] EXCEPT !.late = TRUE] ELSE lookups[i]]
Reset == latest' = 0 /\ status' = "idle" /\ lookups' = Outdated

RequestSuggestion(d) ==
    IF d = Blank THEN Reset
    ELSE /\ Len(lookups) < MaxLookups
         /\ lookups' = Append(Outdated, [of |-> d, pc |-> "sent", late |-> FALSE, landed |-> Blank])
         /\ latest' = Len(lookups) + 1 /\ status' = "loading"

Ends(i) == lookups' = [lookups EXCEPT ![i].pc = "over"]

(* A lookup is wanted until the next one, or until the domain is edited. *)
BugAlwaysWanted(i) == TRUE
Wanted(i) == latest = i

(* The headers: of a lookup no longer wanted they are dropped. *)
Headers(i) ==
    /\ form = "company" /\ lookups[i].pc = "sent"
    /\ \/ ~Wanted(i) /\ Ends(i) /\ UNCHANGED status
       \/ /\ Wanted(i)
          /\ \E a \in Post(lookups[i].of) :
                IF a \in {"titled", "untitled"}
                THEN lookups' = [lookups EXCEPT ![i].pc = "body"] /\ UNCHANGED status
                ELSE Ends(i) /\ status' = "unavailable"
    /\ UNCHANGED <<web, form, site, name, offered, latest, sending, created>>

(* The body, which is not asked again whether it is still wanted; its title
   fills an empty name and is only suggested beside another. *)
LandTitle(i) ==
    /\ lookups' = [lookups EXCEPT ![i] = [@ EXCEPT !.pc = "over", !.landed = site]]
    /\ IF name = Empty THEN name' = i /\ UNCHANGED offered ELSE offered' = i /\ UNCHANGED name
Body(i) ==
    /\ form = "company" /\ lookups[i].pc = "body"
    /\ \/ FetchPublicHtml(lookups[i].of) = "titled" /\ LandTitle(i) /\ status' = "idle"
       \/ FetchPublicHtml(lookups[i].of) = "untitled" /\ Ends(i) /\ status' = "unavailable"
          /\ UNCHANGED <<name, offered>>
    /\ UNCHANGED <<web, form, site, latest, sending, created>>

(* The request fails or times out, before its headers or in its body. *)
LookupFails(i) ==
    /\ form = "company" /\ lookups[i].pc \in {"sent", "body"} /\ Ends(i)
    /\ status' = IF Wanted(i) THEN "unavailable" ELSE status
    /\ UNCHANGED <<web, form, site, name, offered, latest, sending, created>>

-------------------------------------------------------------------------------
(* The two fields of the company forms: useCompanyNamePrefill. *)
Editable == form = "company" /\ ~sending
OnDomainChange == \E d \in Domains \cup {Blank} :
    /\ Editable /\ d # site
    /\ site' = d /\ offered' = 0 /\ Reset
    /\ UNCHANGED <<web, form, name, sending, created>>
OnDomainBlur ==
    /\ Editable /\ offered' = 0 /\ RequestSuggestion(site)
    /\ UNCHANGED <<web, form, site, name, sending, created>>
OnCompanyNameChange == \E n \in {Empty, Typed} :
    /\ Editable /\ name # n /\ name' = n /\ offered' = 0
    /\ UNCHANGED <<web, form, site, status, latest, lookups, sending, created>>
ApplySuggestedName ==
    /\ form = "company" /\ offered # 0 /\ name' = offered /\ offered' = 0
    /\ UNCHANGED <<web, form, site, status, latest, lookups, sending, created>>

(* The browser asks for both fields; a domain may still be refused, like the
   seller's tenant, rate or insert, and the form is kept as it is. *)
Submit ==
    /\ Editable /\ name # Empty /\ site # Blank /\ created < MaxMade /\ sending' = TRUE
    /\ UNCHANGED <<web, form, site, name, offered, status, latest, lookups, created>>
Emptied == site' = Blank /\ name' = Empty /\ offered' = 0 /\ status' = "idle" /\ latest' = 0
           /\ lookups' = <<>> /\ UNCHANGED <<web, form>>
SubmitAnswered ==
    /\ sending /\ sending' = FALSE
    /\ \/ created' = created + 1 /\ Emptied
       \/ created' \in {created, created + 1}
          /\ UNCHANGED <<web, form, site, name, offered, status, latest, lookups>>
LeaveForm == Editable /\ Emptied /\ UNCHANGED <<sending, created>>

-------------------------------------------------------------------------------
(* The link form: LinkUrlField.  No request is ever given up. *)
TypeUrl == \E d \in Domains \cup {Blank} :
    /\ form = "link" /\ d # site /\ site' = d
    /\ UNCHANGED <<web, form, name, offered, status, latest, lookups, sending, created>>
TypeLabel == \E n \in {Empty, Typed} :
    /\ form = "link" /\ name # n /\ name' = n
    /\ UNCHANGED <<web, form, site, offered, status, latest, lookups, sending, created>>
HandleBlur ==
    /\ form = "link"
    /\ \/ site = Blank /\ offered' = 0 /\ UNCHANGED <<status, lookups>>
       \/ /\ site # Blank /\ Len(lookups) < MaxLookups /\ status' = "loading" /\ UNCHANGED offered
          /\ lookups' = Append(lookups, [of |-> site, pc |-> "sent", late |-> FALSE, landed |-> Blank])
    /\ UNCHANGED <<web, form, site, name, latest, sending, created>>
PreviewAnswered(i) ==
    /\ form = "link" /\ lookups[i].pc = "sent" /\ status' = "idle"
    /\ \/ FetchPublicHtml(lookups[i].of) \in {"titled", "untitled"} /\ offered' = i
          /\ lookups' = [lookups EXCEPT ![i] = [@ EXCEPT !.pc = "over", !.landed = site]]
          /\ name' = IF name = Empty /\ FetchPublicHtml(lookups[i].of) = "titled" THEN i ELSE name
       \/ offered' = 0 /\ Ends(i) /\ UNCHANGED name
    /\ UNCHANGED <<web, form, site, latest, sending, created>>

-------------------------------------------------------------------------------
PrefillInit ==
    /\ web \in [Domains -> Sites] /\ form \in {"company", "link"}
    /\ site = Blank /\ name = Empty /\ offered = 0 /\ status = "idle" /\ latest = 0
    /\ lookups = <<>> /\ sending = FALSE /\ created = 0
PrefillNext ==
    \/ OnDomainChange \/ OnDomainBlur \/ OnCompanyNameChange \/ ApplySuggestedName
    \/ Submit \/ SubmitAnswered \/ LeaveForm
    \/ TypeUrl \/ TypeLabel \/ HandleBlur
    \/ \E i \in DOMAIN lookups : Headers(i) \/ Body(i) \/ LookupFails(i) \/ PreviewAnswered(i)
PrefillSpec == PrefillInit /\ [][PrefillNext]_prefillVars

-------------------------------------------------------------------------------
(* Every variable has its type. *)
PrefillTypeOK ==
    /\ web \in [Domains -> Sites] /\ form \in {"company", "link"} /\ site \in Domains \cup {Blank}
    /\ name \in {Empty, Typed} \cup DOMAIN lookups /\ offered \in 0..Len(lookups)
    /\ status \in {"idle", "loading", "unavailable"} /\ latest \in 0..Len(lookups)
    /\ lookups \in Seq(Lookup) /\ sending \in BOOLEAN /\ created \in 0..MaxMade

(* However the answers of several lookups come, the name a company form fills
   in or suggests was looked up for the domain then in the field: except when
   the field changed between the headers and the body of the answer. *)
SuggestionIsCurrent ==
    form = "company" =>
        \A i \in ({name, offered} \cap DOMAIN lookups) : lookups[i].late \/ lookups[i].landed = lookups[i].of
===============================================================================
