----------------------------- MODULE WorkspacePage -----------------------------
(***************************************************************************)
(* The seller's page of one workspace: what the server renders from the    *)
(* deal, the tenant's billing and the buyer's activity, and what the page  *)
(* then does on its own.  It shows what was true when it was rendered; the *)
(* deal, the billing and the time go on.  The writes behind its buttons    *)
(* are single steps here (DealLifecycle, DealRoom take them apart).        *)
(***************************************************************************)
EXTENDS Entitlement, Integers, FiniteSets

CONSTANTS
    StallDays,   \* getStallThresholdDays
    QuietDays,   \* QUIET_DEAL_DAYS
    LastDay, MaxOthers, MaxElsewhere

ASSUME PageAssumption ==
    /\ {StallDays, QuietDays, LastDay} \subseteq Nat \ {0}
    /\ {MaxOthers, MaxElsewhere} \subseteq Nat

VARIABLES
    deal,        \* plan, hasStep, openSteps (the buyer's), invited, dismissed,
                 \* sample, active (the day of the buyer's last event, or 0)
    tenant,      \* its subscription row, and how many other deals are active
    day,
    page,        \* what was rendered; see PageOf
    fresh,       \* nothing has changed since
    client,      \* the page's own state; see Untouched
    elsewhere    \* changes made elsewhere so far

pageVars == <<deal, tenant, day, page, fresh, client, elsewhere>>

Walls == {"limit", "past-due"}
Reasons == Walls \cup {"none", "unknown"}
SubscriptionRows ==
    {Absent} \cup [status : {"active", "past_due"}, tier : Tiers, pastDueSince : {1}, manual : {Absent}]
             \cup {[status |-> "canceled", tier |-> t, pastDueSince |-> Absent, manual |-> t] : t \in Tiers}
Deals == [plan : {"none", "draft", "active", "closed"}, hasStep : BOOLEAN, openSteps : {0, 1},
          invited : BOOLEAN, dismissed : BOOLEAN, sample : BOOLEAN, active : 0..LastDay]
Untouched == [refused |-> "none", liveCall |-> FALSE, flip |-> FALSE,
              outcome |-> FALSE, closeCall |-> FALSE]

-------------------------------------------------------------------------------
(* What the server makes of it. *)

(* Mutant: the count is looked at before the payment. *)
BugCountFirst(e, count) ==
    CASE Absent \in {e, count} -> "unknown"
      [] OTHER -> IF e.source = "manual" THEN "none"
                  ELSE IF ~UnderCap(count, e.cap) THEN "limit"
                  ELSE IF e.blocked THEN "past-due" ELSE "none"

(* buildDealLimitState and dealLimitReasonForState, of an entitlement and a
   count neither of which may have been read (Absent). *)
DealLimitReason(e, count) ==
    IF e = Absent THEN "unknown"
    ELSE CASE e.source = "manual" -> "none"
           [] e.source # "manual" /\ e.blocked -> "past-due"
           [] OTHER -> IF e.cap = Unlimited THEN "none"
                       ELSE IF count = Absent THEN "unknown"
                       ELSE IF UnderCap(count, e.cap) THEN "none" ELSE "limit"

(* readDealLimit: both reads may fail, each for itself; the sample's plan is
   not counted, and whether the page is the sample's is not asked. *)
ActiveDeals == tenant.others + (IF deal.plan = "active" /\ ~deal.sample THEN 1 ELSE 0)
ReadDealLimit == {DealLimitReason(e, n) : e \in {ResolveEntitlement(tenant.row, day), Absent},
                                          n \in {ActiveDeals, Absent}}

(* computeEngagementSignal and isQuietDeal. *)
RecentlyActive == deal.active # 0 /\ day - deal.active <= StallDays
EngagementState ==
    IF RecentlyActive THEN "active" ELSE IF deal.openSteps > 0 THEN "stalled" ELSE "waiting"
IsQuietDeal == ~RecentlyActive /\ deal.active # 0 /\ day - deal.active >= QuietDays

(* computeActivationState. *)
Activation == [populated |-> deal.hasStep, invited |-> deal.invited, live |-> deal.plan = "active"]
IsComplete(steps) == steps.populated /\ steps.invited /\ steps.live

(* WorkspaceDetailPage: its queries are one step. *)
PageOf(reason) == [plan |-> deal.plan, steps |-> Activation, dismissed |-> deal.dismissed,
                   reason |-> reason, engagement |-> EngagementState, quiet |-> IsQuietDeal]
Renders == fresh' = TRUE /\ \E reason \in ReadDealLimit' : page' = PageOf(reason)'

-------------------------------------------------------------------------------
(* What the page makes of it: isDealLimitWallVisible and
   resolveWorkspaceSignalOwners, the claims on the page's one Signal. *)
IsDealLimitWallVisible(p) ==
    ~p.dismissed /\ ~IsComplete(p.steps) /\ ~p.steps.live /\ p.reason \in Walls

(* Mutant: the flip gives way to the stall alert only. *)
BugFlipIgnoresWall(p) ==
    (IF IsDealLimitWallVisible(p) \/ p.engagement # "stalled" THEN {"checklist"} ELSE {})
    \cup (IF IsDealLimitWallVisible(p) THEN {} ELSE {"stall"})
    \cup (IF p.engagement # "stalled" THEN {"flip"} ELSE {})

SignalOwners(p) ==
    (IF IsDealLimitWallVisible(p) \/ p.engagement # "stalled" THEN {"checklist"} ELSE {})
    \cup (IF IsDealLimitWallVisible(p) THEN {} ELSE {"stall"})
    \cup (IF ~IsDealLimitWallVisible(p) /\ p.engagement # "stalled" THEN {"flip"} ELSE {})

(* ActivationChecklist and its DealLimitNotice: a refusal of this page's own
   comes before what was rendered, and a wall takes the button away (any
   other failure is a line of text beside it). *)
ChecklistShown == ~page.dismissed /\ ~IsComplete(page.steps) /\ page.plan # "closed"
NoticeReason == IF client.refused # "none" THEN client.refused ELSE page.reason
LiveRowOpen == ChecklistShown /\ ~page.steps.live
Walled == LiveRowOpen /\ NoticeReason \in Walls
LiveButton == LiveRowOpen /\ ~Walled /\ page.plan = "draft" /\ ~client.liveCall

(* StallAlert and InvitePanel. *)
CloseAvailable == page.plan \in {"draft", "active"}
StallAlert == [cta |-> page.engagement = "stalled", quietNote |-> page.quiet /\ CloseAvailable]
Signals ==
    (IF Walled THEN {"checklist"} ELSE {}) \cup (IF StallAlert.cta THEN {"stall"} ELSE {})
    \cup (IF client.flip THEN {"flip"} ELSE {})
Shouting == Signals \cap SignalOwners(page)

-------------------------------------------------------------------------------
PageInit ==
    /\ day = 1 /\ elsewhere = 0 /\ tenant \in [row : {Absent} \cup SubscriptionRows, others : 0..MaxOthers]
    /\ deal \in {d \in Deals : /\ ~d.invited /\ ~d.dismissed /\ d.active = 0
                                /\ IF d.sample THEN d.plan = "active" /\ d.hasStep /\ d.openSteps = 1
                                   ELSE d.plan \in {"none", "draft"} /\ ~d.hasStep /\ d.openSteps = 0}
    /\ \E reason \in ReadDealLimit : page = PageOf(reason)
    /\ fresh = TRUE /\ client = Untouched

(* The page is opened again. *)
Reload ==
    /\ ~fresh \/ client # Untouched
    /\ UNCHANGED <<deal, tenant, day, elsewhere>>
    /\ Renders /\ client' = Untouched

(* In other tabs, by the buyer, by Paddle or support, and with time. *)
Changes == elsewhere < MaxElsewhere /\ elsewhere' = elsewhere + 1 /\ fresh' = FALSE
           /\ UNCHANGED <<page, client>>
EditedElsewhere ==
    /\ Changes /\ UNCHANGED <<tenant, day>>
    /\ \/ deal.plan \in {"none", "closed"} /\ deal' = [deal EXCEPT !.plan = "draft", !.hasStep = FALSE,
                                                                   !.openSteps = 0]
       \/ deal.plan = "draft" /\ ~deal.sample /\ ActiveDeals < MaxOthers /\ deal' = [deal EXCEPT !.plan = "active"]
       \/ deal.plan # "none" /\ deal' = [deal EXCEPT !.plan = "closed"]
       \/ deal.plan \in {"draft", "active"} /\ deal' = [deal EXCEPT !.hasStep = TRUE, !.openSteps = 1]
       \/ deal' = [deal EXCEPT !.invited = TRUE]          \* or the buyer asked for a code
       \/ deal.invited /\ deal' = [deal EXCEPT !.active = day]
BilledElsewhere ==
    /\ Changes /\ UNCHANGED <<deal, day>>
    /\ tenant' \in [row : SubscriptionRows, others : 0..MaxOthers]
TimePasses ==
    /\ Changes /\ day < LastDay /\ day' = day + 1 /\ UNCHANGED <<deal, tenant>>

(* handleMarkLive, and goLivePlan behind it (see DealLifecycle): any of its
   reads may fail, and its answer may be lost. *)
MarkLive ==
    /\ LiveButton
    /\ client' = [client EXCEPT !.refused = "none", !.liveCall = TRUE]
    /\ UNCHANGED <<deal, tenant, day, page, fresh, elsewhere>>
(* goLivePlan's billing check, and then the verdicts of mark_plan_live() in
   the order it comes to them: the sample is refused before its plan is
   looked at and before anything is counted. *)
GoLiveCode ==
    LET e == ResolveEntitlement(tenant.row, day) IN
    IF e.blocked THEN "BILLING_PAST_DUE"
    ELSE IF deal.plan = "none" THEN "NOT_FOUND"
    ELSE IF deal.sample THEN "SAMPLE_DEAL_LOCKED"
    ELSE IF deal.plan = "closed" THEN "NOT_FOUND"
    ELSE IF deal.plan = "active" \/ UnderCap(ActiveDeals, e.cap) THEN "ok" ELSE "DEAL_LIMIT_REACHED"
DealLimitReasonForErrorCode(code) ==
    CASE code = "DEAL_LIMIT_REACHED" -> "limit" [] code = "BILLING_PAST_DUE" -> "past-due"
      [] code = "BILLING_CHECK_FAILED" -> "unknown" [] OTHER -> "none"
(* What is stored though the page is told of a failure it knows later only. *)
StoredUnseen(stored) == deal' \in {deal, stored} /\ fresh' = (fresh /\ deal' = deal) /\ UNCHANGED page
MarkLiveFails(reason) ==
    client' = [client EXCEPT !.liveCall = FALSE, !.refused = reason]
MarkLiveAnswered ==
    /\ client.liveCall /\ UNCHANGED <<tenant, day, elsewhere>>
    /\ \/ /\ GoLiveCode = "ok" /\ deal' = [deal EXCEPT !.plan = "active"] /\ Renders
          /\ client' = [client EXCEPT !.liveCall = FALSE]
       \/ /\ \E code \in ({GoLiveCode} \ {"ok"}) \cup {"BILLING_CHECK_FAILED", "UNKNOWN_ERROR"} :
                MarkLiveFails(DealLimitReasonForErrorCode(code))
          /\ UNCHANGED <<deal, page, fresh>>
       \/ /\ GoLiveCode = "ok" /\ StoredUnseen([deal EXCEPT !.plan = "active"])
          /\ MarkLiveFails("none")                        \* the answer is lost

(* handleDismiss: the update, and the page with it; or an inline error. *)
DismissActivationChecklist ==
    /\ ChecklistShown /\ UNCHANGED <<tenant, day, client, elsewhere>>
    /\ \/ deal' = [deal EXCEPT !.dismissed = TRUE] /\ Renders
       \/ StoredUnseen([deal EXCEPT !.dismissed = TRUE])

(* The invite panel: sent to the seller's own address, the only one the
   sample takes, it offers the flip.  Any other outcome takes the flip away,
   and may leave the row that counts as an invitation behind; whether the row
   of a code that was sent is there is not looked at. *)
SendInvite == \E own \in BOOLEAN :
    /\ UNCHANGED <<tenant, day, elsewhere>>
    /\ \/ /\ deal.sample => own
          /\ deal' \in {deal, [deal EXCEPT !.invited = TRUE]} /\ Renders
          /\ client' = [client EXCEPT !.flip = own]
       \/ StoredUnseen([deal EXCEPT !.invited = TRUE]) /\ client' = [client EXCEPT !.flip = FALSE]

(* CloseDealControls: an outcome (which one is not told apart) or none, a
   confirmation, and closePlanAction. *)
ChooseOutcome ==
    /\ CloseAvailable /\ ~client.closeCall
    /\ client' = [client EXCEPT !.outcome = ~@]
    /\ UNCHANGED <<deal, tenant, day, page, fresh, elsewhere>>
ConfirmClose ==
    /\ CloseAvailable /\ client.outcome /\ ~client.closeCall
    /\ client' = [client EXCEPT !.closeCall = TRUE]
    /\ UNCHANGED <<deal, tenant, day, page, fresh, elsewhere>>
CloseAnswered ==
    /\ client.closeCall /\ client' = [client EXCEPT !.closeCall = FALSE]
    /\ UNCHANGED <<tenant, day, elsewhere>>
    /\ \/ /\ deal.plan \in {"draft", "active"} /\ deal' = [deal EXCEPT !.plan = "closed"]
          /\ Renders
       \/ UNCHANGED <<deal, page, fresh>>                 \* refused, or failed
       \/ deal.plan \in {"draft", "active"} /\ StoredUnseen([deal EXCEPT !.plan = "closed"])

PageNext ==
    \/ Reload \/ EditedElsewhere \/ BilledElsewhere \/ TimePasses
    \/ MarkLive \/ MarkLiveAnswered \/ DismissActivationChecklist \/ SendInvite
    \/ ChooseOutcome \/ ConfirmClose \/ CloseAnswered
PageSpec == PageInit /\ [][PageNext]_pageVars

-------------------------------------------------------------------------------
(* Every variable has its type. *)
PageTypeOK ==
    /\ deal \in Deals /\ tenant \in [row : {Absent} \cup SubscriptionRows, others : 0..MaxOthers]
    /\ page \in [plan : {"none", "draft", "active", "closed"}, dismissed : BOOLEAN, quiet : BOOLEAN,
                 steps : [populated : BOOLEAN, invited : BOOLEAN, live : BOOLEAN],
                 reason : Reasons, engagement : {"active", "stalled", "waiting"}]
    /\ client \in [refused : Reasons, liveCall : BOOLEAN, flip : BOOLEAN,
                   outcome : BOOLEAN, closeCall : BOOLEAN]
    /\ fresh \in BOOLEAN /\ day \in 1..LastDay /\ elsewhere \in 0..MaxElsewhere

(* At most one element of the page carries the Signal: unless a refusal the
   server had not foreseen and the seller's own invite come together, which
   resolveWorkspaceSignalOwners knows nothing of. *)
OneSignal ==
    Cardinality(Shouting) <= 1 \/ (client.refused \in Walls /\ page.reason \notin Walls /\ client.flip)

(* A page that is up to date walls a draft off exactly where the server
   refuses to make it live, and for the same reason: unless it could not
   find out, or the tenant's entitlement is a manual one, which the page
   never walls off and the server holds to its tier's cap, or the draft is
   the sample's: the server refuses that one as such, a refusal "no plan change
   fixes" (go-live.ts), and the page, which does not ask, walls it off like any
   other. *)
WallIsTrue ==
    /\ fresh /\ deal.plan = "draft" /\ page.reason # "unknown"
    /\ ResolveEntitlement(tenant.row, day).source # "manual"
    => \/ page.reason = DealLimitReasonForErrorCode(GoLiveCode)
       \/ GoLiveCode = "SAMPLE_DEAL_LOCKED" /\ page.reason = "limit"
===============================================================================
