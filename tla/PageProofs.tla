------------------------------- MODULE PageProofs -------------------------------
(***************************************************************************)
(* Proofs about a seller's pages, for any limits and any sets of plans,    *)
(* domains and deals: the billing pages, the workspace's page, the plan's  *)
(* builder, the forms filled from a web page and the imports.  Each part   *)
(* has its own invariant; they share no state.                             *)
(***************************************************************************)
EXTENDS MCPages, PlanViewsProofs, WellFoundedInduction

-------------------------------------------------------------------------------
(* The billing pages. *)
Click == [plan : Plans, cycle : Cycles, shown : SUBSET Cycles]

(* A cycle that can be selected is priced for every plan, and what was
   clicked was priced and displayed then. *)
PricesInv ==
    /\ offer \subseteq Plans \X Cycles /\ IsPublishable
    /\ shop \in Shop /\ shelf \in [Plans -> Cycles \cup {Absent}]
    /\ asked \subseteq [cycle : Cycles, cancelled : BOOLEAN]
    /\ shop.cycle = "year" => Priced("year") = Plans
    /\ clicks \subseteq Click /\ opened \subseteq Click
    /\ \A click \in clicks \cup opened : click.shown = {click.cycle} /\ <<click.plan, click.cycle>> \in offer

(* A row that Paddle knows nothing of carries a grant, or has lost it. *)
RowsInv ==
    /\ revoked \in BOOLEAN /\ toggles \in 0..MaxToggles /\ moves \in 0..MaxMoves
    /\ account = Absent \/ (account \in Account /\ (account.paddle \/ account.manual # Absent \/ revoked))

ShopsInv == PricesInv /\ RowsInv

LEMMA ManualIs ==
    ASSUME NEW row, NEW now
    PROVE  (ResolveEntitlement(row, now).source = "manual") =
               (row # Absent /\ row.manual # Absent /\ row.manual \in Tiers)
<1>1. ASSUME NEW tier, NEW source, NEW inGrace, NEW blocked
      PROVE  TierEntitlementOrFree(tier, source, inGrace, blocked).source
                 = IF tier \in Tiers THEN source ELSE "free"
  BY DEF TierEntitlementOrFree, FreeEntitlement
<1>2. FreeEntitlement.source = "free"
  BY DEF FreeEntitlement
<1>3. CASE row # Absent /\ row.manual # Absent
  <2>1. ResolveEntitlement(row, now) = TierEntitlementOrFree(row.manual, "manual", FALSE, FALSE)
    BY <1>3 DEF ResolveEntitlement
  <2>2. TierEntitlementOrFree(row.manual, "manual", FALSE, FALSE).source
            = IF row.manual \in Tiers THEN "manual" ELSE "free"
    BY DEF TierEntitlementOrFree, FreeEntitlement
  <2> QED
    BY <1>3, <2>1, <2>2
<1>4. CASE ~(row # Absent /\ row.manual # Absent)
  <2>1. \/ ResolveEntitlement(row, now) = FreeEntitlement
        \/ \E inGrace, blocked :
              ResolveEntitlement(row, now) = TierEntitlementOrFree(row.tier, "subscription", inGrace, blocked)
    BY <1>4 DEF ResolveEntitlement
  <2> QED
    BY <1>1, <1>2, <1>4, <2>1
<1> QED
  BY <1>3, <1>4

LEMMA RenderedFits ==
    ASSUME RowsInv, NEW user \in {"nobody", "seller"}
    PROVE  Rendered(user) \in Shop /\ Rendered(user).cycle = "month"
<1>1. PICK row : row = IF user = "seller" THEN account ELSE Absent
  OBVIOUS
<1>2. row = Absent \/ row \in Account
  BY <1>1 DEF RowsInv
<1>3. PICK live, manual \in BOOLEAN : live = HasLiveSubscription(row)
        /\ manual = (ResolveEntitlement(row, 0).source = "manual")
  BY DEF HasLiveSubscription
<1>4. PICK tier : tier = IF HasLiveSubscription(row) THEN row.tier ELSE Absent
  OBVIOUS
<1>5. tier \in Tiers \cup {Absent}
  BY <1>2, <1>4 DEF HasLiveSubscription, Account
<1>6. Rendered(user) = [user |-> user, live |-> live, manual |-> manual, tier |-> tier,
                        paddle |-> "loading", cycle |-> "month", error |-> FALSE]
  BY <1>1, <1>3, <1>4 DEF Rendered
<1> QED
  BY <1>3, <1>5, <1>6 DEF Shop, Cycles

LEMMA InitShopsInv == BillingPagesInit => ShopsInv
<1> SUFFICES ASSUME BillingPagesInit PROVE ShopsInv
  OBVIOUS
<1>1. RowsInv
  <2>1. 0 \in 0..MaxToggles /\ 0 \in 0..MaxMoves
    BY BillingPagesAssumption
  <2> QED
    BY <2>1 DEF BillingPagesInit, RowsInv
<1>2. shop \in Shop /\ shop.cycle = "month"
  BY <1>1, RenderedFits DEF BillingPagesInit
<1>3. PricesInv
  BY <1>2 DEF BillingPagesInit, PricesInv, EmptyShelf, Cycles
<1> QED
  BY <1>1, <1>3 DEF ShopsInv

LEMMA PricedThere ==
    ASSUME PricesInv, NEW plan \in Plans
    PROVE  <<plan, shop.cycle>> \in offer /\ shop.cycle \in Cycles
<1>1. shop.cycle \in Cycles
  BY DEF PricesInv, Shop
<1>2. plan \in Priced(shop.cycle)
  BY <1>1 DEF PricesInv, IsPublishable, Cycles
<1> QED
  BY <1>1, <1>2 DEF Priced

LEMMA ShopMoves ==
    ASSUME PricesInv, NEW field \in {"paddle", "cycle", "error"}, NEW value,
           field = "paddle" => value \in {"ready", "failed"},
           field = "cycle" => value \in Cycles, field = "error" => value \in BOOLEAN
    PROVE  /\ [shop EXCEPT !.paddle = value] \in Shop \/ field # "paddle"
           /\ [shop EXCEPT !.cycle = value] \in Shop \/ field # "cycle"
           /\ [shop EXCEPT !.error = value] \in Shop \/ field # "error"
           /\ field # "cycle" => /\ [shop EXCEPT !.paddle = value].cycle = shop.cycle
                                 /\ [shop EXCEPT !.error = value].cycle = shop.cycle
           /\ field = "cycle" => [shop EXCEPT !.cycle = value].cycle = value
<1>1. PICK was \in Shop : was = shop
  BY DEF PricesInv
<1> QED
  BY <1>1 DEF Shop

LEMMA PreviewFits ==
    ASSUME PricesInv, NEW cycle \in Cycles, Preview(cycle)
    PROVE  asked' \subseteq [cycle : Cycles, cancelled : BOOLEAN]
<1>1. \A a \in asked : [a EXCEPT !.cancelled = TRUE] \in [cycle : Cycles, cancelled : BOOLEAN]
  BY DEF PricesInv
<1>2. [cycle |-> cycle, cancelled |-> FALSE] \in [cycle : Cycles, cancelled : BOOLEAN]
  OBVIOUS
<1>3. {[a EXCEPT !.cancelled = TRUE] : a \in asked} \subseteq [cycle : Cycles, cancelled : BOOLEAN]
  BY <1>1
<1>4. PICK later \in [cycle : Cycles, cancelled : BOOLEAN] : later = [cycle |-> cycle, cancelled |-> FALSE]
  BY <1>2
<1>5. PICK calls : calls = {[a EXCEPT !.cancelled = TRUE] : a \in asked}
  OBVIOUS
<1>6. asked' = calls \cup {later}
  BY <1>4, <1>5 DEF Preview
<1> QED
  BY <1>3, <1>4, <1>5, <1>6

LEMMA ShopStepKeeps == ShopsInv /\ [BillingPagesNext]_billingPageVars => ShopsInv'
<1> SUFFICES ASSUME ShopsInv, [BillingPagesNext]_billingPageVars PROVE ShopsInv'
  OBVIOUS
<1>1. PricesInv /\ RowsInv
  BY DEF ShopsInv
<1>2. Priced("year")' = Priced("year") /\ IsPublishable' = IsPublishable /\ offer' = offer
  BY DEF BillingPagesNext, OpenPricing, InitializePaddle, SetBillingCycle, PricesAnswered, HandleSubscribe,
     CheckoutRefAnswered, PaddleWrites, SupportGrants, SupportRevokes, Moves, billingPageVars,
     Priced, IsPublishable
<1>3. CASE OpenPricing
  <2>1. shop' \in Shop /\ shop'.cycle = "month"
    BY <1>1, <1>3, RenderedFits DEF OpenPricing
  <2>2. PricesInv'
    BY <1>1, <1>2, <1>3, <2>1 DEF OpenPricing, PricesInv, EmptyShelf, Cycles
  <2>3. RowsInv'
    BY <1>1, <1>3, BillingPagesAssumption DEF OpenPricing, RowsInv
  <2> QED
    BY <2>2, <2>3 DEF ShopsInv
<1>4. CASE InitializePaddle
  <2>1. RowsInv' /\ UNCHANGED <<shelf, clicks, opened>>
    BY <1>1, <1>4 DEF InitializePaddle, RowsInv
  <2>2. PICK value \in {"ready", "failed"} : shop' = [shop EXCEPT !.paddle = value]
    BY <1>4 DEF InitializePaddle
  <2>3. shop' \in Shop /\ shop'.cycle = shop.cycle
    BY <1>1, <2>2, ShopMoves
  <2>4. asked' \subseteq [cycle : Cycles, cancelled : BOOLEAN]
    BY <1>1, <1>4, PreviewFits DEF InitializePaddle, PricesInv, Shop
  <2> QED
    BY <1>1, <1>2, <2>1, <2>3, <2>4 DEF ShopsInv, PricesInv
<1>5. CASE SetBillingCycle
  <2>1. PICK cycle \in Cycles : /\ shop' = [shop EXCEPT !.cycle = cycle]
                                /\ asked' = asked \/ Preview(cycle)
    BY <1>5 DEF SetBillingCycle
  <2>2. HasYearlyPricing /\ toggles < MaxToggles /\ toggles' = toggles + 1
        /\ UNCHANGED <<account, revoked, offer, moves, shelf, clicks, opened>>
    BY <1>5 DEF SetBillingCycle
  <2>3. shop' \in Shop /\ shop'.cycle = cycle
    BY <1>1, <2>1, ShopMoves
  <2>4. asked' \subseteq [cycle : Cycles, cancelled : BOOLEAN]
    BY <1>1, <2>1, PreviewFits DEF PricesInv
  <2>5. RowsInv'
    BY <1>1, <2>2, BillingPagesAssumption DEF RowsInv
  <2>6. PricesInv'
    BY <1>1, <1>2, <2>2, <2>3, <2>4 DEF PricesInv, HasYearlyPricing
  <2> QED
    BY <2>5, <2>6 DEF ShopsInv
<1>6. CASE PricesAnswered
  <2>1. RowsInv' /\ asked' \subseteq asked /\ UNCHANGED <<shop, clicks, opened>>
    BY <1>1, <1>6 DEF PricesAnswered, RowsInv
  <2>2. shelf' \in [Plans -> Cycles \cup {Absent}]
    BY <1>1, <1>6 DEF PricesAnswered, PricesInv
  <2> QED
    BY <1>1, <1>2, <2>1, <2>2 DEF ShopsInv, PricesInv
<1>7. CASE HandleSubscribe
  <2>1. PICK plan \in Plans :
          /\ PriceDetails(plan) # {}
          /\ clicks' = clicks \cup {[plan |-> plan, cycle |-> shop.cycle, shown |-> PriceDetails(plan)]}
    BY <1>7 DEF HandleSubscribe
  <2>2. UNCHANGED <<account, revoked, moves, shop, asked, shelf, opened, toggles>>
    BY <1>7 DEF HandleSubscribe
  <2>3. PICK cycle \in Cycles : cycle = shop.cycle /\ <<plan, cycle>> \in offer
    BY <1>1, PricedThere
  <2>4. PriceDetails(plan) = {cycle}
    BY <2>1, <2>3 DEF PriceDetails
  <2>5. PICK click : click = [plan |-> plan, cycle |-> cycle, shown |-> {cycle}]
    OBVIOUS
  <2>6. click \in Click /\ click.shown = {click.cycle} /\ <<click.plan, click.cycle>> \in offer
    BY <2>3, <2>5 DEF Click
  <2>7. clicks' = clicks \cup {click}
    BY <2>1, <2>3, <2>4, <2>5
  <2>8. PricesInv'
    BY <1>1, <1>2, <2>2, <2>6, <2>7 DEF PricesInv
  <2> QED
    BY <1>1, <2>2, <2>8 DEF ShopsInv, RowsInv
<1>8. CASE CheckoutRefAnswered
  <2>1. clicks' \subseteq clicks /\ opened' \subseteq opened \cup clicks /\ asked' = asked /\ shelf' = shelf
    BY <1>8 DEF CheckoutRefAnswered
  <2>2. PICK value \in BOOLEAN : shop' = [shop EXCEPT !.error = value] \/ shop' = shop
    BY <1>8 DEF CheckoutRefAnswered
  <2>3. shop' \in Shop /\ shop'.cycle = shop.cycle
    <3>1. [shop EXCEPT !.error = value] \in Shop /\ [shop EXCEPT !.error = value].cycle = shop.cycle
      BY <1>1, ShopMoves
    <3> QED
      BY <1>1, <2>2, <3>1 DEF PricesInv
  <2>4. RowsInv'
    BY <1>1, <1>8 DEF CheckoutRefAnswered, RowsInv
  <2>5. PricesInv'
    BY <1>1, <1>2, <2>1, <2>3 DEF PricesInv
  <2> QED
    BY <2>4, <2>5 DEF ShopsInv
<1>9. CASE PaddleWrites \/ SupportGrants \/ SupportRevokes
  <2>1. Moves
    BY <1>9 DEF PaddleWrites, SupportGrants, SupportRevokes
  <2>2. moves' \in 0..MaxMoves /\ UNCHANGED <<shop, asked, shelf, clicks, opened, toggles>>
    BY <1>1, <2>1, BillingPagesAssumption DEF Moves, shopVars, RowsInv
  <2>3. revoked' \in BOOLEAN
        /\ (account' = Absent \/ (account' \in Account
               /\ (account'.paddle \/ account'.manual # Absent \/ revoked')))
    <3>1. CASE PaddleWrites
      <4>1. PICK given \in SubscriptionStatuses, tier \in Tiers :
              account' = [AccountRow(given, tier, IF account = Absent THEN Absent ELSE account.manual, TRUE)
                          EXCEPT !.pastDueSince = IF given = "past_due" THEN 0 ELSE Absent]
        BY <3>1, BillingPagesAssumption DEF PaddleWrites
      <4>2. PICK manual, since : /\ manual = (IF account = Absent THEN Absent ELSE account.manual)
                                 /\ since = (IF given = "past_due" THEN 0 ELSE Absent)
        OBVIOUS
      <4>3. manual \in Tiers \cup {Absent} /\ since \in {0, Absent}
        BY <1>1, <4>2 DEF RowsInv, Account
      <4>4. PICK row : row = [status |-> given, tier |-> tier, manual |-> manual, pastDueSince |-> Absent,
                              paddle |-> TRUE]
        OBVIOUS
      <4>5. account' = [row EXCEPT !.pastDueSince = since]
        BY <4>1, <4>2, <4>4 DEF AccountRow
      <4>6. account' \in Account /\ account'.paddle
        BY <4>3, <4>4, <4>5 DEF Account
      <4> QED
        BY <3>1, <4>6 DEF PaddleWrites
    <3>2. CASE SupportGrants
      <4>1. PICK tier \in Tiers :
              account' = IF account = Absent THEN AccountRow("active", tier, tier, FALSE)
                         ELSE [account EXCEPT !.manual = tier]
        BY <3>2 DEF SupportGrants
      <4>2. AccountRow("active", tier, tier, FALSE) \in Account
            /\ AccountRow("active", tier, tier, FALSE).manual = tier
        BY DEF AccountRow, Account, SubscriptionStatuses
      <4>3. ASSUME account # Absent
            PROVE  [account EXCEPT !.manual = tier] \in Account /\ [account EXCEPT !.manual = tier].manual = tier
        <5>1. PICK row \in Account : row = account
          BY <1>1, <4>3 DEF RowsInv
        <5> QED
          BY <5>1 DEF Account
      <4> QED
        BY <3>2, <4>1, <4>2, <4>3, BillingPagesAssumption DEF SupportGrants
    <3>3. CASE SupportRevokes
      <4>1. PICK row \in Account : row = account
        BY <1>1, <3>3 DEF RowsInv, SupportRevokes
      <4>2. account' = [row EXCEPT !.manual = Absent] /\ revoked' = ~row.paddle /\ row.paddle \in BOOLEAN
        BY <3>3, <4>1 DEF SupportRevokes, Account
      <4>3. account' \in Account /\ account'.paddle = row.paddle
        BY <4>1, <4>2 DEF Account
      <4> QED
        BY <4>2, <4>3
    <3> QED
      BY <1>9, <3>1, <3>2, <3>3
  <2>4. RowsInv'
    BY <1>1, <2>2, <2>3 DEF RowsInv
  <2>5. PricesInv'
    BY <1>1, <1>2, <2>2 DEF PricesInv
  <2> QED
    BY <2>4, <2>5 DEF ShopsInv
<1>10. CASE UNCHANGED billingPageVars
  BY <1>1, <1>2, <1>10 DEF ShopsInv, PricesInv, RowsInv, billingPageVars, shopVars
<1> QED
  BY <1>3, <1>4, <1>5, <1>6, <1>7, <1>8, <1>9, <1>10 DEF BillingPagesNext

LEMMA ShopsInvAlways == BillingPagesSpec => []ShopsInv
  BY InitShopsInv, ShopStepKeeps, PTL DEF BillingPagesSpec

(* pricing-tiers.tsx, handleSubscribe and priceDetails: whatever the order in
   which previews are answered and the cycle is changed, a checkout opens on
   a price that is sold and that was displayed at the click. *)
THEOREM ChargedIsShownAlways == BillingPagesSpec => []ChargedIsShown
<1>1. ShopsInv => ChargedIsShown
  BY DEF ShopsInv, PricesInv, ChargedIsShown
<1> QED
  BY <1>1, ShopsInvAlways, PTL

(* tier-action.tsx and the billing settings' BillingActions: whatever Paddle
   and support wrote, the two pages never send a seller in a circle, but for
   the one whose grant was taken back before it subscribed. *)
THEOREM PagesLeadOnAlways == BillingPagesSpec => []PagesLeadOn
<1>1. ASSUME ShopsInv, NEW plan \in Plans
      PROVE  CASE TierAction(Rendered("seller"), plan) \in {"current plan", "change plan in billing"} ->
                      \/ revoked
                      \/ /\ "manage billing" \in BillingSettings(account, 0, 0).actions
                         /\ "subscription" \in OpenBillingPortal(account)
               [] TierAction(Rendered("seller"), plan) = "subscribe" ->
                      "see plans" \in BillingSettings(account, 0, 0).actions
               [] OTHER -> BillingSettings(account, 0, 0).actions = {"contact us"}
  <2>1. BillingSettings(account, 0, 0).actions = BillingActions(account)
    BY DEF BillingSettings
  <2>2. PICK live, manual \in BOOLEAN : live = HasLiveSubscription(account)
          /\ manual = (ResolveEntitlement(account, 0).source = "manual")
    BY DEF HasLiveSubscription
  <2>3. PICK visit : visit = Rendered("seller")
    OBVIOUS
  <2>4. visit.user = "seller" /\ visit.live = live /\ visit.manual = manual
    BY <2>2, <2>3 DEF Rendered
  <2>5. account = Absent \/ (account \in Account /\ (account.paddle \/ account.manual # Absent \/ revoked))
    BY <1>1 DEF ShopsInv, RowsInv
  <2>6. CASE manual
    <3>1. TierAction(visit, plan) = "nothing"
      BY <2>4, <2>6 DEF TierAction
    <3>2. BillingActions(account) = {"contact us"}
      BY <2>2, <2>6 DEF BillingActions
    <3> QED
      BY <2>1, <2>3, <3>1, <3>2
  <2>7. CASE ~manual /\ live
    <3>1. TierAction(visit, plan) \in {"current plan", "change plan in billing"}
      BY <2>4, <2>7 DEF TierAction
    <3>2. account # Absent /\ account \in Account /\ account.status # "canceled"
      BY <2>2, <2>5, <2>7 DEF HasLiveSubscription
    <3>3. account.paddle \/ revoked
      BY <2>2, <2>5, <2>7, <3>2, ManualIs DEF Account
    <3>4. DescribeBillingStatus(account, 0) # "canceled"
      BY <3>2 DEF DescribeBillingStatus
    <3>5. account.paddle => BillingActions(account) = {"manage billing"}
      BY <2>2, <2>7, <3>2, <3>4 DEF BillingActions, CanManageBilling
    <3>6. account.paddle => "subscription" \in OpenBillingPortal(account)
      BY <2>2, <2>7, <3>2 DEF OpenBillingPortal, BillableSubscription, PortalSession
    <3> QED
      BY <2>1, <2>3, <3>1, <3>3, <3>5, <3>6
  <2>8. CASE ~manual /\ ~live
    <3>1. TierAction(visit, plan) = "subscribe"
      BY <2>4, <2>8 DEF TierAction
    <3>2. "see plans" \in BillingActions(account)
      <4>1. CASE account = Absent
        BY <2>2, <2>8, <4>1 DEF BillingActions, DescribeBillingStatus, CanManageBilling
      <4>2. CASE account # Absent /\ account.status = "canceled"
        <5>1. DescribeBillingStatus(account, 0) = "canceled"
          BY <4>2 DEF DescribeBillingStatus
        <5> QED
          BY <2>2, <2>8, <5>1 DEF BillingActions
      <4> QED
        BY <2>2, <2>5, <2>8, <4>1, <4>2 DEF HasLiveSubscription, Account, SubscriptionStatuses
    <3> QED
      BY <2>1, <2>3, <3>1, <3>2
  <2> QED
    BY <2>2, <2>6, <2>7, <2>8
<1>2. ShopsInv => PagesLeadOn
  BY <1>1 DEF PagesLeadOn
<1> QED
  BY <1>2, ShopsInvAlways, PTL

(* The pricing page, its previews and its checkouts, and the tenant's row are
   of their types, for any plans. *)
THEOREM BillingPagesTypeCorrect == BillingPagesSpec => []BillingPagesTypeOK
<1>1. ShopsInv => BillingPagesTypeOK
  <2>1. PricesInv => clicks \cup opened \subseteq Click
    BY DEF PricesInv
  <2> QED
    BY <2>1 DEF ShopsInv, PricesInv, RowsInv, BillingPagesTypeOK, Click
<1> QED
  BY <1>1, ShopsInvAlways, PTL

-------------------------------------------------------------------------------
(* The workspace's page. *)

(* What an up-to-date page was rendered with is still what can be read. *)
FreshInv == fresh => page.reason \in ReadDealLimit

LEMMA InitFreshInv == PageInit => FreshInv
  BY DEF PageInit, FreshInv, PageOf

LEMMA RendersFresh == Renders => FreshInv'
<1> SUFFICES ASSUME Renders PROVE FreshInv'
  OBVIOUS
<1>1. PICK reason \in ReadDealLimit' : page' = PageOf(reason)'
  BY DEF Renders
<1>2. page'.reason = reason
  BY <1>1 DEF PageOf
<1> QED
  BY <1>1, <1>2 DEF FreshInv

LEMMA FreshStepKeeps == FreshInv /\ [PageNext]_pageVars => FreshInv'
<1> SUFFICES ASSUME FreshInv, [PageNext]_pageVars PROVE FreshInv'
  OBVIOUS
<1>1. \/ Renders \/ ~fresh'
      \/ UNCHANGED <<deal, tenant, day, page, fresh>>
  BY DEF PageNext, Reload, EditedElsewhere, BilledElsewhere, TimePasses, MarkLive, MarkLiveAnswered,
     MarkLiveFails, StoredUnseen, DismissActivationChecklist, SendInvite, ChooseOutcome, ConfirmClose,
     CloseAnswered, Changes, pageVars
<1>2. CASE UNCHANGED <<deal, tenant, day, page, fresh>>
  BY <1>2 DEF FreshInv, ReadDealLimit, ActiveDeals
<1>3. CASE ~fresh'
  BY <1>3 DEF FreshInv
<1> QED
  BY <1>1, <1>2, <1>3, RendersFresh

LEMMA FreshInvAlways == PageSpec => []FreshInv
  BY InitFreshInv, FreshStepKeeps, PTL DEF PageSpec

(* What the page makes of a cap and a count that were both read is what
   goLivePlan would answer of a draft. *)
LEMMA WallIsRefusal ==
    ASSUME NEW e, NEW count, e # Absent, count # Absent, e.source # "manual", ~e.blocked, e.cap # Unlimited
    PROVE  DealLimitReason(e, count)
               = DealLimitReasonForErrorCode(IF UnderCap(count, e.cap) THEN "ok" ELSE "DEAL_LIMIT_REACHED")
<1>1. DealLimitReason(e, count) = IF count < e.cap THEN "none" ELSE "limit"
  BY DEF DealLimitReason, UnderCap
<1>2. DealLimitReasonForErrorCode("ok") = "none" /\ DealLimitReasonForErrorCode("DEAL_LIMIT_REACHED") = "limit"
  BY DEF DealLimitReasonForErrorCode
<1> QED
  BY <1>1, <1>2 DEF UnderCap

LEMMA ResolvedIsTyped ==
    ASSUME NEW row, NEW now
    PROVE  ResolveEntitlement(row, now).blocked \in BOOLEAN
  BY DEF ResolveEntitlement, FreeEntitlement, TierEntitlementOrFree, IsInGrace

(* deal-limit-state.ts, dealLimitReasonForState, against goLivePlan: on an
   up-to-date page of a draft, the wall shown is the refusal that going live
   would meet, for any caps, grace and number of deals; but for the limit
   shown on the sample, which is refused for what it is. *)
THEOREM WallIsTrueAlways == PageSpec => []WallIsTrue
<1>1. ASSUME FreshInv, fresh, deal.plan = "draft", page.reason # "unknown",
             ResolveEntitlement(tenant.row, day).source # "manual"
      PROVE  \/ page.reason = DealLimitReasonForErrorCode(GoLiveCode)
             \/ GoLiveCode = "SAMPLE_DEAL_LOCKED" /\ page.reason = "limit"
  <2>1. PICK e, count : /\ e \in {ResolveEntitlement(tenant.row, day), Absent}
                        /\ count \in {ActiveDeals, Absent}
                        /\ page.reason = DealLimitReason(e, count)
    BY <1>1 DEF FreshInv, ReadDealLimit
  <2>2. e = ResolveEntitlement(tenant.row, day) /\ e # Absent
    BY <1>1, <2>1 DEF DealLimitReason
  <2>3. e.blocked \in BOOLEAN
    BY <2>2, ResolvedIsTyped
  <2>4. GoLiveCode = IF e.blocked THEN "BILLING_PAST_DUE"
                     ELSE IF deal.sample THEN "SAMPLE_DEAL_LOCKED"
                     ELSE IF UnderCap(ActiveDeals, e.cap) THEN "ok" ELSE "DEAL_LIMIT_REACHED"
    BY <1>1, <2>2, <2>3 DEF GoLiveCode
  <2>5. CASE e.blocked
    <3>1. page.reason = "past-due"
      BY <1>1, <2>1, <2>2, <2>5 DEF DealLimitReason
    <3> QED
      BY <2>4, <2>5, <3>1 DEF DealLimitReasonForErrorCode
  <2>6. CASE ~e.blocked /\ deal.sample
    <3>1. page.reason \in {"none", "limit"}
      BY <1>1, <2>1, <2>2, <2>6 DEF DealLimitReason
    <3>2. GoLiveCode = "SAMPLE_DEAL_LOCKED"
      BY <2>4, <2>6
    <3> QED
      BY <3>1, <3>2 DEF DealLimitReasonForErrorCode
  <2>7. CASE ~e.blocked /\ ~deal.sample /\ e.cap = Unlimited
    <3>1. page.reason = "none"
      BY <1>1, <2>1, <2>2, <2>7 DEF DealLimitReason
    <3>2. GoLiveCode = "ok"
      BY <2>4, <2>7 DEF UnderCap
    <3> QED
      BY <3>1, <3>2 DEF DealLimitReasonForErrorCode
  <2>8. CASE ~e.blocked /\ ~deal.sample /\ e.cap # Unlimited
    <3>1. count = ActiveDeals /\ count # Absent
      BY <1>1, <2>1, <2>2, <2>8 DEF DealLimitReason
    <3> QED
      BY <1>1, <2>1, <2>2, <2>4, <2>8, <3>1, WallIsRefusal
  <2> QED
    BY <2>3, <2>5, <2>6, <2>7, <2>8
<1>2. FreshInv => WallIsTrue
  BY <1>1 DEF WallIsTrue
<1> QED
  BY <1>2, FreshInvAlways, PTL

LEMMA OneSignalInAnyState == OneSignal
<1>1. ASSUME NEW claim, Shouting \subseteq {claim}
      PROVE  OneSignal
  <2>1. Shouting = {} \/ Shouting = {claim}
    BY <1>1
  <2>2. Cardinality(Shouting) = 0 \/ Cardinality(Shouting) = 1
    BY <2>1, FS_EmptySet, FS_Singleton
  <2> QED
    BY <2>2 DEF OneSignal
<1>2. CASE IsDealLimitWallVisible(page)
  <2>1. SignalOwners(page) \subseteq {"checklist"}
    BY <1>2 DEF SignalOwners
  <2>2. Shouting \subseteq {"checklist"}
    BY <2>1 DEF Shouting
  <2> QED
    BY <1>1, <2>2
<1>3. CASE ~IsDealLimitWallVisible(page) /\ page.engagement = "stalled"
  <2>1. SignalOwners(page) \subseteq {"stall"}
    BY <1>3 DEF SignalOwners
  <2>2. Shouting \subseteq {"stall"}
    BY <2>1 DEF Shouting
  <2> QED
    BY <1>1, <2>2
<1>4. CASE ~IsDealLimitWallVisible(page) /\ page.engagement # "stalled"
  <2>1. Walled => client.refused \in Walls /\ page.reason \notin Walls
    BY <1>4 DEF Walled, LiveRowOpen, ChecklistShown, NoticeReason, IsDealLimitWallVisible
  <2>2. CASE ~Walled
    <3>1. Shouting \subseteq {"flip"}
      BY <1>4, <2>2 DEF Signals, StallAlert, Shouting
    <3> QED
      BY <1>1, <3>1
  <2>3. CASE ~client.flip
    <3>1. Shouting \subseteq {"checklist"}
      BY <1>4, <2>3 DEF Signals, StallAlert, Shouting
    <3> QED
      BY <1>1, <3>1
  <2>4. CASE Walled /\ client.flip
    BY <2>1, <2>4 DEF OneSignal
  <2> QED
    BY <2>2, <2>3, <2>4
<1> QED
  BY <1>2, <1>3, <1>4

(* workspace-signal-budget.ts, resolveWorkspaceSignalOwners: whatever was
   rendered and whatever the page went through since - the
   claims need no invariant of the page - its claims never leave
   two elements with the Signal, but for a refusal of its own beside the
   seller's own invite. *)
THEOREM OneSignalAlways == PageSpec => []OneSignal
  BY OneSignalInAnyState, PTL

LEMMA ReasonsAreTyped ==
    /\ \A e, count : DealLimitReason(e, count) \in Reasons
    /\ \A code : DealLimitReasonForErrorCode(code) \in Reasons
  BY DEF DealLimitReason, DealLimitReasonForErrorCode, Reasons, Walls

Plans4 == {"none", "draft", "active", "closed"}
Steps == [populated : BOOLEAN, invited : BOOLEAN, live : BOOLEAN]
PageRecord == [plan : Plans4, dismissed : BOOLEAN, quiet : BOOLEAN, steps : Steps,
               reason : Reasons, engagement : {"active", "stalled", "waiting"}]
ClientRecord == [refused : Reasons, liveCall : BOOLEAN, flip : BOOLEAN,
                 outcome : BOOLEAN, closeCall : BOOLEAN]
TenantRecord == [row : {Absent} \cup SubscriptionRows, others : 0..MaxOthers]

LEMMA RenderedIsTyped ==
    ASSUME deal \in Deals, NEW reason \in Reasons PROVE PageOf(reason) \in PageRecord
<1>1. EngagementState \in {"active", "stalled", "waiting"}
  BY DEF EngagementState
<1>2. PICK quiet \in BOOLEAN : quiet = IsQuietDeal
  BY DEF IsQuietDeal
<1>3. PICK live \in BOOLEAN : live = (deal.plan = "active")
  OBVIOUS
<1>4. PICK steps : steps = [populated |-> deal.hasStep, invited |-> deal.invited, live |-> live]
  OBVIOUS
<1>5. steps = Activation /\ steps \in Steps
  BY <1>3, <1>4 DEF Activation, Steps, Deals
<1>6. PageOf(reason) = [plan |-> deal.plan, steps |-> steps, dismissed |-> deal.dismissed,
                        reason |-> reason, engagement |-> EngagementState, quiet |-> quiet]
  BY <1>2, <1>5 DEF PageOf
<1>7. deal.plan \in Plans4 /\ deal.dismissed \in BOOLEAN
  BY DEF Deals, Plans4
<1> QED
  BY <1>1, <1>5, <1>6, <1>7 DEF PageRecord

LEMMA ReadIsTyped == ReadDealLimit \subseteq Reasons
  BY ReasonsAreTyped DEF ReadDealLimit

LEMMA RendersTyped ==
    ASSUME deal' \in Deals, Renders
    PROVE  page' \in PageRecord /\ fresh' \in BOOLEAN
<1>1. PICK reason \in ReadDealLimit' : page' = PageOf(reason)'
  BY DEF Renders
<1>2. reason \in Reasons
  BY <1>1, ReasonsAreTyped DEF ReadDealLimit
<1>3. PageOf(reason)' \in PageRecord
  <2>1. EngagementState' \in {"active", "stalled", "waiting"}
    BY DEF EngagementState
  <2>2. PICK quiet \in BOOLEAN : quiet = IsQuietDeal'
    BY DEF IsQuietDeal
  <2>3. PICK live \in BOOLEAN : live = (deal'.plan = "active")
    OBVIOUS
  <2>4. PICK steps : steps = [populated |-> deal'.hasStep, invited |-> deal'.invited, live |-> live]
    OBVIOUS
  <2>5. steps = Activation' /\ steps \in Steps
    BY <2>3, <2>4 DEF Activation, Steps, Deals
  <2>6. PageOf(reason)' = [plan |-> deal'.plan, steps |-> steps, dismissed |-> deal'.dismissed,
                           reason |-> reason, engagement |-> EngagementState', quiet |-> quiet]
    BY <2>2, <2>5 DEF PageOf
  <2>7. deal'.plan \in Plans4 /\ deal'.dismissed \in BOOLEAN
    BY DEF Deals, Plans4
  <2> QED
    BY <1>2, <2>1, <2>5, <2>6, <2>7 DEF PageRecord
<1> QED
  BY <1>1, <1>3 DEF Renders

LEMMA PageTypeIs ==
    PageTypeOK <=> /\ deal \in Deals /\ tenant \in TenantRecord /\ page \in PageRecord
                   /\ client \in ClientRecord /\ fresh \in BOOLEAN
                   /\ day \in 1..LastDay /\ elsewhere \in 0..MaxElsewhere
  BY DEF PageTypeOK, TenantRecord, PageRecord, Plans4, Steps, ClientRecord

LEMMA InitPageTyped == PageInit => PageTypeOK
<1> SUFFICES ASSUME PageInit PROVE PageTypeOK
  OBVIOUS
<1>1. deal \in Deals /\ fresh \in BOOLEAN
  BY DEF PageInit
<1>2. PICK reason \in ReadDealLimit : page = PageOf(reason)
  BY DEF PageInit
<1>3. page \in PageRecord
  BY <1>1, <1>2, RenderedIsTyped, ReadIsTyped
<1>4. day \in 1..LastDay /\ elsewhere \in 0..MaxElsewhere
  BY PageAssumption DEF PageInit
<1>5. tenant \in TenantRecord
  BY DEF PageInit, TenantRecord
<1>6. client \in ClientRecord
  BY DEF PageInit, Untouched, ClientRecord, Reasons
<1> QED
  BY <1>1, <1>3, <1>4, <1>5, <1>6, PageTypeIs

LEMMA DealTurns ==
    ASSUME NEW d \in Deals, NEW today \in 0..LastDay, NEW next,
           \/ next \in {d, [d EXCEPT !.plan = "active"], [d EXCEPT !.plan = "closed"],
                        [d EXCEPT !.plan = "draft", !.hasStep = FALSE, !.openSteps = 0],
                        [d EXCEPT !.hasStep = TRUE, !.openSteps = 1],
                        [d EXCEPT !.dismissed = TRUE], [d EXCEPT !.invited = TRUE]}
           \/ next = [d EXCEPT !.active = today]
    PROVE  next \in Deals
  BY DEF Deals

LEMMA ClientTurns ==
    ASSUME NEW c \in ClientRecord, NEW reason \in Reasons, NEW call \in BOOLEAN,
           NEW told \in BOOLEAN, NEW picked \in BOOLEAN, NEW closing \in BOOLEAN, NEW next,
           next = [c EXCEPT !.refused = reason, !.liveCall = call]
           \/ next = [c EXCEPT !.liveCall = call, !.refused = reason]
           \/ next = [c EXCEPT !.liveCall = call] \/ next = [c EXCEPT !.flip = told]
           \/ next = [c EXCEPT !.outcome = picked] \/ next = [c EXCEPT !.closeCall = closing]
    PROVE  next \in ClientRecord
  BY DEF ClientRecord

LEMMA PageStepTyped == PageTypeOK /\ [PageNext]_pageVars => PageTypeOK'
<1> SUFFICES ASSUME PageTypeOK, [PageNext]_pageVars PROVE PageTypeOK'
  OBVIOUS
<1>1. /\ deal \in Deals /\ tenant \in TenantRecord /\ page \in PageRecord /\ client \in ClientRecord
      /\ fresh \in BOOLEAN /\ day \in 1..LastDay /\ elsewhere \in 0..MaxElsewhere
  BY PageTypeIs
<1>2. day \in 0..LastDay /\ day \in Nat /\ elsewhere \in Nat
  BY SMTT(30), <1>1, PageAssumption
<1>3. deal' \in Deals
  <2>1. \/ deal' \in {deal, [deal EXCEPT !.plan = "active"], [deal EXCEPT !.plan = "closed"],
                      [deal EXCEPT !.plan = "draft", !.hasStep = FALSE, !.openSteps = 0],
                      [deal EXCEPT !.hasStep = TRUE, !.openSteps = 1],
                      [deal EXCEPT !.dismissed = TRUE], [deal EXCEPT !.invited = TRUE]}
        \/ deal' = [deal EXCEPT !.active = day]
    BY ZenonT(30) DEF PageNext, Reload, EditedElsewhere, BilledElsewhere, TimePasses, MarkLive, MarkLiveAnswered,
       MarkLiveFails, StoredUnseen, DismissActivationChecklist, SendInvite, ChooseOutcome, ConfirmClose,
       CloseAnswered, pageVars
  <2> QED
    BY <1>1, <1>2, <2>1, DealTurns
<1>4. client' \in ClientRecord
  <2>1. Untouched \in ClientRecord
    BY DEF ClientRecord, Untouched, Reasons
  <2>2. "none" \in Reasons /\ \A code : DealLimitReasonForErrorCode(code) \in Reasons
    BY ReasonsAreTyped DEF Reasons
  <2>3. ASSUME NEW reason \in Reasons, MarkLiveFails(reason) PROVE client' \in ClientRecord
    <3>1. client' = [client EXCEPT !.liveCall = FALSE, !.refused = reason]
      BY <2>3 DEF MarkLiveFails
    <3> QED
      BY <1>1, <3>1 DEF ClientRecord
  <2>4. \/ client' \in {client, Untouched}
        \/ \E reason \in Reasons : MarkLiveFails(reason)
        \/ client' = [client EXCEPT !.refused = "none", !.liveCall = TRUE]
        \/ client' = [client EXCEPT !.liveCall = FALSE]
        \/ \E told \in BOOLEAN : client' = [client EXCEPT !.flip = told]
        \/ client' = [client EXCEPT !.outcome = ~@]
        \/ \E closing \in BOOLEAN : client' = [client EXCEPT !.closeCall = closing]
    BY <2>2 DEF PageNext, Reload, EditedElsewhere, BilledElsewhere, TimePasses, MarkLive, MarkLiveAnswered,
       DismissActivationChecklist, SendInvite, ChooseOutcome, ConfirmClose, CloseAnswered,
       Changes, pageVars
  <2>5. ASSUME client' = [client EXCEPT !.outcome = ~@] PROVE client' \in ClientRecord
    <3>1. PICK picked \in BOOLEAN : picked = ~client.outcome
      OBVIOUS
    <3>2. client' = [client EXCEPT !.outcome = picked]
      BY <2>5, <3>1
    <3> QED
      BY <1>1, <3>2 DEF ClientRecord
  <2> QED
    BY <1>1, <2>1, <2>2, <2>3, <2>4, <2>5, ClientTurns
<1>5. page' \in PageRecord /\ fresh' \in BOOLEAN
  <2>1. Renders \/ (page' = page /\ (fresh' \in {fresh, FALSE} \/ fresh' = (fresh /\ deal' = deal)))
    BY DEF PageNext, Reload, EditedElsewhere, BilledElsewhere, TimePasses, MarkLive, MarkLiveAnswered,
       MarkLiveFails, StoredUnseen, DismissActivationChecklist, SendInvite, ChooseOutcome, ConfirmClose,
       CloseAnswered, Changes, pageVars
  <2> QED
    BY <1>1, <1>3, <2>1, RendersTyped
<1>6. tenant' \in TenantRecord
  <2>1. \/ tenant' = tenant \/ tenant' \in [row : SubscriptionRows, others : 0..MaxOthers]
    BY DEF PageNext, Reload, EditedElsewhere, BilledElsewhere, TimePasses, MarkLive, MarkLiveAnswered,
       DismissActivationChecklist, SendInvite, ChooseOutcome, ConfirmClose, CloseAnswered,
       Changes, pageVars
  <2> QED
    BY <1>1, <2>1 DEF TenantRecord
<1>7. day' \in 1..LastDay /\ elsewhere' \in 0..MaxElsewhere
  <2>1. (day' = day \/ (day < LastDay /\ day' = day + 1))
        /\ (elsewhere' = elsewhere \/ (elsewhere < MaxElsewhere /\ elsewhere' = elsewhere + 1))
    BY DEF PageNext, Reload, EditedElsewhere, BilledElsewhere, TimePasses, MarkLive, MarkLiveAnswered,
       DismissActivationChecklist, SendInvite, ChooseOutcome, ConfirmClose, CloseAnswered,
       Changes, pageVars
  <2> QED
    BY <1>1, <2>1, PageAssumption
<1>8. (deal' \in Deals /\ tenant' \in TenantRecord /\ page' \in PageRecord /\ client' \in ClientRecord
       /\ fresh' \in BOOLEAN /\ day' \in 1..LastDay /\ elsewhere' \in 0..MaxElsewhere) => PageTypeOK'
  BY DEF PageTypeOK, TenantRecord, PageRecord, Plans4, Steps, ClientRecord
<1> QED
  BY <1>3, <1>4, <1>5, <1>6, <1>7, <1>8

(* page.tsx of the workspace and its client parts: whatever was rendered, and
   whatever was read in vain, the deal, the tenant's row, the page and what
   the page went through keep their fields and those fields' values, for any
   limits, tiers and number of days. *)
THEOREM PageTypeCorrect == PageSpec => []PageTypeOK
  BY InitPageTyped, PageStepTyped, PTL DEF PageSpec

-------------------------------------------------------------------------------
(* The plan builder. *)
IsRequest(r) == r = [kind |-> r.kind, list |-> r.list, row |-> r.row, position |-> r.position,
                     at |-> r.at, fresh |-> r.fresh]

(* Only the first action of the queue is being served, and whoever waits for
   a reorder has it there. *)
QueueInv ==
    /\ \E served : queue \in Seq(served)
    /\ \A i \in 1..Len(queue) : IsRequest(queue[i]) /\ (i > 1 => queue[i].at = "sent")
    /\ wanted # <<>> => \E i \in 1..Len(queue) : queue[i].kind = "reorder"

(* Unless the first action has written, the tab has confirmed the order there
   is; a reorder that has written brings it along. *)
OrderInv ==
    ~stale /\ ~crashed =>
        IF queue # <<>> /\ queue[1].at = "written"
        THEN queue[1].kind = "reorder" => queue[1].fresh = Listed(order)
        ELSE confirmed = Listed(order)

TabInv == QueueInv /\ OrderInv

LEMMA InitTabInv == BuilderInit => TabInv
<1> SUFFICES ASSUME BuilderInit PROVE TabInv
  OBVIOUS
<1>1. queue \in Seq({}) /\ Len(queue) = 0 /\ queue = <<>> /\ wanted = <<>>
  BY DEF BuilderInit
<1>2. confirmed = Listed(order)
  BY DEF BuilderInit
<1> QED
  BY <1>1, <1>2 DEF TabInv, QueueInv, OrderInv

LEMMA RequestAppends ==
    ASSUME QueueInv, NEW r, IsRequest(r), r.at = "sent", queue' = Append(queue, r),
           r.kind = "reorder" \/ wanted' = wanted
    PROVE  /\ QueueInv' /\ queue' # <<>>
           /\ queue = <<>> => queue'[1].at = "sent"
           /\ queue # <<>> => queue'[1] = queue[1]
<1>1. PICK served : queue \in Seq(served)
  BY DEF QueueInv
<1>2. queue' \in Seq(served \cup {r}) /\ Len(queue') = Len(queue) + 1
  BY <1>1
<1>3. \A i \in 1..Len(queue) : queue'[i] = queue[i]
  BY <1>1
<1>4. queue'[Len(queue) + 1] = r /\ Len(queue) \in Nat
  BY <1>1
<1>5. \A i \in 1..Len(queue') : i = Len(queue) + 1 \/ i \in 1..Len(queue)
  BY <1>2, <1>4
<1>6. \A i \in 1..Len(queue') : IsRequest(queue'[i]) /\ (i > 1 => queue'[i].at = "sent")
  BY <1>3, <1>4, <1>5 DEF QueueInv
<1>7. wanted' # <<>> => \E i \in 1..Len(queue') : queue'[i].kind = "reorder"
  <2>1. CASE r.kind = "reorder"
    BY <1>2, <1>4, <2>1
  <2>2. CASE wanted' = wanted
    BY <1>2, <1>3, <1>4, <2>2 DEF QueueInv
  <2> QED
    BY <2>1, <2>2
<1>8. QueueInv'
  BY <1>2, <1>6, <1>7 DEF QueueInv, IsRequest
<1>9. queue' # <<>> /\ (queue = <<>> => Len(queue) = 0) /\ (queue # <<>> => Len(queue) > 0)
  BY <1>1, <1>2, <1>4
<1> QED
  BY <1>3, <1>4, <1>8, <1>9

LEMMA RequestAdvances ==
    ASSUME QueueInv, queue # <<>>, NEW r, IsRequest(r), r.kind = queue[1].kind,
           queue' = [queue EXCEPT ![1] = r], wanted' = wanted
    PROVE  QueueInv' /\ queue' # <<>> /\ queue'[1] = r
<1>1. PICK served : queue \in Seq(served)
  BY DEF QueueInv
<1>2. Len(queue) \in Nat /\ Len(queue) > 0
  BY <1>1
<1>3. queue' \in Seq(served \cup {r}) /\ Len(queue') = Len(queue) /\ queue'[1] = r
  BY <1>1, <1>2
<1>4. \A i \in 1..Len(queue) : i > 1 => queue'[i] = queue[i]
  BY <1>1, <1>2
<1>5. \A i \in 1..Len(queue') : IsRequest(queue'[i]) /\ (i > 1 => queue'[i].at = "sent")
  <2> SUFFICES ASSUME NEW i \in 1..Len(queue) PROVE IsRequest(queue'[i]) /\ (i > 1 => queue'[i].at = "sent")
    BY <1>3
  <2>1. CASE i = 1
    BY <1>3, <2>1
  <2>2. CASE i > 1
    BY <1>4, <2>2 DEF QueueInv
  <2> QED
    BY <1>2, <2>1, <2>2
<1>6. wanted' # <<>> => \E i \in 1..Len(queue') : queue'[i].kind = "reorder"
  <2> SUFFICES ASSUME wanted # <<>> PROVE \E i \in 1..Len(queue') : queue'[i].kind = "reorder"
    OBVIOUS
  <2>1. PICK i \in 1..Len(queue) : queue[i].kind = "reorder"
    BY DEF QueueInv
  <2>2. queue'[i].kind = "reorder"
    BY <1>2, <1>3, <1>4, <2>1
  <2> QED
    BY <1>3, <2>2
<1> QED
  BY <1>2, <1>3, <1>5, <1>6 DEF QueueInv, IsRequest

LEMMA RequestLeaves ==
    ASSUME QueueInv, queue # <<>>, queue' = Tail(queue),
           wanted' = <<>> \/ (wanted' = wanted /\ queue[1].kind # "reorder")
    PROVE  QueueInv' /\ (queue' # <<>> => queue'[1].at = "sent")
<1>1. PICK served : queue \in Seq(served)
  BY DEF QueueInv
<1>2. Len(queue) \in Nat /\ Len(queue) > 0
  BY <1>1
<1>3. queue' \in Seq(served) /\ Len(queue') = Len(queue) - 1
  BY <1>1, <1>2
<1>4. \A i \in 1..Len(queue') : queue'[i] = queue[i + 1] /\ i + 1 \in 1..Len(queue) /\ i + 1 > 1
  BY <1>1, <1>2, <1>3
<1>5. \A i \in 1..Len(queue') : IsRequest(queue'[i]) /\ queue'[i].at = "sent"
  BY <1>4 DEF QueueInv
<1>6. wanted' # <<>> => \E i \in 1..Len(queue') : queue'[i].kind = "reorder"
  <2> SUFFICES ASSUME wanted # <<>>, wanted' = wanted, queue[1].kind # "reorder"
               PROVE  \E i \in 1..Len(queue') : queue'[i].kind = "reorder"
    OBVIOUS
  <2>1. PICK i \in 1..Len(queue) : queue[i].kind = "reorder"
    BY DEF QueueInv
  <2>2. i - 1 \in 1..Len(queue') /\ (i - 1) + 1 = i
    BY <1>2, <1>3, <2>1
  <2>3. queue'[i - 1].kind = "reorder"
    BY <1>4, <2>1, <2>2
  <2> QED
    BY <2>2, <2>3
<1>7. queue' # <<>> => 1 \in 1..Len(queue')
  BY <1>3
<1> QED
  BY <1>3, <1>5, <1>6, <1>7 DEF QueueInv, IsRequest

LEMMA RefuseKeeps ==
    ASSUME TabInv, queue # <<>>, queue[1].at # "written", Refuse, UNCHANGED <<order, stale>>
    PROVE  TabInv'
<1>1. queue' = Tail(queue) /\ UNCHANGED <<confirmed, crashed>>
      /\ (wanted' = <<>> \/ (wanted' = wanted /\ queue[1].kind # "reorder"))
  BY DEF Refuse, Running
<1>2. QueueInv' /\ (queue' # <<>> => queue'[1].at = "sent")
  BY <1>1, RequestLeaves DEF TabInv
<1> QED
  BY <1>1, <1>2 DEF TabInv, OrderInv

LEMMA StepKeepsRequest ==
    ASSUME NEW r, IsRequest(r), NEW at, NEW s, s = [r EXCEPT !.at = at]
    PROVE  IsRequest(s) /\ s.at = at /\ s.kind = r.kind
<1>1. PICK kind, list, row, position, was, before :
         r = [kind |-> kind, list |-> list, row |-> row, position |-> position, at |-> was, fresh |-> before]
  BY DEF IsRequest
<1>2. s = [kind |-> kind, list |-> list, row |-> row, position |-> position, at |-> at, fresh |-> before]
  BY <1>1
<1> QED
  BY <1>1, <1>2 DEF IsRequest

LEMMA TabStepKeeps == TabInv /\ [BuilderNext]_builderVars => TabInv'
<1> SUFFICES ASSUME TabInv, [BuilderNext]_builderVars PROVE TabInv'
  OBVIOUS
<1>1. QueueInv /\ OrderInv
  BY DEF TabInv
<1>2. queue # <<>> => Running = queue[1] /\ IsRequest(queue[1])
  <2>1. PICK served : queue \in Seq(served)
    BY <1>1 DEF QueueInv
  <2> QED
    BY <1>1, <2>1 DEF QueueInv, Running
<1>3. ASSUME NEW r, IsRequest(r), r.at = "sent", queue' = Append(queue, r),
             r.kind = "reorder" \/ wanted' = wanted, UNCHANGED <<order, confirmed, crashed, stale>>
      PROVE  TabInv'
  <2>1. /\ QueueInv' /\ queue' # <<>>
        /\ queue = <<>> => queue'[1].at = "sent"
        /\ queue # <<>> => queue'[1] = queue[1]
    BY <1>1, <1>3, RequestAppends
  <2> QED
    BY <1>1, <1>3, <2>1 DEF TabInv, OrderInv
<1>4. ASSUME queue # <<>>, queue[1].at # "written", NEW at, at # "written",
             queue' = [queue EXCEPT ![1] = [queue[1] EXCEPT !.at = at]],
             UNCHANGED <<order, confirmed, wanted, crashed, stale>>
      PROVE  TabInv'
  <2>1. PICK was, r : was = queue[1] /\ r = [was EXCEPT !.at = at]
    OBVIOUS
  <2>2. IsRequest(was)
    BY <1>2, <1>4, <2>1
  <2>3. IsRequest(r) /\ r.at = at /\ r.kind = was.kind
    BY <2>1, <2>2, StepKeepsRequest
  <2>4. QueueInv' /\ queue' # <<>> /\ queue'[1] = r
    BY <1>1, <1>4, <2>1, <2>3, RequestAdvances
  <2> QED
    BY <1>1, <1>4, <2>3, <2>4 DEF TabInv, OrderInv
<1>5. CASE HandleMove
  <2>1. PICK r : r = Request("reorder", wanted', 0, 0)
    OBVIOUS
  <2>2. IsRequest(r) /\ r.at = "sent" /\ r.kind = "reorder"
    BY <2>1 DEF Request, IsRequest
  <2> QED
    BY <1>3, <1>5, <2>1, <2>2 DEF HandleMove
<1>6. CASE SubmitAdd \/ SubmitRow
  <2>1. PICK kind, row, position : queue' = Append(queue, Request(kind, <<>>, row, position))
    BY <1>6 DEF SubmitAdd, SubmitRow
  <2>2. PICK r : r = Request(kind, <<>>, row, position)
    OBVIOUS
  <2>3. IsRequest(r) /\ r.at = "sent"
    BY <2>2 DEF Request, IsRequest
  <2> QED
    BY <1>3, <1>6, <2>1, <2>2, <2>3 DEF SubmitAdd, SubmitRow
<1>7. CASE GateRequest
  BY <1>2, <1>4, <1>7, RefuseKeeps DEF GateRequest, Serving, Now
<1>8. CASE CheckSet
  BY <1>2, <1>4, <1>8, RefuseKeeps DEF CheckSet, Serving, Now
<1>9. CASE RewriteOrder
  <2>1. queue # <<>> /\ Running = queue[1] /\ queue[1].at = "checked" /\ queue[1].kind = "reorder"
    BY <1>2, <1>9 DEF RewriteOrder, Serving
  <2>2. CASE DOMAIN order \subseteq ToSet(Running.list)
    <3>1. PICK brought : brought = Listed(order')
      OBVIOUS
    <3>2. PICK was, r, written : /\ was = queue[1] /\ written = "written"
                                 /\ r = [was EXCEPT !.at = written, !.fresh = brought]
      OBVIOUS
    <3>3. IsRequest(r) /\ r.at = "written" /\ r.kind = "reorder" /\ r.fresh = brought
      <4>1. IsRequest(was) /\ was.kind = "reorder"
        BY <1>2, <2>1, <3>2
      <4>2. PICK kind, list, row, position, at, before :
               was = [kind |-> kind, list |-> list, row |-> row, position |-> position,
                      at |-> at, fresh |-> before]
        BY <4>1 DEF IsRequest
      <4>3. r = [kind |-> kind, list |-> list, row |-> row, position |-> position,
                 at |-> written, fresh |-> brought]
        <5>1. r = [was EXCEPT !.at = written, !.fresh = brought]
          BY <3>2
        <5> QED
          BY <4>2, <5>1
      <4> QED
        BY <3>2, <4>1, <4>2, <4>3 DEF IsRequest
    <3>4. queue' = [queue EXCEPT ![1] = r] /\ UNCHANGED <<confirmed, wanted, crashed>> /\ ~stale'
      BY <1>9, <2>1, <2>2, <3>1, <3>2 DEF RewriteOrder, Now
    <3>5. QueueInv' /\ queue' # <<>> /\ queue'[1] = r
      BY ZenonT(30), <1>1, <2>1, <3>2, <3>3, <3>4, RequestAdvances
    <3> QED
      BY <3>1, <3>3, <3>5 DEF TabInv, OrderInv
  <2>3. CASE ~(DOMAIN order \subseteq ToSet(Running.list))
    BY <1>9, <2>1, <2>3, RefuseKeeps DEF RewriteOrder
  <2> QED
    BY <2>2, <2>3
<1>10. CASE WriteForm
  <2>1. queue # <<>> /\ Running = queue[1] /\ queue[1].at = "open" /\ queue[1].kind \in Forms
    BY <1>2, <1>10 DEF WriteForm, Serving
  <2>2. CASE Now([Running EXCEPT !.at = "written"]) /\ UNCHANGED <<confirmed, wanted, error, crashed>>
    <3>1. PICK was, r : was = queue[1] /\ r = [was EXCEPT !.at = "written"]
      OBVIOUS
    <3>2. IsRequest(r) /\ r.at = "written" /\ r.kind = was.kind
      <4>1. IsRequest(was)
        BY <1>2, <2>1, <3>1
      <4> QED
        BY <3>1, <4>1, StepKeepsRequest
    <3>3. QueueInv' /\ queue' # <<>> /\ queue'[1] = r
      BY <1>1, <2>1, <2>2, <3>1, <3>2, RequestAdvances DEF Now
    <3> QED
      BY <2>1, <3>1, <3>2, <3>3 DEF TabInv, OrderInv, Forms
  <2>3. CASE Refuse /\ UNCHANGED <<order, unused>>
    BY <1>10, <2>1, <2>3, RefuseKeeps DEF WriteForm
  <2> QED
    BY <1>10, <2>2, <2>3 DEF WriteForm
<1>11. CASE AnswerReorder
  <2>1. queue # <<>> /\ Running = queue[1] /\ queue[1].at = "written" /\ queue[1].kind = "reorder"
    BY <1>2, <1>11 DEF AnswerReorder, Serving
  <2>2. QueueInv' /\ (queue' # <<>> => queue'[1].at = "sent")
    BY <1>1, <1>11, <2>1, RequestLeaves DEF AnswerReorder
  <2> QED
    BY <1>1, <1>11, <2>1, <2>2 DEF TabInv, OrderInv, AnswerReorder, MergedOrder
<1>12. CASE AnswerForm
  <2>1. queue # <<>> /\ Running = queue[1] /\ queue[1].at = "written" /\ queue[1].kind \in Forms
    BY <1>2, <1>12 DEF AnswerForm, Serving
  <2>2. QueueInv' /\ (queue' # <<>> => queue'[1].at = "sent")
    BY <1>1, <1>12, <2>1, RequestLeaves DEF AnswerForm, Forms
  <2> QED
    BY <1>12, <2>2 DEF TabInv, OrderInv, AnswerForm
<1>13. CASE LoseReply
  <2>1. queue' \in Seq({}) /\ Len(queue') = 0 /\ wanted' = <<>> /\ crashed'
    BY <1>13 DEF LoseReply
  <2> QED
    BY <2>1 DEF TabInv, QueueInv, OrderInv
<1>14. CASE OtherTab
  BY <1>1, <1>14 DEF OtherTab, TabInv, QueueInv, OrderInv, IsRequest
<1>15. CASE ServerFails
  BY <1>2, <1>15, RefuseKeeps DEF ServerFails
<1>16. CASE AnswerIsLost
  <2>1. QueueInv' /\ stale'
    BY <1>1, <1>2, <1>16, RequestLeaves DEF AnswerIsLost, Refuse, Running
  <2> QED
    BY <2>1 DEF TabInv, OrderInv
<1>17. CASE UNCHANGED builderVars
  BY <1>1, <1>17 DEF builderVars, TabInv, QueueInv, OrderInv, IsRequest
<1> QED
  BY <1>5, <1>6, <1>7, <1>8, <1>9, <1>10, <1>11, <1>12, <1>13, <1>14, <1>15, <1>16, <1>17 DEF BuilderNext

(* The plan builder's reorder and its forms: a tab that waits for nothing
   shows the order there is, for any number of rows and of calls, whatever
   fails before a write; what another tab wrote, or a write of its own that
   was stored and answered as failed, it knows with its next page only. *)
THEOREM SettledTabAgreesAlways == BuilderSpec => []SettledTabAgrees
<1>1. TabInv => SettledTabAgrees
  <2> SUFFICES ASSUME TabInv, queue = <<>>, ~stale, ~crashed PROVE Shown = Listed(order)
    BY DEF SettledTabAgrees
  <2>1. Len(queue) = 0
    OBVIOUS
  <2>2. wanted = <<>>
    BY <2>1 DEF TabInv, QueueInv
  <2> QED
    BY <2>2 DEF TabInv, OrderInv, Shown
<1>2. BuilderSpec => []TabInv
  BY InitTabInv, TabStepKeeps, PTL DEF BuilderSpec
<1> QED
  BY <1>1, <1>2, PTL

(* A list of rows, none of them twice: it is no longer than there are rows. *)
RowList(l) == \E n \in 0..Cardinality(Rows) : l \in [1..n -> Rows] /\ IsInjective(l)
Stations == {"sent", "open", "checked", "written"}
RequestLists(r) ==
    /\ RowList(r.list) /\ RowList(r.fresh) /\ r.position \in 0..Cardinality(Rows)
    /\ r.kind \in Forms \cup {"reorder"} /\ r.row \in Rows \cup {0} /\ r.at \in Stations

(* The rows there are, with their places, and the ids not given yet. *)
PlacesAre(o, left) ==
    /\ DOMAIN o \cap left = {} /\ DOMAIN o \cup left \subseteq Rows
    /\ \A r \in DOMAIN o : o[r] \in 0..Cardinality(Rows)
RequestsAre(q) == \A i \in 1..Len(q) : RequestLists(q[i])
PlacesInv ==
    /\ PlacesAre(order, unused) /\ RequestsAre(queue)
    /\ RowList(confirmed) /\ RowList(wanted)
    /\ {open, error, crashed, stale} \subseteq BOOLEAN /\ builds \in 0..MaxBuilds

LEMMA RowsAreFew ==
    ASSUME NEW ids \in SUBSET Rows
    PROVE  IsFiniteSet(ids) /\ Cardinality(ids) \in Nat /\ Cardinality(Rows) \in Nat
           /\ Cardinality(ids) <= Cardinality(Rows)
<1>1. IsFiniteSet(Rows)
  BY BuilderAssumption
<1>2. IsFiniteSet(ids)
  BY <1>1, FS_Subset
<1>3. Cardinality(ids) <= Cardinality(Rows)
  BY <1>1, FS_Subset
<1>4. Cardinality(ids) \in Nat
  BY <1>2, FS_CardinalityType
<1>5. Cardinality(Rows) \in Nat
  BY <1>1, FS_CardinalityType
<1> QED
  BY <1>2, <1>3, <1>4, <1>5

LEMMA EmptyIsRowList == RowList(<<>>)
<1>1. Cardinality(Rows) \in Nat
  BY RowsAreFew
<1>2. 0 \in 0..Cardinality(Rows) /\ <<>> \in [1..0 -> Rows] /\ DOMAIN <<>> = {}
  BY <1>1
<1>3. IsInjective(<<>>)
  BY <1>2 DEF IsInjective
<1> QED
  BY <1>2, <1>3 DEF RowList

(* listed in their order, the rows are each there once. *)
LEMMA ListedIsRowList ==
    ASSUME NEW o, DOMAIN o \subseteq Rows, \A r \in DOMAIN o : o[r] \in Int
    PROVE  RowList(Listed(o))
<1> DEFINE ids  == DOMAIN o
           row  == [r \in ids |-> [id |-> r, order |-> o[r]]]
           rows == {[id |-> r, order |-> o[r]] : r \in DOMAIN o}
<1>1. IsFiniteSet(ids) /\ Cardinality(ids) \in 0..Cardinality(Rows)
  <2>1. ids \in SUBSET Rows
    OBVIOUS
  <2> HIDE DEF ids
  <2>2. IsFiniteSet(ids) /\ Cardinality(ids) \in Nat /\ Cardinality(Rows) \in Nat
        /\ Cardinality(ids) <= Cardinality(Rows)
    BY <2>1, RowsAreFew
  <2> QED
    BY <2>2
<1>2. \A r \in ids : r \in Int
  <2>1. ids \subseteq Rows
    OBVIOUS
  <2> HIDE DEF ids, row, rows
  <2> QED
    BY <2>1, BuilderAssumption
<1>3. row \in Surjection(ids, rows)
  BY DEF Surjection
<1>4. row \in Injection(ids, rows)
  BY DEF Injection, IsInjective
<1>5. IsFiniteSet(rows) /\ Cardinality(rows) = Cardinality(ids)
  <2> HIDE DEF row, rows, ids
  <2> QED
    BY <1>1, <1>3, <1>4, FS_Surjection
<1>6. AreRows(rows)
  <2>1. \A a \in rows : a.order \in Int /\ a.id \in Int
    BY <1>2
  <2>2. \A a, b \in rows : a.id = b.id => a = b
    OBVIOUS
  <2> QED
    BY <1>5, <2>1, <2>2 DEF AreRows
<1>7. PICK n, list : n = Cardinality(ids) /\ list = InOrder(rows)
  OBVIOUS
<1>8. \A a \in rows : a.id \in ids
  OBVIOUS
<1>9. Listed(o) = [i \in 1..n |-> list[i].id]
  BY <1>7 DEF Listed
<1> HIDE DEF ids, row, rows
<1>10. /\ list \in [1..n -> rows]
       /\ \A i, j \in 1..n : i < j => Before(list[i], list[j])
  BY <1>5, <1>6, <1>7, InOrderSorts
<1>11. n \in Nat
  BY <1>1, <1>7
<1>12. \A i, j \in 1..n : i < j => list[i].id # list[j].id
  <2> SUFFICES ASSUME NEW i \in 1..n, NEW j \in 1..n, i < j, list[i].id = list[j].id PROVE FALSE
    OBVIOUS
  <2>1. list[i] \in rows /\ list[j] \in rows /\ Before(list[i], list[j])
    BY <1>10
  <2>2. list[i] = list[j]
    BY <1>6, <2>1 DEF AreRows
  <2>3. list[i].order \in Int /\ list[i].id \in Int
    BY <1>6, <2>1 DEF AreRows
  <2> QED
    BY <2>1, <2>2, <2>3 DEF Before
<1>13. Listed(o) \in [1..n -> ids]
  BY <1>8, <1>9, <1>10
<1>14. IsInjective(Listed(o))
  <2> SUFFICES ASSUME NEW i \in 1..n, NEW j \in 1..n, list[i].id = list[j].id PROVE i = j
    BY <1>9 DEF IsInjective
  <2> QED
    BY <1>11, <1>12
<1>15. ids \subseteq Rows
  BY DEF ids
<1>16. Listed(o) \in [1..n -> Rows]
  BY <1>13, <1>15
<1> QED
  BY <1>1, <1>7, <1>14, <1>16 DEF RowList

(* moveIndex: two neighbours change places, and no row is lost. *)
LEMMA MovedIsRowList ==
    ASSUME NEW l, RowList(l), NEW i \in DOMAIN l, NEW direction
    PROVE  RowList(Moved(l, i, direction))
<1>1. PICK n \in 0..Cardinality(Rows) : l \in [1..n -> Rows] /\ IsInjective(l)
  BY DEF RowList
<1>2. PICK j : j = IF direction = "up" THEN i - 1 ELSE i + 1
  OBVIOUS
<1>3. i # j /\ i \in 1..n /\ DOMAIN l = 1..n
  BY <1>1, <1>2
<1>4. CASE j \in 1..n
  <2>1. PICK m : m = Moved(l, i, direction)
    OBVIOUS
  <2>2. m = [l EXCEPT ![i] = l[j], ![j] = l[i]]
    BY <1>2, <1>3, <1>4, <2>1 DEF Moved
  <2>3. m \in [1..n -> Rows]
    BY <1>1, <1>3, <1>4, <2>2
  <2>4. \A k \in 1..n : m[k] = IF k = j THEN l[i] ELSE IF k = i THEN l[j] ELSE l[k]
    BY <1>1, <1>3, <1>4, <2>2
  <2>5. \A a, b \in 1..n : l[a] = l[b] => a = b
    BY <1>1, <1>3 DEF IsInjective
  <2>6. \A a, b \in 1..n : m[a] = m[b] => a = b
    BY <1>3, <1>4, <2>4, <2>5
  <2>7. IsInjective(m)
    BY <2>3, <2>6 DEF IsInjective
  <2> QED
    BY <2>1, <2>3, <2>7 DEF RowList
<1>5. CASE j \notin 1..n
  BY <1>2, <1>3, <1>5 DEF Moved
<1> QED
  BY <1>4, <1>5

LEMMA PlaceInIsPlace ==
    ASSUME NEW l, NEW r \in ToSet(l)
    PROVE  PlaceIn(l, r) \in DOMAIN l
<1>1. \E i \in DOMAIN l : l[i] = r
  BY DEF ToSet
<1> QED
  BY <1>1 DEF PlaceIn

(* A list as long as there are rows, none of them twice, has them all. *)
LEMMA ListIsWhole ==
    ASSUME NEW ids, IsFiniteSet(ids), NEW l \in [1..Cardinality(ids) -> ids], IsInjective(l)
    PROVE  ToSet(l) = ids
<1>1. Cardinality(ids) \in Nat
  BY FS_CardinalityType
<1>2. l \in Injection(1..Cardinality(ids), ids)
  BY DEF Injection
<1>3. Cardinality(1..Cardinality(ids)) = Cardinality(ids)
  BY <1>1, FS_Interval
<1>4. l \in Surjection(1..Cardinality(ids), ids)
  BY <1>2, <1>3, FS_Injection
<1> QED
  BY <1>4 DEF Surjection, ToSet
LEMMA InitPlacesInv == BuilderInit => PlacesInv
<1> SUFFICES ASSUME BuilderInit PROVE PlacesInv
  OBVIOUS
<1>1. PICK pair \in SUBSET Rows : Cardinality(pair) = 2 /\ unused = Rows \ pair
  BY DEF BuilderInit
<1>2. 2 <= Cardinality(Rows) /\ Cardinality(Rows) \in Nat
  BY <1>1, RowsAreFew
<1>3. PICK first : order = [r \in pair |-> IF r = first THEN 0 ELSE 1]
  <2>1. Rows \ unused = pair
    BY <1>1
  <2> QED
    BY <2>1 DEF BuilderInit
<1>4. DOMAIN order = pair /\ \A r \in pair : order[r] \in {0, 1}
  BY <1>3
<1>5. PlacesAre(order, unused)
  BY <1>1, <1>2, <1>4 DEF PlacesAre
<1>6. RowList(confirmed)
  <2>1. RowList(Listed(order))
    BY <1>4, ListedIsRowList
  <2> QED
    BY <2>1 DEF BuilderInit
<1>7. RowList(wanted)
  BY EmptyIsRowList DEF BuilderInit
<1>8. RequestsAre(queue)
  BY DEF BuilderInit, RequestsAre
<1>9. {open, error, crashed, stale} \subseteq BOOLEAN
  BY DEF BuilderInit
<1>10. builds \in 0..MaxBuilds
  BY BuilderAssumption DEF BuilderInit
<1> QED
  BY <1>5, <1>6, <1>7, <1>8, <1>9, <1>10 DEF PlacesInv

(* The queue and its requests. *)
LEMMA RequestsAppend ==
    ASSUME QueueInv, RequestsAre(queue), NEW r, RequestLists(r)
    PROVE  RequestsAre(Append(queue, r))
<1>1. PICK served : queue \in Seq(served)
  BY DEF QueueInv
<1>2. PICK n \in Nat : n = Len(queue)
  BY <1>1
<1>3. PICK longer : longer = Append(queue, r)
  OBVIOUS
<1>4. Len(longer) = n + 1 /\ longer[n + 1] = r /\ \A i \in 1..n : longer[i] = queue[i]
  BY <1>1, <1>2, <1>3
<1>5. \A i \in 1..Len(longer) : i = n + 1 \/ i \in 1..n
  BY <1>2, <1>4
<1>6. \A i \in 1..n : RequestLists(queue[i])
  BY <1>2 DEF RequestsAre
<1>7. RequestsAre(longer)
  BY <1>4, <1>5, <1>6 DEF RequestsAre
<1> QED
  BY <1>3, <1>7

LEMMA RequestsAdvance ==
    ASSUME QueueInv, RequestsAre(queue), queue # <<>>, NEW r, RequestLists(r)
    PROVE  RequestsAre([queue EXCEPT ![1] = r])
<1>1. PICK served : queue \in Seq(served)
  BY DEF QueueInv
<1>2. PICK n \in Nat : n = Len(queue)
  BY <1>1
<1>3. PICK next : next = [queue EXCEPT ![1] = r]
  OBVIOUS
<1>4. Len(next) = n /\ \A i \in 1..n : next[i] = IF i = 1 THEN r ELSE queue[i]
  BY <1>1, <1>2, <1>3
<1>5. RequestsAre(next)
  BY <1>2, <1>4 DEF RequestsAre
<1> QED
  BY <1>3, <1>5

LEMMA RequestsLeave ==
    ASSUME QueueInv, RequestsAre(queue), queue # <<>>
    PROVE  RequestsAre(Tail(queue))
<1>1. PICK served : queue \in Seq(served)
  BY DEF QueueInv
<1>2. PICK n \in Nat : n = Len(queue)
  BY <1>1
<1>3. PICK rest : rest = Tail(queue)
  OBVIOUS
<1>4. n > 0
  BY <1>1, <1>2, <1>3
<1>5. Len(rest) = n - 1 /\ \A i \in 1..n - 1 : rest[i] = queue[i + 1] /\ i + 1 \in 1..n
  BY <1>1, <1>2, <1>3, <1>4
<1>6. RequestsAre(rest)
  BY <1>2, <1>5 DEF RequestsAre
<1> QED
  BY <1>3, <1>6

LEMMA RequestKeepsLists ==
    ASSUME NEW r, IsRequest(r), RequestLists(r), NEW at \in Stations
    PROVE  RequestLists([r EXCEPT !.at = at])
<1>1. PICK kind, list, row, position, was, before :
         r = [kind |-> kind, list |-> list, row |-> row, position |-> position, at |-> was, fresh |-> before]
  BY DEF IsRequest
<1>2. PICK s : s = [r EXCEPT !.at = at]
  OBVIOUS
<1>3. s = [kind |-> kind, list |-> list, row |-> row, position |-> position, at |-> at, fresh |-> before]
  BY <1>1, <1>2
<1>4. RequestLists(s)
  BY <1>1, <1>3 DEF RequestLists
<1> QED
  BY <1>2, <1>4

LEMMA RequestBringsList ==
    ASSUME NEW r, IsRequest(r), RequestLists(r), NEW at \in Stations, NEW fresh0, RowList(fresh0)
    PROVE  RequestLists([r EXCEPT !.at = at, !.fresh = fresh0])
<1>1. PICK kind, list, row, position, was, before :
         r = [kind |-> kind, list |-> list, row |-> row, position |-> position, at |-> was, fresh |-> before]
  BY DEF IsRequest
<1>2. PICK s : s = [r EXCEPT !.at = at, !.fresh = fresh0]
  OBVIOUS
<1>3. s = [kind |-> kind, list |-> list, row |-> row, position |-> position, at |-> at, fresh |-> fresh0]
  BY <1>1, <1>2
<1>4. RequestLists(s)
  BY <1>1, <1>3 DEF RequestLists
<1> QED
  BY <1>2, <1>4

(* A row more, a row less, and the rows put in the places of a list. *)
LEMMA RowJoins ==
    ASSUME NEW o, NEW left, PlacesAre(o, left), NEW r \in left, NEW position \in 0..Cardinality(Rows)
    PROVE  PlacesAre(With(o, r, position), left \ {r})
<1>1. PICK next : next = With(o, r, position)
  OBVIOUS
<1>2. DOMAIN next = DOMAIN o \cup {r} /\ \A x \in DOMAIN next : next[x] = IF x = r THEN position ELSE o[x]
  BY <1>1 DEF With
<1>3. PlacesAre(next, left \ {r})
  BY <1>2 DEF PlacesAre
<1> QED
  BY <1>1, <1>3

LEMMA RowGoes ==
    ASSUME NEW o, NEW left, PlacesAre(o, left), NEW r
    PROVE  PlacesAre(Without(o, r), left)
<1>1. PICK next : next = Without(o, r)
  OBVIOUS
<1>2. DOMAIN next = DOMAIN o \ {r} /\ \A x \in DOMAIN next : next[x] = o[x]
  BY <1>1 DEF Without
<1>3. PlacesAre(next, left)
  BY <1>2 DEF PlacesAre
<1> QED
  BY <1>1, <1>3

LEMMA RowsTakePlaces ==
    ASSUME NEW o, NEW left, PlacesAre(o, left), NEW n \in 0..Cardinality(Rows), NEW l, DOMAIN l = 1..n,
           DOMAIN o \subseteq ToSet(l), NEW next, next = [r \in DOMAIN o |-> PlaceIn(l, r)]
    PROVE  PlacesAre(next, left) /\ DOMAIN next = DOMAIN o
<1>1. Cardinality(Rows) \in Nat
  BY RowsAreFew
<1>2. \A r \in DOMAIN o : PlaceIn(l, r) \in 1..n
  BY PlaceInIsPlace
<1>3. DOMAIN next = DOMAIN o /\ \A r \in DOMAIN o : next[r] \in 0..Cardinality(Rows)
  BY <1>1, <1>2
<1> QED
  BY <1>3 DEF PlacesAre

LEMMA BuilderStepPlaces == TabInv /\ PlacesInv /\ [BuilderNext]_builderVars => PlacesInv'
<1> SUFFICES ASSUME TabInv, PlacesInv, [BuilderNext]_builderVars PROVE PlacesInv'
  OBVIOUS
<1>1. /\ PlacesAre(order, unused) /\ RequestsAre(queue) /\ RowList(confirmed) /\ RowList(wanted)
      /\ {open, error, crashed, stale} \subseteq BOOLEAN /\ builds \in 0..MaxBuilds
      /\ QueueInv /\ Cardinality(Rows) \in Nat
  BY RowsAreFew DEF PlacesInv, TabInv
<1>2. queue # <<>> => Running = queue[1] /\ IsRequest(queue[1]) /\ RequestLists(queue[1])
  <2>1. PICK served : queue \in Seq(served)
    BY <1>1 DEF QueueInv
  <2> QED
    BY <1>1, <2>1 DEF QueueInv, RequestsAre, Running
<1>3. Build => builds' \in 0..MaxBuilds
  BY <1>1, BuilderAssumption DEF Build
<1>4. ASSUME NEW r, RequestLists(r), queue' = Append(queue, r), RowList(wanted'), Build,
             error' \in {error, FALSE}, UNCHANGED <<open, order, unused, confirmed, crashed, stale>>
      PROVE  PlacesInv'
  <2>1. RequestsAre(queue')
    BY <1>1, <1>4, RequestsAppend
  <2> QED
    BY <1>1, <1>3, <1>4, <2>1 DEF PlacesInv
<1>5. ASSUME queue # <<>>, Refuse, UNCHANGED <<open, order, unused, builds>>, stale' \in BOOLEAN
      PROVE  PlacesInv'
  <2>1. RequestsAre(queue') /\ RowList(wanted')
    BY <1>1, <1>5, RequestsLeave, EmptyIsRowList DEF Refuse
  <2>2. error' \in BOOLEAN /\ UNCHANGED <<confirmed, crashed>>
    BY <1>1, <1>5 DEF Refuse
  <2> QED
    BY <1>1, <1>5, <2>1, <2>2 DEF PlacesInv
<1>6. ASSUME queue # <<>>, NEW r, RequestLists(r), Now(r), PlacesAre(order', unused'), stale' \in BOOLEAN,
             UNCHANGED <<open, confirmed, wanted, error, crashed, builds>>
      PROVE  PlacesInv'
  <2>1. RequestsAre(queue')
    BY <1>1, <1>6, RequestsAdvance DEF Now
  <2> QED
    BY <1>1, <1>6, <2>1 DEF PlacesInv
<1>7. CASE HandleMove
  <2>1. PICK i, direction : i \in DOMAIN Shown /\ wanted' = Moved(Shown, i, direction)
    BY <1>7 DEF HandleMove
  <2>2. RowList(Shown)
    BY <1>1 DEF Shown
  <2>3. RowList(wanted')
    BY <2>1, <2>2, MovedIsRowList
  <2>4. PICK r : r = Request("reorder", wanted', 0, 0)
    OBVIOUS
  <2>5. RequestLists(r)
    BY <1>1, <2>3, <2>4, EmptyIsRowList DEF Request, RequestLists, Stations
  <2> QED
    BY <1>4, <1>7, <2>3, <2>4, <2>5 DEF HandleMove
<1>8. CASE SubmitAdd
  <2>1. Len(confirmed) \in 0..Cardinality(Rows)
    BY <1>1 DEF RowList
  <2>2. PICK r : r = Request("add", <<>>, 0, Len(confirmed))
    OBVIOUS
  <2>3. RequestLists(r)
    BY <2>1, <2>2, EmptyIsRowList DEF Request, RequestLists, Stations, Forms
  <2> QED
    BY <1>1, <1>4, <1>8, <2>2, <2>3 DEF SubmitAdd
<1>9. CASE SubmitRow
  <2>1. PICK kind \in {"save", "delete"}, i \in DOMAIN Shown :
          queue' = Append(queue, Request(kind, <<>>, Shown[i], 0))
    BY <1>9 DEF SubmitRow
  <2>2. PICK r : r = Request(kind, <<>>, Shown[i], 0)
    OBVIOUS
  <2>3. RequestLists(r)
    <3>1. RowList(Shown)
      BY <1>1 DEF Shown
    <3>2. Shown[i] \in Rows
      BY <3>1 DEF RowList
    <3> QED
      BY <1>1, <2>2, <3>2, EmptyIsRowList DEF Request, RequestLists, Stations, Forms
  <2> QED
    BY <1>1, <1>4, <1>9, <2>1, <2>2, <2>3 DEF SubmitRow
<1>10. CASE GateRequest \/ CheckSet
  <2>1. queue # <<>> /\ Running = queue[1] /\ RequestLists(Running) /\ IsRequest(Running)
    BY <1>2, <1>10 DEF GateRequest, CheckSet, Serving
  <2>2. UNCHANGED <<open, order, unused, stale, builds>>
    BY <1>10 DEF GateRequest, CheckSet
  <2>3. CASE Refuse
    BY <1>1, <1>5, <2>1, <2>2, <2>3
  <2>4. ASSUME NEW at \in Stations, Now([Running EXCEPT !.at = at]),
               UNCHANGED <<confirmed, wanted, error, crashed>>
        PROVE  PlacesInv'
    BY <1>1, <1>6, <2>1, <2>2, <2>4, RequestKeepsLists
  <2> QED
    BY <1>10, <2>3, <2>4 DEF GateRequest, CheckSet, Stations
<1>11. CASE RewriteOrder
  <2>1. queue # <<>> /\ Running = queue[1] /\ RequestLists(Running) /\ IsRequest(Running)
    BY <1>2, <1>11 DEF RewriteOrder, Serving
  <2>2. CASE ~(DOMAIN order \subseteq ToSet(Running.list))
    BY <1>1, <1>5, <1>11, <2>1, <2>2 DEF RewriteOrder
  <2>3. CASE DOMAIN order \subseteq ToSet(Running.list)
    <3>1. PICK brought : brought = Listed(order')
      OBVIOUS
    <3>2. /\ DOMAIN order \subseteq ToSet(Running.list)
          /\ order' = [r \in DOMAIN order |-> PlaceIn(Running.list, r)]
          /\ Now([Running EXCEPT !.at = "written", !.fresh = brought])
          /\ stale' = FALSE /\ UNCHANGED <<open, unused, builds, confirmed, wanted, error, crashed>>
      BY <1>11, <2>3, <3>1 DEF RewriteOrder
    <3>3. PICK n, list : n \in 0..Cardinality(Rows) /\ list = Running.list /\ DOMAIN list = 1..n
      BY <2>1 DEF RequestLists, RowList
    <3>4. PlacesAre(order', unused)
      BY <1>1, <3>2, <3>3, RowsTakePlaces
    <3>5. RowList(brought)
      BY <3>1, <3>4, ListedIsRowList DEF PlacesAre
    <3>6. RequestLists([Running EXCEPT !.at = "written", !.fresh = brought])
      BY <2>1, <3>5, RequestBringsList DEF Stations
    <3> QED
      BY <1>6, <2>1, <3>2, <3>4, <3>6
  <2> QED
    BY <2>2, <2>3
<1>12. CASE WriteForm
  <2>1. queue # <<>> /\ Running = queue[1] /\ RequestLists(Running) /\ IsRequest(Running)
    BY <1>2, <1>12 DEF WriteForm, Serving
  <2>2. UNCHANGED <<open, stale, builds>>
    BY <1>12 DEF WriteForm
  <2>3. CASE Refuse /\ UNCHANGED <<order, unused>>
    BY <1>1, <1>5, <2>1, <2>2, <2>3
  <2>4. CASE Now([Running EXCEPT !.at = "written"]) /\ UNCHANGED <<confirmed, wanted, error, crashed>>
    <3>1. RequestLists([Running EXCEPT !.at = "written"])
      BY <2>1, RequestKeepsLists DEF Stations
    <3>2. CASE \E r \in unused : order' = With(order, r, Running.position) /\ unused' = unused \ {r}
      <4>1. Running.position \in 0..Cardinality(Rows)
        BY <2>1 DEF RequestLists
      <4>2. PlacesAre(order', unused')
        BY <1>1, <3>2, <4>1, RowJoins
      <4> QED
        BY <1>1, <1>6, <2>1, <2>2, <2>4, <3>1, <4>2
    <3>3. CASE order' \in {order, Without(order, Running.row)} /\ UNCHANGED unused
      <4>1. PlacesAre(order', unused')
        BY <1>1, <3>3, RowGoes
      <4> QED
        BY <1>1, <1>6, <2>1, <2>2, <2>4, <3>1, <4>1
    <3>4. CASE Refuse /\ UNCHANGED <<order, unused>>
      BY <2>3, <3>4
    <3> QED
      BY <1>12, <3>2, <3>3, <3>4 DEF WriteForm
  <2> QED
    BY <1>12, <2>3, <2>4 DEF WriteForm
<1>13. CASE AnswerReorder \/ AnswerForm
  <2>1. queue # <<>> /\ Running = queue[1] /\ RequestLists(Running)
    BY <1>2, <1>13 DEF AnswerReorder, AnswerForm, Serving
  <2>2. RequestsAre(queue')
    BY <1>1, <1>13, <2>1, RequestsLeave DEF AnswerReorder, AnswerForm
  <2>3. DOMAIN order \subseteq Rows /\ \A r \in DOMAIN order : order[r] \in Int
    BY <1>1 DEF PlacesAre
  <2>4. RowList(Listed(order))
    BY <2>3, ListedIsRowList
  <2>5. RowList(confirmed') /\ RowList(wanted')
    BY <1>1, <1>13, <2>1, <2>4, EmptyIsRowList DEF AnswerReorder, AnswerForm, MergedOrder, RequestLists
  <2>6. UNCHANGED <<open, order, unused, error, crashed, builds>> /\ stale' \in {stale, FALSE}
    BY <1>13 DEF AnswerReorder, AnswerForm
  <2> QED
    BY <1>1, <2>2, <2>5, <2>6 DEF PlacesInv
<1>14. CASE LoseReply
  <2>1. RequestsAre(queue') /\ RowList(wanted')
    BY <1>14, EmptyIsRowList DEF LoseReply, RequestsAre
  <2> QED
    BY <1>1, <1>14, <2>1 DEF LoseReply, PlacesInv
<1>15. CASE OtherTab
  <2>1. UNCHANGED <<confirmed, queue, wanted, error, crashed>> /\ stale' = TRUE /\ open' \in {open, FALSE}
    BY <1>15 DEF OtherTab
  <2>2. builds' \in 0..MaxBuilds
    BY <1>3, <1>15 DEF OtherTab
  <2>3. DOMAIN order \subseteq Rows
    BY <1>1 DEF PlacesAre
  <2>4. PICK c : c = Cardinality(DOMAIN order)
    OBVIOUS
  <2>5. IsFiniteSet(DOMAIN order) /\ c \in 0..Cardinality(Rows)
    BY <2>3, <2>4, RowsAreFew
  <2>6. PlacesAre(order', unused')
    <3>1. ASSUME NEW r \in unused, NEW position \in 0..c, order' = With(order, r, position),
                 unused' = unused \ {r}
          PROVE  PlacesAre(order', unused')
      BY <1>1, <2>5, <3>1, RowJoins
    <3>2. ASSUME NEW r, order' = Without(order, r), UNCHANGED unused
          PROVE  PlacesAre(order', unused')
      BY <1>1, <3>2, RowGoes
    <3>3. ASSUME NEW list \in [1..c -> DOMAIN order], IsInjective(list),
                 order' = [r \in DOMAIN order |-> PlaceIn(list, r)], UNCHANGED unused
          PROVE  PlacesAre(order', unused')
      <4>1. ToSet(list) = DOMAIN order
        BY <2>4, <2>5, <3>3, ListIsWhole
      <4>2. DOMAIN list = 1..c
        BY <3>3
      <4> QED
        BY <1>1, <2>5, <3>3, <4>1, <4>2, RowsTakePlaces
    <3> QED
      BY <1>1, <1>15, <2>4, <3>1, <3>2, <3>3 DEF OtherTab
  <2> QED
    BY <1>1, <2>1, <2>2, <2>6 DEF PlacesInv
<1>16. CASE ServerFails \/ AnswerIsLost
  BY <1>1, <1>5, <1>16 DEF ServerFails, AnswerIsLost
<1>17. CASE UNCHANGED builderVars
  BY <1>1, <1>17 DEF builderVars, PlacesInv
<1> QED
  BY <1>7, <1>8, <1>9, <1>10, <1>11, <1>12, <1>13, <1>14, <1>15, <1>16, <1>17 DEF BuilderNext

(* The builder's lists and display_order of migration 0007: whatever moves,
   forms and other tabs do, no row is shown twice, and every row keeps a
   place among them, for any number of rows. *)
THEOREM BuilderTypeCorrect == BuilderSpec => []BuilderTypeOK
<1>1. TabInv /\ PlacesInv => BuilderTypeOK
  <2>1. ASSUME NEW l, RowList(l) PROVE ToSet(l) \subseteq Rows /\ IsInjective(l)
    BY <2>1 DEF RowList, ToSet
  <2>2. ASSUME TabInv, PlacesInv, NEW i \in DOMAIN queue PROVE RequestLists(queue[i])
    BY <2>2 DEF TabInv, QueueInv, PlacesInv, RequestsAre
  <2> QED
    BY <2>1, <2>2 DEF PlacesInv, PlacesAre, BuilderTypeOK, RequestLists, Stations
<1>2. BuilderSpec => [](TabInv /\ PlacesInv)
  BY InitTabInv, InitPlacesInv, TabStepKeeps, BuilderStepPlaces, PTL DEF BuilderSpec
<1> QED
  BY <1>1, <1>2, PTL

-------------------------------------------------------------------------------
(* The forms filled from a web page. *)
IsLookup(r) == r = [of |-> r.of, pc |-> r.pc, late |-> r.late, landed |-> r.landed]

(* What an answer that can still land was asked for is in the field, and what
   was taken over has landed. *)
Current(i) ==
    /\ IsLookup(lookups[i])
    /\ latest = i \/ (lookups[i].pc = "body" /\ ~lookups[i].late) => lookups[i].of = site
    /\ i \in {name, offered} => lookups[i].pc = "over"
                                /\ (lookups[i].late \/ lookups[i].landed = lookups[i].of)
FormInv ==
    /\ \E kept : lookups \in Seq(kept)
    /\ name \in {Empty, Typed} \cup 1..Len(lookups) /\ offered \in 0..Len(lookups)
    /\ latest \in 0..Len(lookups)
    /\ \A i \in 1..Len(lookups) : Current(i)
CompanyInv == form = "company" => FormInv

LEMMA InitCompanyInv == PrefillInit => CompanyInv
<1> SUFFICES ASSUME PrefillInit PROVE FormInv
  BY DEF CompanyInv
<1>1. lookups \in Seq({}) /\ Len(lookups) = 0
  BY DEF PrefillInit
<1> QED
  BY <1>1 DEF PrefillInit, FormInv

LEMMA FormIsEmptied == Emptied => FormInv'
<1> SUFFICES ASSUME Emptied PROVE FormInv'
  OBVIOUS
<1>1. lookups' \in Seq({}) /\ Len(lookups') = 0
  BY DEF Emptied
<1> QED
  BY <1>1 DEF Emptied, FormInv

(* Outdated: the bodies that are on their way are late, and no more. *)
LEMMA OutdatedIs ==
    ASSUME FormInv
    PROVE  /\ \E kept : Outdated \in Seq(kept)
           /\ Len(Outdated) = Len(lookups)
           /\ \A i \in 1..Len(lookups) :
                 /\ IsLookup(Outdated[i]) /\ Outdated[i].of = lookups[i].of
                 /\ Outdated[i].pc = lookups[i].pc /\ Outdated[i].landed = lookups[i].landed
                 /\ lookups[i].pc = "body" => Outdated[i].late
                 /\ lookups[i].pc # "body" => Outdated[i].late = lookups[i].late
<1>1. PICK kept : lookups \in Seq(kept)
  BY DEF FormInv
<1>2. DOMAIN lookups = 1..Len(lookups) /\ Len(lookups) \in Nat
  BY <1>1
<1>3. PICK rows : rows = {Outdated[i] : i \in 1..Len(lookups)}
  OBVIOUS
<1>4. Outdated \in [1..Len(lookups) -> rows]
  BY <1>2, <1>3 DEF Outdated
<1>5. Outdated \in Seq(rows) /\ Len(Outdated) = Len(lookups)
  BY <1>2, <1>4
<1>6. ASSUME NEW i \in 1..Len(lookups)
      PROVE  /\ IsLookup(Outdated[i]) /\ Outdated[i].of = lookups[i].of
             /\ Outdated[i].pc = lookups[i].pc /\ Outdated[i].landed = lookups[i].landed
             /\ lookups[i].pc = "body" => Outdated[i].late
             /\ lookups[i].pc # "body" => Outdated[i].late = lookups[i].late
  <2>1. PICK r : r = lookups[i] /\ IsLookup(r)
    BY <1>6 DEF FormInv, Current
  <2>2. PICK of, pc, late, landed : r = [of |-> of, pc |-> pc, late |-> late, landed |-> landed]
    BY <2>1 DEF IsLookup
  <2>3. Outdated[i] = IF r.pc = "body" THEN [r EXCEPT !.late = TRUE] ELSE r
    BY <1>2, <1>6, <2>1 DEF Outdated, Superseded
  <2>4. PICK s : s = [r EXCEPT !.late = TRUE]
    OBVIOUS
  <2>5. s = [of |-> of, pc |-> pc, late |-> TRUE, landed |-> landed]
    BY <2>2, <2>4
  <2>6. CASE pc = "body"
    BY <2>1, <2>2, <2>3, <2>4, <2>5, <2>6 DEF IsLookup
  <2>7. CASE pc # "body"
    BY <2>1, <2>2, <2>3, <2>7 DEF IsLookup
  <2> QED
    BY <2>6, <2>7
<1> QED
  BY <1>5, <1>6

(* A lookup turns over, and the others are as they were. *)
LEMMA LookupTurns ==
    ASSUME FormInv, NEW i \in 1..Len(lookups), NEW r, IsLookup(r), r.of = lookups[i].of,
           lookups' = [lookups EXCEPT ![i] = r],
           UNCHANGED <<site, latest>>,
           name' \in {name, i}, offered' \in {offered, i},
           r.pc = "body" /\ ~r.late => latest = i \/ (lookups[i].pc = "body" /\ ~lookups[i].late),
           i \in {name', offered'} => r.pc = "over" /\ (r.late \/ r.landed = r.of)
    PROVE  FormInv'
<1>1. PICK kept : lookups \in Seq(kept)
  BY DEF FormInv
<1>2. lookups' \in Seq(kept \cup {r}) /\ Len(lookups') = Len(lookups) /\ lookups'[i] = r
  BY <1>1
<1>3. \A j \in 1..Len(lookups) : j # i => lookups'[j] = lookups[j]
  BY <1>1
<1>4. name' \in {Empty, Typed} \cup 1..Len(lookups') /\ offered' \in 0..Len(lookups')
      /\ latest' \in 0..Len(lookups')
  BY <1>1, <1>2 DEF FormInv
<1>5. ASSUME NEW j \in 1..Len(lookups)
      PROVE  /\ IsLookup(lookups'[j])
             /\ latest' = j \/ (lookups'[j].pc = "body" /\ ~lookups'[j].late) => lookups'[j].of = site'
             /\ j \in {name', offered'} => lookups'[j].pc = "over"
                                           /\ (lookups'[j].late \/ lookups'[j].landed = lookups'[j].of)
  <2>1. CASE j = i
    BY <1>2, <1>5, <2>1 DEF FormInv, Current
  <2>2. CASE j # i
    BY <1>3, <1>5, <2>2 DEF FormInv, Current
  <2> QED
    BY <2>1, <2>2
<1>6. \A j \in 1..Len(lookups') : Current(j)'
  BY <1>2, <1>5 DEF Current, IsLookup
<1> QED
  BY <1>2, <1>4, <1>6 DEF FormInv

LEMMA LookupEnds ==
    ASSUME FormInv, NEW i \in 1..Len(lookups), Ends(i), UNCHANGED <<site, latest, name, offered>>
    PROVE  FormInv'
<1>1. PICK was, of, pc, late, landed :
        was = lookups[i] /\ was = [of |-> of, pc |-> pc, late |-> late, landed |-> landed]
  BY DEF FormInv, Current, IsLookup
<1>2. PICK r : r = [was EXCEPT !.pc = "over"]
  OBVIOUS
<1>3. r = [of |-> of, pc |-> "over", late |-> late, landed |-> landed]
  BY <1>1, <1>2
<1>4. PICK kept : lookups \in Seq(kept)
  BY DEF FormInv
<1>5. lookups' = [lookups EXCEPT ![i] = r]
  BY <1>1, <1>2, <1>4 DEF Ends
<1>6. IsLookup(r) /\ r.of = was.of /\ r.pc = "over" /\ r.late = was.late /\ r.landed = was.landed
  BY <1>1, <1>3 DEF IsLookup
<1>7. i \in {name, offered} => r.late \/ r.landed = r.of
  BY <1>1, <1>6 DEF FormInv, Current
<1> QED
  BY <1>1, <1>5, <1>6, <1>7, LookupTurns

(* requestSuggestion and reset: what was asked before can no longer land. *)
LEMMA FormResets ==
    ASSUME FormInv, Reset, UNCHANGED name, offered' = 0
    PROVE  FormInv'
<1>1. /\ \E kept : lookups' \in Seq(kept)
      /\ Len(lookups') = Len(lookups)
      /\ \A i \in 1..Len(lookups) :
                 /\ IsLookup(lookups'[i]) /\ lookups'[i].of = lookups[i].of
                 /\ lookups'[i].pc = lookups[i].pc /\ lookups'[i].landed = lookups[i].landed
                 /\ lookups[i].pc = "body" => lookups'[i].late
                 /\ lookups[i].pc # "body" => lookups'[i].late = lookups[i].late
  BY OutdatedIs DEF Reset
<1>2. latest' = 0 /\ Len(lookups) \in Nat
  BY DEF Reset, FormInv
<1>3. ASSUME NEW j \in 1..Len(lookups)
      PROVE  /\ IsLookup(lookups'[j])
             /\ latest' = j \/ (lookups'[j].pc = "body" /\ ~lookups'[j].late) => lookups'[j].of = site'
             /\ j \in {name', offered'} => lookups'[j].pc = "over"
                                           /\ (lookups'[j].late \/ lookups'[j].landed = lookups'[j].of)
  BY <1>1, <1>2, <1>3 DEF FormInv, Current
<1>4. \A j \in 1..Len(lookups') : Current(j)'
  BY <1>1, <1>3 DEF Current, IsLookup
<1> QED
  BY <1>1, <1>2, <1>4 DEF FormInv

LEMMA FormAsks ==
    ASSUME FormInv, RequestSuggestion(site), UNCHANGED <<site, name>>, offered' = 0
    PROVE  FormInv'
<1>1. CASE site = Blank
  BY <1>1, FormResets DEF RequestSuggestion
<1>2. CASE site # Blank
  <2>1. PICK before, kept : /\ before = Outdated /\ before \in Seq(kept)
                              /\ Len(before) = Len(lookups)
    BY OutdatedIs
  <2>2. \A i \in 1..Len(lookups) :
                 /\ IsLookup(before[i]) /\ before[i].of = lookups[i].of
                 /\ before[i].pc = lookups[i].pc /\ before[i].landed = lookups[i].landed
                 /\ lookups[i].pc = "body" => before[i].late
                 /\ lookups[i].pc # "body" => before[i].late = lookups[i].late
    BY <2>1, OutdatedIs
  <2>3. PICK r : r = [of |-> site, pc |-> "sent", late |-> FALSE, landed |-> Blank]
    OBVIOUS
  <2>4. lookups' = Append(before, r) /\ latest' = Len(lookups) + 1
    BY <1>2, <2>1, <2>3 DEF RequestSuggestion
  <2>5. lookups' \in Seq(kept \cup {r}) /\ Len(lookups') = Len(lookups) + 1 /\ Len(lookups) \in Nat
    BY <2>1, <2>4
  <2>6. \A i \in 1..Len(lookups) : lookups'[i] = before[i] /\ i # Len(lookups) + 1
    BY <2>1, <2>4, <2>5
  <2>7. lookups'[Len(lookups) + 1] = r
    BY <2>1, <2>4, <2>5
  <2>8. name' \in {Empty, Typed} \cup 1..Len(lookups) /\ name' # Len(lookups) + 1 /\ offered' # Len(lookups) + 1
    BY <2>5 DEF FormInv, Empty, Typed
  <2>9. ASSUME NEW j \in 1..Len(lookups')
        PROVE  /\ IsLookup(lookups'[j])
               /\ latest' = j \/ (lookups'[j].pc = "body" /\ ~lookups'[j].late) => lookups'[j].of = site'
               /\ j \in {name', offered'} => lookups'[j].pc = "over"
                                             /\ (lookups'[j].late \/ lookups'[j].landed = lookups'[j].of)
    <3>1. CASE j = Len(lookups) + 1
      BY <2>3, <2>7, <2>8, <3>1 DEF IsLookup
    <3>2. CASE j \in 1..Len(lookups)
      BY <2>2, <2>4, <2>6, <3>2 DEF FormInv, Current
    <3> QED
      BY <2>5, <2>9, <3>1, <3>2
  <2>10. \A j \in 1..Len(lookups') : Current(j)'
    BY <2>9 DEF Current, IsLookup
  <2> QED
    BY <2>4, <2>5, <2>8, <2>10 DEF FormInv
<1> QED
  BY <1>1, <1>2

LEMMA FormTakes ==
    ASSUME FormInv, UNCHANGED <<site, latest, lookups>>,
           name' \in {Empty, Typed, name, offered}, offered' \in {0, offered}
    PROVE  FormInv'
<1>1. \A i \in 1..Len(lookups) : i \in {name', offered'} => i \in {name, offered}
  BY DEF Empty, Typed
<1>2. name' \in {Empty, Typed} \cup 1..Len(lookups)
  BY DEF FormInv, Empty, Typed
<1>3. \A i \in 1..Len(lookups) : Current(i)'
  BY <1>1 DEF FormInv, Current, IsLookup
<1> QED
  BY <1>2, <1>3 DEF FormInv

LEMMA CompanyStepKeeps == CompanyInv /\ [PrefillNext]_prefillVars => CompanyInv'
<1> SUFFICES ASSUME CompanyInv, [PrefillNext]_prefillVars, form' = "company" PROVE FormInv'
  BY SMTT(30) DEF CompanyInv
<1>1. form = "company"
  BY DEF PrefillNext, OnDomainChange, OnDomainBlur, OnCompanyNameChange, ApplySuggestedName, Submit,
     SubmitAnswered, LeaveForm, TypeUrl, TypeLabel, HandleBlur, Headers, Body, LookupFails,
     PreviewAnswered, Emptied, prefillVars, formVars
<1>2. FormInv
  BY <1>1 DEF CompanyInv
<1>3. DOMAIN lookups = 1..Len(lookups)
  BY <1>2 DEF FormInv
<1>4. CASE OnDomainChange
  <2>1. Reset /\ UNCHANGED name /\ offered' = 0
    BY <1>4 DEF OnDomainChange
  <2> QED
    BY <1>2, <2>1, FormResets
<1>5. CASE OnDomainBlur
  <2>1. RequestSuggestion(site) /\ UNCHANGED <<site, name>> /\ offered' = 0
    BY <1>5 DEF OnDomainBlur
  <2> QED
    BY <1>2, <2>1, FormAsks
<1>6. CASE OnCompanyNameChange \/ ApplySuggestedName \/ Submit
  BY <1>2, <1>6, FormTakes DEF OnCompanyNameChange, ApplySuggestedName, Submit
<1>7. CASE SubmitAnswered \/ LeaveForm
  BY <1>2, <1>7, FormIsEmptied, FormTakes DEF SubmitAnswered, LeaveForm
<1>8. CASE TypeUrl \/ TypeLabel \/ HandleBlur
  BY <1>1, <1>8 DEF TypeUrl, TypeLabel, HandleBlur
<1>9. ASSUME NEW i \in 1..Len(lookups), Headers(i) \/ Body(i) \/ LookupFails(i) \/ PreviewAnswered(i)
      PROVE  FormInv'
  <2>1. CASE Ends(i) /\ UNCHANGED <<name, offered>>
    BY <1>1, <1>2, <1>9, <2>1, LookupEnds DEF Headers, Body, LookupFails, PreviewAnswered
  <2>2. PICK was, of, pc, late, landed :
          was = lookups[i] /\ was = [of |-> of, pc |-> pc, late |-> late, landed |-> landed]
    BY <1>2, <1>9 DEF FormInv, Current, IsLookup
  <2>3. was = [of |-> of, pc |-> pc, late |-> late, landed |-> landed]
    BY <2>2
  <2>4. /\ latest = i \/ (was.pc = "body" /\ ~was.late) => was.of = site
        /\ i \in {name, offered} => was.pc = "over" /\ (was.late \/ was.landed = was.of)
    BY <1>2, <1>9, <2>2 DEF FormInv, Current
  <2>5. PICK stored : lookups \in Seq(stored)
    BY <1>2 DEF FormInv
  <2>6. ASSUME Headers(i), lookups' = [lookups EXCEPT ![i].pc = "body"] PROVE FormInv'
    <3>1. was.pc = "sent" /\ UNCHANGED <<site, latest, name, offered>>
      BY <2>2, <2>6 DEF Headers
    <3>2. PICK r : r = [was EXCEPT !.pc = "body"]
      OBVIOUS
    <3>3. r = [of |-> of, pc |-> "body", late |-> late, landed |-> landed]
      BY <2>3, <3>2
    <3>4. lookups' = [lookups EXCEPT ![i] = r]
      BY <1>9, <2>2, <2>5, <2>6, <3>2
    <3>5. IsLookup(r) /\ r.of = was.of /\ i \notin {name, offered}
      BY <2>3, <2>4, <3>1, <3>3 DEF IsLookup
    <3>6. latest = i
      <4>1. lookups' # [lookups EXCEPT ![i].pc = "over"]
        BY <1>9, <2>2, <2>5, <2>6
      <4> QED
        BY <2>6, <4>1 DEF Headers, Wanted, Ends
    <3> QED
      BY <1>2, <1>9, <2>2, <3>1, <3>4, <3>5, <3>6, LookupTurns
  <2>7. ASSUME Body(i), LandTitle(i) PROVE FormInv'
    <3>1. was.pc = "body" /\ UNCHANGED <<site, latest>>
      BY <2>2, <2>7 DEF Body
    <3>2. PICK here, r : here = site /\ r = [was EXCEPT !.pc = "over", !.landed = here]
      OBVIOUS
    <3>3. r = [of |-> of, pc |-> "over", late |-> late, landed |-> here]
      BY <2>3, <3>2
    <3>4. lookups' = [lookups EXCEPT ![i] = r]
      BY <1>9, <2>2, <2>5, <2>7, <3>2 DEF LandTitle
    <3>5. IsLookup(r) /\ r.of = was.of /\ r.pc = "over" /\ (r.late \/ r.landed = r.of)
      BY <2>3, <2>4, <3>1, <3>2, <3>3 DEF IsLookup
    <3>6. name' \in {name, i} /\ offered' \in {offered, i}
      BY <2>7 DEF LandTitle
    <3> QED
      BY <1>2, <1>9, <2>2, <3>1, <3>4, <3>5, <3>6, LookupTurns
  <2> QED
    BY <1>1, <1>9, <2>1, <2>6, <2>7 DEF Headers, Body, LookupFails, PreviewAnswered
<1>10. CASE UNCHANGED prefillVars
  BY <1>2, <1>10, FormTakes DEF prefillVars, formVars
<1> QED
  BY <1>3, <1>4, <1>5, <1>6, <1>7, <1>8, <1>9, <1>10 DEF PrefillNext

(* useScrapeMetaPrefill, requestSuggestion and reset: however the answers of a
   form's lookups come, a name that was filled in or suggested was looked up
   for the domain then in the field, or its body was on its way when the
   field changed; for any web, and any number of lookups. *)
THEOREM SuggestionIsCurrentAlways == PrefillSpec => []SuggestionIsCurrent
<1>1. CompanyInv => SuggestionIsCurrent
  <2> SUFFICES ASSUME FormInv, NEW i \in {name, offered} \cap DOMAIN lookups
               PROVE  lookups[i].late \/ lookups[i].landed = lookups[i].of
    BY DEF CompanyInv, SuggestionIsCurrent
  <2>1. i \in 1..Len(lookups)
    BY DEF FormInv
  <2> QED
    BY <2>1 DEF FormInv, Current
<1>2. PrefillSpec => []CompanyInv
  BY InitCompanyInv, CompanyStepKeeps, PTL DEF PrefillSpec
<1> QED
  BY <1>1, <1>2, PTL

(* A form being submitted has not made its last workspace yet. *)
FieldsInv ==
    /\ PrefillTypeOK
    /\ sending => created < MaxMade

LEMMA InitFieldsInv == PrefillInit => FieldsInv
<1> SUFFICES ASSUME PrefillInit PROVE FieldsInv
  OBVIOUS
<1>1. lookups \in Seq(Lookup) /\ Len(lookups) = 0
  BY DEF PrefillInit
<1>2. created \in 0..MaxMade
  BY PrefillAssumption DEF PrefillInit
<1>3. 0 \in 0..Len(lookups)
  BY <1>1
<1>4. PrefillTypeOK
  BY <1>1, <1>2, <1>3 DEF PrefillInit, PrefillTypeOK
<1>5. ~sending
  BY DEF PrefillInit
<1> QED
  BY <1>1, <1>4, <1>5 DEF FieldsInv

(* Whatever a step does to the lookups, it makes none of them unmade. *)
LEMMA LookupsStay ==
    ASSUME FieldsInv, NEW n \in Nat, Len(lookups') = n, n >= Len(lookups), lookups' \in Seq(Lookup),
           NEW i \in 1..n,
           name' \in {Empty, Typed, name, offered, i}, offered' \in {0, offered, i}, latest' \in {0, latest, i},
           site' \in Domains \cup {Blank}, status' \in {"idle", "loading", "unavailable", status},
           UNCHANGED <<web, form, sending, created>>
    PROVE  FieldsInv'
<1>1. PICK m \in Nat : m = Len(lookups) /\ DOMAIN lookups = 1..m
  BY DEF FieldsInv, PrefillTypeOK
<1>2. DOMAIN lookups' = 1..n
  OBVIOUS
<1>3. name \in {Empty, Typed} \cup 1..m /\ offered \in 0..m /\ latest \in 0..m
  BY <1>1 DEF FieldsInv, PrefillTypeOK
<1>4. offered' \in 0..n /\ latest' \in 0..n
  BY <1>1, <1>3
<1>5. name' \in {Empty, Typed} \cup 1..n
  BY <1>1, <1>3 DEF Empty, Typed
<1> QED
  BY <1>2, <1>4, <1>5 DEF FieldsInv, PrefillTypeOK

(* The same, of a step that leaves the lookups alone. *)
LEMMA FieldsStay ==
    ASSUME FieldsInv, UNCHANGED lookups,
           name' \in {Empty, Typed, name, offered}, offered' \in {0, offered}, latest' \in {0, latest},
           site' \in Domains \cup {Blank}, status' \in {"idle", "loading", "unavailable", status},
           UNCHANGED <<web, form>>, sending' \in BOOLEAN, created' \in 0..MaxMade,
           sending' => created' < MaxMade
    PROVE  FieldsInv'
<1>1. PICK m \in Nat : m = Len(lookups) /\ DOMAIN lookups = 1..m
  BY DEF FieldsInv, PrefillTypeOK
<1>2. name \in {Empty, Typed} \cup 1..m /\ offered \in 0..m /\ latest \in 0..m
  BY <1>1 DEF FieldsInv, PrefillTypeOK
<1>3. offered' \in 0..m /\ latest' \in 0..m
  BY <1>2
<1>4. name' \in {Empty, Typed} \cup 1..m
  BY <1>2 DEF Empty, Typed
<1> QED
  BY <1>1, <1>3, <1>4 DEF FieldsInv, PrefillTypeOK

LEMMA FieldsEmptied ==
    ASSUME FieldsInv, Emptied, sending' \in BOOLEAN, created' \in 0..MaxMade, sending' => created' < MaxMade
    PROVE  FieldsInv'
<1>1. lookups' \in Seq(Lookup) /\ Len(lookups') = 0
  BY DEF Emptied
<1> QED
  BY <1>1 DEF Emptied, FieldsInv, PrefillTypeOK

LEMMA OutdatedStays ==
    ASSUME lookups \in Seq(Lookup)
    PROVE  Len(Outdated) = Len(lookups) /\ Outdated \in Seq(Lookup)
<1>1. DOMAIN lookups = 1..Len(lookups) /\ Len(lookups) \in Nat
  OBVIOUS
<1>2. ASSUME NEW r \in Lookup PROVE [r EXCEPT !.late = TRUE] \in Lookup
  BY <1>2 DEF Lookup
<1>3. Outdated \in [1..Len(lookups) -> Lookup]
  BY <1>1, <1>2 DEF Outdated
<1> QED
  BY <1>1, <1>3

LEMMA FieldsStep == FieldsInv /\ [PrefillNext]_prefillVars => FieldsInv'
<1> SUFFICES ASSUME FieldsInv, [PrefillNext]_prefillVars PROVE FieldsInv'
  OBVIOUS
<1>1. lookups \in Seq(Lookup)
  BY DEF FieldsInv, PrefillTypeOK
<1>2. PICK n \in Nat : n = Len(lookups) /\ DOMAIN lookups = 1..n
  BY <1>1
<1>3. /\ site \in Domains \cup {Blank} /\ sending \in BOOLEAN /\ created \in 0..MaxMade
      /\ status \in {"idle", "loading", "unavailable"} /\ (sending => created < MaxMade)
      /\ name \in {Empty, Typed} \cup 1..n /\ offered \in 0..n /\ latest \in 0..n
  BY <1>2 DEF FieldsInv, PrefillTypeOK
(* The same number of lookups, and nothing refers to a new one. *)
<1>4. ASSUME Len(lookups') = n, lookups' \in Seq(Lookup),
             name' \in {Empty, Typed, name, offered}, offered' \in {0, offered}, latest' \in {0, latest},
             site' \in Domains \cup {Blank}, status' \in {"idle", "loading", "unavailable", status},
             UNCHANGED <<web, form, sending, created>>
      PROVE  FieldsInv'
  <2>1. DOMAIN lookups' = 1..n
    BY <1>4
  <2>2. name' \in {Empty, Typed} \cup 1..n /\ offered' \in 0..n /\ latest' \in 0..n
    BY <1>3, <1>4 DEF Empty, Typed
  <2> QED
    BY <1>4, <2>1, <2>2 DEF FieldsInv, PrefillTypeOK
<1>5. CASE OnDomainChange
  <2>1. Len(Outdated) = n /\ Outdated \in Seq(Lookup)
    BY <1>1, <1>2, OutdatedStays
  <2> QED
    BY <1>4, <1>5, <2>1 DEF OnDomainChange, Reset
<1>6. CASE OnDomainBlur
  <2>1. Outdated \in Seq(Lookup) /\ Len(Outdated) = n
    BY <1>1, <1>2, OutdatedStays
  <2>2. CASE site = Blank
    BY <1>3, <1>4, <1>6, <2>1, <2>2 DEF OnDomainBlur, RequestSuggestion, Reset
  <2>3. CASE site # Blank
    <3>1. PICK r \in Lookup : r = [of |-> site, pc |-> "sent", late |-> FALSE, landed |-> Blank]
      BY <1>3, <2>3 DEF Lookup
    <3>2. lookups' = Append(Outdated, r) /\ latest' = n + 1 /\ status' = "loading"
      BY <1>2, <1>6, <2>3, <3>1 DEF OnDomainBlur, RequestSuggestion
    <3>3. lookups' \in Seq(Lookup) /\ Len(lookups') = n + 1
      BY <2>1, <3>2
    <3>4. n + 1 \in Nat /\ n + 1 \in 1..(n + 1) /\ n + 1 >= Len(lookups)
      BY <1>2
    <3>5. UNCHANGED <<name, site, web, form, sending, created>> /\ offered' = 0
      BY <1>6 DEF OnDomainBlur
    <3> QED
      BY <1>3, <3>2, <3>3, <3>4, <3>5, LookupsStay
  <2> QED
    BY <2>2, <2>3
<1>7. CASE OnCompanyNameChange \/ ApplySuggestedName \/ Submit \/ TypeUrl \/ TypeLabel
  <2>1. /\ name' \in {Empty, Typed, name, offered} /\ offered' \in {0, offered} /\ site' \in Domains \cup {Blank}
        /\ UNCHANGED <<web, form, lookups, created, latest, status>>
    BY <1>3, <1>7 DEF OnCompanyNameChange, ApplySuggestedName, Submit, TypeUrl, TypeLabel
  <2>2. UNCHANGED sending \/ (sending' = TRUE /\ created < MaxMade)
    BY <1>7 DEF OnCompanyNameChange, ApplySuggestedName, Submit, TypeUrl, TypeLabel
  <2>3. sending' \in BOOLEAN /\ (sending' => created' < MaxMade)
    <3>1. CASE UNCHANGED sending
      BY <1>3, <2>1, <3>1
    <3>2. CASE sending' = TRUE /\ created < MaxMade
      BY <2>1, <3>2
    <3> QED
      BY <2>2, <3>1, <3>2
  <2> QED
    BY <1>3, <2>1, <2>3, FieldsStay
<1>8. CASE SubmitAnswered
  <2>1. created' \in 0..MaxMade /\ sending' = FALSE
    BY <1>3, <1>8, PrefillAssumption DEF SubmitAnswered
  <2> QED
    BY <1>3, <1>8, <2>1, FieldsStay, FieldsEmptied DEF SubmitAnswered
<1>9. CASE LeaveForm
  BY <1>3, <1>9, FieldsEmptied DEF LeaveForm
<1>10. CASE HandleBlur
  <2>1. CASE UNCHANGED lookups
    BY <1>3, <1>10, <2>1, FieldsStay DEF HandleBlur
  <2>2. CASE lookups' # lookups
    <3>1. PICK r \in Lookup : r = [of |-> site, pc |-> "sent", late |-> FALSE, landed |-> Blank]
      BY <1>3, <1>10, <2>2 DEF Lookup, HandleBlur
    <3>2. lookups' = Append(lookups, r) /\ status' = "loading" /\ UNCHANGED offered
      BY <1>10, <2>2, <3>1 DEF HandleBlur
    <3>3. lookups' \in Seq(Lookup) /\ Len(lookups') = n + 1
      BY <1>1, <1>2, <3>2
    <3>4. n + 1 \in Nat /\ n + 1 \in 1..(n + 1) /\ n + 1 >= Len(lookups)
      BY <1>2
    <3> QED
      BY <1>3, <1>10, <3>2, <3>3, <3>4, LookupsStay DEF HandleBlur
  <2> QED
    BY <2>1, <2>2
<1>11. ASSUME NEW i \in 1..n, Headers(i) \/ Body(i) \/ LookupFails(i) \/ PreviewAnswered(i)
       PROVE  FieldsInv'
  <2>1. PICK was \in Lookup : was = lookups[i]
    BY <1>1, <1>2
  <2>2. PICK r \in Lookup : lookups' = [lookups EXCEPT ![i] = r]
    <3>1. \/ \E pc \in {"body", "over"} : lookups' = [lookups EXCEPT ![i] = [was EXCEPT !.pc = pc]]
          \/ lookups' = [lookups EXCEPT ![i] = [was EXCEPT !.pc = "over", !.landed = site]]
      BY <1>11, <2>1 DEF Headers, Body, LandTitle, LookupFails, PreviewAnswered, Ends
    <3>2. \A pc \in {"body", "over"} : [was EXCEPT !.pc = pc] \in Lookup
      BY DEF Lookup
    <3>3. [was EXCEPT !.pc = "over", !.landed = site] \in Lookup
      BY <1>3 DEF Lookup
    <3> QED
      BY <3>1, <3>2, <3>3
  <2>3. lookups' \in Seq(Lookup) /\ Len(lookups') = n
    BY <1>1, <1>2, <2>2
  <2>4. name' \in {name, i} /\ offered' \in {0, offered, i} /\ UNCHANGED latest
    BY <1>11 DEF Headers, Body, LandTitle, LookupFails, PreviewAnswered
  <2>5. status' \in {"idle", "unavailable", status} /\ UNCHANGED <<web, form, site, sending, created>>
    BY <1>11 DEF Headers, Body, LookupFails, PreviewAnswered
  <2> QED
    BY <1>2, <1>3, <2>3, <2>4, <2>5, LookupsStay
<1>12. CASE UNCHANGED prefillVars
  BY <1>3, <1>12, FieldsStay DEF prefillVars, formVars
<1> QED
  BY <1>2, <1>5, <1>6, <1>7, <1>8, <1>9, <1>10, <1>11, <1>12 DEF PrefillNext

(* useScrapeMetaPrefill, useCompanyNamePrefill and LinkUrlField: the name, the
   suggestion and the request still wanted are always of a lookup that was
   made for this form, and a form never submits more often than it may. *)
THEOREM PrefillTypeCorrect == PrefillSpec => []PrefillTypeOK
<1>1. FieldsInv => PrefillTypeOK
  BY DEF FieldsInv
<1> QED
  BY <1>1, InitFieldsInv, FieldsStep, PTL DEF PrefillSpec

-------------------------------------------------------------------------------
(* The imports. *)
IsRun(r) == r = [kind |-> r.kind, pc |-> r.pc, todo |-> r.todo, done |-> r.done, refused |-> r.refused]
IsImported(w) == w = [deal |-> w.deal, run |-> w.run, anchored |-> w.anchored, whole |-> w.whole]

RunsInv ==
    /\ \E kept : imports \in Seq(kept)
    /\ importRuns = Len(imports) /\ following \in 0..Len(imports)
    /\ \A i \in 1..Len(imports) : IsRun(imports[i])

(* A workspace without its plan is the one that its run is writing now. *)
Whole(w) ==
    \/ w.run \in lostInDb \cup {0} \/ w.whole
    \/ At(w.run, "plan") /\ Item(w.run) = w.deal
    \/ At(w.run, "rollback") /\ Item(w.run) = w.deal
MadeInv == \A w \in made : IsImported(w) /\ w.run \in 0..Len(imports) /\ Whole(w)

ImportsInv == RunsInv /\ MadeInv

LEMMA InitImportsInv == ImportsInit => ImportsInv
<1> SUFFICES ASSUME ImportsInit PROVE ImportsInv
  OBVIOUS
<1>1. imports \in Seq({}) /\ Len(imports) = 0
  BY DEF ImportsInit
<1> QED
  BY <1>1 DEF ImportsInit, ImportsInv, RunsInv, MadeInv

(* A run goes on, and what it did to its own workspaces is given. *)
LEMMA RunTurns ==
    ASSUME ImportsInv, NEW run \in 1..Len(imports), NEW r, IsRun(r),
           imports' = [imports EXCEPT ![run] = r],
           UNCHANGED importRuns, following' \in {0, following}, lostInDb \subseteq lostInDb',
           \A w \in made' : \/ w \in made /\ w.run # run
                            \/ /\ IsImported(w) /\ w.run = run
                               /\ \/ w.whole \/ run \in lostInDb'
                                  \/ r.pc \in {"plan", "rollback"} /\ r.todo[1] = w.deal
    PROVE  ImportsInv'
<1>1. PICK kept : imports \in Seq(kept)
  BY DEF ImportsInv, RunsInv
<1>2. imports' \in Seq(kept \cup {r}) /\ Len(imports') = Len(imports) /\ imports'[run] = r
  BY <1>1
<1>3. \A i \in 1..Len(imports) : i # run => imports'[i] = imports[i]
  BY <1>1
<1>4. \A i \in 1..Len(imports') : IsRun(imports'[i])
  BY <1>2, <1>3 DEF ImportsInv, RunsInv
<1>5. RunsInv'
  BY <1>1, <1>2, <1>4 DEF ImportsInv, RunsInv, IsRun
<1>6. ASSUME NEW w \in made'
      PROVE  IsImported(w) /\ w.run \in 0..Len(imports')
             /\ \/ w.run \in lostInDb' \cup {0} \/ w.whole
                \/ imports'[w.run].pc = "plan" /\ imports'[w.run].todo[1] = w.deal
                \/ imports'[w.run].pc = "rollback" /\ imports'[w.run].todo[1] = w.deal
  <2>1. CASE w \in made /\ w.run # run
    <3>1. IsImported(w) /\ w.run \in 0..Len(imports) /\ Whole(w)
      BY <2>1 DEF ImportsInv, MadeInv
    <3>2. w.run # 0 => imports'[w.run] = imports[w.run]
      BY <1>1, <1>3, <2>1, <3>1
    <3> QED
      BY <1>2, <3>1, <3>2 DEF Whole, At, Item
  <2>2. CASE w.run = run
    BY <1>1, <1>2, <1>6, <2>2
  <2> QED
    BY <1>6, <2>1, <2>2
<1> QED
  BY <1>5, <1>6 DEF ImportsInv, MadeInv, Whole, At, Item, IsImported

(* A new run joins, and has brought nothing in. *)
LEMMA RunBegins ==
    ASSUME ImportsInv, NEW kind, NEW todo, Begins(kind, todo), following' \in {following, importRuns + 1}
    PROVE  ImportsInv'
<1>1. PICK kept : imports \in Seq(kept)
  BY DEF ImportsInv, RunsInv
<1>2. PICK r : r = NewRun(kind, todo)
  OBVIOUS
<1>3. r = NewRun(kind, todo) /\ IsRun(r)
  BY <1>2 DEF NewRun, IsRun
<1>4. imports' = Append(imports, r) /\ importRuns' = importRuns + 1 /\ UNCHANGED <<made, lostInDb>>
  BY <1>3 DEF Begins
<1>5. imports' \in Seq(kept \cup {r}) /\ Len(imports') = Len(imports) + 1 /\ Len(imports) \in Nat
  BY <1>1, <1>4
<1>6. \A i \in 1..Len(imports) : imports'[i] = imports[i]
  BY <1>1, <1>4
<1>7. imports'[Len(imports) + 1] = r
  BY <1>1, <1>4
<1>8. \A i \in 1..Len(imports') : IsRun(imports'[i])
  <2> SUFFICES ASSUME NEW i \in 1..Len(imports') PROVE IsRun(imports'[i])
    OBVIOUS
  <2>1. i = Len(imports) + 1 \/ i \in 1..Len(imports)
    BY <1>5
  <2> QED
    BY <1>3, <1>6, <1>7, <2>1 DEF ImportsInv, RunsInv
<1>9. RunsInv'
  BY <1>4, <1>5, <1>8 DEF ImportsInv, RunsInv, IsRun
<1>10. ASSUME NEW w \in made
      PROVE  IsImported(w) /\ w.run \in 0..Len(imports')
             /\ \/ w.run \in lostInDb \cup {0} \/ w.whole
                \/ imports'[w.run].pc = "plan" /\ imports'[w.run].todo[1] = w.deal
                \/ imports'[w.run].pc = "rollback" /\ imports'[w.run].todo[1] = w.deal
  <2>1. IsImported(w) /\ w.run \in 0..Len(imports) /\ Whole(w)
    BY <1>10 DEF ImportsInv, MadeInv
  <2>2. w.run # 0 => imports'[w.run] = imports[w.run]
    BY <1>5, <1>6, <2>1
  <2> QED
    BY <1>5, <2>1, <2>2 DEF Whole, At, Item
<1> QED
  BY <1>4, <1>9, <1>10 DEF ImportsInv, MadeInv, Whole, At, Item, IsImported

(* Neither the runs nor what they made. *)
LEMMA PanelTurns ==
    ASSUME ImportsInv, UNCHANGED <<imports, importRuns, made, lostInDb>>, following' \in {0, following}
    PROVE  ImportsInv'
  BY DEF ImportsInv, RunsInv, MadeInv, Whole, At, Item, IsRun, IsImported

LEMMA RunIs ==
    ASSUME ImportsInv, NEW run \in 1..Len(imports)
    PROVE  IsRun(imports[run])
  BY DEF ImportsInv, RunsInv

LEMMA GoesTurns ==
    ASSUME ImportsInv, NEW run \in 1..Len(imports), NEW pc, Goes(run, pc)
    PROVE  \E r : /\ IsRun(r) /\ r.pc = pc /\ r.todo = imports[run].todo /\ r.done = imports[run].done
                  /\ imports' = [imports EXCEPT ![run] = r]
<1>1. PICK was : was = imports[run]
  OBVIOUS
<1>2. PICK kind, at, todo, done, refused :
        was = [kind |-> kind, pc |-> at, todo |-> todo, done |-> done, refused |-> refused]
  BY <1>1, RunIs DEF IsRun
<1>3. PICK r : r = [was EXCEPT !.pc = pc]
  OBVIOUS
<1>4. r = [kind |-> kind, pc |-> pc, todo |-> todo, done |-> done, refused |-> refused]
  BY <1>2, <1>3
<1>5. IsRun(r) /\ r.pc = pc /\ r.todo = was.todo /\ r.done = was.done
  BY <1>2, <1>4 DEF IsRun
<1>6. imports' = [imports EXCEPT ![run] = r]
  BY <1>1, <1>3 DEF Goes, Sets
<1> QED
  BY <1>1, <1>5, <1>6

LEMMA KeepsTurns ==
    ASSUME ImportsInv, NEW run \in 1..Len(imports), NEW pc, NEW verdict, Keeps(run, pc, verdict)
    PROVE  \E r : /\ IsRun(r) /\ r.pc = pc /\ r.done = imports[run].done
                  /\ r.todo = Passing(imports[run].todo, verdict)
                  /\ imports' = [imports EXCEPT ![run] = r]
<1>1. PICK was : was = imports[run]
  OBVIOUS
<1>2. PICK kind, at, before, done, known :
        was = [kind |-> kind, pc |-> at, todo |-> before, done |-> done, refused |-> known]
  BY <1>1, RunIs DEF IsRun
<1>3. PICK r : r = [was EXCEPT
        !.pc = pc, !.todo = Passing(@, verdict),
        !.refused = @ \cup ({verdict[d] : d \in ToSet(was.todo)} \ {"ok"})]
  OBVIOUS
<1>4. PICK todo, refused : /\ todo = Passing(was.todo, verdict)
                           /\ refused = was.refused \cup ({verdict[d] : d \in ToSet(was.todo)} \ {"ok"})
  OBVIOUS
<1>5. r = [was EXCEPT !.pc = pc, !.todo = todo, !.refused = refused]
  BY <1>2, <1>3, <1>4
<1>6. r = [kind |-> kind, pc |-> pc, todo |-> todo, done |-> done, refused |-> refused]
  BY <1>2, <1>5
<1>7. IsRun(r) /\ r.pc = pc /\ r.done = was.done /\ r.todo = Passing(was.todo, verdict)
  BY <1>2, <1>4, <1>6 DEF IsRun
<1>8. imports' = [imports EXCEPT ![run] = r]
  BY <1>1, <1>3 DEF Keeps, Sets
<1> QED
  BY <1>1, <1>7, <1>8

LEMMA RefusalTurns ==
    ASSUME ImportsInv, NEW run \in 1..Len(imports), RefusesAll(run)
    PROVE  \E r : /\ IsRun(r) /\ r.pc = "over" /\ r.done = imports[run].done /\ r.todo = <<>>
                  /\ imports' = [imports EXCEPT ![run] = r]
<1>1. PICK was : was = imports[run]
  OBVIOUS
<1>2. PICK kind, at, todo, done, known :
        was = [kind |-> kind, pc |-> at, todo |-> todo, done |-> done, refused |-> known]
  BY <1>1, RunIs DEF IsRun
<1>3. PICK r : r = [was EXCEPT !.pc = "over", !.todo = <<>>, !.refused = {"unknown"}]
  OBVIOUS
<1>4. r = [kind |-> kind, pc |-> "over", todo |-> <<>>, done |-> done, refused |-> {"unknown"}]
  BY <1>2, <1>3
<1>5. IsRun(r) /\ r.pc = "over" /\ r.done = was.done /\ r.todo = <<>>
  BY <1>2, <1>4 DEF IsRun
<1>6. imports' = [imports EXCEPT ![run] = r]
  BY <1>1, <1>3 DEF RefusesAll, Sets
<1> QED
  BY <1>1, <1>5, <1>6

LEMMA NextTurns ==
    ASSUME ImportsInv, NEW run \in 1..Len(imports), NEW reason, Next1(run, reason)
    PROVE  \E r : /\ IsRun(r) /\ r.pc = "pick" /\ r.todo = Tail(imports[run].todo)
                  /\ r.done = IF reason = "ok" THEN imports[run].done + 1 ELSE imports[run].done
                  /\ imports' = [imports EXCEPT ![run] = r]
<1>1. PICK was : was = imports[run]
  OBVIOUS
<1>2. PICK kind, at, before, count, known :
        was = [kind |-> kind, pc |-> at, todo |-> before, done |-> count, refused |-> known]
  BY <1>1, RunIs DEF IsRun
<1>3. PICK todo, done, refused :
        /\ todo = Tail(was.todo) /\ done = (IF reason = "ok" THEN was.done + 1 ELSE was.done)
        /\ refused = was.refused \cup ({reason} \ {"ok"})
  OBVIOUS
<1>4. PICK pc : pc = "pick"
  OBVIOUS
<1>5. PICK r : r = [was EXCEPT !.pc = pc, !.todo = todo, !.done = done, !.refused = refused]
  OBVIOUS
<1>6. r = [kind |-> kind, pc |-> pc, todo |-> todo, done |-> done, refused |-> refused]
  BY <1>2, <1>5
<1>7. /\ IsRun(r) /\ r.pc = "pick" /\ r.todo = Tail(was.todo)
      /\ r.done = IF reason = "ok" THEN was.done + 1 ELSE was.done
  BY <1>3, <1>4, <1>6 DEF IsRun
<1>8. r = [was EXCEPT !.pc = "pick", !.todo = Tail(@), !.done = IF reason = "ok" THEN @ + 1 ELSE @,
                      !.refused = @ \cup ({reason} \ {"ok"})]
  BY <1>3, <1>5, <1>4
<1>9. imports' = [imports EXCEPT ![run] = r]
  BY <1>1, <1>8 DEF Next1, Sets
<1> QED
  BY <1>1, <1>7, <1>9

LEMMA ReadTurns ==
    ASSUME ImportsInv, NEW run \in 1..Len(imports), NEW pc, Sets(run, Read(imports[run], pc))
    PROVE  \E r : /\ IsRun(r) /\ r.pc = pc /\ r.todo = <<>> /\ r.done = 0
                  /\ imports' = [imports EXCEPT ![run] = r]
<1>1. PICK kind : kind = imports[run].kind
  OBVIOUS
<1>2. PICK new : new = [kind |-> kind, pc |-> "new", todo |-> <<>>, done |-> 0, refused |-> {}]
  OBVIOUS
<1>3. PICK r : r = [new EXCEPT !.pc = pc]
  OBVIOUS
<1>4. r = [kind |-> kind, pc |-> pc, todo |-> <<>>, done |-> 0, refused |-> {}]
  BY <1>2, <1>3
<1>5. IsRun(r) /\ r.pc = pc /\ r.todo = <<>> /\ r.done = 0
  BY <1>4 DEF IsRun
<1>6. Read(imports[run], pc) = r
  BY <1>1, <1>2, <1>3 DEF Read, NewRun
<1> QED
  BY <1>5, <1>6 DEF Sets

(* A run that writes no deal owes no plan, and stays so when it goes on. *)
LEMMA QuietRunOwes ==
    ASSUME ImportsInv, NEW run \in 1..Len(imports), ~At(run, "plan"), ~At(run, "rollback"),
           NEW w \in made, w.run = run
    PROVE  w.whole \/ run \in lostInDb
<1>1. run # 0 /\ Whole(w)
  BY DEF ImportsInv, MadeInv, RunsInv
<1> QED
  BY <1>1 DEF Whole, At

LEMMA QuietRunTurns ==
    ASSUME ImportsInv, NEW run \in 1..Len(imports), ~At(run, "plan"), ~At(run, "rollback"),
           \E r : IsRun(r) /\ imports' = [imports EXCEPT ![run] = r],
           UNCHANGED <<importRuns, made>>, following' \in {0, following}, lostInDb \subseteq lostInDb'
    PROVE  ImportsInv'
<1>1. PICK r : IsRun(r) /\ imports' = [imports EXCEPT ![run] = r]
  OBVIOUS
<1>2. \A w \in made : IsImported(w) /\ (w.run = run => w.whole \/ run \in lostInDb)
  BY QuietRunOwes DEF ImportsInv, MadeInv
<1> QED
  BY <1>1, <1>2, RunTurns

LEMMA ServeRunKeeps ==
    ASSUME ImportsInv, NEW run \in 1..Len(imports), ServeRun(run)
    PROVE  ImportsInv'
<1>1. following' \in {0, following} /\ importRuns' = importRuns
  BY DEF ServeRun, FetchAndMapDeals, DedupeAlreadyImported, ValidateImportRows, CreateWorkspace, WriteDeal,
     RollbackWorkspace, WriteCrmImport, RunDies, panelVars
<1>2. CASE FetchAndMapDeals(run) \/ DedupeAlreadyImported(run) \/ ValidateImportRows(run)
  <2>1. ~At(run, "plan") /\ ~At(run, "rollback") /\ UNCHANGED <<made, lostInDb>>
    BY <1>2 DEF FetchAndMapDeals, DedupeAlreadyImported, ValidateImportRows, At
  <2>2. (\E pc, verdict : Keeps(run, pc, verdict)) \/ RefusesAll(run)
    BY <1>2 DEF FetchAndMapDeals, DedupeAlreadyImported, ValidateImportRows
  <2> QED
    BY <1>1, <2>1, <2>2, KeepsTurns, RefusalTurns, QuietRunTurns
<1>3. CASE CreateWorkspace(run)
  <2>1. ~At(run, "plan") /\ ~At(run, "rollback")
    BY <1>3 DEF CreateWorkspace, At
  <2>2. PICK bare : bare = [deal |-> Item(run), run |-> run, anchored |-> imports[run].kind = "crm",
                            whole |-> FALSE]
    OBVIOUS
  <2>3. CASE (\E reason : Next1(run, reason)) /\ UNCHANGED <<made, lostInDb>>
    BY <1>1, <2>1, <2>3, NextTurns, QuietRunTurns
  <2>4. ASSUME made' = made \cup {bare},
               \/ Goes(run, "plan") /\ UNCHANGED lostInDb
               \/ Next1(run, "unknown") /\ lostInDb' = lostInDb \cup {run}
        PROVE  ImportsInv'
    <3>1. IsImported(bare) /\ bare.run = run /\ bare.deal = imports[run].todo[1]
      BY <2>2 DEF IsImported, Item
    <3>2. PICK r : /\ IsRun(r) /\ imports' = [imports EXCEPT ![run] = r]
                   /\ run \in lostInDb' \/ (r.pc = "plan" /\ r.todo = imports[run].todo)
      BY <2>4, GoesTurns, NextTurns
    <3>3. lostInDb \subseteq lostInDb'
      BY <2>4
    <3>4. ASSUME NEW w \in made'
          PROVE  \/ w \in made /\ w.run # run
                 \/ /\ IsImported(w) /\ w.run = run
                    /\ \/ w.whole \/ run \in lostInDb'
                       \/ r.pc \in {"plan", "rollback"} /\ r.todo[1] = w.deal
      <4>1. CASE w \in made
        BY <2>1, <3>3, <4>1, QuietRunOwes DEF ImportsInv, MadeInv
      <4>2. CASE w = bare
        BY <3>1, <3>2, <4>2
      <4> QED
        BY <2>4, <3>4, <4>1, <4>2
    <3> QED
      BY <1>1, <3>2, <3>3, <3>4, RunTurns
  <2> QED
    BY <1>3, <2>2, <2>3, <2>4 DEF CreateWorkspace
<1>4. CASE WriteDeal(run)
  <2>1. UNCHANGED lostInDb
    BY <1>4 DEF WriteDeal
  <2>2. ASSUME made' = (made \ Mine(run, Item(run))) \cup {[w EXCEPT !.whole = TRUE] : w \in Mine(run, Item(run))},
               Next1(run, "ok") \/ Goes(run, "rollback")
        PROVE  ImportsInv'
    <3>1. PICK r : IsRun(r) /\ imports' = [imports EXCEPT ![run] = r]
      BY <2>2, GoesTurns, NextTurns
    <3>2. ASSUME NEW w \in Mine(run, Item(run)), NEW v, v = [w EXCEPT !.whole = TRUE]
          PROVE  IsImported(v) /\ v.run = run /\ v.whole
      <4>1. IsImported(w) /\ w.run = run
        BY <3>2 DEF Mine, ImportsInv, MadeInv
      <4>2. PICK item, anchored, whole : w = [deal |-> item, run |-> run, anchored |-> anchored, whole |-> whole]
        BY <4>1 DEF IsImported
      <4>3. v = [deal |-> item, run |-> run, anchored |-> anchored, whole |-> TRUE]
        BY <3>2, <4>2
      <4> QED
        BY <4>3 DEF IsImported
    <3>3. ASSUME NEW w \in made, w \notin Mine(run, Item(run)), w.run = run
          PROVE  IsImported(w) /\ (w.whole \/ run \in lostInDb)
      BY <3>3 DEF ImportsInv, MadeInv, RunsInv, Whole, Mine
    <3>4. ASSUME NEW w \in made'
          PROVE  \/ w \in made /\ w.run # run
                 \/ IsImported(w) /\ w.run = run /\ (w.whole \/ run \in lostInDb')
      <4>1. CASE w \in made \ Mine(run, Item(run))
        BY <2>1, <3>3, <4>1
      <4>2. CASE w \in {[v EXCEPT !.whole = TRUE] : v \in Mine(run, Item(run))}
        BY <3>2, <4>2
      <4> QED
        BY <2>2, <3>4, <4>1, <4>2
    <3> QED
      BY <1>1, <2>1, <3>1, <3>4, RunTurns
  <2>3. ASSUME Goes(run, "rollback"), UNCHANGED made
        PROVE  ImportsInv'
    <3>1. PICK r : /\ IsRun(r) /\ r.pc = "rollback" /\ r.todo = imports[run].todo
                   /\ imports' = [imports EXCEPT ![run] = r]
      BY <2>3, GoesTurns
    <3>2. ASSUME NEW w \in made, w.run = run
          PROVE  IsImported(w) /\ (w.whole \/ run \in lostInDb \/ r.todo[1] = w.deal)
      BY <3>1, <3>2 DEF ImportsInv, MadeInv, RunsInv, Whole, Item
    <3> QED
      BY <1>1, <2>1, <2>3, <3>1, <3>2, RunTurns
  <2> QED
    BY <1>4, <2>2, <2>3 DEF WriteDeal
<1>5. CASE RollbackWorkspace(run)
  <2>1. PICK r : IsRun(r) /\ imports' = [imports EXCEPT ![run] = r]
    BY <1>5, NextTurns DEF RollbackWorkspace
  <2>2. lostInDb \subseteq lostInDb' /\ made' \subseteq made
    BY <1>5 DEF RollbackWorkspace
  <2>3. ASSUME NEW w \in made', w.run = run
        PROVE  IsImported(w) /\ (w.whole \/ run \in lostInDb')
    BY <1>5, <2>2, <2>3 DEF RollbackWorkspace, ImportsInv, MadeInv, RunsInv, Whole, Mine
  <2> QED
    BY <1>1, <2>1, <2>2, <2>3, RunTurns
<1>6. CASE WriteCrmImport(run)
  <2>1. ~At(run, "plan") /\ ~At(run, "rollback") /\ UNCHANGED <<made, lostInDb>>
    BY <1>6 DEF WriteCrmImport, At
  <2>2. Goes(run, "over") \/ Sets(run, Read(imports[run], "over"))
    BY <1>6 DEF WriteCrmImport, Goes
  <2> QED
    BY <1>1, <2>1, <2>2, GoesTurns, ReadTurns, QuietRunTurns
<1>7. CASE RunDies(run)
  <2>1. PICK r : IsRun(r) /\ imports' = [imports EXCEPT ![run] = r]
    BY <1>7, ReadTurns DEF RunDies
  <2>2. lostInDb' = lostInDb \cup {run} /\ made' = made
    BY <1>7 DEF RunDies
  <2> QED
    BY <1>1, <2>1, <2>2, RunTurns DEF ImportsInv, MadeInv
<1> QED
  BY <1>2, <1>3, <1>4, <1>5, <1>6, <1>7 DEF ServeRun

LEMMA ImportsStepKeeps == ImportsInv /\ [ImportsNext]_importVars => ImportsInv'
<1> SUFFICES ASSUME ImportsInv, [ImportsNext]_importVars PROVE ImportsInv'
  OBVIOUS
<1>1. CASE RefreshDeals \/ DealsListed \/ ImportThrown
  BY <1>1, PanelTurns DEF RefreshDeals, DealsListed, ImportThrown, pickerVars
<1>2. CASE PickDeals \/ RetryImport
  <2>1. PICK todo : Begins("crm", todo) /\ following' = importRuns + 1
    BY <1>2 DEF PickDeals, RetryImport, RunImport
  <2> QED
    BY <2>1, RunBegins
<1>3. CASE ImportAnswered
  <2>1. following \in 1..Len(imports)
    BY <1>3 DEF ImportAnswered, ImportsInv, RunsInv
  <2>2. PICK run \in 1..Len(imports) : run = following
    BY <2>1
  <2>3. ~At(run, "plan") /\ ~At(run, "rollback") /\ following' = 0
        /\ Sets(run, Read(imports[run], "over")) /\ UNCHANGED <<made, importRuns, lostInDb>>
    BY <1>3, <2>2 DEF ImportAnswered, At, Sets
  <2> QED
    BY <2>3, ReadTurns, QuietRunTurns
<1>4. CASE SubmitCsv
  <2>1. PICK todo : Begins("csv", todo) /\ following' = following
    BY <1>4 DEF SubmitCsv, panelVars
  <2> QED
    BY <2>1, RunBegins
<1>5. CASE IngestCrmWebhook
  <2>1. PICK d : made' = made \cup {[deal |-> d, run |-> 0, anchored |-> TRUE, whole |-> FALSE]}
    BY <1>5 DEF IngestCrmWebhook
  <2>2. PICK w : w = [deal |-> d, run |-> 0, anchored |-> TRUE, whole |-> FALSE]
    OBVIOUS
  <2>3. IsImported(w) /\ w.run = 0 /\ w.run \in 0..Len(imports)
    BY <2>2 DEF IsImported, ImportsInv, RunsInv
  <2>4. UNCHANGED <<imports, importRuns, lostInDb, following>> /\ made' = made \cup {w}
    BY <1>5, <2>1, <2>2 DEF IngestCrmWebhook, panelVars
  <2>5. RunsInv'
    BY <2>4 DEF ImportsInv, RunsInv, IsRun
  <2>6. MadeInv'
    BY <2>3, <2>4 DEF ImportsInv, MadeInv, Whole, At, Item, IsImported
  <2> QED
    BY <2>5, <2>6 DEF ImportsInv
<1>6. CASE \E run \in Runs : ServeRun(run)
  <2>1. Runs = 1..Len(imports)
    BY DEF Runs, ImportsInv, RunsInv
  <2> QED
    BY <1>6, <2>1, ServeRunKeeps
<1>7. CASE UNCHANGED importVars
  BY <1>7, PanelTurns DEF importVars, panelVars
<1> QED
  BY <1>1, <1>2, <1>3, <1>4, <1>5, <1>6, <1>7 DEF ImportsNext

(* write-crm-import.ts and import-deals.ts, rollbackWorkspace: however the
   runs of an import, the retries of its page and the webhook interleave, a
   workspace without its plan is the one its run is writing; for any deals
   and any number of runs. *)
THEOREM NothingHalfImportedAlways == ImportsSpec => []NothingHalfImported
<1>1. ImportsInv => NothingHalfImported
  BY DEF ImportsInv, MadeInv, Whole, NothingHalfImported
<1>2. ImportsSpec => []ImportsInv
  BY InitImportsInv, ImportsStepKeeps, PTL DEF ImportsSpec
<1> QED
  BY <1>1, <1>2, PTL

(* A third refresh of the list is the one that ends the import in flight; no
   import runs beside it. *)
PanelInv ==
    /\ {busy, unlisted, refreshing} \subseteq BOOLEAN
    /\ listing \in 0..3 /\ (listing = 3 => refreshing /\ following = 0)
    /\ importRuns <= MaxImports /\ lostInDb \subseteq 1..Len(imports) /\ picker \subseteq CrmDeals
    /\ \A w \in made : {w.anchored, w.whole} \subseteq BOOLEAN

LEMMA InitPanelInv == ImportsInit => PanelInv
<1> SUFFICES ASSUME ImportsInit PROVE PanelInv
  OBVIOUS
<1>1. /\ {busy, unlisted, refreshing} \subseteq BOOLEAN /\ listing = 1
      /\ lostInDb = {} /\ made = {} /\ picker = {}
  BY DEF ImportsInit
<1>2. importRuns <= MaxImports
  BY ImportsAssumption DEF ImportsInit
<1> QED
  BY <1>1, <1>2 DEF PanelInv

(* The server, run by run. *)
LEMMA ServeRunPanel ==
    ASSUME ImportsInv, PanelInv, NEW run \in 1..Len(imports), ServeRun(run)
    PROVE  PanelInv'
<1>1. UNCHANGED <<importRuns, panelVars>>
  BY DEF ServeRun, FetchAndMapDeals, DedupeAlreadyImported, ValidateImportRows, CreateWorkspace, WriteDeal,
     RollbackWorkspace, WriteCrmImport, RunDies
<1>2. lostInDb' \in {lostInDb, lostInDb \cup {run}}
  BY DEF ServeRun, FetchAndMapDeals, DedupeAlreadyImported, ValidateImportRows, CreateWorkspace, WriteDeal,
     RollbackWorkspace, WriteCrmImport, RunDies
<1>3. Len(imports') = Len(imports)
  <2>1. PICK kept : imports \in Seq(kept)
    BY SMTT(30) DEF ImportsInv, RunsInv
  <2>2. PICK value : imports' = [imports EXCEPT ![run] = value]
    BY DEF ServeRun, FetchAndMapDeals, DedupeAlreadyImported, ValidateImportRows, CreateWorkspace, WriteDeal,
       RollbackWorkspace, WriteCrmImport, RunDies, Keeps, RefusesAll, Goes, Next1, Sets
  <2> QED
    BY <2>1, <2>2
<1>4. \A w \in made' : {w.anchored, w.whole} \subseteq BOOLEAN
  <2> SUFFICES ASSUME NEW w \in made' PROVE {w.anchored, w.whole} \subseteq BOOLEAN
    OBVIOUS
  <2>1. CASE w \in made
    BY <2>1 DEF PanelInv
  <2>2. CASE w = [deal |-> Item(run), run |-> run, anchored |-> imports[run].kind = "crm", whole |-> FALSE]
    BY <2>2
  <2>3. CASE \E v \in Mine(run, Item(run)) : w = [v EXCEPT !.whole = TRUE]
    <3>1. PICK v \in made : w = [v EXCEPT !.whole = TRUE]
      BY <2>3 DEF Mine
    <3>2. IsImported(v) /\ v.anchored \in BOOLEAN
      BY <3>1 DEF ImportsInv, MadeInv, PanelInv
    <3>3. PICK item, at, anchored, whole :
            v = [deal |-> item, run |-> at, anchored |-> anchored, whole |-> whole]
      BY <3>2 DEF IsImported
    <3> QED
      BY <3>1, <3>2, <3>3
  <2>4. \/ made' \subseteq made
        \/ made' = made \cup {[deal |-> Item(run), run |-> run, anchored |-> imports[run].kind = "crm",
                               whole |-> FALSE]}
        \/ made' = (made \ Mine(run, Item(run))) \cup {[v EXCEPT !.whole = TRUE] : v \in Mine(run, Item(run))}
    BY DEF ServeRun, FetchAndMapDeals, DedupeAlreadyImported, ValidateImportRows, CreateWorkspace, WriteDeal,
       RollbackWorkspace, WriteCrmImport, RunDies
  <2> QED
    BY <2>1, <2>2, <2>3, <2>4
<1> QED
  BY <1>1, <1>2, <1>3, <1>4 DEF PanelInv, panelVars, pickerVars

LEMMA ImportsStepPanel == ImportsInv /\ PanelInv /\ [ImportsNext]_importVars => PanelInv'
<1> SUFFICES ASSUME ImportsInv, PanelInv, [ImportsNext]_importVars PROVE PanelInv'
  OBVIOUS
<1>1. importRuns = Len(imports) /\ importRuns \in Nat
  BY DEF ImportsInv, RunsInv
<1>2. CASE RefreshDeals \/ DealsListed \/ ImportThrown
  <2>1. CASE RefreshDeals
    BY <2>1 DEF RefreshDeals, pickerVars, PanelInv
  <2>2. CASE DealsListed
    <3>1. listing' \in 0..2
      BY <2>2 DEF DealsListed, PanelInv
    <3>2. busy' \in BOOLEAN /\ unlisted' \in BOOLEAN /\ refreshing' \in BOOLEAN
      <4>1. refreshing' = FALSE \/ refreshing' = (refreshing /\ listing > 1)
        BY <2>2 DEF DealsListed
      <4>2. busy' = FALSE /\ unlisted' \in {TRUE, FALSE}
        BY <2>2 DEF DealsListed
      <4> QED
        BY <4>1, <4>2
    <3>3. UNCHANGED <<importRuns, imports, lostInDb, made>> /\ picker' \subseteq CrmDeals
      BY <2>2 DEF DealsListed, PanelInv
    <3> QED
      BY <3>1, <3>2, <3>3 DEF PanelInv
  <2>3. CASE ImportThrown
    <3>1. listing \in 0..2 /\ UNCHANGED <<listing, picker>>
      BY <2>3 DEF ImportThrown, pickerVars, PanelInv
    <3> QED
      BY <2>3, <3>1 DEF ImportThrown, pickerVars, PanelInv
  <2> QED
    BY <1>2, <2>1, <2>2, <2>3
<1>3. ASSUME NEW kind, NEW todo, Begins(kind, todo)
      PROVE  /\ importRuns' <= MaxImports /\ lostInDb' \subseteq 1..Len(imports')
             /\ importRuns + 1 # 0 /\ UNCHANGED made
  <2>1. PICK kept : imports \in Seq(kept)
    BY DEF ImportsInv, RunsInv
  <2>2. PICK r : imports' = Append(imports, r)
    BY <1>3 DEF Begins
  <2>3. Len(imports') = Len(imports) + 1
    BY <2>1, <2>2
  <2> QED
    BY <1>1, <1>3, <2>3, ImportsAssumption DEF Begins, PanelInv
<1>4. CASE PickDeals \/ RetryImport
  <2>1. PICK todo : RunImport(todo)
    BY <1>4 DEF PickDeals, RetryImport
  <2>2. Begins("crm", todo)
    BY <2>1 DEF RunImport
  <2>3. listing # 3
    BY <2>1 DEF RunImport, PanelInv
  <2> QED
    BY <1>3, <2>1, <2>2, <2>3 DEF RunImport, PanelInv, pickerVars
<1>5. CASE ImportAnswered
  <2>1. listing \in 0..2 /\ following \in 1..Len(imports)
    BY <1>5 DEF ImportAnswered, PanelInv, ImportsInv, RunsInv
  <2>2. PICK kept : imports \in Seq(kept)
    BY DEF ImportsInv, RunsInv
  <2>3. Len(imports') = Len(imports)
    <3>1. PICK value : imports' = [imports EXCEPT ![following] = value]
      BY <1>5 DEF ImportAnswered
    <3> QED
      BY <2>2, <3>1
  <2>4. refreshing' \in BOOLEAN /\ busy' = refreshing' /\ following' = 0
        /\ listing' = IF refreshing' THEN listing + 1 ELSE listing
    BY <1>5 DEF ImportAnswered
  <2>5. listing' \in 0..3 /\ (listing' = 3 => refreshing' /\ following' = 0)
    BY <2>1, <2>4
  <2>6. UNCHANGED <<importRuns, unlisted, lostInDb, made, picker>>
    BY <1>5 DEF ImportAnswered, pickerVars
  <2> QED
    BY <2>3, <2>4, <2>5, <2>6 DEF PanelInv
<1>6. CASE SubmitCsv
  BY <1>3, <1>6 DEF SubmitCsv, panelVars, pickerVars, PanelInv
<1>7. CASE IngestCrmWebhook
  <2>1. PICK d : made' = made \cup {[deal |-> d, run |-> 0, anchored |-> TRUE, whole |-> FALSE]}
    BY <1>7 DEF IngestCrmWebhook
  <2>2. \A w \in made' : {w.anchored, w.whole} \subseteq BOOLEAN
    <3> SUFFICES ASSUME NEW w \in made' PROVE {w.anchored, w.whole} \subseteq BOOLEAN
      OBVIOUS
    <3>1. CASE w \in made
      BY <3>1 DEF PanelInv
    <3>2. CASE w = [deal |-> d, run |-> 0, anchored |-> TRUE, whole |-> FALSE]
      BY <3>2
    <3> QED
      BY <2>1, <3>1, <3>2
  <2>3. UNCHANGED <<imports, importRuns, picker, unlisted, busy, listing, refreshing, following, lostInDb>>
    BY <1>7 DEF IngestCrmWebhook, panelVars, pickerVars
  <2> QED
    BY <2>2, <2>3 DEF PanelInv
<1>8. CASE \E run \in Runs : ServeRun(run)
  <2>1. Runs = 1..Len(imports)
    BY DEF Runs, ImportsInv, RunsInv
  <2> QED
    BY <1>8, <2>1, ServeRunPanel
<1>9. CASE UNCHANGED importVars
  BY <1>9 DEF importVars, panelVars, pickerVars, PanelInv
<1> QED
  BY <1>2, <1>4, <1>5, <1>6, <1>7, <1>8, <1>9 DEF ImportsNext

(* crm-import-panel.tsx: the panel never follows a run there is not, and its
   refreshes never pile up, for any deals and any number of runs. *)
THEOREM ImportsTypeCorrect == ImportsSpec => []ImportsTypeOK
<1>1. ImportsInv /\ PanelInv => ImportsTypeOK
  <2>1. ImportsInv => Runs = 1..Len(imports)
    BY DEF Runs, ImportsInv, RunsInv
  <2> QED
    BY <2>1 DEF ImportsInv, RunsInv, MadeInv, PanelInv, ImportsTypeOK
<1>2. ImportsSpec => [](ImportsInv /\ PanelInv)
  BY InitImportsInv, InitPanelInv, ImportsStepKeeps, ImportsStepPanel, PTL DEF ImportsSpec
<1> QED
  BY <1>1, <1>2, PTL

-------------------------------------------------------------------------------
(* What an import counts. *)

(* A set of numbers has a least one; so a set that goes on upwards from 0
   holds them all, and a set of numbers up to n has a greatest one. *)
LEMMA Least ==
    ASSUME NEW S \in SUBSET Nat, S # {}
    PROVE  \E least \in S : \A j \in S : least <= j
<1> DEFINE R == {ss \in Nat \X Nat : ss[1] < ss[2]}
<1>1. \A i, j \in Nat : <<i, j>> \in R <=> i < j
  OBVIOUS
<1>2. IsWellFoundedOn(R, Nat)
  BY NatLessThanWellFounded DEF OpToRel
<1> HIDE DEF R
<1>3. PICK least \in S : \A j \in S : <<j, least>> \notin R
  BY <1>2, WFMin
<1>4. ASSUME NEW j \in S PROVE least <= j
  <2>1. least \in Nat /\ j \in Nat /\ ~(j < least)
    BY <1>1, <1>3
  <2> QED
    BY <2>1
<1> QED
  BY <1>4

LEMMA Upwards ==
    ASSUME NEW S, 0 \in S, \A k \in Nat : k \in S => k + 1 \in S
    PROVE  Nat \subseteq S
<1> SUFFICES ASSUME Nat \ S # {} PROVE FALSE
  OBVIOUS
<1>1. PICK least \in Nat \ S : \A j \in Nat \ S : least <= j
  BY Least
<1>2. least - 1 \in Nat /\ ~(least <= least - 1)
  BY <1>1
<1>3. least - 1 \in S /\ least = (least - 1) + 1
  BY <1>1, <1>2
<1> QED
  BY <1>1, <1>2, <1>3

LEMMA Greatest ==
    ASSUME NEW n \in Nat, NEW S \in SUBSET (1..n), S # {}
    PROVE  Max(S) \in S /\ \A j \in S : Max(S) >= j
<1> DEFINE gaps == {n - k : k \in S}
<1>1. \A k \in S : k \in Nat /\ n - k \in Nat
  OBVIOUS
<1>2. gaps \subseteq Nat /\ gaps # {}
  BY <1>1
<1>3. PICK least \in gaps : \A gap \in gaps : least <= gap
  <2> HIDE DEF gaps
  <2> QED
    BY <1>2, Least
<1>4. PICK k \in S : least = n - k
  BY <1>3
<1>5. ASSUME NEW j \in S PROVE k >= j
  <2>1. least <= n - j
    BY <1>3
  <2> QED
    BY <1>1, <1>4, <2>1
<1> QED
  BY <1>5 DEF Max

LEMMA GreatestOfAll ==
    ASSUME NEW n \in Nat, NEW S \in SUBSET (1..n), n \in S
    PROVE  Max(S) = n
<1>1. PICK top \in S : top = Max(S) /\ top >= n
  BY Greatest
<1>2. top \in Nat /\ top <= n
  OBVIOUS
<1> QED
  BY <1>1, <1>2

(* What a fold from the left of Passing stands for: take[s] is what passes of
   the places in s, the last one's last. *)
Takes(m, todo, verdict, take) ==
    take = [s \in SUBSET (1..m) |->
              IF s = {} THEN <<>>
              ELSE IF verdict[todo[Max(s)]] = "ok"
                   THEN Append(take[s \ {Max(s)}], todo[Max(s)]) ELSE take[s \ {Max(s)}]]

LEMMA TakesExist ==
    ASSUME NEW todo, NEW verdict, NEW n \in Nat
    PROVE  \E take : Takes(n, todo, verdict, take)
<1> DEFINE Taken == {m \in Nat : \E take : Takes(m, todo, verdict, take)}
<1>1. 0 \in Taken
  <2> DEFINE none == [s \in SUBSET (1..0) |-> <<>>]
  <2>1. \A s \in SUBSET (1..0) : s = {}
    OBVIOUS
  <2>2. Takes(0, todo, verdict, none)
    BY <2>1 DEF Takes
  <2> QED
    BY <2>2
<1>2. ASSUME NEW m \in Nat, m \in Taken PROVE m + 1 \in Taken
  <2>1. PICK take : Takes(m, todo, verdict, take)
    BY <1>2
  <2> DEFINE top  == m + 1
             more == [s \in SUBSET (1..top) |->
                        IF top \notin s THEN take[s]
                        ELSE IF verdict[todo[top]] = "ok"
                             THEN Append(take[s \ {top}], todo[top]) ELSE take[s \ {top}]]
  <2>2. ASSUME NEW s \in SUBSET (1..top)
        PROVE  more[s] = IF s = {} THEN <<>>
                         ELSE IF verdict[todo[Max(s)]] = "ok"
                              THEN Append(more[s \ {Max(s)}], todo[Max(s)]) ELSE more[s \ {Max(s)}]
    <3>1. CASE top \in s
      <4>1. Max(s) = top
        BY <3>1, GreatestOfAll
      <4>2. s \ {top} \in SUBSET (1..top) /\ top \notin s \ {top} /\ s # {}
        BY <3>1
      <4> HIDE DEF top
      <4>3. more[s \ {top}] = take[s \ {top}]
        BY <4>2
      <4> QED
        BY <3>1, <4>1, <4>2, <4>3
    <3>2. CASE top \notin s
      <4>1. s \in SUBSET (1..m)
        BY <3>2
      <4>2. take[s] = IF s = {} THEN <<>>
                      ELSE IF verdict[todo[Max(s)]] = "ok"
                           THEN Append(take[s \ {Max(s)}], todo[Max(s)]) ELSE take[s \ {Max(s)}]
        BY <2>1, <4>1 DEF Takes
      <4>3. s \ {Max(s)} \in SUBSET (1..top) /\ top \notin s \ {Max(s)}
        BY <3>2
      <4> HIDE DEF top
      <4>4. more[s \ {Max(s)}] = take[s \ {Max(s)}] /\ more[s] = take[s]
        BY <3>2, <4>3
      <4> QED
        BY <4>2, <4>4
    <3> QED
      BY <3>1, <3>2
  <2>3. more = [s \in SUBSET (1..top) |-> more[s]]
    OBVIOUS
  <2> HIDE DEF more
  <2>4. Takes(top, todo, verdict, more)
    BY <2>2, <2>3 DEF Takes
  <2> QED
    BY <2>4
<1> HIDE DEF Taken
<1>3. Nat \subseteq Taken
  BY <1>1, <1>2, Upwards
<1> QED
  BY <1>3 DEF Taken

(* A list of deals, none of them twice. *)
IsList(todo) == (\E kept : todo \in Seq(kept)) /\ IsInjective(todo)

LEMMA PassingIsList ==
    ASSUME NEW todo, IsList(todo), NEW verdict
    PROVE  IsList(Passing(todo, verdict))
<1>1. PICK kept : todo \in Seq(kept)
  BY DEF IsList
<1>2. PICK n \in Nat : n = Len(todo) /\ DOMAIN todo = 1..n
  BY <1>1
<1>3. \A a, b \in 1..n : todo[a] = todo[b] => a = b
  BY <1>2 DEF IsList, IsInjective
<1>4. \A k \in 1..n : todo[k] \in kept
  BY <1>1, <1>2
<1> DEFINE take == CHOOSE take : Takes(n, todo, verdict, take)
<1>5. Takes(n, todo, verdict, take)
  BY TakesExist
<1>6. Passing(todo, verdict) = take[1..n]
  BY <1>2 DEF Passing, FoldLeft, MapThenFoldSet, Takes
<1> HIDE DEF take
<1> DEFINE Good(k) ==
             /\ take[1..k] \in Seq(kept) /\ IsInjective(take[1..k])
             /\ \A i \in DOMAIN take[1..k] : \E j \in 1..k : take[1..k][i] = todo[j]
           FromOn == {k \in Nat : k <= n => Good(k)}
<1>7. 0 \in FromOn
  <2>1. 1..0 = {} /\ 1..0 \in SUBSET (1..n)
    OBVIOUS
  <2>2. take[1..0] = <<>>
    BY <1>5, <2>1 DEF Takes
  <2>3. <<>> \in Seq(kept) /\ DOMAIN <<>> = {}
    OBVIOUS
  <2>4. IsInjective(<<>>)
    BY <2>3 DEF IsInjective
  <2> QED
    BY <2>2, <2>3, <2>4
<1>8. ASSUME NEW k \in Nat, k \in FromOn PROVE k + 1 \in FromOn
  <2> SUFFICES ASSUME k + 1 <= n PROVE Good(k + 1)
    OBVIOUS
  <2>1. k + 1 \in 1..n /\ k <= n
    BY <1>2
  <2>2. /\ take[1..k] \in Seq(kept) /\ IsInjective(take[1..k])
        /\ \A i \in DOMAIN take[1..k] : \E j \in 1..k : take[1..k][i] = todo[j]
    BY <1>8, <2>1
  <2> HIDE DEF FromOn, Good
  <2>3. PICK top \in Nat : top = k + 1
    OBVIOUS
  <2>4. PICK S \in SUBSET (1..n) : S = 1..top
    BY <2>1, <2>3
  <2>5. top \in S /\ S \in SUBSET (1..top) /\ S # {}
    BY <2>3, <2>4
  <2>6. Max(S) = top
    BY <2>5, GreatestOfAll
  <2>7. S \ {top} = 1..k
    <3>1. \A j : j \in (1..top) \ {top} <=> j \in 1..k
      BY <2>3
    <3> QED
      BY <2>4, <3>1
  <2>8. take[S] = IF verdict[todo[top]] = "ok" THEN Append(take[1..k], todo[top]) ELSE take[1..k]
    BY <1>5, <2>5, <2>6, <2>7 DEF Takes
  <2>9. PICK had : had = take[1..k]
    OBVIOUS
  <2>10. CASE take[S] = had
    <3>1. \A j \in 1..k : j \in 1..top
      BY <2>3
    <3> QED
      BY <2>2, <2>3, <2>4, <2>9, <2>10, <3>1 DEF Good
  <2>11. CASE take[S] = Append(had, todo[top])
    <3>1. had \in Seq(kept) /\ todo[top] \in kept /\ Len(had) \in Nat
      BY <1>4, <2>1, <2>2, <2>3, <2>9
    <3>2. PICK got : got = Append(had, todo[top])
      OBVIOUS
    <3>3. /\ got \in Seq(kept) /\ DOMAIN got = 1..(Len(had) + 1) /\ got[Len(had) + 1] = todo[top]
          /\ DOMAIN had = 1..Len(had) /\ \A i \in 1..Len(had) : got[i] = had[i]
      BY <3>1, <3>2
    <3>4. \A i \in 1..Len(had) : \E j \in 1..k : had[i] = todo[j]
      BY <2>2, <2>9, <3>3
    <3>5. \A i \in 1..Len(had) : had[i] # todo[top]
      <4>1. \A j \in 1..k : j \in 1..n /\ j # top
        BY <2>1, <2>3
      <4> QED
        BY <1>3, <2>1, <2>3, <3>4, <4>1
    <3>6. \A i \in DOMAIN got : i = Len(had) + 1 \/ i \in 1..Len(had)
      BY <3>1, <3>3
    <3>7. IsInjective(got)
      <4>1. \A a, b \in 1..Len(had) : had[a] = had[b] => a = b
        BY <2>2, <2>9, <3>3 DEF IsInjective
      <4>2. ASSUME NEW a \in DOMAIN got, NEW b \in DOMAIN got, got[a] = got[b] PROVE a = b
        BY <3>3, <3>5, <3>6, <4>1, <4>2
      <4> QED
        BY <4>2 DEF IsInjective
    <3>8. \A i \in DOMAIN got : \E j \in 1..top : got[i] = todo[j]
      <4>1. top \in 1..top /\ \A j \in 1..k : j \in 1..top
        BY <2>3
      <4> QED
        BY <3>3, <3>4, <3>6, <4>1
    <3>9. take[1..(k + 1)] = got
      BY <2>3, <2>4, <2>11, <3>2
    <3> QED
      BY <2>3, <3>3, <3>7, <3>8, <3>9 DEF Good
  <2> QED
    BY <2>8, <2>9, <2>10, <2>11
<1> HIDE DEF FromOn, Good
<1>9. Nat \subseteq FromOn
  BY <1>7, <1>8, Upwards
<1>10. Good(n)
  <2>1. n <= n
    BY <1>2
  <2> QED
    BY <1>9, <2>1 DEF FromOn
<1> QED
  BY <1>6, <1>10 DEF Good, IsList

LEMMA TailIsList ==
    ASSUME NEW todo, IsList(todo), todo # <<>>
    PROVE  /\ IsList(Tail(todo)) /\ Contains(todo, todo[1])
           /\ \A d : Contains(Tail(todo), d) => Contains(todo, d) /\ d # todo[1]
<1>1. PICK kept : todo \in Seq(kept)
  BY DEF IsList
<1>2. PICK n \in Nat : n = Len(todo) /\ DOMAIN todo = 1..n /\ n # 0
  BY <1>1
<1>3. \A a, b \in 1..n : todo[a] = todo[b] => a = b
  BY <1>2 DEF IsList, IsInjective
<1>4. PICK rest : rest = Tail(todo)
  OBVIOUS
<1>5. /\ rest \in Seq(kept) /\ Len(rest) = n - 1 /\ DOMAIN rest = 1..(n - 1)
      /\ \A i \in 1..(n - 1) : rest[i] = todo[i + 1]
  BY <1>1, <1>2, <1>4
<1>6. \A i \in 1..(n - 1) : i + 1 \in 1..n /\ i + 1 # 1
  BY <1>2
<1>7. IsInjective(rest)
  <2>1. ASSUME NEW a \in 1..(n - 1), NEW b \in 1..(n - 1), rest[a] = rest[b] PROVE a = b
    <3>1. todo[a + 1] = todo[b + 1]
      BY <1>5, <2>1
    <3>2. a + 1 = b + 1
      BY <1>3, <1>6, <3>1
    <3> QED
      BY <1>2, <3>2
  <2> QED
    BY <1>5, <2>1 DEF IsInjective
<1>8. 1 \in 1..n
  BY <1>2
<1>9. ASSUME NEW d, Contains(rest, d) PROVE Contains(todo, d) /\ d # todo[1]
  <2>1. PICK i \in 1..(n - 1) : rest[i] = d
    BY <1>5, <1>9 DEF Contains
  <2> QED
    BY <1>2, <1>3, <1>5, <1>6, <1>8, <2>1 DEF Contains
<1> QED
  BY <1>2, <1>4, <1>5, <1>7, <1>8, <1>9 DEF IsList, Contains
(* What a run has made, and what of it is whole. *)
Of(run) == {w \in made : w.run = run}
Wholes(ws) == {w \in ws : w.whole}

(* What a run counts as done is what it has made whole, at each of its steps:
   r is its record, ws what it made, and followed that its reply is awaited.
   It meets each deal once, so that what is left to do it has not made. *)
Counts(r, ws, followed) ==
    /\ IsList(r.todo)
    /\ r.pc \in {"new", "dedupe"} => r.done = 0 /\ ws = {}
    /\ r.pc = "pick" => /\ r.done = Cardinality(Wholes(ws))
                        /\ \A w \in ws : ~Contains(r.todo, w.deal)
    /\ r.pc = "plan" => /\ r.todo # <<>> /\ r.done = Cardinality(Wholes(ws))
                        /\ \E w \in ws : /\ w.deal = r.todo[1] /\ ~w.whole
                                         /\ \A v \in ws : Contains(r.todo, v.deal) => v = w
    /\ r.pc = "rollback" => /\ r.todo # <<>>
                            /\ r.done = Cardinality(Wholes({w \in ws : w.deal # r.todo[1]}))
                            /\ \A w \in ws : Contains(r.todo, w.deal) => w.deal = r.todo[1]
    /\ r.pc = "over" /\ followed => r.done = Cardinality(Wholes(ws))

RunsCount ==
    \A i \in 1..Len(imports) : i \notin lostInDb => Counts(imports[i], Of(i), following = i)

(* A summary is of a run that makes nothing more. *)
SummaryInv ==
    summary.run \notin lostInDb \cup {0} =>
        /\ summary.run \in 1..Len(imports) /\ imports[summary.run].pc = "over"
        /\ summary.imported = Cardinality(Wholes(Of(summary.run)))
        /\ summary.status = "complete" => ~summary.retryable /\ ~summary.reconnect

CountsInv == IsFiniteSet(made) /\ IsList(lastPicked) /\ RunsCount /\ SummaryInv

LEMMA InitCountsInv == ImportsInit => CountsInv
<1> SUFFICES ASSUME ImportsInit PROVE CountsInv
  OBVIOUS
<1>1. IsFiniteSet(made) /\ Len(imports) = 0
  BY FS_EmptySet DEF ImportsInit
<1>2. IsList(lastPicked)
  <2>1. lastPicked \in Seq({}) /\ DOMAIN lastPicked = {}
    BY DEF ImportsInit
  <2>2. IsInjective(lastPicked)
    BY <2>1 DEF IsInjective
  <2> QED
    BY <2>1, <2>2 DEF IsList
<1>3. SummaryInv
  BY DEF ImportsInit, SummaryInv, NoSummary
<1> QED
  BY <1>1, <1>2, <1>3 DEF CountsInv, RunsCount

(* A run goes on: the others, and the panel, do not notice. *)
LEMMA CountsTurn ==
    ASSUME ImportsInv, CountsInv, NEW run \in 1..Len(imports), NEW r,
           imports' = [imports EXCEPT ![run] = r], UNCHANGED panelVars,
           imports[run].pc # "over", lostInDb \subseteq lostInDb', IsFiniteSet(made'),
           \A w : w.run # run => (w \in made' <=> w \in made),
           run \notin lostInDb' => Counts(r, Of(run)', following = run)
    PROVE  CountsInv'
<1>1. PICK kept : imports \in Seq(kept)
  BY DEF ImportsInv, RunsInv
<1>2. Len(imports') = Len(imports) /\ imports'[run] = r
  BY <1>1
<1>3. \A i \in 1..Len(imports) : i # run => imports'[i] = imports[i]
  BY <1>1
<1>4. UNCHANGED <<following, lastPicked, summary>>
  BY DEF panelVars
<1>5. ASSUME NEW i, i # run PROVE Of(i)' = Of(i)
  BY <1>5 DEF Of
<1>6. ASSUME NEW i \in 1..Len(imports), i \notin lostInDb'
      PROVE  Counts(imports'[i], Of(i)', following = i)
  <2>1. CASE i = run
    BY <1>2, <1>6, <2>1
  <2>2. CASE i # run
    <3>1. Counts(imports[i], Of(i), following = i)
      BY <1>6 DEF CountsInv, RunsCount
    <3> QED
      BY <1>3, <1>5, <2>2, <3>1
  <2> QED
    BY <2>1, <2>2
<1>7. RunsCount'
  <2>1. \A i \in 1..Len(imports)' : i \notin lostInDb' => Counts(imports[i], Of(i), following = i)'
    BY <1>2, <1>4, <1>6
  <2> QED
    BY <2>1 DEF RunsCount
<1>8. SummaryInv'
  <2> SUFFICES ASSUME summary.run \notin lostInDb \cup {0}
               PROVE  /\ summary.run \in 1..Len(imports') /\ imports'[summary.run].pc = "over"
                      /\ summary.imported = Cardinality(Wholes(Of(summary.run)'))
                      /\ summary.status = "complete" => ~summary.retryable /\ ~summary.reconnect
    BY <1>4 DEF SummaryInv, Wholes
  <2>1. /\ summary.run \in 1..Len(imports) /\ imports[summary.run].pc = "over"
        /\ summary.imported = Cardinality(Wholes(Of(summary.run)))
        /\ summary.status = "complete" => ~summary.retryable /\ ~summary.reconnect
    BY DEF CountsInv, SummaryInv
  <2>2. PICK i \in 1..Len(imports) : i = summary.run
    BY <2>1
  <2>3. i # run
    BY <2>1, <2>2
  <2>4. imports'[i] = imports[i] /\ Of(i)' = Of(i)
    BY <1>3, <1>5, <2>3
  <2> QED
    BY <1>2, <1>4, <2>1, <2>2, <2>4
<1> QED
  BY <1>4, <1>7, <1>8 DEF CountsInv, IsList

LEMMA EmptyIsList == IsList(<<>>)
<1>1. <<>> \in Seq({}) /\ DOMAIN <<>> = {}
  OBVIOUS
<1>2. IsInjective(<<>>)
  BY <1>1 DEF IsInjective
<1> QED
  BY <1>1, <1>2 DEF IsList

LEMMA NoneIsWhole == Cardinality(Wholes({})) = 0
<1>1. Wholes({}) = {}
  BY DEF Wholes
<1> QED
  BY <1>1, FS_EmptySet

LEMMA MadeIsFinite ==
    ASSUME CountsInv
    PROVE  \A run : IsFiniteSet(Of(run)) /\ IsFiniteSet(Wholes(Of(run)))
<1> SUFFICES ASSUME NEW run PROVE IsFiniteSet(Of(run)) /\ IsFiniteSet(Wholes(Of(run)))
  OBVIOUS
<1>1. Of(run) \in SUBSET made /\ Wholes(Of(run)) \in SUBSET made
  BY DEF Of, Wholes
<1> QED
  BY <1>1, FS_Subset DEF CountsInv

LEMMA RunCounts ==
    ASSUME CountsInv, NEW run \in 1..Len(imports), run \notin lostInDb
    PROVE  Counts(imports[run], Of(run), following = run)
  BY DEF CountsInv, RunsCount

(* The steps of a run before its first deal. *)
LEMMA KeepsCounts ==
    ASSUME ImportsInv, CountsInv, NEW run \in 1..Len(imports),
           FetchAndMapDeals(run) \/ DedupeAlreadyImported(run) \/ ValidateImportRows(run)
    PROVE  CountsInv'
<1>1. UNCHANGED <<made, panelVars, lostInDb>> /\ imports[run].pc \in {"new", "dedupe"}
  BY DEF FetchAndMapDeals, DedupeAlreadyImported, ValidateImportRows, At
<1>2. (\E pc \in {"dedupe", "pick", "over"} : \E verdict : Keeps(run, pc, verdict)) \/ RefusesAll(run)
  BY DEF FetchAndMapDeals, DedupeAlreadyImported, ValidateImportRows
<1>3. PICK r : /\ r.pc \in {"dedupe", "pick", "over"} /\ r.done = imports[run].done
               /\ r.todo = <<>> \/ \E verdict : r.todo = Passing(imports[run].todo, verdict)
               /\ imports' = [imports EXCEPT ![run] = r]
  BY <1>2, KeepsTurns, RefusalTurns
<1>4. Of(run)' = Of(run) /\ IsFiniteSet(made')
  BY <1>1 DEF Of, CountsInv
<1>5. ASSUME run \notin lostInDb' PROVE Counts(r, Of(run)', following = run)
  <2>1. Counts(imports[run], Of(run), following = run)
    BY <1>1, <1>5, RunCounts
  <2>2. IsList(imports[run].todo) /\ imports[run].done = 0 /\ Of(run) = {}
    BY <1>1, <2>1 DEF Counts
  <2>3. IsList(r.todo)
    BY <1>3, <2>2, PassingIsList, EmptyIsList
  <2> QED
    BY <1>3, <1>4, <2>2, <2>3, NoneIsWhole DEF Counts
<1> QED
  BY <1>1, <1>3, <1>4, <1>5, CountsTurn

LEMMA CreateCounts ==
    ASSUME ImportsInv, CountsInv, NEW run \in 1..Len(imports), CreateWorkspace(run)
    PROVE  CountsInv'
<1>1. UNCHANGED panelVars /\ imports[run].pc = "pick" /\ imports[run].todo # <<>>
  BY DEF CreateWorkspace, At
<1>2. PICK todo, done : todo = imports[run].todo /\ done = imports[run].done
  OBVIOUS
<1>3. ASSUME run \notin lostInDb
      PROVE  /\ IsList(todo) /\ IsList(Tail(todo)) /\ done = Cardinality(Wholes(Of(run)))
             /\ \A w \in Of(run) : ~Contains(todo, w.deal) /\ ~Contains(Tail(todo), w.deal)
  <2>1. Counts(imports[run], Of(run), following = run)
    BY <1>3, RunCounts
  <2>2. IsList(todo) /\ done = Cardinality(Wholes(Of(run))) /\ \A w \in Of(run) : ~Contains(todo, w.deal)
    BY <1>1, <1>2, <2>1 DEF Counts
  <2>3. IsList(Tail(todo)) /\ \A d : Contains(Tail(todo), d) => Contains(todo, d)
    BY <1>1, <1>2, <2>2, TailIsList
  <2> QED
    BY <2>2, <2>3
<1>4. PICK bare : bare = [deal |-> Item(run), run |-> run, anchored |-> imports[run].kind = "crm",
                          whole |-> FALSE]
  OBVIOUS
<1>5. ASSUME NEW reason, reason # "ok", Next1(run, reason), UNCHANGED <<made, lostInDb>>
      PROVE  CountsInv'
  <2>1. PICK r : /\ r.pc = "pick" /\ r.todo = Tail(todo) /\ r.done = done
                 /\ imports' = [imports EXCEPT ![run] = r]
    BY <1>2, <1>5, NextTurns
  <2>2. Of(run)' = Of(run) /\ IsFiniteSet(made')
    BY <1>5 DEF Of, CountsInv
  <2>3. ASSUME run \notin lostInDb' PROVE Counts(r, Of(run)', following = run)
    <3>1. /\ IsList(r.todo) /\ r.done = Cardinality(Wholes(Of(run)'))
          /\ \A w \in Of(run)' : ~Contains(r.todo, w.deal)
      BY <1>3, <1>5, <2>1, <2>2, <2>3
    <3> QED
      BY <2>1, <3>1 DEF Counts
  <2> QED
    BY <1>1, <1>5, <2>1, <2>2, <2>3, CountsTurn
<1>6. ASSUME made' = made \cup {bare}, Goes(run, "plan"), UNCHANGED lostInDb
      PROVE  CountsInv'
  <2>1. PICK r : /\ r.pc = "plan" /\ r.todo = todo /\ r.done = done
                 /\ imports' = [imports EXCEPT ![run] = r]
    BY <1>2, <1>6, GoesTurns
  <2>2. bare.run = run /\ bare.deal = todo[1] /\ ~bare.whole
    BY <1>2, <1>4 DEF Item
  <2>3. Of(run)' = Of(run) \cup {bare} /\ \A w : w.run # run => (w \in made' <=> w \in made)
    BY <1>6, <2>2 DEF Of
  <2>4. IsFiniteSet(made')
    BY <1>6, FS_AddElement DEF CountsInv
  <2>5. Wholes(Of(run)') = Wholes(Of(run))
    BY <2>2, <2>3 DEF Wholes
  <2>6. ASSUME run \notin lostInDb' PROVE Counts(r, Of(run)', following = run)
    <3>1. \A v \in Of(run)' : Contains(r.todo, v.deal) => v = bare
      BY <1>3, <1>6, <2>1, <2>3, <2>6
    <3> QED
      BY <1>1, <1>2, <1>3, <1>6, <2>1, <2>2, <2>3, <2>5, <2>6, <3>1 DEF Counts
  <2> QED
    BY <1>1, <1>6, <2>1, <2>3, <2>4, <2>6, CountsTurn
<1>7. ASSUME made' = made \cup {bare}, Next1(run, "unknown"), lostInDb' = lostInDb \cup {run}
      PROVE  CountsInv'
  <2>1. PICK r : imports' = [imports EXCEPT ![run] = r]
    BY <1>7, NextTurns
  <2>2. bare.run = run
    BY <1>4
  <2>3. \A w : w.run # run => (w \in made' <=> w \in made)
    BY <1>7, <2>2
  <2>4. IsFiniteSet(made')
    BY <1>7, FS_AddElement DEF CountsInv
  <2> QED
    BY <1>1, <1>7, <2>1, <2>3, <2>4, CountsTurn
<1> QED
  BY <1>4, <1>5, <1>6, <1>7 DEF CreateWorkspace

LEMMA WriteCounts ==
    ASSUME ImportsInv, CountsInv, NEW run \in 1..Len(imports), WriteDeal(run)
    PROVE  CountsInv'
<1>1. UNCHANGED <<panelVars, lostInDb>> /\ imports[run].pc = "plan"
  BY DEF WriteDeal, At
<1>2. PICK todo, done, item : todo = imports[run].todo /\ done = imports[run].done /\ item = Item(run)
  OBVIOUS
<1>3. item = todo[1]
  BY <1>2 DEF Item
<1>4. ASSUME run \notin lostInDb
      PROVE  /\ todo # <<>> /\ IsList(todo) /\ done = Cardinality(Wholes(Of(run)))
             /\ \E w \in Of(run) : /\ w.deal = item /\ ~w.whole
                                   /\ \A v \in Of(run) : Contains(todo, v.deal) => v = w
  <2>1. Counts(imports[run], Of(run), following = run)
    BY <1>4, RunCounts
  <2> QED
    BY <1>1, <1>2, <1>3, <2>1 DEF Counts
<1>5. ASSUME run \notin lostInDb
      PROVE  /\ IsList(Tail(todo)) /\ Contains(todo, item)
             /\ \A d : Contains(Tail(todo), d) => Contains(todo, d) /\ d # item
  BY <1>3, <1>4, <1>5, TailIsList
<1> DEFINE planned == {[w EXCEPT !.whole = TRUE] : w \in Mine(run, item)}
           now     == (Of(run) \ Mine(run, item)) \cup planned
<1>6. \A w \in Mine(run, item) : w.run = run /\ w.deal = item /\ w \in made /\ IsImported(w)
  BY DEF Mine, ImportsInv, MadeInv
<1>7. ASSUME NEW w \in Mine(run, item), NEW v, v = [w EXCEPT !.whole = TRUE]
      PROVE  v.run = run /\ v.deal = item /\ v.whole
  <2>1. PICK anchored, whole : w = [deal |-> item, run |-> run, anchored |-> anchored, whole |-> whole]
    BY <1>6 DEF IsImported
  <2>2. v = [deal |-> item, run |-> run, anchored |-> anchored, whole |-> TRUE]
    BY <1>7, <2>1
  <2> QED
    BY <2>2
<1>8. \A v \in planned : v.run = run /\ v.deal = item /\ v.whole
  BY <1>7
<1>9. IsFiniteSet(planned)
  <2>1. Mine(run, item) \in SUBSET made
    BY <1>6
  <2>2. IsFiniteSet(Mine(run, item))
    BY <2>1, FS_Subset DEF CountsInv
  <2> DEFINE plan == [w \in Mine(run, item) |-> [w EXCEPT !.whole = TRUE]]
  <2>3. plan \in Surjection(Mine(run, item), planned)
    BY DEF Surjection
  <2> QED
    BY <2>2, <2>3, FS_Surjection
<1>10. ASSUME made' = (made \ Mine(run, item)) \cup planned
       PROVE  /\ IsFiniteSet(made') /\ Of(run)' = now
              /\ \A w : w.run # run => (w \in made' <=> w \in made)
  <2>1. IsFiniteSet(made \ Mine(run, item))
    <3>1. made \ Mine(run, item) \in SUBSET made
      OBVIOUS
    <3> QED
      BY <3>1, FS_Subset DEF CountsInv
  <2> HIDE DEF planned
  <2>2. IsFiniteSet(made')
    BY <1>9, <1>10, <2>1, FS_Union
  <2>3. Of(run)' = now
    BY <1>8, <1>10 DEF Of
  <2> QED
    BY <1>6, <1>8, <1>10, <2>2, <2>3
<1>11. ASSUME run \notin lostInDb
       PROVE  /\ \A v \in now : Contains(todo, v.deal) => v.deal = item
              /\ \A v \in now : ~Contains(Tail(todo), v.deal)
              /\ Cardinality(Wholes(now)) = done + 1
              /\ Wholes({v \in now : v.deal # item}) = Wholes(Of(run))
  <2>1. PICK w0 \in Of(run) : /\ w0.deal = item /\ ~w0.whole
                              /\ \A v \in Of(run) : Contains(todo, v.deal) => v = w0
    BY <1>4, <1>11
  <2>2. Mine(run, item) = {w0}
    BY <1>5, <1>11, <2>1 DEF Mine, Of
  <2>3. PICK w1 : w1 = [w0 EXCEPT !.whole = TRUE]
    OBVIOUS
  <2>4. planned = {w1} /\ w1.deal = item /\ w1.whole
    BY <1>7, <2>2, <2>3
  <2> HIDE DEF planned
  <2>5. now = (Of(run) \ {w0}) \cup {w1}
    BY <2>2, <2>4
  <2>6. w1 \notin Of(run) /\ w1 # w0
    BY <1>5, <1>11, <2>1, <2>4
  <2> HIDE DEF now
  <2>7. Wholes(now) = Wholes(Of(run)) \cup {w1} /\ w1 \notin Wholes(Of(run))
    BY <2>1, <2>4, <2>5, <2>6 DEF Wholes
  <2>8. Cardinality(Wholes(now)) = done + 1
    BY <1>4, <1>11, <2>7, MadeIsFinite, FS_AddElement
  <2>9. Wholes({v \in now : v.deal # item}) = Wholes(Of(run))
    <3>1. \A v \in Of(run) : v.whole => v.deal # item
      BY <1>5, <1>11, <2>1
    <3> QED
      BY <2>1, <2>4, <2>5, <3>1 DEF Wholes
  <2>10. \A v \in now : v = w1 \/ (v \in Of(run) /\ ~Contains(todo, v.deal))
    BY <2>1, <2>5
  <2> QED
    BY <1>5, <1>11, <2>4, <2>8, <2>9, <2>10
<1>12. CASE made' = (made \ Mine(run, item)) \cup planned /\ Next1(run, "ok")
  <2>1. PICK r : /\ r.pc = "pick" /\ r.todo = Tail(todo) /\ r.done = done + 1
                 /\ imports' = [imports EXCEPT ![run] = r]
    BY <1>2, <1>12, NextTurns
  <2> HIDE DEF planned, now
  <2>2. ASSUME run \notin lostInDb' PROVE Counts(r, Of(run)', following = run)
    <3>1. Of(run)' = now /\ run \notin lostInDb
      BY <1>1, <1>10, <1>12, <2>2
    <3>2. Cardinality(Wholes(now)) = done + 1 /\ \A v \in now : ~Contains(Tail(todo), v.deal)
      BY <1>11, <3>1
    <3>3. IsList(r.todo) /\ r.done = Cardinality(Wholes(now)) /\ \A v \in now : ~Contains(r.todo, v.deal)
      BY <1>5, <2>1, <3>1, <3>2
    <3> QED
      BY <2>1, <3>1, <3>3 DEF Counts
  <2> QED
    BY <1>1, <1>10, <1>12, <2>1, <2>2, CountsTurn
<1>13. CASE made' = (made \ Mine(run, item)) \cup planned /\ Goes(run, "rollback")
  <2>1. PICK r : /\ r.pc = "rollback" /\ r.todo = todo /\ r.done = done
                 /\ imports' = [imports EXCEPT ![run] = r]
    BY <1>2, <1>13, GoesTurns
  <2> HIDE DEF planned, now
  <2>2. ASSUME run \notin lostInDb' PROVE Counts(r, Of(run)', following = run)
    <3>1. Of(run)' = now /\ run \notin lostInDb
      BY <1>1, <1>10, <1>13, <2>2
    <3>2. /\ Wholes({v \in now : v.deal # item}) = Wholes(Of(run))
          /\ \A v \in now : Contains(todo, v.deal) => v.deal = item
      BY <1>11, <3>1
    <3> QED
      BY <1>3, <1>4, <2>1, <3>1, <3>2 DEF Counts
  <2> QED
    BY <1>1, <1>10, <1>13, <2>1, <2>2, CountsTurn
<1>14. CASE UNCHANGED made /\ Goes(run, "rollback")
  <2>1. PICK r : /\ r.pc = "rollback" /\ r.todo = todo /\ r.done = done
                 /\ imports' = [imports EXCEPT ![run] = r]
    BY <1>2, <1>14, GoesTurns
  <2>2. Of(run)' = Of(run) /\ IsFiniteSet(made')
    BY <1>14 DEF Of, CountsInv
  <2>3. ASSUME run \notin lostInDb' PROVE Counts(r, Of(run)', following = run)
    <3>1. PICK w0 \in Of(run) : /\ w0.deal = item /\ ~w0.whole
                                /\ \A v \in Of(run) : Contains(todo, v.deal) => v = w0
      BY <1>1, <1>4, <2>3
    <3>2. Contains(todo, item)
      BY <1>1, <1>5, <2>3
    <3>3. Wholes({v \in Of(run) : v.deal # item}) = Wholes(Of(run))
      BY <3>1, <3>2 DEF Wholes
    <3>4. IsList(todo) /\ todo # <<>> /\ done = Cardinality(Wholes(Of(run)))
      BY <1>1, <1>4, <2>3
    <3> QED
      BY <1>3, <2>1, <2>2, <3>1, <3>3, <3>4 DEF Counts
  <2> QED
    BY <1>1, <1>14, <2>1, <2>2, <2>3, CountsTurn
<1> QED
  BY <1>2, <1>12, <1>13, <1>14 DEF WriteDeal

LEMMA RollbackCounts ==
    ASSUME ImportsInv, CountsInv, NEW run \in 1..Len(imports), RollbackWorkspace(run)
    PROVE  CountsInv'
<1>1. UNCHANGED panelVars /\ imports[run].pc = "rollback" /\ lostInDb \subseteq lostInDb'
  BY DEF RollbackWorkspace, At
<1>2. PICK todo, done, item : todo = imports[run].todo /\ done = imports[run].done /\ item = Item(run)
  OBVIOUS
<1>3. item = todo[1]
  BY <1>2 DEF Item
<1>4. PICK r : /\ r.pc = "pick" /\ r.todo = Tail(todo) /\ r.done = done
               /\ imports' = [imports EXCEPT ![run] = r]
  BY <1>2, NextTurns DEF RollbackWorkspace
<1>5. made' = made \/ made' = made \ Mine(run, item)
  BY <1>2 DEF RollbackWorkspace
<1>6. IsFiniteSet(made')
  <2>1. made' \in SUBSET made
    BY <1>5
  <2> QED
    BY <2>1, FS_Subset DEF CountsInv
<1>7. \A w : w.run # run => (w \in made' <=> w \in made)
  BY <1>5 DEF Mine
<1>8. ASSUME run \notin lostInDb' PROVE Counts(r, Of(run)', following = run)
  <2>1. run \notin lostInDb /\ made' = made \ Mine(run, item)
    BY <1>2, <1>8 DEF RollbackWorkspace
  <2>2. Counts(imports[run], Of(run), following = run)
    BY <2>1, RunCounts
  <2>3. /\ todo # <<>> /\ IsList(todo) /\ done = Cardinality(Wholes({w \in Of(run) : w.deal # item}))
        /\ \A w \in Of(run) : Contains(todo, w.deal) => w.deal = item
    BY <1>1, <1>2, <1>3, <2>2 DEF Counts
  <2>4. IsList(Tail(todo)) /\ \A d : Contains(Tail(todo), d) => Contains(todo, d) /\ d # item
    BY <1>3, <2>3, TailIsList
  <2>5. Of(run)' = {w \in Of(run) : w.deal # item}
    BY <2>1 DEF Of, Mine
  <2>6. /\ IsList(r.todo) /\ r.done = Cardinality(Wholes(Of(run)'))
        /\ \A w \in Of(run)' : ~Contains(r.todo, w.deal)
    BY <1>4, <2>3, <2>4, <2>5
  <2> QED
    BY <1>4, <2>6 DEF Counts
<1> QED
  BY <1>1, <1>4, <1>6, <1>7, <1>8, CountsTurn

LEMMA ServeRunCounts ==
    ASSUME ImportsInv, CountsInv, NEW run \in 1..Len(imports), ServeRun(run)
    PROVE  CountsInv'
<1>1. CASE WriteCrmImport(run)
  <2>1. UNCHANGED <<made, panelVars, lostInDb>> /\ imports[run].pc = "pick" /\ imports[run].todo = <<>>
    BY <1>1 DEF WriteCrmImport, At
  <2>2. \/ following = run /\ Goes(run, "over")
        \/ following # run /\ Sets(run, Read(imports[run], "over"))
    BY <1>1 DEF WriteCrmImport, Goes
  <2>3. PICK r : /\ r.pc = "over" /\ r.todo = <<>> /\ (following = run => r.done = imports[run].done)
                 /\ imports' = [imports EXCEPT ![run] = r]
    BY <2>1, <2>2, GoesTurns, ReadTurns
  <2>4. Of(run)' = Of(run) /\ IsFiniteSet(made')
    BY <2>1 DEF Of, CountsInv
  <2>5. ASSUME run \notin lostInDb' PROVE Counts(r, Of(run)', following = run)
    <3>1. Counts(imports[run], Of(run), following = run)
      BY <2>1, <2>5, RunCounts
    <3>2. imports[run].done = Cardinality(Wholes(Of(run)))
      BY <2>1, <3>1 DEF Counts
    <3>3. IsList(r.todo)
      BY <2>3, EmptyIsList
    <3> QED
      BY <2>3, <2>4, <3>2, <3>3 DEF Counts
  <2> QED
    BY <2>1, <2>3, <2>4, <2>5, CountsTurn
<1>2. CASE RunDies(run)
  <2>1. UNCHANGED <<made, panelVars>> /\ imports[run].pc # "over" /\ lostInDb' = lostInDb \cup {run}
    BY <1>2 DEF RunDies
  <2>2. PICK r : imports' = [imports EXCEPT ![run] = r]
    BY <1>2, ReadTurns DEF RunDies
  <2>3. IsFiniteSet(made')
    BY <2>1 DEF CountsInv
  <2> QED
    BY <2>1, <2>2, <2>3, CountsTurn
<1> QED
  BY <1>1, <1>2, KeepsCounts, CreateCounts, WriteCounts, RollbackCounts DEF ServeRun

LEMMA Unfollowed ==
    ASSUME NEW r, NEW ws, NEW followed, NEW follows, Counts(r, ws, followed), follows => followed
    PROVE  Counts(r, ws, follows)
  BY DEF Counts

(* Neither the runs nor what they made. *)
LEMMA PanelCounts ==
    ASSUME CountsInv, UNCHANGED <<imports, made, lostInDb, lastPicked>>, following' \in {0, following},
           UNCHANGED summary \/ (summary'.run = 0)
    PROVE  CountsInv'
<1>1. ASSUME NEW i \in 1..Len(imports), i \notin lostInDb
      PROVE  Counts(imports[i], Of(i), following' = i)
  <2>1. Counts(imports[i], Of(i), following = i)
    BY <1>1 DEF CountsInv, RunsCount
  <2>2. i # 0
    OBVIOUS
  <2> QED
    BY <2>1, <2>2, Unfollowed
<1>2. \A i : Of(i)' = Of(i)
  BY DEF Of
<1>3. RunsCount'
  BY <1>1, <1>2 DEF RunsCount
<1>4. SummaryInv'
  BY DEF CountsInv, SummaryInv, Of, Wholes
<1> QED
  BY <1>3, <1>4 DEF CountsInv, IsList

LEMMA BeginCounts ==
    ASSUME ImportsInv, CountsInv, NEW kind, NEW todo, Begins(kind, todo), IsList(todo),
           following' \in {following, importRuns + 1}, lastPicked' \in {lastPicked, todo}, UNCHANGED summary
    PROVE  CountsInv'
<1>1. PICK kept : imports \in Seq(kept)
  BY DEF ImportsInv, RunsInv
<1>2. PICK r : r = [kind |-> kind, pc |-> "new", todo |-> todo, done |-> 0, refused |-> {}]
  OBVIOUS
<1>3. imports' = Append(imports, r) /\ UNCHANGED <<made, lostInDb>>
  BY <1>2 DEF Begins, NewRun
<1>4. PICK n \in Nat : n = Len(imports)
  BY <1>1
<1>5. /\ Len(imports') = n + 1 /\ imports'[n + 1] = r
      /\ \A i \in 1..n : imports'[i] = imports[i]
  BY <1>1, <1>3, <1>4
<1>6. importRuns = n /\ following \in 0..n /\ \A w \in made : w.run \in 0..n
  BY <1>4 DEF ImportsInv, RunsInv, MadeInv
<1>7. \A i : Of(i)' = Of(i)
  BY <1>3 DEF Of
<1>8. ASSUME NEW i \in 1..(n + 1), i \notin lostInDb
      PROVE  Counts(imports'[i], Of(i), following' = i)
  <2>1. CASE i = n + 1
    <3>1. Of(i) = {}
      BY <1>6, <2>1 DEF Of
    <3> QED
      BY <1>2, <1>5, <2>1, <3>1 DEF Counts
  <2>2. CASE i \in 1..n
    <3>1. Counts(imports[i], Of(i), following = i)
      BY <1>4, <1>8, <2>2 DEF CountsInv, RunsCount
    <3>2. following' = i => following = i
      BY <1>6, <2>2
    <3> QED
      BY <1>5, <2>2, <3>1, <3>2, Unfollowed
  <2> QED
    BY <2>1, <2>2
<1>9. RunsCount'
  BY <1>3, <1>5, <1>7, <1>8 DEF RunsCount
<1>10. SummaryInv'
  <2> SUFFICES ASSUME summary.run \notin lostInDb \cup {0}
               PROVE  /\ summary.run \in 1..Len(imports') /\ imports'[summary.run].pc = "over"
                      /\ summary.imported = Cardinality(Wholes(Of(summary.run)))
                      /\ summary.status = "complete" => ~summary.retryable /\ ~summary.reconnect
    BY <1>3 DEF SummaryInv, Wholes, Of
  <2>1. /\ summary.run \in 1..Len(imports) /\ imports[summary.run].pc = "over"
        /\ summary.imported = Cardinality(Wholes(Of(summary.run)))
        /\ summary.status = "complete" => ~summary.retryable /\ ~summary.reconnect
    BY DEF CountsInv, SummaryInv
  <2>2. PICK i \in 1..n : i = summary.run
    BY <1>4, <2>1
  <2> QED
    BY <1>4, <1>5, <2>1, <2>2
<1>11. IsList(lastPicked)'
  <2>1. IsList(lastPicked')
    BY DEF CountsInv
  <2> QED
    BY <2>1 DEF IsList
<1> QED
  BY <1>3, <1>9, <1>10, <1>11 DEF CountsInv

LEMMA AnswerCounts ==
    ASSUME ImportsInv, CountsInv, ImportAnswered
    PROVE  CountsInv'
<1>1. PICK kept : imports \in Seq(kept)
  BY DEF ImportsInv, RunsInv
<1>2. PICK run \in 1..Len(imports) : run = following
  BY DEF ImportAnswered, ImportsInv, RunsInv
<1>3. /\ imports[run].pc = "over" /\ following' = 0 /\ UNCHANGED <<made, lastPicked, lostInDb>>
      /\ Sets(run, Read(imports[run], "over"))
  BY <1>2 DEF ImportAnswered, Sets
<1>4. PICK r : /\ r.pc = "over" /\ r.todo = <<>> /\ imports' = [imports EXCEPT ![run] = r]
  BY <1>3, ReadTurns
<1>5. Len(imports') = Len(imports) /\ imports'[run] = r
  BY <1>1, <1>4
<1>6. \A i \in 1..Len(imports) : i # run => imports'[i] = imports[i]
  BY <1>1, <1>4
<1>7. \A i : Of(i)' = Of(i)
  BY <1>3 DEF Of
<1>8. ASSUME NEW i \in 1..Len(imports), i \notin lostInDb
      PROVE  Counts(imports'[i], Of(i), following' = i)
  <2>1. following' # i
    BY <1>3
  <2>2. CASE i = run
    <3>1. IsList(r.todo)
      BY <1>4, EmptyIsList
    <3> QED
      BY <1>4, <1>5, <2>1, <2>2, <3>1 DEF Counts
  <2>3. CASE i # run
    <3>1. Counts(imports[i], Of(i), following = i)
      BY <1>8 DEF CountsInv, RunsCount
    <3> QED
      BY <1>6, <2>1, <2>3, <3>1, Unfollowed
  <2> QED
    BY <2>2, <2>3
<1>9. RunsCount'
  BY <1>3, <1>5, <1>7, <1>8 DEF RunsCount
<1>10. SummaryInv'
  <2>1. PICK done, refused : done = imports[run].done /\ refused = imports[run].refused
    OBVIOUS
  <2>2. PICK sum : sum = [status    |-> IF refused = {} THEN "complete" ELSE IF done = 0 THEN "failed" ELSE "partial",
                          imported  |-> done, run |-> run,
                          retryable |-> refused \cap {"rate_limited", "unknown"} # {},
                          reconnect |-> "token_expired" \in refused]
    OBVIOUS
  <2>3. summary' = sum
    BY <1>2, <2>1, <2>2 DEF ImportAnswered, Summarize
  <2>4. sum.run = run /\ sum.imported = done
    BY <2>2
  <2>5. sum.status = "complete" => ~sum.retryable /\ ~sum.reconnect
    <3>1. CASE refused = {}
      BY <2>2, <3>1
    <3>2. CASE refused # {}
      BY <2>2, <3>2
    <3> QED
      BY <3>1, <3>2
  <2>6. run \notin lostInDb => done = Cardinality(Wholes(Of(run)))
    BY <1>2, <1>3, <2>1, RunCounts DEF Counts
  <2>7. Wholes(Of(run))' = Wholes(Of(run))
    BY <1>3 DEF Of, Wholes
  <2> QED
    BY <1>3, <1>4, <1>5, <1>7, <2>3, <2>4, <2>5, <2>6 DEF SummaryInv, Wholes
<1> QED
  BY <1>3, <1>9, <1>10 DEF CountsInv, IsList

LEMMA PickIsList ==
    ASSUME NEW deals, NEW picked \in BoundedSeq(deals, MaxPicked), IsInjective(picked)
    PROVE  IsList(picked)
<1>1. PICK m \in 0..MaxPicked : picked \in [1..m -> deals]
  BY DEF BoundedSeq, SeqOf
<1>2. m \in Nat
  BY <1>1
<1>3. picked \in Seq(deals)
  BY <1>1, <1>2
<1> QED
  BY <1>3 DEF IsList

LEMMA RowsAreList ==
    ASSUME NEW rows \in CsvRuns
    PROVE  IsList(rows)
<1>1. PICK f \in CsvFiles : rows = [i \in 1..(IF ParseCsv(f) THEN f.rows ELSE 0) |-> i]
  BY DEF CsvRuns
<1>2. f.rows \in 1..(MaxPicked + 1)
  BY DEF CsvFiles
<1>3. PICK n \in Nat : n = IF ParseCsv(f) THEN f.rows ELSE 0
  BY <1>2
<1>4. rows = [i \in 1..n |-> i]
  BY <1>1, <1>3
<1>5. rows \in Seq(Nat)
  BY <1>4
<1>6. IsInjective(rows)
  BY <1>4 DEF IsInjective
<1> QED
  BY <1>5, <1>6 DEF IsList

LEMMA ImportsStepCounts == ImportsInv /\ CountsInv /\ [ImportsNext]_importVars => CountsInv'
<1> SUFFICES ASSUME ImportsInv, CountsInv, [ImportsNext]_importVars PROVE CountsInv'
  OBVIOUS
<1>1. CASE RefreshDeals \/ DealsListed \/ UNCHANGED importVars
  <2>1. UNCHANGED <<imports, made, lostInDb, lastPicked, following, summary>>
    BY <1>1 DEF RefreshDeals, DealsListed, importVars, panelVars
  <2> QED
    BY <2>1, PanelCounts
<1>2. CASE ImportThrown
  <2>1. summary'.run = 0
    BY <1>2 DEF ImportThrown, NoSummary
  <2> QED
    BY <1>2, <2>1, PanelCounts DEF ImportThrown
<1>3. CASE PickDeals \/ RetryImport
  <2>1. PICK todo : IsList(todo) /\ RunImport(todo)
    BY <1>3, PickIsList DEF PickDeals, RetryImport, CountsInv
  <2> QED
    BY <2>1, BeginCounts DEF RunImport
<1>4. CASE SubmitCsv
  <2>1. PICK rows \in CsvRuns : Begins("csv", rows) /\ UNCHANGED panelVars
    BY <1>4 DEF SubmitCsv
  <2> QED
    BY <2>1, RowsAreList, BeginCounts DEF panelVars
<1>5. CASE IngestCrmWebhook
  <2>1. PICK d : made' = made \cup {[deal |-> d, run |-> 0, anchored |-> TRUE, whole |-> FALSE]}
    BY <1>5 DEF IngestCrmWebhook
  <2>2. PICK w : w = [deal |-> d, run |-> 0, anchored |-> TRUE, whole |-> FALSE]
    OBVIOUS
  <2>3. made' = made \cup {w} /\ w.run = 0
    BY <2>1, <2>2
  <2>4. UNCHANGED <<imports, lostInDb, following, lastPicked, summary>>
    BY <1>5 DEF IngestCrmWebhook, panelVars
  <2>5. \A i : i # 0 => Of(i)' = Of(i)
    BY <2>3 DEF Of
  <2>6. IsFiniteSet(made')
    BY <2>3, FS_AddElement DEF CountsInv
  <2>7. RunsCount'
    <3>1. ASSUME NEW i \in 1..Len(imports), i \notin lostInDb
          PROVE  Counts(imports[i], Of(i)', following = i)
      <4>1. i # 0
        OBVIOUS
      <4> QED
        BY <2>5, <3>1, <4>1 DEF CountsInv, RunsCount
    <3> QED
      BY <2>4, <3>1 DEF RunsCount
  <2>8. SummaryInv'
    <3>1. summary.run # 0 => Wholes(Of(summary.run))' = Wholes(Of(summary.run))
      BY <2>4, <2>5 DEF Wholes
    <3> QED
      BY <2>4, <3>1 DEF CountsInv, SummaryInv
  <2> QED
    BY <2>4, <2>6, <2>7, <2>8 DEF CountsInv, IsList
<1>6. CASE \E run \in Runs : ServeRun(run)
  <2>1. Runs = 1..Len(imports)
    BY DEF Runs, ImportsInv, RunsInv
  <2> QED
    BY <1>6, <2>1, ServeRunCounts
<1> QED
  BY <1>1, <1>2, <1>3, <1>4, <1>5, <1>6, AnswerCounts DEF ImportsNext

(* write-crm-import.ts, import-deals.ts and the panel's runImport: what a
   summary says was imported is what its run left whole, and a complete one
   has nothing to retry, however runs, retries and the webhook interleave;
   for any deals, any files and any number of runs. *)
THEOREM SummaryIsTrueAlways == ImportsSpec => []SummaryIsTrue
<1>1. CountsInv => SummaryIsTrue
  <2>1. Wholes(Of(summary.run)) = {w \in made : w.run = summary.run /\ w.whole}
    BY DEF Wholes, Of
  <2> QED
    BY <2>1 DEF CountsInv, SummaryInv, SummaryIsTrue
<1>2. ImportsSpec => [](ImportsInv /\ CountsInv)
  BY InitImportsInv, InitCountsInv, ImportsStepKeeps, ImportsStepCounts, PTL DEF ImportsSpec
<1> QED
  BY <1>1, <1>2, PTL

-------------------------------------------------------------------------------
(* The five desks together. *)

(* The components share no state: what is proved of one of them holds of a
   seller who may be at any of the five. *)
THEOREM PagesAreTheirComponents ==
    Spec => BuilderSpec /\ ImportsSpec /\ PageSpec /\ PrefillSpec /\ BillingPagesSpec
<1> DEFINE all == <<desk, builderVars, importVars, pageVars, prefillVars, billingPageVars>>
<1>1. Init => BuilderInit /\ ImportsInit /\ PageInit /\ PrefillInit /\ BillingPagesInit
  BY DEF Init
<1>2. [Next]_all => [BuilderNext]_builderVars
  BY DEF Next
<1>3. [Next]_all => [ImportsNext]_importVars
  BY DEF Next
<1>4. [Next]_all => [PageNext]_pageVars
  BY DEF Next
<1>5. [Next]_all => [PrefillNext]_prefillVars
  BY DEF Next
<1>6. [Next]_all => [BillingPagesNext]_billingPageVars
  BY DEF Next
<1> QED
  BY <1>1, <1>2, <1>3, <1>4, <1>5, <1>6, PTL
  DEF Spec, BuilderSpec, ImportsSpec, PageSpec, PrefillSpec, BillingPagesSpec

(* Every row, run, page, form and checkout of the five has its type, for any
   numbers of them. *)
THEOREM PagesTypeCorrect == Spec => []PagesTypeOK
<1>1. BuilderTypeOK /\ ImportsTypeOK /\ PageTypeOK /\ PrefillTypeOK /\ BillingPagesTypeOK
      /\ desk \in {"plan", "imports", "page", "prefill", "billing"} => PagesTypeOK
  BY DEF PagesTypeOK
<1>2. Init => desk \in {"plan", "imports", "page", "prefill", "billing"}
  BY DEF Init
<1>3. desk \in {"plan", "imports", "page", "prefill", "billing"}
      /\ [Next]_<<desk, builderVars, importVars, pageVars, prefillVars, billingPageVars>>
      => (desk \in {"plan", "imports", "page", "prefill", "billing"})'
  BY DEF Next
<1>4. Spec => [](desk \in {"plan", "imports", "page", "prefill", "billing"})
  BY <1>2, <1>3, PTL DEF Spec
<1> QED
  BY <1>1, <1>4, PagesAreTheirComponents, BuilderTypeCorrect, ImportsTypeCorrect, PageTypeCorrect,
     PrefillTypeCorrect, BillingPagesTypeCorrect, PTL
===============================================================================
