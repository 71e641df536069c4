-------------------------------- MODULE MCPages --------------------------------
(***************************************************************************)
(* Instances, for TLC, of the components that are one seller at one page:  *)
(* the plan's builder, the imports, the workspace's page, the forms filled *)
(* from a web page and the billing pages.  They share no state, so that a  *)
(* run picks one desk at the start and stays at it: its states are those   *)
(* of the components, added and not multiplied.                            *)
(***************************************************************************)
EXTENDS PlanBuilder, DealImports, WorkspacePage, PagePrefill, BillingPages, TLC

CONSTANTS starter, pro, d1, d2

VARIABLE desk    \* the component this behaviour is about

MCTierCap == starter :> 1 @@ pro :> Unlimited

(* What a desk not in use starts from, lest its choices multiply the others. *)
AtRest ==
    /\ desk # "plan" => order = [r \in {1, 2} |-> r - 1]
    /\ desk # "page" => deal.plan = "draft" /\ tenant = [row |-> Absent, others |-> 0] /\ page.reason = "none"
    /\ desk # "prefill" => form = "company" /\ \A d \in Domains : web[d].answer = "error"
    /\ desk # "billing" => offer = Plans \X {"month"} /\ shop = Rendered("seller")

Init ==
    /\ desk \in {"plan", "imports", "page", "prefill", "billing"}
    /\ BuilderInit /\ ImportsInit /\ PageInit /\ PrefillInit /\ BillingPagesInit
    /\ AtRest

Next ==
    \/ desk = "plan" /\ BuilderNext /\ UNCHANGED <<desk, importVars, pageVars, prefillVars, billingPageVars>>
    \/ desk = "imports" /\ ImportsNext /\ UNCHANGED <<desk, builderVars, pageVars, prefillVars, billingPageVars>>
    \/ desk = "page" /\ PageNext /\ UNCHANGED <<desk, builderVars, importVars, prefillVars, billingPageVars>>
    \/ desk = "prefill" /\ PrefillNext /\ UNCHANGED <<desk, builderVars, importVars, pageVars, billingPageVars>>
    \/ desk = "billing" /\ BillingPagesNext /\ UNCHANGED <<desk, builderVars, importVars, pageVars, prefillVars>>

Spec == Init /\ [][Next]_<<desk, builderVars, importVars, pageVars, prefillVars, billingPageVars>>

(* Deals are alike, and so are domains; they never meet. *)
PagesSymmetry == Permutations(CrmDeals) \cup Permutations(Domains)

(* The desk in use is of its types. *)
PagesTypeOK ==
    CASE desk = "plan"    -> BuilderTypeOK
      [] desk = "imports" -> ImportsTypeOK
      [] desk = "page"    -> PageTypeOK
      [] desk = "prefill" -> PrefillTypeOK
      [] desk = "billing" -> BillingPagesTypeOK
===============================================================================
