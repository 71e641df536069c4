# Formal models of Project Ramp

Project Ramp is a Next.js application on Supabase (Postgres with row-level security) and
Paddle. A seller keeps one *workspace* per deal, builds a *success plan* in it (stages and
steps), makes the plan live, and shares a *portal* with the buyer, who reads the plan and
ticks off steps. Sellers pay per number of live deals. Server code runs in stateless
invocations: everything that lasts is a row, and every `await` is a point where another
invocation may run. This directory models that core in TLA+, checks it with TLC and proves
the main results with TLAPS.

## 1. Inventory

| Part | State it keeps | Operations | Hard behaviour | Correct when |
|---|---|---|---|---|
| **Deal lifecycle** (`app/admin/workspaces/[id]/plan/plan-actions.ts`, `lib/plans/{go-live,mark-live,closed-plans,write}.ts`, migrations 0005, 0015) | `success_plans.status`, the tenant's row lock | create, go live, close, delete | two tabs race at the limit; gate and write are separate queries; the cap is read before the lock | the limit holds; one open plan per workspace; the sample never counts and never goes live; closed plans stay closed |
| **Entitlement** (`lib/billing/{entitlement,plans,tenant-entitlement}.ts`) | none (pure) | resolve a stored row and the time to a cap | grace boundary, unsold tiers, overrides | the cap is what was paid for |
| **Billing webhook** (`app/api/billing/paddle/webhook`, `lib/billing/{process-subscription-event,subscription-reducer,subscription-repository}.ts`, `app/pricing/checkout-actions.ts`, 0014) | `tenant_subscriptions`, `paddle_webhook_events`, `billing_checkout_refs` | issue a checkout reference, process a delivery | at-least-once, out-of-order, overlapping deliveries; crashes; retries; stale reads | rows move forward in time; a live subscription is never replaced; every event is finished with |
| **Sample deal** (`lib/seed`) | the sample's workspace, plan, stages, steps, links | seed once per tenant | two clicks, a crash halfway, roll-back | one whole sample or none |
| **Portal access codes** (`lib/portal-access-token.ts`, `app/portal/[id]/gate-actions.ts`, `app/api/auth/send-token`, 0002) | `portal_access_tokens` (attempts, used, made) | issue, verify | double submit, concurrent guesses, cool-down checked before insert | a code opens one session; guesses are bounded; the buyer is not locked out |
| **Rate limiter** (`lib/rate-limit-durable.ts`, `lib/rate-limit.ts`, `lib/email/send-guard.ts`, 0016) | `rate_limit_windows`, a map per instance | take a slot | many instances, windows that touch, store down | a bounded number per hour |
| **Plan content and completion** (`lib/plans/{mutations,complete-step,validate}.ts`, `app/api/steps`) | stages, steps, completion events | add, edit, delete, complete | the buyer completes while the seller closes, edits, reassigns or deletes | completed and logged once, by its owner; a closed deal is left alone |
| **Plan builder** (`plan/plan-builder.tsx` and its forms, `plan-tree-utils.ts`, 0007) | a tab's list, its pending move | move, add, save, delete | optimistic moves, refreshed pages, other tabs, lost replies | a tab at rest shows the stored order |
| **Access and links** (`lib/portal-access.ts`, `lib/portal-session.ts`, `invite-actions.ts`, `links-actions.ts`, `app/view`, `app/api/track`) | whitelist, `target_domain`, sessions, links | invite, ask, enter, flip, share, follow | approval changes between code and entry; old pages | only who is approved gets in; the sample stays the seller's |
| **CRM tokens** (`lib/crm-connections`, `lib/{hubspot,salesforce}`, `app/settings/integrations`, 0010) | `crm_connections`, a cache per instance | connect, refresh, disconnect | rotation under a single flight, several instances, failures one by one | the stored token works; disconnected means revoked and gone |
| **Imports** (`lib/import`, `lib/crm-import`, `lib/crm`, `app/admin/import`) | workspaces and plans, the panel | list, import, retry, webhook | a deal of several failing, replies lost, retries over a run still going | nothing half-imported; the summary is true |
| **Workspace page** (`workspaces/[id]/page.tsx`, `workspace-signal-budget.ts`, `deal-limit-state.ts`, `activation-checklist.tsx`) | what was rendered, the page's own state | go live, invite, dismiss, close | deal, billing and time move on under a rendered page | one Signal; the wall says what the server would |
| **Accounts** (`lib/auth`, `app/{register,forgot-password,auth}`, `app/admin/login`) | `tenants`, GoTrue users, recovery marker | register, sign in, recover | two services without a transaction; leftover markers | one tenant per user; a password changes only after a recovery of that user |
| **Prefill and SSRF guard** (`lib/use-*-prefill.ts`, `link-url-field.tsx`, `lib/ssrf`, `app/api/scrape-meta`) | a form's fields, its latest lookup | blur, answer, apply, submit | answers out of order, edits meanwhile, redirects | the suggestion is for the domain in the field |
| **Billing pages** (`app/pricing`, `app/settings/billing`, `lib/billing/paddle-portal.ts`) | prices by tier, clicks under way | preview, toggle, subscribe, open the portal | previews of two cycles cross; rows in every state | charged is what was shown; each page leads on |
| **Reading a plan** (`components/buyer`, `lib/portal-payload.ts`, `lib/plans/queries.ts`) | none (pure) | order, select, show | - | what is urged can be done |
| **E-mail, onboarding** (`lib/email`, `app/admin/onboarding`) | none of their own | send, make a workspace | lost answers | in the parts above |
| **Demo, pulse, backup, legal, landing** (`lib/demo.ts`, `lib/pulse`, `scripts`, `app/legal`, `lib/landing`) | none, or single inserts | render, dump | external I/O | - |

How they interact: the billing webhook writes the row that *Entitlement* resolves when the
deal lifecycle asks for a cap, when the workspace page foretells the answer and when the
billing pages offer a checkout; the deal lifecycle, the sample seed and the imports write
`success_plans`; sellers' edits and buyers' completions meet in `plan_steps`; the rate limiter
stands in front of the gate, and its budgets in front of every mail; a CRM connection feeds the
imports. Apart from the rate limiter, parts meet only in database rows, and a page meets them
only when it is rendered or answered.

## 2. Plan

Done:

1. `Entitlement`, `DealLifecycle`, abstract `DealSeats`, proofs in `DealLifecycleProofs`.
2. `Billing`, abstract `SubscriptionLedger`, proofs in `BillingProofs`.
3. `SampleSeed` with `SampleSeedProofs`.
4. `RateWindows`, `PortalGate`, `DealRoom` (on `PlanViews`), `DealAccess`, `CrmTokens`,
   `SellerAccount`, composed by `MCCallers`. Proofs in `PlanViewsProofs`,
   `DealRoomProofs`, `PortalGateProofs` and `CallersProofs` (CRM, accounts, access, and the
   composition).
5. `PlanBuilder` (on `PlanViews`), `DealImports`, `WorkspacePage` and `BillingPages` (on
   `Entitlement`), `PagePrefill`, composed by `MCPages`. Proofs in `PageProofs`.

Left:

6. `TenantAccount`, composing `Billing` with `DealLifecycle`: the billing rows the deal
   lifecycle sees are those the webhook can write; it would replace the free `BillingWrite`.
7. What a reading of a plan of several stages holds, for every plan (section 5).

Runs stay below five minutes: two concurrent actors, two or three objects each, one fault.

## 3. What is modelled

### Entitlement
The pure rule: `ResolveEntitlement(row, now)` follows `resolveEntitlement` branch by branch
(override, active or trialing, past due inside or outside the grace period, otherwise free).
Time is a natural number. `null` caps are `Unlimited`; a tier id that is not sold is any value
outside `Tiers`. `AllowedCap` is `canStartNewDeal` as a bound.

### DealLifecycle
`status[p]` is the plan's status column (`unborn` before the insert, `gone` after the delete),
`sub[t]` the subscription row, `lock[t]` the row lock `mark_plan_live()` takes, `call[r]` the
server action a browser tab runs: its program counter, target plan, the cap it carries and the
outcome it will write. One query is one step; `mark_plan_live()` is four (lock, verdicts,
count, update), because under READ COMMITTED each of its statements has its own snapshot.
`granted[t]` is a history variable: the best cap the tenant has ever had.

| Action | Code |
|---|---|
| `CreatePlan` | `createPlanAction`: one insert, refused by the partial unique index |
| `StartGoLive`, `ReadEntitlement`, `ReadBack` | `markPlanLiveAction`, `goLivePlan` |
| `TakeTenantLock`, `ReadPlan`, `CountSeats`, `WriteLive` | the statements of `mark_plan_live()` |
| `StartClose`, `StartDelete`, `EnsurePlanIsOpen`, `WriteClose`, `WriteDelete` | `closePlanAction`, `deletePlanAction` and their gate |
| `FailCall` | a failed query, a lost connection, a dead server: an open transaction rolls back |
| `BillingWrite`, `Tick` | environment: the webhook and support staff; time |

Abstractions: a refusal by the rate limiter is the same as not starting; tenants are never
deleted; the go-live trigger of 0015 lets the server's own path through and therefore never
refuses here; the entitlement query and the clock it uses are one step; creating a plan in
another tenant's workspace is refused by row-level security, so the pool of ids is split by
workspace in advance. Edits of titles, dates, stages and steps do not touch the status.

### Billing
`row[t]` is the tenant's row, `ref[q]` a checkout reference, `log[e]` the outcome stored for
an event, `handler[h]` a webhook invocation with the event it was given, the tenant and row it
decided on and the outcome it will mark; `acked` the events answered 200; `faults` counts
throws and crashes up to `MaxFaults`. `posted[t]` is history: the events whose write went through
to that tenant's row.

| Action | Code |
|---|---|
| `AskRef`, `CreateRef`, `ExpireRef` | `issueCheckoutRefAction`, `createCheckoutRef`, the 60-minute limit |
| `Deliver` | a delivery that passed signature and shape checks |
| `RecordEvent`, `RereadOutcome` | `recordEvent`: insert, and on a conflict the read-back |
| `FindSub`, `ReadRef`, `StampRef`, `FindTenant` | `resolveTarget`, `consumeCheckoutRef`, `resolveNewSubscriptionTarget`, each followed by the reducer |
| `WriteRow` | `apply_tenant_subscription_event`, one statement with both guards |
| `MarkOutcome`, `MarkFailed`, `Throw`, `Crash`, `LoseAnswer` | the end of a handler, and its failures |
| `SetManual`, `ClearManual` | support staff in the SQL editor (`docs/environments.md`) |

Abstractions: an event is a record of what decisions look at (subscription, status, sold tier
or none, time, reference); customer id, cycle, period end, scheduled change and notes are
overwritten along with the row and decide nothing. `docs/environments.md` says how an override
is granted, hence `SetManual`'s row for a tenant without one.

### SampleSeed
`rows[c]` are the parts of a sample (workspace, plan, stages, steps, links) that click `c` has in
the database, `call[c]` where the click is, what it believes it has inserted and the workspace it
redirected the seller to; `faults` counts failures up to `MaxFaults`. `dirty` is a history
variable: a fault happened for which the code has no repair.

| Action | Code |
|---|---|
| `Start` | `seedSampleDeal` is called |
| `Look` | `findExistingSample`, before the first insert and after losing the race for it |
| `Insert`, `FailInsert`, `LoseAnswer` | the five inserts: taken, refused by the index of 0015, failed, or taken with the answer lost |
| `Undo`, `FailUndo` | `rollback`, one delete after another, with the cascades of 0005 |
| `FailLook`, `Die` | a lookup that fails; an invocation that dies |

Abstractions: one tenant, as the index and every query are per tenant; each click builds under
fresh ids, so no two clicks touch the same rows; the seller's own lookup is part of the first
`Look`; the in-memory rate limiter in front of the action only refuses to start. What a
seller does with the finished sample is left out; no page deletes it or its plan.

### RateWindows and PortalGate
A window is its start and its count; `Upserted` is the one upsert of `check_rate_limit`,
`Counted` the instance's own window that answers when the store cannot. The budgets
(`TenantDaily`, `TenantHourly`, `ResolvedDaily`) are derived from the configured number as
`send-guard.ts` does. `PortalGate` has one workspace and one address: `codes` are its rows,
`approved` whether it is on the whitelist (to begin with it is or is not), `call[r]` what a
request is doing, `tally` a history of guesses let through, wrong guesses and sessions opened.

| Action | Code |
|---|---|
| `RequestAccess`, `SendBuyerInvite`, `AppendWhitelist`, `CountInvites` | the gate's form, `send-token`, the invite panel |
| `ReadApproval`, `ReadCooldown`, `ReserveEmail`, `InsertCode`, `SendCode` | `issueAccessTokenCore`, `reserveEmailSend`, the mail |
| `VerifyAccess`, `ChargeGuess`, `ReadSpent`, `ReadPending` | `verifyAccess`, its durable limit, its hourly cap, the candidates |
| `ConsumeToken`, `RecordFailedAttempt`, `EnterPortal` | the conditional update, the miss, the cookie |
| `ReserveForNobody`, `CallDies`, `Tick` | a reset mail's charge; faults; time |

Every query may fail as the code handles it; a charge the store fails to answer for may be stored
all the same, beside the instance's own. A charge is judged by a time between its sending
and its turn at the row (`MaxWait`). Left out: the per-IP limiter in front (a refusal changes
nothing), the hash, two rows with one code.

### PlanViews and DealRoom
`PlanViews` is pure: the order of rows (`Ranked` puts each where it has as many before it as
there are places before; the code sorts), the next open step, overdue and blocked steps, the
runway, the columns a buyer is sent, the spine and rail of the buyer's page. `DealRoom` is one
plan with one stage: `steps[s]` its owner and status, `logged[s]` its completion events,
`room[c]` a call. A seller's edit is `EditStep`, `EditStage` or `EditPlan`, then
`EnsurePlanIsOpen`, then `WriteStep`, `WriteStage` or `WritePlan` by id; a go-live is
`ReadGoLive` and `MarkLive`, the verdicts and the update of `mark_plan_live()`, which writes by
id over a close in between; a buyer's tick is `CompleteStep`, `ResolveStep`, `UpdateStep` (the
conditional update), then `LogCompletion` or `ExplainStep`. `RoomCallDies` ends a call anywhere.
`late` marks calls that came in while the deal was closed, for as long as it stays closed. Texts
and dates are left out; what a go-live asks of seats and subscription is `DealLifecycle`'s, here
it may be refused for any reason.

### DealAccess
`listed` and `domain` decide whom `IsEmailApproved` lets ask for a code; `sentCode`, `sessions`
hold addresses; `links` their visibility, `click` the clicks looked up and not yet logged. The
steps of issuing and verifying are `PortalGate`'s and single here. `PortalPage`, `ViewPage` say
what a browser is shown. `kind` tells the sample, the demo tenant's rooms and ordinary deals.

### CrmTokens
One tenant and one provider. `stored` is the refresh token's number in `crm_connections`,
`accepted` what the provider still takes, `cached` the instances with an access token,
`crm[c]` a call and its instance.

| Action | Code |
|---|---|
| `OAuthStart`, `ConsentExpires`, `OAuthCallback`, `ExchangeCode`, `SaveTenantTokens` | `oauth/start`, `oauth/callback`, `token-store.ts` |
| `UseCrm`, `Lookup`, `GetValidAccessToken`, `RefreshSingleFlight` | `get-client.ts`: cache, then the instance's one refresh |
| `ReadRefreshToken`, `RefreshAccessToken`, `PersistRotated`, `Send`, `Resend` | the refresh, and the request with its one retry |
| `Disconnect`, `ReadForRevoke`, `Revoke`, `DeleteTenantTokens` | the two disconnect actions |
| `TokenExpires`, `InstanceGone`, `AuthorisationEnds` | environment |

Which older tokens the provider still takes after it issued a new one, or after one was revoked,
is its affair: `Issued` lets it keep any of them, `Ended` lets a revocation end the one token or
the authorisation with it. The code revokes the one token it has stored, and reconnecting revokes
none. Answers of the exchange, the refresh and the revocation may be lost.

`tangled` and `spoiled` are history: writers of the row of different instances overlapped, or a
change of it was lost. The properties except those, because the code does not handle them. `left`
is history too: the tokens of the connections that were disconnected without either.

### SellerAccount
`tenants` and GoTrue's `accounts`, a registration's steps (`CreateTenant`, `CreateUser`,
`UndoTenant`, `SignInRegistered`), recovery links (`RequestReset`, `IsWithinRecoveryCooldown`,
`RequestPasswordReset`, `ContinueRecovery`), the marker in a browser (`MarkerExpires`,
`GetRecoveryUser`) and the new password (`CheckNewPassword`, `SetNewPassword`). GoTrue is
external: addresses are unique, a user has one working recovery link, a link works once.
`proved` is history: which browser used whose link.

### PlanBuilder
One list, of stages or of steps, which the builder handles alike. `order` is `display_order` in
the database; `confirmed`, `wanted`, `queue` are the tab's rows, its pending move and its server
actions, which Next.js runs one at a time. A reorder is `GateRequest`, `CheckSet`,
`RewriteOrder`, `AnswerReorder`, with another tab's write (`OtherTab`) possible between the
function's two statements; a form is `GateRequest`, `WriteForm`, `AnswerForm`, whose reply
carries the page again. `ServerFails` is a database error before anything is written,
`AnswerIsLost` one after: the rows are stored and the tab is told of a failure, like
`write.ts` does; from then on the tab is `stale`. `LoseReply` is a dropped reply at any point, which
the builder does not catch.

### DealImports
`imports[n]` is a run on the server, `made` the workspaces it and the webhook made, and
`picker`, `busy`, `listing`, `following`, `summary` are the panel. A CRM run is
`FetchAndMapDeals`, `DedupeAlreadyImported`, then per deal, in the order the deals were ticked,
`CreateWorkspace`, `WriteDeal`, `RollbackWorkspace`; a dedupe that fails refuses every deal of the
run (`RefusesAll`); a CSV run validates its rows instead. The panel may lose the answer
(`ImportThrown`) and start over while the run goes on. Fetch errors are classified as the two
adapters do. Left out: the forecast write-back, the mapping preview, the CSV panel's display.

### WorkspacePage
`deal`, `tenant`, `day` are what the server would render now, `page` what it rendered, `client`
the page's own state (a refusal, an open close dialog, the offer to view as the buyer). The
writes behind buttons are single steps. `EditedElsewhere`, `BilledElsewhere`, `TimePasses`
change the truth under the page. `DealLimitReason` and `GoLiveCode` are two programs that have
to agree: the page's forecast of the limit, and the server's refusal, the sample's
(`SAMPLE_DEAL_LOCKED`) before all others. A write whose answer is lost is stored and the page told
of a failure (`StoredUnseen`).

### PagePrefill
`lookups` are the requests a form has made, answered in two steps (`Headers`, `Body`), in any
order; `latest` is `requestIdRef`. `LinkUrlField` is the second form. `FetchPublicHtml` is the
server's fetch over a small web, every hop resolved and judged afresh; addresses are abstracted
to what the guard decides by (family, range verdict, embedded IPv4).

### BillingPages
`shop` is the pricing page as rendered, `asked` its price previews, `shelf` the prices by tier,
`clicks` and `opened` its checkouts, the last one open; `account` the tenant's row, written by
Paddle and support. The settings page is a pure reading of a row (`BillingSettings`,
`OpenBillingPortal`). `revoked` is history: a grant was taken back from a tenant that never
subscribed.

## 4. Runs

| Run | Shows | Bounds |
|---|---|---|
| `DealLimit` | types, `PaidFor`, refinement of `DealSeats`, `EveryCallReturns` (liveness) | 2 tabs, 2 deals, cap 1 then 2, one tick past the grace period |
| `DealSlots` | `OneLivePerWorkspace`, `SampleNeverGoesLive`, `TenantIsolation` | 2 tabs, 2 plans in a workspace, 2 in the sample, 1 of another tenant |
| `DealClosed` | counterexample, section 6 | 2 tabs, 1 deal |
| `BillingLedger` | refinement of `SubscriptionLedger`, `AppliedIsStored`, `GraceIsAnchored` | 2 handlers, 4 events of 2 subscriptions, references of 2 tenants |
| `BillingRetries` | types, `EveryEventSettles` (liveness), `OnlyFinishedIsAcked` | 2 handlers, 3 events, overrides, 1 fault |
| `BillingManual`, `BillingAnchor`, `BillingLate` | counterexamples, section 6 | 1 or 2 handlers, 1 to 3 events |
| `SampleWhole` | types, `OneSample`, `AllOrNothing`, `ShownSettles` (liveness) | 3 clicks, 2 faults |
| `SampleRace` | counterexample, section 6 | 2 clicks, no fault |
| `Callers` | gate: `OneSessionPerCode`, `GuessBudget`, `NeverOvercharged`, `LiveCodesAreRead`; room: `CompletionLoggedOnce`, `CompletionIsTheBuyers`, `ClosedDealIsKept`, `UrgedIsCompletable`; access: `SampleStaysOwn`; CRM: `StoredTokenWorks`, `CleanDisconnect`; accounts: `OneTenantEach`, `PasswordNeedsRecovery`; all their types | 2 requests at a time, 3 codes, 2 ticks, 1 guess per window, 1 fault; 2 steps, 3 calls; 2 links; 2 instances, 3 tokens, 2 calls; 2 addresses, 2 registrations, 2 recovery links |
| `Pages` | builder: `SettledTabAgrees`; imports: `NothingHalfImported`, `SummaryIsTrue`; workspace page: `OneSignal`, `WallIsTrue`; prefill: `SuggestionIsCurrent`; billing pages: `ChargedIsShown`, `PagesLeadOn`; all their types | 4 rows, 3 writes; 2 deals, 2 runs; 2 days, 1 other deal, 1 change elsewhere; 2 domains, 2 lookups; 2 plans, 2 toggles, 2 changes of the row |

Why the bounds are enough: every race in this code is between two invocations and one or two
rows, since each decision reads at most one row per query; a cap of one with two deals is the
smallest instance in which a limit can be exceeded, and a second unit of grace adds nothing to
crossing the boundary once. Runs whose state is symmetric in tabs or handlers say so.

`Callers` and `Pages` each hold five components that share no state: a behaviour picks one door,
or one desk, at the start and stays at it, so the states of the components add up and do not
multiply, and a property of one component is checked over all behaviours of that component. The
variables of a door not in use keep one initial value. The rate limits are 1 to 3 instead of 10
to 400, an hour is two ticks and a code lives two: the smallest numbers at which a window is
full, two windows touch within an hour, and a code outlives a window. `Known` starts a gate where
two codes are out already, so that a third outlives the first, and arrivals are left for
guessing. Deals and domains are alike in `Pages`, as are callers and their instances in
`Callers`. Every bound on arrivals, builds, lookups or changes is where a behaviour stops; these
systems have no other end, hence no deadlock check in the two runs.

Fairness. `DealLimit`: a running action keeps running (weak fairness of its next step), and a
Postgres lock queue serves its waiters (strong fairness of `TakeTenantLock`, which is disabled
and enabled again while others hold the lock). `BillingRetries`: an invocation runs on unless
it throws or dies, which happens at most `MaxFaults` times; Paddle retries until it is answered
200, and the model's few handlers stand for as many invocations as the platform starts, hence
strong fairness of delivery. `SampleWhole`: a call that neither
fails nor dies runs on (weak fairness of `Step`), and it may always die while the bound on
faults lasts. Sellers, support staff and clocks owe nothing. `Callers` and `Pages` check safety
only: what their parts do next is up to people, and a request that dies is not tried again.

## 5. Proofs

`DealLifecycleProofs`, for any tenants, workspaces, finite set of plans, tabs, caps and grace:

- `TypeCorrect`: `Spec => []TypeOK`.
- `PaidForAlways`, `OneLiveAlways`: `Spec => []PaidFor`, `Spec => []OneLivePerWorkspace`.
- `SeatsRefinement`: `Spec => Seats!Spec`.
- `SampleNeverGoesLiveAlways`, `TenantIsolationAlways`: the two action properties.

`PaidFor` is not inductive. The invariant `IInv` adds: whoever is between lock and update holds
its tenant's lock (`LockHeld`); the cap an action carries is at most `granted`, as is the cap the
present row allows at any later time (`CapGranted`, `EntitledNow`, from the lemma that the allowed
cap only falls as time passes); an action at its update has counted fewer deals than its cap, and
past the verdicts its plan is one that counts for its tenant (`SeatChecked`). That stays true
because only the holder of the lock adds a deal and everyone else can only remove one. The
refinement uses the same invariant: the update is the abstract `Take`, closing or deleting a
counted deal is `GiveBack`, everything else stutters or raises. `TenantIsolation`
says that a plan changes only by the step of a tab of its own tenant, to what that tab was asked
for. A go-live's part follows from `SeatChecked` and `LockHeld`; closing and deleting need
`GateChecked` too: what `ensurePlanIsOpen` let through is a plan of the tab's tenant, as a plan
never changes its workspace.

`SampleSeedProofs`, for any clicks and any number of faults: `SeedTypeCorrect`,
`OneSampleAlways`, `AllOrNothingAlways`. The invariant `Inv` adds that rows are never without
their workspace (`Rooted`), which is what lets the index on workspaces stand for all rows, and
what the rows of a click are by what it is doing (`RowsOf`): before the inserts none, during them
exactly those it believes, during a clean roll-back no links, and a workspace as long as anything
is left to delete, so that the last delete takes everything along. `OneClickMoves` reduces each
action to one click; `FirstOfFive` says what the order of inserts and deletes picks.

`DealRoomProofs`, for any calls, steps and buyers: `RoomTypeCorrect`,
`CompletionLoggedOnceAlways`, `CompletionIsTheBuyersAlways`, `ClosedDealIsKeptAlways` and
`UrgedIsCompletableAlways`. The invariant `RoomInv` says of the rows that a plan that is gone
took its stage and steps along (`DealInv`); of each call, by where it is, what it may still
carry: past the gate no patch writes "done", and a call marked `late` is still before its first
look at the plan, which is closed or gone (`CallOK`), since what a go-live opens again ends the
marks; and that a call about to log has completed its step, alone, and the step is not logged yet
(`LogInv`). The last part is what makes "at most once" inductive: the conditional update lets a
call through only from "open", which no finished step ever is again. `RoomCallMoves` reduces
every action but the update and the log to one call. None of it bounds the number of calls or
what they name, and all of it holds with every call dying anywhere.

The types need one thing more: a step has an owner exactly while it is there (`OwnersInv`), as a
write by id leaves a row that is gone alone. `UrgedIsCompletable` goes through the whole reading
of the plan: there are finitely many steps (`StepsInv`; `addStep` adds one at a time), the stage
lists them in order, so that the tree holds each of them and nothing else (`RoomTreeIs`), the
columns a buyer is sent keep what the selections test (`RoomIsRead`), and what the page picks of
that is open and the buyer's (`ReadingUrgesCompletable`).

`PlanViewsProofs`, for any rows and any plan: `InOrderSorts` (a list is read in one order, each row
once), `OverdueBuyerStepsAre`, `NextOpenStepIsFirst`. `Ranked` gives a place by counting what is
before it, so that these need no induction: who comes later has more before it
(`LaterHasMoreBelow`), hence ranks are distinct, and as many ranks as members means that each is
taken (`EveryRankIsTaken`). The hypothesis of the last two is that the plan reads as a sequence
of steps; `FlattenSeq` gives that for plans of one stage or none (`OneFlattens`, `NoneFlattens`).

`BillingProofs`, for any tenants, payloads, events, references and overlapping deliveries:
`TypeCorrect`, `AppliedIsStoredAlways`, `GraceIsAnchoredAlways`, `OnlyFinishedIsAckedAlways` and
the refinement `ImplementsLedgerAlways`. The invariant `BillingInv` says of a row that a
subscription comes with the time of its event and a past-due status with an anchor not later
than that (`RowFits`); of a handler, by where it is, what it knows: at its write it carries the
payload of its own event, anchored (`Carries`), and when it is about to mark an event as applied
that event's own write went through (`HandlersHonest`); and of the events posted to a tenant, that
each is in the row still or was followed there (`PostedInv`, `StillIn`): the row is at the same
subscription and no older, or a cancellation of that subscription, no older than the event, was
posted before another took the row. That survives other handlers because
no write takes a row back in time (`RowsMoveForward`): each of them is a conditional statement
that compares with the row as it is, not as it was read. The same comparison, with the unique
subscription column, is the step that maps an applied write to the ledger's `Post`; support's
grants and revocations leave what a row holds of Paddle alone.

`PortalGateProofs`, for any numbers of calls, codes, keys and ticks within the bounds:
`GateTypeCorrect` (`GateTypeOK`, a conjunct of `CallersTypeOK`), `OneSessionPerCodeAlways`,
`LiveCodesAreReadAlways`, `NeverOverchargedAlways`, `GuessBudgetAlways`. `SessionInv` is what
makes "one session" inductive: a call on its way in has used its code up, alone, and nobody has
entered with it. The type invariant needs more than types: windows and codes are not dated ahead
of the clock (`WindowsInv`, `CodesInv`), a call that found a row is at one that exists, and
holds a miss only against one with attempts left (`CallInv`).

*Live codes are read*: take a code that lives and the codes made after it, all a cool-down apart.
Their ages, counted in whole cool-downs, differ, and are below the number of cool-downs in a
lifetime, rounded up (`QuotientIs`, `QuotientsApart`, `YoungerFit`). So there are
fewer of them than rows are read, for any lifetime and cool-down, divisible or not.

The two properties about sums need more. *Never overcharged* is not inductive, as a late write
makes a row jump to the value one call read plus one. `BillInv` says that there is a bill, a sum
that grows row by row by at least the attempts the row holds, and by at least what any call
about to hold one more there has read, and that stays within the wrong guesses made: a late
write then adds one to what was billed at its row already, as its guess does to the guesses
made. *Guess budget* counts what the store let through in two ways, by the time a call passed
and by the start of the window it was counted in (`BudgetInv`, `Fits`): windows of one key start
an hour apart and hold the limit each, and a call passes within an hour and its wait after its
window's start, so that the calls of any hour belong to at most three windows. An instance that
stands in for the store has no such wait, and the same invariant gives it two; `MailInv` keeps
the charges of mails off the guesses' key. The sums themselves are folds: a set of numbers that
holds 0 and goes on upwards holds all (`Upwards`, from the least-number principle `Least`),
which gives a sum over any number of rows (`SumsExist`, `TotalsExist`, `FoldsAreTotals`) without
an induction rule that takes a predicate.

`CallersProofs` holds the proofs about the other three modules of `Callers`, and about all five.
On the CRM, for any instances, calls and tokens: `CrmTypeCorrect` (`CrmTypeOK`, a conjunct of
`CallersTypeOK`), `StoredTokenWorksAlways`, `CleanDisconnectAlways`. `QuietInv` is the heart: as
long as writers of the token have not overlapped there is at most one of them, the token it is
about to store is taken by the provider, and a row it is about to delete is empty or revoked.
From it, the row lags behind the provider only while somebody is about to write it (`StoredInv`),
and the token of a connection that was ended cleanly is with nobody any more: not with the
provider, nor in the row, nor with a call about to store it (`LeftInv`). What is issued later is
another token.

On accounts, for any registrations, addresses, browsers and tabs: `AccountTypeCorrect`
(`AccountTypeOK`, a conjunct of `CallersTypeOK`), `OneTenantEachAlways`,
`PasswordNeedsRecoveryAlways`; and about `DealAccess`, `AccessTypeCorrect` and
`SampleStaysOwnAlways`. One tenant each needs that a tenant whose user is being made is there,
and that a tenant being undone has no user unless an answer was lost (`SignupInv`); a password,
that every marker in a browser has its recovery link, and so has every submission that passed the
guard (`MarkersInv`). For the sample it is one invariant over invitations, codes and sessions
together (`AccessInv`): none of the three would be inductive alone.

`CallersAreTheirComponents` says that a behaviour of the run's specification is one of each of the
five: whoever is at one door leaves the other variables alone. Each theorem above therefore holds
of what TLC runs, and `CallersTypeCorrect` (`Spec => []CallersTypeOK`) follows from the five about
types. `PagesAreTheirComponents` and `PagesTypeCorrect` are the same for `Pages`.

`PageProofs` holds the proofs about the five modules of `Pages`:

- `SettledTabAgreesAlways`, for any rows and any queue: only the first action of the queue is
  being served, and whoever waits for a reorder has it there (`QueueInv`); unless the first
  action has written, the order the tab has confirmed is the one stored, and a written reorder
  brings it along (`OrderInv`). A write that is stored and answered as a failure makes the tab
  stale until it is given the rows again.
- `NothingHalfImportedAlways`, for any deals, runs and retries: a workspace without its plan is
  the one its run is just giving a plan or rolling back (`MadeInv`).
- `SummaryIsTrueAlways`, for any deals, files and runs: a run meets each deal once, so that what
  is left to do it has not made, and what it counts as done is what it has made whole, at each of
  its steps and whatever happens to other runs (`Counts`); a summary is of a run that makes
  nothing more (`SummaryInv`). That a run's list stays without repetition when refused deals are
  left out of it (`PassingIsList`) is the same kind of induction as in `PortalGateProofs`. It is
  the runs' order of work that matters here, so the model sends deals in the order of ticking.
- `WallIsTrueAlways`, for any caps, grace and numbers of deals: an up-to-date page was rendered
  for a reason that can still be read (`FreshInv`), and for each reason the lemma `WallIsRefusal`
  says that `goLivePlan`, by its other code, refuses; the sample's draft is excepted.
- `OneSignalAlways` needs no invariant: it holds of the claims in any state of page and world
  (`OneSignalInAnyState`).
- `SuggestionIsCurrentAlways`, for any web and number of lookups: an answer that can still land
  was asked for the domain in the field, unless the field changed while its body was read
  (`Current`).
- `ChargedIsShownAlways`, `PagesLeadOnAlways`: a cycle that can be selected is priced for every
  plan (`PricesInv`); a row that Paddle knows nothing of carries a grant, or lost it (`RowsInv`).
- `BuilderTypeCorrect`, for any finite set of rows: no list shows a row twice (`RowList`). A list
  read from the database is sorted (`InOrderSorts`), a move swaps two neighbours
  (`MovedIsRowList`), and a reorder is written only if each row there is by then is in its list,
  which is what gives each a place (`PlacesInv`, `RowsTakePlaces`); another tab's list, as many
  rows as there are and none twice, names all of them (`ListIsWhole`).
- `ImportsTypeCorrect`: the refreshes of the list are at most three because the third is the one
  that ends the import in flight, and no import starts beside it (`PanelInv`).
- `PrefillTypeCorrect`: whatever form it is, name, suggestion and latest request are of lookups
  that were made, and a form that is being submitted has not made its last workspace yet
  (`FieldsInv`). `PageTypeCorrect`: what a button changes of deal and page (`DealIs`, `ClientIs`)
  leaves their fields as they were. `BillingPagesTypeCorrect` is part of `PricesInv` and `RowsInv`.
- `PagesAreTheirComponents`, `PagesTypeCorrect`, as for `Callers`.

What is assumed is what the modules' ASSUMEs say, and TLC evaluates all of them on every run that
uses the module: `CapAssumption` and `LifecycleAssumption`; `SeedAssumption`; `BillingAssumption`
(a null is no tenant, tier, subscription, reference, time or row); `RateAssumption` and
`GateAssumption` (the limits are positive, a wait for a row is shorter than a window, and the
bounds leave room for the two codes of the initial states); `RoomAssumption` (steps are numbered
from one, the bound on calls is a number); `CrmAssumption` and `AccountAssumption` (the bounds
are numbers, and "nowhere", "no tenant" and "no user" are no instance, registration or address);
`BuilderAssumption` (finitely many rows), `ImportsAssumption`, `PrefillAssumption` and
`PageAssumption` (bounds are numbers, and there is a first day); `BillingPagesAssumption` (plans
are tiers, a null is none).

Only model-checked is liveness: `EveryCallReturns`, `EveryEventSettles`, `ShownSettles`. The
provers have neither ENABLED nor rules for fairness. Every other property of a passing run is a
theorem. What `FlattenSeq` gives for a plan of several stages is an induction over data, out of
the provers' reach and not in the bounds of a run: the room has one stage, as no rule of it looks
across two.

## 6. Where code and documentation disagree

- Closing twice rewrites the outcome, a close can be undone by a go-live in flight, a plan
  closed meanwhile can be deleted (`DealClosed`): gate and write are separate statements and
  the writes name the id only.
- A manual override can be lost to a webhook's stale read (`BillingManual`), and the grace
  anchor can move (`BillingAnchor`).
- A retry after the reference expired is dropped for good (`BillingLate`), though the reference was
  live at the first attempt, which stamped it for the subscription.
- Two racing clicks on the sample do not both succeed (`SampleRace`): a loser that looks
  between the winner's first two inserts takes the workspace for a broken one. A lost answer of
  the workspace's or the links' insert leaves rows behind for good, besides the crash that
  `sample-deal.ts:105` calls the only way.
- Seen while modelling, without a run of its own: events with equal times are applied although
  two comments call them stale (`subscription-reducer.ts:11`, 0014:103); two subscriptions can
  bind one checkout reference (0014:184 says the first only); `onboarding-actions.ts:50` and
  `:67` still describe a seed that makes a second sample, which 0015 and `sample-deal.ts:17` have
  ended.

Also seen while modelling, without a run; where a property would be violated, it names the
exception:

- *Portal codes.* Two requests pass the cool-down at once, so that "the most that can be live at
  once" (`portal-access-token.ts:281`) is not, and the oldest live code may not be read
  (`LiveCodesAreRead` is about codes a cool-down apart); two windows that touch let twice the limit
  through, and a charge that waited for its row may open a third (`GuessBudget`); a slow
  `recordFailedAttempt` lowers the count; of two invitations at once one loses its whitelist
  entry.
- *Deal room.* The "unexpected" answer that `complete-step.ts:157` calls unreachable is what a
  buyer gets when the seller reassigns or reopens the step meanwhile. A seller's form on a step
  completed meanwhile is refused whole, as a server error. A tick whose deal was closed after
  its look-up still lands, and a go-live that read the plan before a close opens it again
  (`ClosedDealIsKept` is about calls after the close, as long as it lasts).
- *Builder.* A row added from a stale tab may share its position with another and be shown before
  it, as ids are random; a reorder whose reply is lost takes the page down; one that is stored
  and whose database answer is lost is taken back on the page only (`SettledTabAgrees`'
  exception).
- *CRM.* "exactly one refresh ever happens" (`hubspot/get-client.ts:33`) holds per instance. A
  refresh in flight writes a disconnected connection back. A client is not null "when
  disconnected" while its access token is cached, and after reconnecting to another account the
  old one's token may serve for half an hour. Connecting again stores the new token over the old
  one, which nobody revokes: a later disconnect reports no trouble though the older grant may go
  on, while `hubspot-actions.ts:28-31` says that a live grant "isn't silently hidden"
  (`CleanDisconnect` is about the token that was stored). HubSpot's adapter reports a failed
  refresh as worth a retry for ever; Salesforce's does not.
- *Imports.* A CSV file sent again after a lost reply is imported twice; `importThrownResult`
  says nothing was imported though the run may have; "already imported" may be said of a deal
  that is then rolled back, or of one that has no plan.
- *Workspace page.* A late refusal and the seller's own invitation show two Signals
  (`OneSignal`'s exception; `workspace-signal-budget.ts:3` promises one). A closed deal of a
  walled tenant has none. A tenant with a manual entitlement of a capped tier is never walled,
  and then refused. A draft in the sample of a tenant at its cap is walled off with an upgrade,
  while the server's refusal is "deliberately NOT the upgrade wall: no plan change fixes it"
  (`go-live.ts:72`). Both are `WallIsTrue`'s exceptions.
- *Accounts.* A lost answer of `createUser` deletes the tenant of a user that exists. Two reset
  requests at once both pass the cool-down, and only the newer mail works.
- *Prefill.* Between the headers and the body of an answer the field may change and the answer
  still counts (`SuggestionIsCurrent`'s exception); `LinkUrlField` orders nothing; a workspace
  whose insert lost its answer is made twice.
- *Billing pages.* Two tabs can each get a checkout reference before either subscribes. The
  overlay opens for the cycle clicked, though the page may show the other one by then. Taking a
  grant back as `docs/environments.md:246` says, from a tenant that never subscribed, leaves a
  row that still counts as an active subscription: checkout is refused, and pricing and settings
  send the seller to each other (`PagesLeadOn`'s exception).

## 7. Not modelled

- The demo sandbox, the activity feed, the chat link, landing-page counters and the waiting
  list: single inserts, updates or queries with nothing to interleave with.
- Backups and legal pages: no state of this system.
- In components that are otherwise modelled: formatting and wording, HTML and CSV parsing
  beyond their verdicts, hashing and encryption, signatures, address ranges, per-IP limiters in
  front of an action, the CRM forecast strip and field-mapping preview, logo scraping.
- Next.js's action queue, GoTrue, Paddle and the CRM providers are external: they are modelled as
  far as the code relies on them.
