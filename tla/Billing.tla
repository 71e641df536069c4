------------------------------- MODULE Billing -------------------------------
(***************************************************************************)
(* Paddle fulfilment: from a verified subscription event to the tenant's   *)
(* row in tenant_subscriptions.                                            *)
(*                                                                         *)
(* Paddle delivers an event at least once, in any order, and again until   *)
(* it is answered 200.  Each delivery runs in a serverless invocation of   *)
(* its own (a handler); deliveries of one event may overlap.  Each query   *)
(* of a handler is one step, and a handler may throw or die at any await.  *)
(* The handler's queries: record the event, find the subscription, read    *)
(* and stamp the checkout reference, find the tenant's row, write it with  *)
(* apply_tenant_subscription_event (one guarded statement), mark the       *)
(* event's outcome.                                                        *)
(*                                                                         *)
(* Left out: signature, size and shape checks (they end the request before *)
(* any state is touched), and the columns nothing decides on (customer id, *)
(* billing cycle, period end, scheduled change, notes).                    *)
(***************************************************************************)
EXTENDS Entitlement, FiniteSets

CONSTANTS
    Tenants,
    Subs,        \* Paddle subscription ids
    Refs,        \* checkout references
    RefTenant,   \* [Refs -> Tenants]: the tenant a reference is issued for
    Events,      \* Paddle event ids
    EventOf,     \* [Events -> payload]; sub is Absent for a record-only event,
                 \* tier is Absent when no price of the payload is sold
    Handlers,    \* concurrent webhook invocations
    GrantTiers,  \* the tiers support staff grant by hand
    MaxFaults    \* bound on thrown errors and crashes

Payloads == [sub : Subs \cup {Absent}, status : SubscriptionStatuses,
             tier : Tiers \cup {Absent}, at : Nat, ref : Refs \cup {Absent}]

Rows == [sub : Subs \cup {Absent}, status : SubscriptionStatuses, tier : Tiers,
         pastDueSince : Nat \cup {Absent}, at : Nat \cup {Absent},
         manual : Tiers \cup {Absent}]

ASSUME BillingAssumption ==
    /\ Absent \notin Subs \cup Tiers \cup Refs \cup Nat \cup Tenants
    /\ Absent \notin Rows
    /\ RefTenant \in [Refs -> Tenants]
    /\ EventOf \in [Events -> Payloads]
    /\ GrantTiers \subseteq Tiers
    /\ MaxFaults \in Nat

VARIABLES
    row,      \* tenant_subscriptions, keyed by tenant
    ref,      \* billing_checkout_refs
    log,      \* paddle_webhook_events.processing_outcome, "unseen" when no row
    handler,  \* what each invocation is doing
    acked,    \* the events Paddle has been answered 200 for
    posted,   \* a record for the properties: the events whose write went
              \* through, by the tenant whose row took it
    faults    \* bounded by MaxFaults

vars == <<row, ref, log, handler, acked, posted, faults>>

RefPhases == {"none", "asked", "live", "expired"}
Terminal  == {"applied", "stale", "ignored", "duplicate"}
Outcomes  == Terminal \cup {"unseen", "received", "failed"}

Quiet == [pc |-> "idle", event |-> Absent, tenant |-> Absent, next |-> Absent,
          outcome |-> Absent]
Labels == {"idle", "record", "reread", "findSub", "readRef", "stampRef",
           "findTenant", "write", "mark", "markFailed"}

Init ==
    /\ row = [t \in Tenants |-> Absent]
    /\ ref = [q \in Refs |-> [phase |-> "none", bound |-> Absent]]
    /\ log = [e \in Events |-> "unseen"]
    /\ handler = [h \in Handlers |-> Quiet]
    /\ acked = {}
    /\ posted = [t \in Tenants |-> {}]
    /\ faults = 0

pc(h)        == handler[h].pc
On(h)        == EventOf[handler[h].event]
RecordOnly(e) == EventOf[e].sub = Absent
Goto(h, label) == handler' = [handler EXCEPT ![h].pc = label]
Finish(h, outcome) ==
    handler' = [handler EXCEPT ![h] = [@ EXCEPT !.pc = "mark", !.outcome = outcome]]
Return(h)    == handler' = [handler EXCEPT ![h] = Quiet]
Ack(h)       == acked' = acked \cup {handler[h].event}

-------------------------------------------------------------------------------
(* Checkout: a reference is issued for a tenant without a live subscription
   (a read, then an insert), and is good for an hour. *)
AskRef(q) ==
    /\ ref[q].phase = "none"
    /\ ~HasLiveSubscription(row[RefTenant[q]])
    /\ ref' = [ref EXCEPT ![q].phase = "asked"]
    /\ UNCHANGED <<row, log, handler, acked, posted, faults>>

CreateRef(q) ==
    /\ ref[q].phase = "asked"
    /\ ref' = [ref EXCEPT ![q].phase = "live"]
    /\ UNCHANGED <<row, log, handler, acked, posted, faults>>

ExpireRef(q) ==
    /\ ref[q].phase = "live"
    /\ ref' = [ref EXCEPT ![q].phase = "expired"]
    /\ UNCHANGED <<row, log, handler, acked, posted, faults>>

(* docs/environments.md: support grants or revokes an override by hand. *)
SetManual(t, tier) ==
    /\ row' = [row EXCEPT ![t] =
                 IF row[t] = Absent
                 THEN [sub |-> Absent, status |-> "active", tier |-> tier,
                       pastDueSince |-> Absent, at |-> Absent, manual |-> tier]
                 ELSE [row[t] EXCEPT !.manual = tier]]
    /\ UNCHANGED <<ref, log, handler, acked, posted, faults>>

ClearManual(t) ==
    /\ row[t] # Absent
    /\ row' = [row EXCEPT ![t] = [row[t] EXCEPT !.manual = Absent]]
    /\ UNCHANGED <<ref, log, handler, acked, posted, faults>>

-------------------------------------------------------------------------------
(* An event exists once the checkout it carries a reference of was opened. *)
Published(e) == EventOf[e].ref # Absent => ref[EventOf[e].ref].phase \in {"live", "expired"}

Deliver(h, e) ==
    /\ pc(h) = "idle"
    /\ Published(e)
    /\ handler' = [handler EXCEPT ![h] = [Quiet EXCEPT !.pc = "record", !.event = e]]
    /\ UNCHANGED <<row, ref, log, acked, posted, faults>>

(* Where a first or unfinished delivery goes on: record-only events are
   marked at once, subscription events are processed. *)
Proceed(h) ==
    IF RecordOnly(handler[h].event) THEN Finish(h, "ignored") ELSE Goto(h, "findSub")

(* Mutant: a redelivery of unfinished work is treated as an error. *)
BugRedeliveryThrows(h) ==
    LET e == handler[h].event IN
    /\ pc(h) = "record"
    /\ \/ log[e] = "unseen" /\ log' = [log EXCEPT ![e] = "received"] /\ Proceed(h)
       \/ log[e] # "unseen" /\ log' = log /\ Goto(h, "markFailed")
    /\ UNCHANGED <<row, ref, acked, posted, faults>>

(* recordEvent: the insert is the gate, the primary key is the event id. *)
RecordEvent(h) ==
    LET e == handler[h].event IN
    /\ pc(h) = "record"
    /\ \/ log[e] = "unseen" /\ log' = [log EXCEPT ![e] = "received"] /\ Proceed(h)
       \/ log[e] # "unseen" /\ log' = log /\ Goto(h, "reread")
    /\ UNCHANGED <<row, ref, acked, posted, faults>>

(* Mutant: every redelivery is a duplicate. *)
BugAlwaysDuplicate(h) ==
    /\ pc(h) = "reread"
    /\ Return(h) /\ Ack(h)
    /\ UNCHANGED <<row, ref, log, posted, faults>>

RereadOutcome(h) ==
    /\ pc(h) = "reread"
    /\ \/ log[handler[h].event] \in Terminal /\ Return(h) /\ Ack(h)
       \/ log[handler[h].event] \notin Terminal /\ Proceed(h) /\ UNCHANGED acked
    /\ UNCHANGED <<row, ref, log, posted, faults>>

-------------------------------------------------------------------------------
(* Mutant: a price that is not sold is let through. *)
BugUnsoldPrice(state, e) ==
    IF state # Absent /\ state.at # Absent /\ e.at < state.at THEN "stale" ELSE "applied"

(* applyBillingEvent: the pure reducer. *)
Verdict(state, e) ==
    IF state # Absent /\ state.sub # e.sub THEN "ignored"
    ELSE IF state # Absent /\ state.at # Absent /\ e.at < state.at THEN "stale"
    ELSE IF e.tier = Absent THEN "ignored" ELSE "applied"

(* Mutant: the anchor is only ever carried over. *)
BugNeverStamps(state, e) ==
    IF e.status # "past_due" \/ state = Absent THEN Absent ELSE state.pastDueSince

NextPastDueSince(state, e) ==
    IF e.status # "past_due" THEN Absent
    ELSE IF state # Absent /\ state.status = "past_due" /\ state.pastDueSince # Absent
         THEN state.pastDueSince
    ELSE e.at

NextState(state, e) ==
    [sub |-> e.sub, status |-> e.status, tier |-> e.tier,
     pastDueSince |-> NextPastDueSince(state, e), at |-> e.at,
     manual |-> IF state = Absent THEN Absent ELSE state.manual]

Reduce(h, t, state, manual) ==
    LET verdict == Verdict(state, On(h)) IN
    IF verdict # "applied" THEN Finish(h, verdict)
    ELSE handler' = [handler EXCEPT ![h] =
           [pc |-> "write", event |-> handler[h].event, tenant |-> t,
            next |-> [NextState(state, On(h)) EXCEPT !.manual = IF manual # Absent THEN manual ELSE @],
            outcome |-> Absent]]

(* resolveTarget: a known subscription settles the tenant. *)
FindSub(h) ==
    LET owners == {t \in Tenants : row[t] # Absent /\ row[t].sub = On(h).sub} IN
    /\ pc(h) = "findSub"
    /\ \/ \E t \in owners : Reduce(h, t, row[t], Absent)
       \/ owners = {} /\ On(h).ref = Absent /\ Finish(h, "ignored")  \* unresolved_tenant
       \/ owners = {} /\ On(h).ref # Absent /\ Goto(h, "readRef")
    /\ UNCHANGED <<row, ref, log, acked, posted, faults>>

(* consumeCheckoutRef: read and judge, then stamp. *)
ReadRef(h) ==
    LET q == ref[On(h).ref]
        good == q.phase = "live" /\ q.bound \in {Absent, On(h).sub}
    IN  /\ pc(h) = "readRef"
        /\ IF good THEN Goto(h, "stampRef") ELSE Finish(h, "ignored")
        /\ UNCHANGED <<row, ref, log, acked, posted, faults>>

StampRef(h) ==
    /\ pc(h) = "stampRef"
    /\ ref' = [ref EXCEPT ![On(h).ref].bound = On(h).sub]
    /\ Goto(h, "findTenant")
    /\ UNCHANGED <<row, log, acked, posted, faults>>

(* resolveNewSubscriptionTarget, after the reference: diff against the
   tenant's own row, refuse a second live subscription, or replace a row
   whose subscription is canceled or never existed. *)
FindTenant(h) ==
    LET t == RefTenant[On(h).ref]
        existing == row[t]
    IN  /\ pc(h) = "findTenant"
        /\ \/ existing = Absent /\ Reduce(h, t, Absent, Absent)
           \/ /\ existing # Absent
              /\ \/ existing.sub = On(h).sub /\ Reduce(h, t, existing, Absent)
                 \/ /\ existing.sub \notin {Absent, On(h).sub} /\ existing.status # "canceled"
                    /\ Finish(h, "ignored")                     \* duplicate_subscription
                 \/ /\ existing.sub # On(h).sub
                    /\ existing.sub = Absent \/ existing.status = "canceled"
                    /\ Reduce(h, t, Absent, existing.manual)
        /\ UNCHANGED <<row, ref, log, acked, posted, faults>>

-------------------------------------------------------------------------------
(* The two guards of apply_tenant_subscription_event's statement. *)
IsOlder(stored, new) == stored.at # Absent /\ new.at < stored.at
BugNoIdentityGuard(stored, new) == FALSE  \* mutant of IsOther
IsOther(stored, new) ==
    stored.sub \notin {Absent, new.sub} /\ stored.status # "canceled"

(* For the properties: the event whose write went through, in t's row. *)
Note(t, h) == posted' = [posted EXCEPT ![t] = @ \cup {handler[h].event}]

(* The unique index on paddle_subscription_id. *)
HeldElsewhere(t, sub) == \E u \in Tenants \ {t} : row[u] # Absent /\ row[u].sub = sub

(* Mutant: the statement's verdict is not looked at. *)
BugVerdictIgnored(h) ==
    LET t == handler[h].tenant
        new == handler[h].next
        refused == row[t] # Absent /\ (IsOlder(row[t], new) \/ IsOther(row[t], new))
    IN  /\ pc(h) = "write"
        /\ IF refused THEN UNCHANGED <<row, posted>>
           ELSE row' = [row EXCEPT ![t] = new] /\ Note(t, h)
        /\ Finish(h, "applied")
        /\ UNCHANGED <<ref, log, acked, faults>>

(* One statement; the unique index makes it throw when another tenant's row
   holds the subscription. *)
WriteRow(h) ==
    LET t == handler[h].tenant
        new == handler[h].next
    IN  /\ pc(h) = "write"
        /\ \/ /\ row[t] # Absent /\ IsOlder(row[t], new) /\ ~IsOther(row[t], new)
              /\ Finish(h, "stale") /\ UNCHANGED <<row, posted>>
           \/ /\ row[t] # Absent /\ IsOther(row[t], new)
              /\ Finish(h, "ignored") /\ UNCHANGED <<row, posted>>   \* subscription_conflict
           \/ /\ row[t] # Absent => ~IsOlder(row[t], new) /\ ~IsOther(row[t], new)
              /\ IF HeldElsewhere(t, new.sub)
                 THEN Goto(h, "markFailed") /\ UNCHANGED <<row, posted>>
                 ELSE row' = [row EXCEPT ![t] = new] /\ Note(t, h) /\ Finish(h, "applied")
        /\ UNCHANGED <<ref, log, acked, faults>>

(* markEventOutcome, then 200. *)
MarkOutcome(h) ==
    /\ pc(h) = "mark"
    /\ log' = [log EXCEPT ![handler[h].event] = handler[h].outcome]
    /\ Return(h) /\ Ack(h)
    /\ UNCHANGED <<row, ref, posted, faults>>

(* A query throws: a subscription event is marked failed, a record-only one
   is answered 200 as it is. *)
Throw(h) ==
    /\ pc(h) \notin {"idle", "markFailed"}
    /\ faults < MaxFaults
    /\ faults' = faults + 1
    /\ IF RecordOnly(handler[h].event)
       THEN Return(h) /\ Ack(h)
       ELSE Goto(h, "markFailed") /\ UNCHANGED acked
    /\ UNCHANGED <<row, ref, log, posted>>

(* markFailedBestEffort, then 500: nothing is updated when the insert never
   happened. *)
MarkFailed(h) ==
    /\ pc(h) = "markFailed"
    /\ log' = [log EXCEPT ![handler[h].event] = IF @ = "unseen" THEN @ ELSE "failed"]
    /\ Return(h)
    /\ UNCHANGED <<row, ref, acked, posted, faults>>

(* The invocation dies: Paddle sees no 200. *)
Crash(h) ==
    /\ pc(h) # "idle"
    /\ faults < MaxFaults
    /\ faults' = faults + 1
    /\ Return(h)
    /\ UNCHANGED <<row, ref, log, acked, posted>>

(* The outcome is marked and the 200 never arrives. *)
LoseAnswer(h) ==
    /\ pc(h) = "mark"
    /\ faults < MaxFaults
    /\ faults' = faults + 1
    /\ log' = [log EXCEPT ![handler[h].event] = handler[h].outcome]
    /\ Return(h)
    /\ UNCHANGED <<row, ref, acked, posted>>

HandlerStep(h) ==
    \/ RecordEvent(h) \/ RereadOutcome(h) \/ FindSub(h) \/ ReadRef(h) \/ StampRef(h)
    \/ FindTenant(h) \/ WriteRow(h) \/ MarkOutcome(h) \/ MarkFailed(h)

SupportStep(t) == ClearManual(t) \/ \E tier \in GrantTiers : SetManual(t, tier)

Next ==
    \/ \E q \in Refs : AskRef(q) \/ CreateRef(q) \/ ExpireRef(q)
    \/ \E t \in Tenants : SupportStep(t)
    \/ \E h \in Handlers, e \in Events : Deliver(h, e)
    \/ \E h \in Handlers : HandlerStep(h) \/ Throw(h) \/ Crash(h) \/ LoseAnswer(h)

Spec == Init /\ [][Next]_vars

(* Paddle retries until it is answered 200; an invocation that neither throws
   nor dies runs to its end.  Strong fairness on delivery, because the model's
   few handlers stand for as many invocations as the platform starts. *)
Fairness ==
    /\ \A h \in Handlers : WF_vars(HandlerStep(h))
    /\ \A e \in Events : SF_vars(e \notin acked /\ \E h \in Handlers : Deliver(h, e))

FairSpec == Spec /\ Fairness
-------------------------------------------------------------------------------
HandlerOK(r) ==
    /\ r.pc \in Labels
    /\ r.event \in Events \cup {Absent}
    /\ r.tenant \in Tenants \cup {Absent}
    /\ r.next \in Rows \cup {Absent}
    /\ r.outcome \in Terminal \cup {Absent}
    /\ r.pc # "idle" => r.event \in Events
    /\ r.pc = "write" => r.tenant \in Tenants /\ r.next \in Rows
    /\ r.pc = "mark" => r.outcome \in Terminal

TypeOK ==
    /\ row \in [Tenants -> Rows \cup {Absent}]
    /\ ref \in [Refs -> [phase : RefPhases, bound : Subs \cup {Absent}]]
    /\ log \in [Events -> Outcomes]
    /\ DOMAIN handler = Handlers /\ \A h \in Handlers : HandlerOK(handler[h])
    /\ acked \subseteq Events
    /\ posted \in [Tenants -> SUBSET Events]
    /\ faults \in 0..MaxFaults

(* The write of e in t's row is there still: the row is of e's subscription
   and at least as new, or that subscription ended in a later write of the
   same row and another one took its place. *)
StillIn(t, e) ==
    /\ row[t] # Absent /\ row[t].at # Absent /\ row[t].at >= EventOf[e].at
    /\ \/ row[t].sub = EventOf[e].sub
       \/ \E c \in posted[t] : /\ EventOf[c].sub = EventOf[e].sub
                              /\ EventOf[c].status = "canceled"
                              /\ EventOf[c].at >= EventOf[e].at

(* An event is marked applied only when its own write went through, and what
   it wrote is in that tenant's row until a newer event of the subscription
   or its end: a refused write is never called applied, and nothing applied
   is ever lost (process-subscription-event.ts, defence 3). *)
AppliedIsStored ==
    \A e \in Events : log[e] = "applied" =>
        \E t \in Tenants : e \in posted[t] /\ StillIn(t, e)

(* A past-due row always says since when, and never since later than the
   event that put it there: resolveEntitlement counts on the anchor. *)
GraceIsAnchored ==
    \A t \in Tenants : row[t] # Absent /\ row[t].status = "past_due" =>
        row[t].pastDueSince # Absent /\ row[t].pastDueSince <= row[t].at

(* Paddle stops retrying a subscription event only when a handler has
   finished with it, never after a throw or a crash: "Answering 200 here
   would lose a paid subscription permanently" (webhook/route.ts). *)
OnlyFinishedIsAcked ==
    [][\A e \in acked' \ acked : ~RecordOnly(e) => log'[e] \in Terminal]_vars

(* Every event that exists is finished with: a crash or a failure midway is
   made up for by a retry. *)
EveryEventSettles == \A e \in Events : Published(e) ~> e \in acked

(* The events that can entitle somebody to something. *)
Sold == {e \in Events : ~RecordOnly(e) /\ EventOf[e].tier # Absent}

(* The rows of the database are a subscription ledger: whatever deliveries
   overlap, fail and repeat, a row holds the payload of one sold event, moves
   only forward in time, a live subscription is never replaced, and none is
   held by two tenants (process-subscription-event.ts, defences 1 to 3). *)
Ledger == INSTANCE SubscriptionLedger
            WITH Posts <- {[sub |-> EventOf[e].sub, status |-> EventOf[e].status,
                            tier |-> EventOf[e].tier, at |-> EventOf[e].at] : e \in Sold},
                 holds <- [t \in Tenants |->
                             IF row[t] = Absent \/ row[t].sub = Absent THEN Absent
                             ELSE [sub |-> row[t].sub, status |-> row[t].status,
                                   tier |-> row[t].tier, at |-> row[t].at]]

ImplementsLedger == Ledger!Spec

-------------------------------------------------------------------------------
(* Claims of the repository that the code does not keep. *)

(* subscription-reducer.ts: manual overrides "survive every webhook - a Paddle
   event must never clear one". *)
ManualSurvivesWebhooks ==
    [][(\E h \in Handlers : WriteRow(h)) =>
         \A t \in Tenants : row[t] # Absent => row'[t].manual = row[t].manual]_vars

(* subscription-reducer.ts: the anchor is "left alone while it stays past
   due", and stamped by the event that makes the subscription past due. *)
AnchorLeftAlone ==
    [][\A t \in Tenants :
         row[t] # Absent /\ row'[t] # row[t] /\ row'[t].status = "past_due" =>
            row'[t].pastDueSince = IF row[t].status = "past_due"
                                   THEN row[t].pastDueSince ELSE row'[t].at]_vars

(* webhook/route.ts: a failed event is retried "and the retry does the work".
   Of a sold price, on a reference the failed attempt had found good and had
   stamped for the subscription, for a tenant that has no row yet. *)
RetryDoesTheWork ==
    [][\A e \in Events :
         LET q == EventOf[e].ref IN
         /\ log[e] = "failed" /\ log'[e] = "ignored"
         /\ EventOf[e].tier # Absent /\ q # Absent /\ ref[q].bound = EventOf[e].sub
         => row[RefTenant[q]] # Absent]_vars
===============================================================================
