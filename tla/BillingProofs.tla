---------------------------- MODULE BillingProofs ----------------------------
(***************************************************************************)
(* Proofs about Billing for any tenants, events and overlapping            *)
(* deliveries: what is marked applied is stored, every past-due row has    *)
(* its anchor, only finished work is acknowledged, and the table is a      *)
(* subscription ledger.                                                    *)
(***************************************************************************)
EXTENDS Billing, TLAPS

HandlerShape ==
    [pc : Labels, event : Events \cup {Absent}, tenant : Tenants \cup {Absent},
     next : Rows \cup {Absent}, outcome : Terminal \cup {Absent}]

(* A row with a subscription has the time of the event it came from, and a
   past-due one the anchor. *)
Anchored(r) == r.status = "past_due" =>
    r.at \in Nat /\ r.pastDueSince \in Nat /\ r.pastDueSince <= r.at
RowFits(r) == r # Absent => (r.sub # Absent => r.at # Absent) /\ Anchored(r)

(* What is about to be written is the payload of a sold event. *)
Carries(r, e) ==
    /\ r \in Rows /\ EventOf[e].sub # Absent /\ EventOf[e].tier # Absent
    /\ r.sub = EventOf[e].sub /\ r.status = EventOf[e].status
    /\ r.tier = EventOf[e].tier /\ r.at = EventOf[e].at
    /\ Anchored(r)

(* The event's own write went through, in some tenant's row. *)
Stored(e) == \E t \in Tenants : e \in posted[t]

(* A row with a subscription holds one of the writes that went through. *)
FromAPost(t) == row[t] # Absent /\ row[t].sub # Absent =>
    \E c \in posted[t] : /\ EventOf[c].sub = row[t].sub /\ EventOf[c].status = row[t].status
                       /\ EventOf[c].at = row[t].at

(* What is known of a handler by where it is. *)
Resolving == {"findSub", "readRef", "stampRef", "findTenant"}
HandlerFits(r) ==
    /\ r.pc # "idle" => r.event \in Events
    /\ r.pc \in Resolving => EventOf[r.event].sub # Absent
    /\ r.pc \in Resolving \ {"findSub"} => EventOf[r.event].ref # Absent
    /\ r.pc = "write" => r.tenant \in Tenants /\ Carries(r.next, r.event)
    /\ r.pc = "mark" => r.outcome \in Terminal
HandlersHonest ==
    \A h \in Handlers : handler[h].pc = "mark" /\ handler[h].outcome = "applied" =>
        Stored(handler[h].event)

RowInv     == row \in [Tenants -> Rows \cup {Absent}] /\ \A t \in Tenants : RowFits(row[t])
HandlerInv == /\ handler \in [Handlers -> HandlerShape]
              /\ \A h \in Handlers : HandlerFits(handler[h])
LogInv     == log \in [Events -> Outcomes] /\ \A e \in Events : log[e] = "applied" => Stored(e)
RestInv    == /\ ref \in [Refs -> [phase : RefPhases, bound : Subs \cup {Absent}]]
              /\ acked \subseteq Events /\ faults \in 0..MaxFaults
PostedInv  == /\ posted \in [Tenants -> SUBSET Events]
              /\ \A t \in Tenants : FromAPost(t) /\ \A e \in posted[t] :
                    EventOf[e].sub # Absent /\ StillIn(t, e)
BillingInv == RowInv /\ PostedInv /\ HandlerInv /\ HandlersHonest /\ LogInv /\ RestInv

(* No write that went through is forgotten. *)
PostedGrows == \A t \in Tenants : posted[t] \subseteq posted'[t]

-------------------------------------------------------------------------------
LEMMA EventsAreTyped ==
    ASSUME NEW e \in Events
    PROVE  /\ EventOf[e] \in Payloads
           /\ EventOf[e].at \in Nat /\ EventOf[e].at # Absent
           /\ EventOf[e].sub # Absent => EventOf[e].sub \in Subs
           /\ EventOf[e].ref # Absent => EventOf[e].ref \in Refs /\ RefTenant[EventOf[e].ref] \in Tenants
           /\ EventOf[e].tier # Absent => EventOf[e].tier \in Tiers
  BY BillingAssumption DEF Payloads

LEMMA QuietFits == Quiet \in HandlerShape /\ HandlerFits(Quiet) /\ Quiet.pc = "idle"
  BY DEF Quiet, HandlerShape, Labels, HandlerFits, Resolving

LEMMA InitBillingInv == Init => BillingInv
<1> SUFFICES ASSUME Init PROVE BillingInv
  OBVIOUS
<1> USE DEF Init
<1>1. RowInv
  BY DEF RowInv, RowFits
<1>2. HandlerInv /\ HandlersHonest
  BY QuietFits DEF HandlerInv, HandlersHonest
<1>3. LogInv
  BY DEF LogInv, Outcomes
<1>4. RestInv
  BY BillingAssumption DEF RestInv, RefPhases
<1>5. PostedInv
  BY DEF PostedInv, FromAPost
<1> QED
  BY <1>1, <1>2, <1>3, <1>4, <1>5 DEF BillingInv

(* What was stored stays stored. *)
LEMMA StoredStays ==
    ASSUME PostedGrows, NEW e \in Events, Stored(e)
    PROVE  Stored(e)'
  BY DEF PostedGrows, Stored

LEMMA SameRows ==
    ASSUME RowInv, PostedInv, UNCHANGED <<row, posted>>
    PROVE  /\ RowInv' /\ PostedInv' /\ PostedGrows
           /\ \A e \in Events : Stored(e) <=> Stored(e)'
  BY DEF RowInv, RowFits, Anchored, PostedInv, FromAPost, StillIn, PostedGrows, Stored

(* One handler moves on, over rows and a record of writes that stay good. *)
LEMMA OneHandlerMoves ==
    ASSUME BillingInv, NEW h \in Handlers, NEW r \in HandlerShape,
           handler' = [handler EXCEPT ![h] = r], HandlerFits(r),
           RowInv', PostedInv', PostedGrows, LogInv', RestInv',
           r.pc = "mark" /\ r.outcome = "applied" => Stored(r.event)'
    PROVE  BillingInv'
<1> USE DEF BillingInv
<1>1. handler' \in [Handlers -> HandlerShape] /\ handler'[h] = r
      /\ \A g \in Handlers \ {h} : handler'[g] = handler[g]
  BY DEF HandlerInv
<1>2. HandlerInv'
  BY <1>1 DEF HandlerInv, HandlerFits, Carries, Anchored
<1>3. ASSUME NEW g \in Handlers, NEW e \in Events, handler'[g].pc = "mark",
             handler'[g].outcome = "applied", handler'[g].event = e
      PROVE  Stored(e)'
  <2>1. CASE g = h
    BY <1>1, <1>3, <2>1
  <2>2. CASE g # h
    <3>1. handler'[g] = handler[g]
      BY <1>1, <2>2
    <3>2. Stored(e)
      BY <1>3, <3>1 DEF HandlersHonest
    <3> QED
      BY <3>1, <3>2, StoredStays
  <2> QED
    BY <2>1, <2>2
<1>4. HandlersHonest'
  BY <1>2, <1>3 DEF HandlersHonest, HandlerInv, HandlerFits
<1> QED
  BY <1>2, <1>4

(* ... and the rows stay as they are. *)
LEMMA OneHandlerMovesAlone ==
    ASSUME BillingInv, NEW h \in Handlers, NEW r \in HandlerShape,
           handler' = [handler EXCEPT ![h] = r], HandlerFits(r),
           UNCHANGED <<row, posted>>, LogInv', RestInv',
           r.pc # "mark" \/ r.outcome # "applied"
    PROVE  BillingInv'
<1>1. RowInv' /\ PostedInv' /\ PostedGrows
  BY SameRows DEF BillingInv
<1> QED
  BY <1>1, OneHandlerMoves

(* ... or one event is marked. *)
LEMMA LogKeeps ==
    ASSUME BillingInv, UNCHANGED <<row, posted>>,
           \/ UNCHANGED log
           \/ \E e \in Events, outcome \in Outcomes :
                log' = [log EXCEPT ![e] = outcome] /\ (outcome = "applied" => Stored(e))
    PROVE  LogInv'
<1>1. \A e \in Events : Stored(e) <=> Stored(e)'
  BY SameRows DEF BillingInv
<1> QED
  BY <1>1 DEF BillingInv, LogInv

-------------------------------------------------------------------------------
(* What the three ways to move a handler make of it. *)
LEMMA GotoIs ==
    ASSUME HandlerInv, NEW h \in Handlers, NEW label \in Labels, Goto(h, label)
    PROVE  \E r \in HandlerShape :
             /\ handler' = [handler EXCEPT ![h] = r]
             /\ r.pc = label /\ r.event = handler[h].event
<1> DEFINE r == [handler[h] EXCEPT !.pc = label]
<1>1. handler[h] \in HandlerShape
  BY DEF HandlerInv
<1>2. r \in HandlerShape /\ r.pc = label /\ r.event = handler[h].event
  BY <1>1 DEF HandlerShape
<1>3. handler' = [handler EXCEPT ![h] = r]
  BY DEF Goto
<1> QED
  BY <1>2, <1>3

LEMMA FinishIs ==
    ASSUME HandlerInv, NEW h \in Handlers, NEW outcome \in Terminal, Finish(h, outcome)
    PROVE  \E r \in HandlerShape :
             /\ handler' = [handler EXCEPT ![h] = r]
             /\ r.pc = "mark" /\ r.event = handler[h].event /\ r.outcome = outcome
<1>1. handler[h] \in HandlerShape
  BY DEF HandlerInv
<1>2. PICK half : half = [handler[h] EXCEPT !.pc = "mark"]
  OBVIOUS
<1>3. half \in HandlerShape /\ half.pc = "mark" /\ half.event = handler[h].event
  BY <1>1, <1>2 DEF HandlerShape, Labels
<1>4. PICK r : r = [handler[h] EXCEPT !.pc = "mark", !.outcome = outcome]
  OBVIOUS
<1>5. r = [half EXCEPT !.outcome = outcome]
  BY <1>1, <1>2, <1>3, <1>4 DEF HandlerShape
<1>6. /\ r \in HandlerShape /\ r.pc = "mark" /\ r.event = handler[h].event /\ r.outcome = outcome
  BY <1>3, <1>5 DEF HandlerShape
<1>7. handler' = [handler EXCEPT ![h] = r]
  BY <1>4 DEF Finish
<1> QED
  BY <1>6, <1>7

(* A handler that goes on with its event, ends, or finishes without having
   applied anything. *)
LEMMA WorkGoesOn ==
    ASSUME BillingInv, NEW h \in Handlers, handler[h].event \in Events, UNCHANGED <<row, posted>>,
           LogInv', RestInv',
           \/ Return(h)
           \/ \E outcome \in Terminal \ {"applied"} : Finish(h, outcome)
           \/ Goto(h, "reread") \/ Goto(h, "markFailed")
           \/ Goto(h, "findSub") /\ ~RecordOnly(handler[h].event)
           \/ /\ \E label \in {"readRef", "stampRef", "findTenant"} : Goto(h, label)
              /\ ~RecordOnly(handler[h].event) /\ On(h).ref # Absent
    PROVE  BillingInv'
<1>1. HandlerInv
  BY DEF BillingInv
<1>2. CASE Return(h)
  BY <1>2, QuietFits, OneHandlerMovesAlone DEF Return
<1>3. CASE \E outcome \in Terminal \ {"applied"} : Finish(h, outcome)
  <2>1. PICK outcome \in Terminal \ {"applied"} : Finish(h, outcome)
    BY <1>3
  <2>2. PICK r \in HandlerShape :
             /\ handler' = [handler EXCEPT ![h] = r]
             /\ r.pc = "mark" /\ r.event = handler[h].event /\ r.outcome = outcome
    BY <1>1, <2>1, FinishIs
  <2>3. HandlerFits(r)
    BY <2>2 DEF HandlerFits, Resolving
  <2> QED
    BY <2>2, <2>3, OneHandlerMovesAlone
<1>4. ASSUME NEW label \in Resolving \cup {"reread", "markFailed"}, Goto(h, label),
             label \in Resolving => ~RecordOnly(handler[h].event),
             label \in Resolving \ {"findSub"} => On(h).ref # Absent
      PROVE  BillingInv'
  <2>1. PICK r \in HandlerShape :
             /\ handler' = [handler EXCEPT ![h] = r]
             /\ r.pc = label /\ r.event = handler[h].event
    BY <1>1, <1>4, GotoIs DEF Labels, Resolving
  <2>2. HandlerFits(r)
    BY <1>4, <2>1 DEF HandlerFits, Resolving, RecordOnly, On
  <2>3. r.pc # "mark"
    BY <2>1 DEF Resolving
  <2> QED
    BY <2>1, <2>2, <2>3, OneHandlerMovesAlone
<1> QED
  BY <1>2, <1>3, <1>4 DEF Resolving

(* Proceed: record-only events are done with, the others are looked up. *)
LEMMA ProceedKeeps ==
    ASSUME BillingInv, NEW h \in Handlers, handler[h].event \in Events, Proceed(h),
           UNCHANGED <<row, posted>>, LogInv', RestInv'
    PROVE  BillingInv'
  BY WorkGoesOn DEF Proceed, Terminal

(* The reducer: what it lets through carries the event, with an anchor no
   later than the event. *)
LEMMA ReduceIsOK ==
    ASSUME NEW state, state = Absent \/ (state \in Rows /\ state # Absent /\ RowFits(state)),
           NEW manual \in Tiers \cup {Absent}, NEW e \in Events, EventOf[e].sub # Absent,
           Verdict(state, EventOf[e]) = "applied"
    PROVE  Carries([NextState(state, EventOf[e]) EXCEPT
                      !.manual = IF manual # Absent THEN manual ELSE @], e)
<1> DEFINE p == EventOf[e]
           r == [NextState(state, p) EXCEPT !.manual = IF manual # Absent THEN manual ELSE @]
<1>1. /\ p \in Payloads /\ p.at \in Nat /\ p.sub \in Subs /\ p.tier # Absent /\ p.tier \in Tiers
      /\ p.status \in SubscriptionStatuses
  BY EventsAreTyped DEF Verdict, Payloads
<1>2. state # Absent => state.sub = p.sub /\ state.at # Absent /\ state.at \in Nat /\ state.at <= p.at
  <2>1. state # Absent => state.sub = p.sub /\ ~(state.at # Absent /\ p.at < state.at)
    BY DEF Verdict
  <2>2. state # Absent => state.at # Absent /\ state.at \in Nat
    BY <2>1 DEF RowFits, Rows
  <2> QED
    BY <1>1, <2>1, <2>2
<1>3. NextPastDueSince(state, p) \in Nat \cup {Absent}
      /\ (p.status = "past_due" => /\ NextPastDueSince(state, p) \in Nat
                                   /\ NextPastDueSince(state, p) <= p.at)
  <2>1. CASE p.status = "past_due" /\ state # Absent /\ state.status = "past_due" /\ state.pastDueSince # Absent
    <3>1. state.pastDueSince \in Nat /\ state.pastDueSince <= state.at
      BY <2>1 DEF RowFits, Anchored
    <3> QED
      BY <1>1, <1>2, <2>1, <3>1 DEF NextPastDueSince
  <2>2. CASE ~(p.status = "past_due" /\ state # Absent /\ state.status = "past_due" /\ state.pastDueSince # Absent)
    BY <1>1, <2>2 DEF NextPastDueSince
  <2> QED
    BY <2>1, <2>2
<1>4. PICK since : since = NextPastDueSince(state, p)
  OBVIOUS
<1>5. PICK kept \in Tiers \cup {Absent} : kept = IF state = Absent THEN Absent ELSE state.manual
  BY DEF Rows
<1>6. PICK full : full = NextState(state, p)
  OBVIOUS
<1>7. full = [sub |-> p.sub, status |-> p.status, tier |-> p.tier, pastDueSince |-> since,
              at |-> p.at, manual |-> kept]
  BY <1>4, <1>5, <1>6 DEF NextState
<1>8. full \in Rows
  BY <1>1, <1>3, <1>4, <1>7 DEF Rows
<1>9. r = [full EXCEPT !.manual = IF manual # Absent THEN manual ELSE @]
  BY <1>6
<1>10. /\ r \in Rows /\ r.sub = p.sub /\ r.status = p.status /\ r.tier = p.tier
       /\ r.pastDueSince = since /\ r.at = p.at
  BY <1>7, <1>8, <1>9 DEF Rows
<1>11. Anchored(r)
  BY <1>1, <1>3, <1>4, <1>10 DEF Anchored
<1> QED
  BY <1>1, <1>10, <1>11 DEF Carries

LEMMA ReduceKeeps ==
    ASSUME BillingInv, NEW h \in Handlers, handler[h].event \in Events, ~RecordOnly(handler[h].event),
           NEW t \in Tenants, NEW state, state = Absent \/ (state \in Rows /\ state # Absent /\ RowFits(state)),
           NEW manual \in Tiers \cup {Absent}, Reduce(h, t, state, manual),
           UNCHANGED <<row, posted>>, LogInv', RestInv'
    PROVE  BillingInv'
<1> DEFINE e == handler[h].event
<1>1. CASE Verdict(state, On(h)) # "applied"
  <2>1. Verdict(state, On(h)) \in Terminal \ {"applied"}
    BY <1>1 DEF Verdict, Terminal
  <2>2. Finish(h, Verdict(state, On(h)))
    BY <1>1 DEF Reduce
  <2> QED
    BY <2>1, <2>2, WorkGoesOn
<1>2. CASE Verdict(state, On(h)) = "applied"
  <2>1. PICK next : next = [NextState(state, On(h)) EXCEPT !.manual = IF manual # Absent THEN manual ELSE @]
    OBVIOUS
  <2>2. Carries(next, e) /\ next \in Rows
    <3>1. /\ e \in Events /\ EventOf[e].sub # Absent /\ Verdict(state, EventOf[e]) = "applied"
          /\ next = [NextState(state, EventOf[e]) EXCEPT !.manual = IF manual # Absent THEN manual ELSE @]
      BY <1>2, <2>1 DEF On, RecordOnly
    <3>2. Carries(next, e)
      BY <3>1, ReduceIsOK
    <3> QED
      BY <3>2 DEF Carries
  <2>3. PICK r : r = [pc |-> "write", event |-> e, tenant |-> t, next |-> next, outcome |-> Absent]
    OBVIOUS
  <2>4. r \in HandlerShape /\ r.pc = "write" /\ r.event = e /\ r.tenant = t /\ r.next = next
    BY <2>2, <2>3 DEF HandlerShape, Labels
  <2>5. HandlerFits(r)
    BY <2>2, <2>4 DEF HandlerFits, Resolving
  <2>6. handler' = [handler EXCEPT ![h] = r]
    BY <1>2, <2>1, <2>3 DEF Reduce
  <2> QED
    BY <2>4, <2>5, <2>6, OneHandlerMovesAlone
<1> QED
  BY <1>1, <1>2

-------------------------------------------------------------------------------
(* The checkout references and the support desk. *)
LEMMA RefsKeep ==
    ASSUME BillingInv, NEW q \in Refs, AskRef(q) \/ CreateRef(q) \/ ExpireRef(q)
    PROVE  BillingInv'
<1>1. RestInv'
  BY DEF BillingInv, RestInv, AskRef, CreateRef, ExpireRef, RefPhases
<1>2. UNCHANGED <<row, posted, log, handler>>
  BY DEF AskRef, CreateRef, ExpireRef
<1>3. RowInv' /\ PostedInv' /\ \A e \in Events : Stored(e) <=> Stored(e)'
  BY <1>2, SameRows DEF BillingInv
<1> QED
  BY <1>1, <1>2, <1>3 DEF BillingInv, HandlerInv, HandlerFits, Resolving, HandlersHonest, LogInv, Stored,
     Carries, Anchored

(* Rows that move under handlers and a log that stay. *)
LEMMA OnlyRowsMove ==
    ASSUME BillingInv, RowInv', PostedInv', UNCHANGED <<posted, ref, log, handler, acked, faults>>
    PROVE  BillingInv'
<1> USE DEF BillingInv
<1>1. HandlersHonest' /\ LogInv'
  <2>1. \A e \in Events : Stored(e) => Stored(e)'
    BY DEF Stored
  <2>2. HandlersHonest'
    BY <2>1 DEF HandlersHonest, HandlerInv, HandlerFits
  <2>3. LogInv'
    BY <2>1 DEF LogInv
  <2> QED
    BY <2>2, <2>3
<1>2. HandlerInv' /\ RestInv'
  BY DEF HandlerInv, HandlerFits, Resolving, RestInv, Carries, Anchored
<1> QED
  BY <1>1, <1>2

LEMMA SupportKeeps ==
    ASSUME BillingInv, NEW t \in Tenants, SupportStep(t)
    PROVE  BillingInv'
<1>1. PICK manual \in Tiers \cup {Absent} :
        \/ /\ row[t] # Absent
           /\ row' = [row EXCEPT ![t] = [row[t] EXCEPT !.manual = manual]]
        \/ /\ row[t] = Absent /\ manual # Absent
           /\ row' = [row EXCEPT ![t] =
                 [sub |-> Absent, status |-> "active", tier |-> manual,
                  pastDueSince |-> Absent, at |-> Absent, manual |-> manual]]
  BY BillingAssumption DEF SupportStep, SetManual, ClearManual
<1>2. UNCHANGED <<posted, ref, log, handler, acked, faults>>
  BY DEF SupportStep, SetManual, ClearManual
<1>3. /\ row \in [Tenants -> Rows \cup {Absent}]
      /\ \A u \in Tenants : RowFits(row[u])
  BY DEF BillingInv, RowInv
<1>4. RowInv' /\ PostedInv'
  <2>0. /\ posted \in [Tenants -> SUBSET Events]
        /\ \A u \in Tenants : FromAPost(u) /\ \A e \in posted[u] : EventOf[e].sub # Absent /\ StillIn(u, e)
    BY DEF BillingInv, PostedInv
  <2>1. CASE row[t] # Absent
    <3>1. PICK new : new = [row[t] EXCEPT !.manual = manual]
      OBVIOUS
    <3>2. row[t] \in Rows
      BY <1>3, <2>1
    <3>3. /\ new \in Rows /\ new.sub = row[t].sub /\ new.at = row[t].at
          /\ new.status = row[t].status /\ new.pastDueSince = row[t].pastDueSince
      BY <3>1, <3>2 DEF Rows
    <3>4. row' = [row EXCEPT ![t] = new]
      BY <1>1, <2>1, <3>1
    <3>5. RowFits(new) /\ new # Absent
      BY <1>3, <2>1, <3>3, BillingAssumption DEF RowFits, Anchored
    <3>6. RowInv'
      BY <1>3, <3>3, <3>4, <3>5 DEF RowInv
    <3>7. \A u \in Tenants :
             /\ row'[u] # Absent <=> row[u] # Absent
             /\ row[u] # Absent => /\ row'[u].sub = row[u].sub /\ row'[u].at = row[u].at
                                  /\ row'[u].status = row[u].status
      BY <1>3, <2>1, <3>3, <3>4, <3>5
    <3>8. PostedInv'
      BY <1>2, <2>0, <3>7 DEF PostedInv, FromAPost, StillIn
    <3> QED
      BY <3>6, <3>8
  <2>2. CASE row[t] = Absent
    <3>1. PICK new : new = [sub |-> Absent, status |-> "active", tier |-> manual,
                            pastDueSince |-> Absent, at |-> Absent, manual |-> manual]
      OBVIOUS
    <3>2. new \in Rows /\ new.sub = Absent /\ new.status = "active" /\ manual # Absent
      BY <1>1, <2>2, <3>1 DEF Rows, SubscriptionStatuses
    <3>3. row' = [row EXCEPT ![t] = new]
      BY <1>1, <2>2, <3>1
    <3>4. RowFits(new)
      BY <3>2 DEF RowFits, Anchored
    <3>5. RowInv'
      BY <1>3, <3>2, <3>3, <3>4 DEF RowInv
    <3>6. posted[t] = {}
      BY <2>0, <2>2 DEF StillIn
    <3>7. row'[t] = new /\ \A u \in Tenants \ {t} : row'[u] = row[u]
      BY <1>3, <3>3
    <3>8. PostedInv'
      BY <1>2, <2>0, <3>2, <3>6, <3>7 DEF PostedInv, FromAPost, StillIn
    <3> QED
      BY <3>5, <3>8
  <2> QED
    BY <2>1, <2>2
<1> QED
  BY <1>2, <1>4, OnlyRowsMove

(* The delivery, the record and the lookups. *)
LEMMA DeliverKeeps ==
    ASSUME BillingInv, NEW h \in Handlers, NEW e \in Events, Deliver(h, e)
    PROVE  BillingInv'
<1>1. PICK r : r = [Quiet EXCEPT !.pc = "record", !.event = e]
  OBVIOUS
<1>2. r = [pc |-> "record", event |-> e, tenant |-> Absent, next |-> Absent, outcome |-> Absent]
  BY <1>1 DEF Quiet
<1>3. r \in HandlerShape /\ HandlerFits(r) /\ r.pc # "mark"
  BY <1>2 DEF HandlerShape, Labels, HandlerFits, Resolving
<1>4. handler' = [handler EXCEPT ![h] = r] /\ UNCHANGED <<row, posted, log>>
  BY <1>1 DEF Deliver
<1>5. RestInv' /\ LogInv'
  BY <1>4, LogKeeps DEF BillingInv, RestInv, Deliver
<1> QED
  BY <1>3, <1>4, <1>5, OneHandlerMovesAlone

LEMMA RecordKeeps ==
    ASSUME BillingInv, NEW h \in Handlers, RecordEvent(h)
    PROVE  BillingInv'
<1> DEFINE e == handler[h].event
<1>1. handler[h] \in HandlerShape /\ HandlerFits(handler[h])
  BY DEF BillingInv, HandlerInv
<1>2. e \in Events /\ RestInv' /\ UNCHANGED <<row, posted>>
  BY <1>1 DEF HandlerFits, RecordEvent, pc, BillingInv, RestInv
<1>3. LogInv'
  BY <1>2, LogKeeps DEF RecordEvent, Outcomes
<1> QED
  BY <1>2, <1>3, WorkGoesOn, ProceedKeeps DEF RecordEvent

LEMMA LookupsKeep ==
    ASSUME BillingInv, NEW h \in Handlers,
           RereadOutcome(h) \/ FindSub(h) \/ ReadRef(h) \/ StampRef(h) \/ FindTenant(h)
    PROVE  BillingInv'
<1> DEFINE e == handler[h].event
<1>1. /\ handler[h] \in HandlerShape /\ HandlerFits(handler[h])
      /\ row \in [Tenants -> Rows \cup {Absent}] /\ \A u \in Tenants : RowFits(row[u])
  BY DEF BillingInv, HandlerInv, RowInv
<1>2. e \in Events
  BY <1>1 DEF HandlerFits, RereadOutcome, FindSub, ReadRef, StampRef, FindTenant, pc
<1>3. UNCHANGED <<row, posted, log>> /\ LogInv'
  BY LogKeeps DEF RereadOutcome, FindSub, ReadRef, StampRef, FindTenant
<1>4. CASE RereadOutcome(h)
  <2>1. RestInv'
    BY <1>2, <1>4 DEF BillingInv, RestInv, RereadOutcome, Ack
  <2> QED
    BY <1>2, <1>3, <1>4, <2>1, WorkGoesOn, ProceedKeeps DEF RereadOutcome
<1>5. CASE FindSub(h)
  <2>1. RestInv' /\ ~RecordOnly(e)
    BY <1>1, <1>5 DEF BillingInv, RestInv, FindSub, HandlerFits, Resolving, RecordOnly, pc
  <2>2. CASE \E t \in Tenants : row[t] # Absent /\ Reduce(h, t, row[t], Absent)
    BY <1>1, <1>2, <1>3, <2>1, <2>2, ReduceKeeps
  <2>3. CASE Finish(h, "ignored") \/ (On(h).ref # Absent /\ Goto(h, "readRef"))
    BY <1>2, <1>3, <2>1, <2>3, WorkGoesOn DEF Terminal
  <2> QED
    BY <1>5, <2>2, <2>3 DEF FindSub
<1>6. CASE ReadRef(h)
  <2>1. RestInv' /\ ~RecordOnly(e) /\ On(h).ref # Absent
    BY <1>1, <1>6 DEF BillingInv, RestInv, ReadRef, HandlerFits, Resolving, RecordOnly, pc, On
  <2> QED
    BY <1>2, <1>3, <1>6, <2>1, WorkGoesOn DEF ReadRef, Terminal
<1>7. CASE StampRef(h)
  <2>1. ~RecordOnly(e) /\ On(h).ref # Absent
    BY <1>1, <1>7 DEF StampRef, HandlerFits, Resolving, RecordOnly, pc, On
  <2>2. On(h).ref \in Refs /\ On(h).sub \in Subs
    BY <1>2, <2>1, EventsAreTyped DEF On, RecordOnly
  <2>3. RestInv'
    BY <1>7, <2>2 DEF BillingInv, RestInv, StampRef
  <2> QED
    BY <1>2, <1>3, <1>7, <2>1, <2>3, WorkGoesOn DEF StampRef
<1>8. CASE FindTenant(h)
  <2> DEFINE t == RefTenant[On(h).ref]
  <2>1. RestInv' /\ ~RecordOnly(e) /\ On(h).ref # Absent
    BY <1>1, <1>8 DEF BillingInv, RestInv, FindTenant, HandlerFits, Resolving, RecordOnly, pc, On
  <2>2. t \in Tenants
    BY <1>2, <2>1, EventsAreTyped DEF On
  <2>3. CASE Finish(h, "ignored")
    BY <1>2, <1>3, <2>1, <2>3, WorkGoesOn DEF Terminal
  <2>4. CASE Reduce(h, t, Absent, Absent)
    BY <1>2, <1>3, <2>1, <2>2, <2>4, ReduceKeeps
  <2>5. CASE row[t] # Absent /\ Reduce(h, t, row[t], Absent)
    BY <1>1, <1>2, <1>3, <2>1, <2>2, <2>5, ReduceKeeps
  <2>6. CASE row[t] # Absent /\ Reduce(h, t, Absent, row[t].manual)
    <3>1. row[t].manual \in Tiers \cup {Absent}
      BY <1>1, <2>2, <2>6 DEF Rows
    <3> QED
      BY <1>2, <1>3, <2>1, <2>2, <2>6, <3>1, ReduceKeeps
  <2> QED
    BY SMTT(30), <1>8, <2>3, <2>4, <2>5, <2>6 DEF FindTenant
<1> QED
  BY <1>4, <1>5, <1>6, <1>7, <1>8

-------------------------------------------------------------------------------
(* The write that goes through: of an event's payload, into a row that has
   none newer, is of the same or of no live subscription, and with no other
   tenant holding it. *)
Applied(t, e, new) ==
    /\ Carries(new, e)
    /\ row[t] # Absent => ~IsOlder(row[t], new) /\ ~IsOther(row[t], new)
    /\ ~HeldElsewhere(t, new.sub)
    /\ row' = [row EXCEPT ![t] = new]
    /\ posted' = [posted EXCEPT ![t] = @ \cup {e}]

(* What the written row was before: of the same subscription or of a
   canceled one, and not newer. *)
LEMMA AppliedOver ==
    ASSUME RowInv, PostedInv, NEW t \in Tenants, NEW e \in Events, NEW new, Applied(t, e, new),
           NEW p \in posted[t]
    PROVE  /\ EventOf[p].sub # Absent /\ new.at >= EventOf[p].at
           /\ \/ new.sub = EventOf[p].sub
              \/ \E c \in posted[t] : /\ EventOf[c].sub = EventOf[p].sub
                                     /\ EventOf[c].status = "canceled"
                                     /\ EventOf[c].at >= EventOf[p].at
<1>1. /\ posted[t] \subseteq Events /\ FromAPost(t) /\ EventOf[p].sub # Absent /\ StillIn(t, p)
  BY DEF PostedInv
<1>2. /\ row[t] # Absent /\ row[t].at # Absent /\ row[t].at >= EventOf[p].at
      /\ row[t] \in Rows /\ row[t].at \in Nat /\ EventOf[p].at \in Nat
      /\ new.at \in Nat
  BY <1>1, EventsAreTyped DEF StillIn, RowInv, Rows, Applied, Carries
<1>3. new.at >= row[t].at /\ (row[t].sub \in {Absent, new.sub} \/ row[t].status = "canceled")
  BY <1>2 DEF Applied, IsOlder, IsOther
<1>4. new.at >= EventOf[p].at
  BY <1>2, <1>3
<1>5. CASE row[t].sub # EventOf[p].sub
  BY <1>1, <1>4, <1>5 DEF StillIn
<1>6. CASE row[t].sub = EventOf[p].sub /\ row[t].sub = new.sub
  BY <1>1, <1>4, <1>6
<1>7. CASE row[t].sub = EventOf[p].sub /\ row[t].sub # new.sub
  <2>1. row[t].sub # Absent /\ row[t].status = "canceled"
    BY <1>1, <1>3, <1>7
  <2>2. PICK c \in posted[t] : /\ EventOf[c].sub = row[t].sub /\ EventOf[c].status = row[t].status
                              /\ EventOf[c].at = row[t].at
    BY <1>1, <1>2, <2>1 DEF FromAPost
  <2> QED
    BY <1>1, <1>2, <1>4, <1>7, <2>1, <2>2
<1> QED
  BY <1>5, <1>6, <1>7

LEMMA AppliedRow ==
    ASSUME RowInv, PostedInv, NEW t \in Tenants, NEW e \in Events, NEW new, Applied(t, e, new)
    PROVE  RowInv' /\ PostedInv' /\ PostedGrows /\ Stored(e)'
<1>1. /\ new \in Rows /\ new # Absent /\ new.at = EventOf[e].at /\ new.at \in Nat
      /\ new.sub = EventOf[e].sub /\ new.sub # Absent /\ new.status = EventOf[e].status
      /\ new.at # Absent /\ Anchored(new)
  BY EventsAreTyped, BillingAssumption DEF Applied, Carries
<1>2. RowFits(new)
  BY <1>1 DEF RowFits
<1>3. row' = [row EXCEPT ![t] = new] /\ row \in [Tenants -> Rows \cup {Absent}]
      /\ posted' = [posted EXCEPT ![t] = @ \cup {e}] /\ posted \in [Tenants -> SUBSET Events]
  BY DEF Applied, RowInv, PostedInv
<1>4. RowInv'
  BY <1>1, <1>2, <1>3 DEF RowInv
<1>5. /\ row'[t] = new /\ posted'[t] = posted[t] \cup {e}
      /\ \A u \in Tenants \ {t} : row'[u] = row[u] /\ posted'[u] = posted[u]
  BY <1>3
<1>6. PostedGrows /\ Stored(e)'
  BY <1>5 DEF PostedGrows, Stored
<1>7. FromAPost(t)'
  BY <1>1, <1>5 DEF FromAPost
<1>8. EventOf[e].sub # Absent /\ StillIn(t, e)'
  BY <1>1, <1>5 DEF StillIn
<1>9. ASSUME NEW p \in posted[t] PROVE EventOf[p].sub # Absent /\ StillIn(t, p)'
  BY <1>1, <1>5, AppliedOver DEF StillIn
<1>10. ASSUME NEW u \in Tenants \ {t}
       PROVE  FromAPost(u)' /\ \A p \in posted'[u] : EventOf[p].sub # Absent /\ StillIn(u, p)'
  BY <1>5 DEF PostedInv, FromAPost, StillIn
<1>11. ASSUME NEW u \in Tenants
       PROVE  FromAPost(u)' /\ \A p \in posted'[u] : EventOf[p].sub # Absent /\ StillIn(u, p)'
  BY <1>5, <1>7, <1>8, <1>9, <1>10
<1>12. PostedInv'
  BY <1>3, <1>11 DEF PostedInv
<1> QED
  BY <1>4, <1>6, <1>12

LEMMA WriteKeeps ==
    ASSUME BillingInv, NEW h \in Handlers, WriteRow(h)
    PROVE  /\ BillingInv'
           /\ \/ UNCHANGED <<row, posted>>
              \/ \E t \in Tenants, e \in Events : \E new : Applied(t, e, new)
<1>0. PICK t \in Tenants, e \in Events, new \in Rows :
         t = handler[h].tenant /\ e = handler[h].event /\ new = handler[h].next /\ Carries(new, e)
  BY DEF BillingInv, HandlerInv, HandlerFits, WriteRow, pc, Carries
<1>1. HandlerInv /\ RowInv /\ PostedInv /\ RestInv' /\ Carries(new, e)
  BY <1>0 DEF BillingInv, WriteRow, RestInv
<1>2. CASE UNCHANGED <<row, posted>> /\ (Finish(h, "stale") \/ Finish(h, "ignored") \/ Goto(h, "markFailed"))
  <2>1. LogInv'
    BY <1>2, LogKeeps DEF WriteRow
  <2> QED
    BY <1>0, <1>1, <1>2, <2>1, WorkGoesOn DEF Terminal
<1>3. CASE Applied(t, e, new) /\ Finish(h, "applied")
  <2>1. RowInv' /\ PostedInv' /\ PostedGrows /\ Stored(e)'
    BY <1>0, <1>1, <1>3, AppliedRow
  <2>2. PICK r \in HandlerShape :
             /\ handler' = [handler EXCEPT ![h] = r]
             /\ r.pc = "mark" /\ r.event = e /\ r.outcome = "applied"
    BY <1>0, <1>1, <1>3, FinishIs DEF Terminal
  <2>3. HandlerFits(r)
    BY <1>0, <2>2 DEF HandlerFits, Resolving, Terminal
  <2>4. LogInv'
    BY <1>1, <2>1, StoredStays DEF BillingInv, LogInv, WriteRow
  <2>5. BillingInv'
    BY <1>1, <2>1, <2>2, <2>3, <2>4, OneHandlerMoves
  <2> QED
    BY <1>0, <1>3, <2>5
<1> QED
  BY <1>0, <1>1, <1>2, <1>3 DEF WriteRow, Applied, Note

(* The ends of a handler, the happy one and the others. *)
LEMMA EndsKeep ==
    ASSUME BillingInv, NEW h \in Handlers,
           MarkOutcome(h) \/ MarkFailed(h) \/ Throw(h) \/ Crash(h) \/ LoseAnswer(h)
    PROVE  BillingInv'
<1> DEFINE e == handler[h].event
<1>1. handler[h] \in HandlerShape /\ HandlerFits(handler[h])
  BY DEF BillingInv, HandlerInv
<1>2. e \in Events /\ UNCHANGED <<row, posted>>
  BY <1>1 DEF HandlerFits, MarkOutcome, MarkFailed, Throw, Crash, LoseAnswer, pc
<1>3. RestInv'
  BY <1>2, BillingAssumption DEF BillingInv, RestInv, MarkOutcome, MarkFailed, Throw, Crash, LoseAnswer, Ack
<1>4. CASE MarkOutcome(h) \/ LoseAnswer(h)
  <2>1. handler[h].pc = "mark" /\ log' = [log EXCEPT ![e] = handler[h].outcome] /\ Return(h)
    BY <1>4 DEF MarkOutcome, LoseAnswer, pc
  <2>2. handler[h].outcome \in Outcomes /\ (handler[h].outcome = "applied" => Stored(e))
    BY <1>1, <2>1 DEF HandlerFits, BillingInv, HandlersHonest, Outcomes
  <2>3. LogInv'
    BY <1>2, <2>1, <2>2, LogKeeps
  <2> QED
    BY <1>2, <1>3, <2>1, <2>3, WorkGoesOn
<1>5. CASE MarkFailed(h)
  <2>1. UNCHANGED log \/ log' = [log EXCEPT ![e] = "failed"]
    BY <1>2, <1>5 DEF MarkFailed, BillingInv, LogInv
  <2>2. LogInv'
    BY <1>2, <2>1, LogKeeps DEF Outcomes
  <2> QED
    BY <1>2, <1>3, <1>5, <2>2, WorkGoesOn DEF MarkFailed
<1>6. CASE Throw(h) \/ Crash(h)
  <2>1. LogInv'
    BY <1>2, <1>6, LogKeeps DEF Throw, Crash
  <2> QED
    BY <1>2, <1>3, <1>6, <2>1, WorkGoesOn DEF Throw, Crash
<1> QED
  BY <1>4, <1>5, <1>6

LEMMA BillingStepKeeps == BillingInv /\ [Next]_vars => BillingInv'
<1> SUFFICES ASSUME BillingInv, [Next]_vars PROVE BillingInv'
  OBVIOUS
<1>1. CASE \E q \in Refs : AskRef(q) \/ CreateRef(q) \/ ExpireRef(q)
  BY <1>1, RefsKeep
<1>2. CASE \E t \in Tenants : SupportStep(t)
  BY <1>2, SupportKeeps
<1>3. CASE \E h \in Handlers, e \in Events : Deliver(h, e)
  BY <1>3, DeliverKeeps
<1>4. CASE \E h \in Handlers : HandlerStep(h) \/ Throw(h) \/ Crash(h) \/ LoseAnswer(h)
  BY <1>4, RecordKeeps, LookupsKeep, WriteKeeps, EndsKeep DEF HandlerStep
<1>5. CASE UNCHANGED vars
  <2>1. RowInv' /\ PostedInv'
    BY <1>5, SameRows DEF BillingInv, vars
  <2> QED
    BY <1>5, <2>1, OnlyRowsMove DEF vars
<1> QED
  BY <1>1, <1>2, <1>3, <1>4, <1>5 DEF Next

LEMMA BillingInvAlways == Spec => []BillingInv
  BY InitBillingInv, BillingStepKeeps, PTL DEF Spec

-------------------------------------------------------------------------------
(* The webhook's state has its types: a handler that writes knows the tenant
   and the whole row, one that marks has an outcome (webhook/route.ts). *)
THEOREM TypeCorrect == Spec => []TypeOK
<1>1. BillingInv => TypeOK
  BY DEF BillingInv, RowInv, PostedInv, HandlerInv, LogInv, RestInv, TypeOK, HandlerOK, HandlerShape, HandlerFits, Carries
<1> QED
  BY <1>1, BillingInvAlways, PTL

(* process-subscription-event.ts, defence 3: an event is marked applied only
   when its own write went through, and that write is in the tenant's row
   until a newer event or the end of its own subscription, whatever deliveries
   of whatever events overlap, fail and repeat. *)
THEOREM AppliedIsStoredAlways == Spec => []AppliedIsStored
<1>1. BillingInv => AppliedIsStored
  BY DEF BillingInv, LogInv, PostedInv, Stored, AppliedIsStored
<1> QED
  BY <1>1, BillingInvAlways, PTL

(* subscription-reducer.ts, nextPastDueSince: a past-due row says since when,
   and not later than the event it came from, for any payloads in any order. *)
THEOREM GraceIsAnchoredAlways == Spec => []GraceIsAnchored
<1>1. Absent \notin Nat
  BY BillingAssumption
<1>2. BillingInv => GraceIsAnchored
  BY SMTT(30), <1>1 DEF BillingInv, RowInv, RowFits, Anchored, GraceIsAnchored
<1> QED
  BY <1>2, BillingInvAlways, PTL

(* webhook/route.ts: a subscription event is answered 200 only when its
   outcome is marked, for any number of overlapping deliveries and faults. *)
THEOREM OnlyFinishedIsAckedAlways == Spec => OnlyFinishedIsAcked
<1> DEFINE Finished == \A e \in acked' \ acked : ~RecordOnly(e) => log'[e] \in Terminal
<1>1. ASSUME BillingInv, Next PROVE Finished
  <2>1. CASE UNCHANGED acked
    BY <2>1
  <2>2. ASSUME NEW h \in Handlers, RereadOutcome(h) \/ MarkOutcome(h) \/ Throw(h) PROVE Finished
    <3>1. handler[h] \in HandlerShape /\ HandlerFits(handler[h]) /\ log \in [Events -> Outcomes]
      BY <1>1 DEF BillingInv, HandlerInv, LogInv
    <3>2. handler[h].event \in Events
      BY <2>2, <3>1 DEF HandlerFits, RereadOutcome, MarkOutcome, Throw, pc
    <3>3. CASE RereadOutcome(h)
      BY <3>3 DEF RereadOutcome, Ack
    <3>4. CASE MarkOutcome(h)
      BY <3>1, <3>2, <3>4 DEF MarkOutcome, Ack, HandlerFits, pc
    <3>5. CASE Throw(h)
      BY <3>5 DEF Throw, Ack
    <3> QED
      BY <2>2, <3>3, <3>4, <3>5
  <2> QED
    BY <1>1, <2>1, <2>2 DEF Next, HandlerStep, SupportStep, AskRef, CreateRef, ExpireRef, SetManual,
       ClearManual, Deliver, RecordEvent, FindSub, ReadRef, StampRef, FindTenant, WriteRow, MarkFailed,
       Crash, LoseAnswer
<1>2. BillingInv /\ [Next]_vars => [Finished]_vars
  BY <1>1
<1> QED
  BY <1>2, BillingInvAlways, PTL DEF Spec, OnlyFinishedIsAcked

-------------------------------------------------------------------------------
(* What the ledger sees of a tenant's row, and of all rows. *)
Post(r) == [sub |-> r.sub, status |-> r.status, tier |-> r.tier, at |-> r.at]
Held(r) == IF r = Absent \/ r.sub = Absent THEN Absent ELSE Post(r)
Holds   == [t \in Tenants |-> Held(row[t])]

(* A write that goes through is a step of the ledger. *)
LEMMA AppliedIsAPost ==
    ASSUME RowInv, NEW t \in Tenants, NEW e \in Events, NEW new, Applied(t, e, new)
    PROVE  Ledger!Next
<1> DEFINE post == Post(EventOf[e])
<1>1. e \in Sold
  BY DEF Sold, RecordOnly, Applied, Carries
<1>2. row \in [Tenants -> Rows \cup {Absent}] /\ \A u \in Tenants : RowFits(row[u])
  BY DEF RowInv
<1>3. /\ new \in Rows /\ new # Absent /\ Post(new) = post /\ Held(new) = post
      /\ post.sub = new.sub /\ post.at = new.at /\ new.at \in Nat /\ new.sub # Absent
  BY EventsAreTyped, BillingAssumption DEF Applied, Carries, Post, Held
<1>4. \A u \in Tenants : Held(row[u]) # Absent =>
         /\ row[u] # Absent /\ row[u].sub # Absent /\ row[u].at \in Nat
         /\ Held(row[u]).sub = row[u].sub /\ Held(row[u]).at = row[u].at
         /\ Held(row[u]).status = row[u].status
  BY <1>2 DEF Held, Post, RowFits, Rows
<1>5. Ledger!MayFollow(Holds[t], post)
  <2>1. SUFFICES ASSUME Held(row[t]) # Absent
                 PROVE  /\ Held(row[t]).at <= post.at
                        /\ Held(row[t]).sub = post.sub \/ Held(row[t]).status = "canceled"
    BY DEF Ledger!MayFollow, Holds
  <2>2. ~IsOlder(row[t], new) /\ ~IsOther(row[t], new) /\ row[t].at # Absent
    BY <1>2, <1>4, <2>1, BillingAssumption DEF Applied
  <2> QED
    BY <1>3, <1>4, <2>1, <2>2 DEF IsOlder, IsOther
<1>6. ~Ledger!HeldElsewhere(t, post.sub)
  BY <1>3, <1>4 DEF Ledger!HeldElsewhere, HeldElsewhere, Applied, Holds, Held
<1>7. Holds' = [Holds EXCEPT ![t] = post]
  <2>1. row' = [row EXCEPT ![t] = new]
    BY DEF Applied
  <2>2. \A u \in Tenants : Held(row'[u]) = IF u = t THEN post ELSE Held(row[u])
    BY <1>2, <1>3, <2>1
  <2> QED
    BY <2>2 DEF Holds
<1>8. Ledger!Post(t, post)
  BY <1>5, <1>6, <1>7 DEF Ledger!Post, Ledger!MayFollow, Ledger!HeldElsewhere, Holds, Held, Post
<1> QED
  BY <1>1, <1>8 DEF Ledger!Next, Post

(* Support leaves what the ledger sees alone. *)
LEMMA SupportIsNoPost ==
    ASSUME RowInv, NEW t \in Tenants, SupportStep(t)
    PROVE  UNCHANGED Holds
<1>1. row \in [Tenants -> Rows \cup {Absent}]
  BY DEF RowInv
<1>2. ASSUME NEW manual \in Tiers \cup {Absent}, row[t] # Absent,
             row' = [row EXCEPT ![t] = [row[t] EXCEPT !.manual = manual]]
      PROVE  UNCHANGED Holds
  <2>1. PICK new : new = [row[t] EXCEPT !.manual = manual]
    OBVIOUS
  <2>2. /\ new.sub = row[t].sub /\ new.at = row[t].at /\ new.status = row[t].status
        /\ new.tier = row[t].tier /\ new \in Rows
    BY <1>1, <1>2, <2>1 DEF Rows
  <2>3. Held(new) = Held(row[t])
    BY <1>2, <2>2, BillingAssumption DEF Held, Post
  <2> QED
    BY <1>1, <1>2, <2>1, <2>3 DEF Holds
<1>3. ASSUME NEW new, row[t] = Absent, new.sub = Absent, row' = [row EXCEPT ![t] = new]
      PROVE  UNCHANGED Holds
  BY <1>1, <1>3 DEF Holds, Held
<1> QED
  BY <1>2, <1>3, BillingAssumption DEF SupportStep, SetManual, ClearManual

(* process-subscription-event.ts, defences 1 to 3: whatever deliveries
   overlap, fail, repeat and arrive out of order, the table of rows is a
   subscription ledger. *)
THEOREM ImplementsLedgerAlways == Spec => ImplementsLedger
<1>1. Init => Ledger!Init
  BY DEF Init, Ledger!Init
<1>2. BillingInv /\ [Next]_vars => Ledger!Next \/ UNCHANGED Holds
  <2> SUFFICES ASSUME BillingInv, [Next]_vars PROVE Ledger!Next \/ UNCHANGED Holds
    OBVIOUS
  <2>1. ASSUME NEW h \in Handlers, WriteRow(h) PROVE Ledger!Next \/ UNCHANGED Holds
    BY <2>1, WriteKeeps, AppliedIsAPost DEF BillingInv, Holds
  <2>2. ASSUME NEW t \in Tenants, SupportStep(t) PROVE UNCHANGED Holds
    BY <2>2, SupportIsNoPost DEF BillingInv
  <2>3. CASE UNCHANGED row
    BY <2>3 DEF Holds
  <2> QED
    BY <2>1, <2>2, <2>3 DEF Next, HandlerStep, AskRef, CreateRef, ExpireRef, Deliver, RecordEvent,
       RereadOutcome, FindSub, ReadRef, StampRef, FindTenant, MarkOutcome, MarkFailed, Throw, Crash,
       LoseAnswer, vars
<1>3. BillingInv /\ [Next]_vars => [Ledger!Next]_Holds
  BY <1>2
<1> QED
  BY <1>1, <1>3, BillingInvAlways, PTL DEF Spec, ImplementsLedger, Ledger!Spec, Holds, Held, Post
===============================================================================
