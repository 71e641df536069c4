------------------------------ MODULE PortalGate ------------------------------
(***************************************************************************)
(* The buyer's way in: a code mailed to an approved address, checked once, *)
(* and a session cookie.  One workspace, one address; calls are the        *)
(* requests in flight, on any server instance, and one query is one step.  *)
(*                                                                         *)
(* The per-IP limiter in front of each call belongs to the caller and not  *)
(* to the address: a call it refuses changes nothing here and is left out, *)
(* as is a malformed code.  Two rows with one code (10^-6) are left out.   *)
(***************************************************************************)
EXTENDS RateWindows, Sequences, SequencesExt

CONSTANTS
    Calls,          \* requests in flight
    MaxCodes, MaxArrivals, MaxClock, MaxTrouble,     \* bounds
    MaxWait,        \* how long a charge waits for its row, in ticks
    Ttl, Cooldown,  \* of a code: 15 minutes, 1 minute
    MaxAttempts,    \* wrong guesses a row takes: 5
    AttemptCap,     \* and all rows of an hour: 10
    InviteCap       \* codes per workspace and hour by invitation: 30

ASSUME GateAssumption ==
    /\ {MaxCodes, MaxArrivals, MaxClock, MaxTrouble, MaxWait, Ttl} \subseteq Nat
    /\ {Cooldown, MaxAttempts, AttemptCap, InviteCap} \subseteq Nat \ {0}
    /\ MaxWait < Hour
    /\ MaxCodes >= 2 /\ MaxClock >= 2    \* room for the initial states

VARIABLES
    clock,
    approved,    \* the address is on the workspace's whitelist
    codes,       \* the address's rows of portal_access_tokens, oldest first
    durable,     \* rate_limit_windows, per key
    memory,      \* the fallback windows of an instance, per key
    call,        \* what each request is doing
    arrivals, trouble,
    tally        \* history, see Tallies

gateVars == <<clock, approved, codes, durable, memory, call, arrivals, trouble, tally>>

Wrong == 0    \* a guess that is no code; guess k > 0 is the code of row k
Stages == {"idle", "append", "cap", "approve", "cool", "reserve", "insert", "send",
           "charge", "spent", "read", "miss", "consume", "enter"}
MailKeys == <<"tenantHour", "tenantDay", "global">>

(* guess: the code submitted; row: the row found; seen: a value read earlier
   (attempts, or the whitelist bit); since: when a charge was sent. *)
Resting == [pc |-> "idle", guess |-> Wrong, row |-> 0, seen |-> 0, since |-> 0]

(* admitted[t], fallback[t]: guesses let through at t by the store and by an
   instance; wrong: wrong guesses compared; opened[k]: sessions opened with
   the code of row k. *)
NoTally ==
    [admitted |-> [t \in 0..MaxClock |-> 0], fallback |-> [t \in 0..MaxClock |-> 0],
     wrong |-> 0, opened |-> [k \in 1..MaxCodes |-> 0]]

(* A fresh address, or one that a tick ago asked for a code and guessed
   before it came, and that has just been sent a second one. *)
Fresh == [made |-> <<>>, asked |-> 0, clock |-> 2]
Known == [made |-> <<0, 1>>, asked |-> 1, clock |-> 1]
Used(n) == [start |-> 0, count |-> n]
GateInit == \E before \in {Fresh, Known} :
    LET sent == Len(before.made) IN
    /\ clock = before.clock /\ arrivals = 0 /\ trouble = 0
    /\ approved \in BOOLEAN
    /\ codes = [k \in 1..sent |-> [made |-> before.made[k], attempts |-> 0, used |-> FALSE]]
    /\ durable = [key \in Keys |-> Used(IF key = "target" THEN before.asked ELSE sent)]
    /\ memory = [key \in Keys |-> Unopened]
    /\ call = [r \in Calls |-> Resting]
    /\ tally = [NoTally EXCEPT !.admitted[0] = before.asked]

At(r, label) == call[r].pc = label
Proceed(r, label) ==
    call' = [call EXCEPT ![r].pc = label,
                         ![r].since = IF label \in {"reserve", "charge"} THEN clock ELSE 0]
Finish(r) == call' = [call EXCEPT ![r] = Resting]
Trouble == trouble < MaxTrouble /\ trouble' = trouble + 1

-------------------------------------------------------------------------------
(* checkDurableRateLimit: the store answers, or the instance's own window
   does, and then the store may have counted the request all the same, its
   answer lost.  Keys are counters of their own, so one instance stands for
   each. *)
Charge(r, key, ok) ==
    LET moments == {v \in call[r].since..clock : v + MaxWait >= clock}
        Stored(t) == [durable EXCEPT ![key] = Upserted(@, key, t)]
    IN  \/ \E t \in moments :
            /\ durable' = Stored(t)
            /\ ok = DurableAllows(durable[key], key, t)
            /\ UNCHANGED <<memory, trouble>>
        \/ /\ Trouble
           /\ memory' = [memory EXCEPT ![key] = Counted(@, key, clock)]
           /\ ok = MemoryAllows(memory[key], key, clock)
           /\ durable' \in {durable} \cup {Stored(t) : t \in moments}

Arrive(r, label, guess, row) ==
    /\ At(r, "idle") /\ arrivals < MaxArrivals
    /\ arrivals' = arrivals + 1
    /\ call' = [call EXCEPT ![r] = [Resting EXCEPT !.pc = label, !.guess = guess,
                                                   !.row = row,
                                                   !.since = IF label = "charge" THEN clock ELSE 0]]
    /\ UNCHANGED <<clock, approved, codes, durable, memory, trouble, tally>>

(* requestAccess, and POST /api/auth/send-token: the same issuance. *)
RequestAccess(r) == Arrive(r, "approve", Wrong, 0)

(* sendBuyerInvite reads the whitelist and writes it back with the invited
   address added: this one, or another one (row 1), over what it had read. *)
SendBuyerInvite(r) == \E other \in {0, 1} : Arrive(r, "append", Wrong, other)

AppendWhitelist(r) ==
    /\ At(r, "append")
    /\ IF call[r].seen = 0
       THEN /\ call' = [call EXCEPT ![r].seen = IF approved THEN 2 ELSE 1]   \* the read
            /\ UNCHANGED approved
       ELSE \/ /\ approved' = (call[r].row = 0 \/ call[r].seen = 2)
               /\ IF call[r].row = 0 THEN Proceed(r, "cap") ELSE Finish(r)
            \/ /\ call[r].seen = 2 /\ call[r].row = 0   \* already there: nothing to write
               /\ Proceed(r, "cap") /\ UNCHANGED approved
    /\ UNCHANGED <<clock, codes, durable, memory, arrivals, trouble, tally>>

(* isInviteIssuanceCapped; a read that fails counts as no codes. *)
CountInvites(r) ==
    /\ At(r, "cap")
    /\ \/ /\ Len(SelectSeq(codes, LAMBDA c : c.made + Hour >= clock)) < InviteCap
          /\ Proceed(r, "approve") /\ UNCHANGED trouble
       \/ /\ Len(SelectSeq(codes, LAMBDA c : c.made + Hour >= clock)) >= InviteCap
          /\ Finish(r) /\ UNCHANGED trouble
       \/ Proceed(r, "approve") /\ Trouble
    /\ UNCHANGED <<clock, approved, codes, durable, memory, arrivals, tally>>

(* issueAccessTokenCore, its four queries and the mail.  An address that is
   not approved (or whose workspace cannot be read) gets nothing. *)
ReadApproval(r) ==
    /\ At(r, "approve")
    /\ IF approved THEN Proceed(r, "cool") ELSE Finish(r)
    /\ UNCHANGED <<clock, approved, codes, durable, memory, arrivals, trouble, tally>>

(* The newest row counts, used or not; a read that fails finds none. *)
ReadCooldown(r) ==
    LET cooling == codes # <<>> /\ clock - Last(codes).made < Cooldown IN
    /\ At(r, "cool")
    /\ \/ cooling /\ Finish(r) /\ UNCHANGED trouble
       \/ ~cooling /\ Proceed(r, "reserve") /\ UNCHANGED trouble
       \/ cooling /\ Proceed(r, "reserve") /\ Trouble
    /\ UNCHANGED <<clock, approved, codes, durable, memory, arrivals, tally>>

(* reserveEmailSend: the hour's, the day's, then everybody's; the first
   refusal ends it, and what was charged before stays charged. *)
ReserveEmail(r) ==
    LET step == call[r].row + 1 IN
    /\ At(r, "reserve")
    /\ \E ok \in BOOLEAN :
        /\ Charge(r, MailKeys[step], ok)
        /\ \/ ~ok /\ Finish(r)
           \/ ok /\ step < 3 /\ call' = [call EXCEPT ![r].row = step, ![r].since = clock]
           \/ ok /\ step = 3 /\ Proceed(r, "insert")
    /\ UNCHANGED <<clock, approved, codes, arrivals, tally>>

(* The insert is not checked: a code whose row was not written is mailed. *)
InsertCode(r) ==
    /\ At(r, "insert") /\ Proceed(r, "send")
    /\ \/ /\ Len(codes) < MaxCodes /\ UNCHANGED trouble
          /\ codes' = Append(codes, [made |-> clock, attempts |-> 0, used |-> FALSE])
       \/ Trouble /\ UNCHANGED codes
    /\ UNCHANGED <<clock, approved, durable, memory, arrivals, tally>>

(* The provider takes the mail or refuses it; the reservation stays spent. *)
SendCode(r) ==
    /\ At(r, "send") /\ Finish(r) /\ (UNCHANGED trouble \/ Trouble)
    /\ UNCHANGED <<clock, approved, codes, durable, memory, arrivals, tally>>

(* A password reset's e-mail is nobody's: only the global budget is charged. *)
ReserveForNobody ==
    /\ arrivals < MaxArrivals /\ arrivals' = arrivals + 1
    /\ durable' = [durable EXCEPT !["global"] = Upserted(@, "global", clock)]
    /\ UNCHANGED <<clock, approved, codes, memory, call, trouble, tally>>

-------------------------------------------------------------------------------
(* verifyAccess: any code the address was sent, or a wrong one. *)
VerifyAccess(r) == \E guess \in 0..Len(codes) : Arrive(r, "charge", guess, 0)

(* The atomic layer: every guess is charged before anything is read. *)
ChargeGuess(r) ==
    /\ At(r, "charge")
    /\ \E ok \in BOOLEAN :
        /\ Charge(r, "target", ok)
        /\ IF ok THEN Proceed(r, "spent") ELSE Finish(r)
        /\ tally' = IF ~ok THEN tally
                    ELSE IF trouble' = trouble
                    THEN [tally EXCEPT !.admitted[clock] = @ + 1]
                    ELSE [tally EXCEPT !.fallback[clock] = @ + 1]
    /\ UNCHANGED <<clock, approved, codes, arrivals>>

(* isVerifyAttemptCapReached: the wrong guesses recorded on the rows of the
   last hour; a read that fails refuses. *)
Spent == FoldLeft(LAMBDA n, c : IF c.made + Hour >= clock THEN n + c.attempts ELSE n, 0, codes)
ReadSpent(r) ==
    /\ At(r, "spent")
    /\ \/ (IF Spent >= AttemptCap THEN Finish(r) ELSE Proceed(r, "read")) /\ UNCHANGED trouble
       \/ Finish(r) /\ Trouble
    /\ UNCHANGED <<clock, approved, codes, durable, memory, arrivals, tally>>

(* Mutant: the code that has just been made is not counted. *)
BugOneTooFew == (Ttl - 1) \div Cooldown

(* readPendingTokens: the newest unused rows, as many as "can be live". *)
MaxLiveCandidates == (Ttl + Cooldown - 1) \div Cooldown
Pending ==
    LET unused == {k \in DOMAIN codes : ~codes[k].used} IN
    {k \in unused : Cardinality({j \in unused : j > k}) < MaxLiveCandidates}
IsUsable(k) == codes[k].made + Ttl >= clock /\ codes[k].attempts < MaxAttempts
Usable == {k \in Pending : IsUsable(k)}

(* burnUniformRoundTrip: an update that matches no row. *)
RefuseAlike(r) == Finish(r) /\ UNCHANGED codes

(* Any live code opens; a miss is held against the newest live row. *)
ReadPending(r) ==
    /\ At(r, "read")
    /\ \/ Usable = {} /\ RefuseAlike(r) /\ UNCHANGED trouble
       \/ /\ call[r].guess \in Usable /\ UNCHANGED trouble
          /\ call' = [call EXCEPT ![r].pc = "consume", ![r].row = call[r].guess]
       \/ /\ Usable # {} /\ call[r].guess \notin Usable /\ UNCHANGED trouble
          /\ call' = [call EXCEPT ![r].pc = "miss", ![r].row = Max(Usable),
                                  ![r].seen = codes[Max(Usable)].attempts]
       \/ RefuseAlike(r) /\ Trouble
    /\ UNCHANGED <<clock, approved, codes, durable, memory, arrivals, tally>>

(* Mutant: a miss is held against every live row. *)
BugChargesAll(r) ==
    /\ At(r, "miss") /\ Finish(r)
    /\ tally' = [tally EXCEPT !.wrong = @ + 1]
    /\ codes' = [k \in DOMAIN codes |->
                   IF codes[k].used THEN codes[k] ELSE [codes[k] EXCEPT !.attempts = @ + 1]]
    /\ UNCHANGED <<clock, approved, durable, memory, arrivals, trouble>>

(* recordFailedAttempt writes the value read plus one: of two misses at once
   one is lost, and a slow one takes later ones back. *)
RecordFailedAttempt(r) ==
    /\ At(r, "miss") /\ Finish(r)
    /\ tally' = [tally EXCEPT !.wrong = @ + 1]
    /\ \/ codes' = [codes EXCEPT ![call[r].row].attempts = call[r].seen + 1] /\ UNCHANGED trouble
       \/ Trouble /\ UNCHANGED codes
    /\ UNCHANGED <<clock, approved, durable, memory, arrivals>>

(* Mutant: the update does not ask whether the row is still unused. *)
BugConsumesAnyway(r) ==
    /\ At(r, "consume")
    /\ codes' = [codes EXCEPT ![call[r].row].used = TRUE]
    /\ Proceed(r, "enter")
    /\ UNCHANGED <<clock, approved, durable, memory, arrivals, trouble, tally>>

(* consumeToken: the update matches an unused row only, and the rows it
   returns decide.  A failure refuses, whether or not the update was made. *)
ConsumeToken(r) ==
    /\ At(r, "consume")
    /\ \/ /\ ~codes[call[r].row].used /\ UNCHANGED trouble
          /\ codes' = [codes EXCEPT ![call[r].row].used = TRUE]
          /\ Proceed(r, "enter")
       \/ codes[call[r].row].used /\ Finish(r) /\ UNCHANGED <<codes, trouble>>
       \/ /\ Finish(r) /\ Trouble
          /\ codes' \in {codes, [codes EXCEPT ![call[r].row].used = TRUE]}
    /\ UNCHANGED <<clock, approved, durable, memory, arrivals, tally>>

(* The event is logged as best it can and the cookie is set. *)
EnterPortal(r) ==
    /\ At(r, "enter") /\ Finish(r)
    /\ tally' = [tally EXCEPT !.opened[call[r].row] = @ + 1]
    /\ UNCHANGED <<clock, approved, codes, durable, memory, arrivals, trouble>>

(* The instance dies: the call is gone, what it wrote stays. *)
CallDies(r) ==
    /\ ~At(r, "idle") /\ Finish(r) /\ Trouble
    /\ UNCHANGED <<clock, approved, codes, durable, memory, arrivals, tally>>

Tick ==
    /\ clock < MaxClock /\ clock' = clock + 1
    /\ UNCHANGED <<approved, codes, durable, memory, call, arrivals, trouble, tally>>

IssueStep(r) ==
    \/ RequestAccess(r) \/ SendBuyerInvite(r) \/ AppendWhitelist(r) \/ CountInvites(r)
    \/ ReadApproval(r) \/ ReadCooldown(r) \/ ReserveEmail(r) \/ InsertCode(r) \/ SendCode(r)
VerifyStep(r) ==
    \/ VerifyAccess(r) \/ ChargeGuess(r) \/ ReadSpent(r) \/ ReadPending(r)
    \/ RecordFailedAttempt(r) \/ ConsumeToken(r) \/ EnterPortal(r) \/ CallDies(r)
GateNext == Tick \/ ReserveForNobody \/ \E r \in Calls : IssueStep(r) \/ VerifyStep(r)
GateSpec == GateInit /\ [][GateNext]_gateVars

-------------------------------------------------------------------------------
(* Every variable of the gate has its type (the tally is a record for the
   properties below). *)
GateTypeOK ==
    /\ clock \in 0..MaxClock /\ arrivals \in 0..MaxArrivals /\ trouble \in 0..MaxTrouble
    /\ approved \in BOOLEAN
    /\ codes \in BoundedSeq([made : 0..clock, attempts : 0..MaxAttempts, used : BOOLEAN], MaxCodes)
    /\ {durable, memory} \subseteq [Keys -> [start : 0..clock, count : Nat]]
    /\ call \in [Calls -> [pc : Stages, guess : 0..MaxCodes, row : 0..MaxCodes \cup 0..2,
                           seen : 0..MaxAttempts \cup 0..2, since : 0..clock]]

(* A code opens one session, however many submissions of it race
   (portal-access-token.ts:382, "exactly one of them updates a row here"). *)
OneSessionPerCode == \A k \in 1..MaxCodes : tally.opened[k] <= 1

(* Guesses at an address are bounded over any hour and not per code: the
   store lets through what two windows that touch hold, and a third when a
   charge waited for its row; an instance that stands in for it, two. *)
GuessBudget ==
    LET within(count, t) == FoldFunctionOnSet(+, 0, count, {u \in 0..MaxClock : t <= u /\ u < t + Hour})
    IN  \A t \in 0..MaxClock :
            /\ within(tally.admitted, t) <= 3 * TargetLimit
            /\ within(tally.fallback, t) <= 2 * TargetLimit

(* The buyer is never charged for more wrong guesses than were made, however
   many codes are live ("one wrong guess is one guess"). *)
NeverOvercharged ==
    FoldLeft(LAMBDA n, c : n + c.attempts, 0, codes) <= tally.wrong

(* What the read of the live codes counts on (portal-access-token.ts:279, what
   it fetches "is the most that can be live at once"): a code that is unused
   and not yet expired is among the newest ones fetched, as long as no two
   requests passed the cool-down together. *)
CodesApart == \A j, k \in DOMAIN codes : j < k => codes[j].made + Cooldown <= codes[k].made
LiveCodesAreRead ==
    CodesApart => \A k \in DOMAIN codes : ~codes[k].used /\ clock < codes[k].made + Ttl => k \in Pending
===============================================================================
