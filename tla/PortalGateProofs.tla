--------------------------- MODULE PortalGateProofs ---------------------------
(***************************************************************************)
(* Proofs about PortalGate for any calls, limits and lifetimes: every      *)
(* variable has its type, a code opens one session, codes a cool-down      *)
(* apart are all read, no buyer is held to more wrong guesses than were made,   *)
(* and an hour lets through a bounded number of guesses.                   *)
(***************************************************************************)
EXTENDS PortalGate, FiniteSetTheorems, WellFoundedInduction, TLAPS

Window == [start : Nat, count : Nat]
CodeRow == [made : Nat, attempts : 0..MaxAttempts, used : BOOLEAN]
CallShape ==
    [pc : Stages, guess : 0..MaxCodes, row : 0..MaxCodes \cup 0..2,
     seen : 0..MaxAttempts \cup 0..2, since : Nat]
TallyShape ==
    [admitted : [0..MaxClock -> Nat], fallback : [0..MaxClock -> Nat], wrong : Nat,
     opened : [1..MaxCodes -> Nat]]

(* No window, code or charge is of the future. *)
WindowsInv ==
    /\ durable \in [Keys -> Window] /\ \A key \in Keys : durable[key].start <= clock
    /\ memory \in [Keys -> Window] /\ \A key \in Keys : memory[key].start <= clock
CodesInv ==
    /\ codes \in Seq(CodeRow) /\ Len(codes) <= MaxCodes
    /\ \A k \in DOMAIN codes : codes[k].made <= clock
RestInv ==
    /\ clock \in 0..MaxClock /\ arrivals \in 0..MaxArrivals /\ trouble \in 0..MaxTrouble
    /\ approved \in BOOLEAN /\ tally \in TallyShape

(* A call that has found a row is at one that exists, and a miss is held
   against one with attempts left. *)
Found == {"miss", "consume", "enter"}
CallFits(c) ==
    /\ c.since <= clock
    /\ c.pc \in Found => c.row \in DOMAIN codes
    /\ c.pc = "miss" => c.seen < MaxAttempts
CallInv == call \in [Calls -> CallShape] /\ \A r \in Calls : CallFits(call[r])

(* Whoever is about to enter has used up its code, alone, and nobody has
   entered with it; a code that opened a session is used up. *)
Entering(r, k) == call[r].pc = "enter" /\ call[r].row = k
SessionInv ==
    /\ \A k \in 1..MaxCodes : tally.opened[k] = 0
          \/ (tally.opened[k] = 1 /\ k \in DOMAIN codes /\ codes[k].used)
    /\ \A r \in Calls : call[r].pc = "enter" =>
          /\ codes[call[r].row].used /\ tally.opened[call[r].row] = 0
          /\ \A q \in Calls \ {r} : ~Entering(q, call[r].row)

GateInv == RestInv /\ WindowsInv /\ CodesInv /\ CallInv /\ SessionInv

-------------------------------------------------------------------------------
(* Numbers and windows. *)
LEMMA Constants ==
    /\ MaxCodes \in Nat /\ MaxArrivals \in Nat /\ MaxClock \in Nat /\ MaxTrouble \in Nat
    /\ MaxWait \in Nat /\ Ttl \in Nat /\ MaxAttempts \in Nat \ {0}
    /\ MaxCodes >= 2 /\ MaxClock >= 2
  BY GateAssumption

LEMMA Bounded ==
    ASSUME NEW a \in Nat, NEW b \in Nat
    PROVE  Lower(a, b) \in {a, b} /\ Upper(a, b) \in {a, b}
<1>1. CASE a <= b
  <2>1. \A y \in {a, b} : a <= y /\ b >= y
    BY <1>1
  <2> QED
    BY <2>1 DEF Lower, Upper, Min, Max
<1>2. CASE b <= a
  <2>1. \A y \in {a, b} : b <= y /\ a >= y
    BY <1>2
  <2> QED
    BY <2>1 DEF Lower, Upper, Min, Max
<1> QED
  BY <1>1, <1>2

(* A set of numbers has a least one; so a set that goes on upwards from 0
   holds them all. *)
LEMMA Least ==
    ASSUME NEW S \in SUBSET Nat, S # {}
    PROVE  \E least \in S : \A j \in S : least <= j
<1> DEFINE R == {ss \in Nat \X Nat : ss[1] < ss[2]}
<1>1. \A i, j \in Nat : <<i, j>> \in R <=> i < j
  OBVIOUS
<1>2. IsWellFoundedOn(R, Nat)
  BY NatLessThanWellFounded DEF OpToRel
<1> HIDE DEF R
<1>3. PICK least \in S : \A j \in S : <<j, least>> \notin R
  BY <1>2, WFMin
<1>4. ASSUME NEW j \in S PROVE least <= j
  <2>1. least \in Nat /\ j \in Nat /\ ~(j < least)
    BY <1>1, <1>3
  <2> QED
    BY <2>1
<1> QED
  BY <1>4

LEMMA Upwards ==
    ASSUME NEW S, 0 \in S, \A k \in Nat : k \in S => k + 1 \in S
    PROVE  Nat \subseteq S
<1> SUFFICES ASSUME Nat \ S # {} PROVE FALSE
  OBVIOUS
<1>1. PICK least \in Nat \ S : \A j \in Nat \ S : least <= j
  BY Least
<1>2. least - 1 \in Nat /\ ~(least <= least - 1)
  BY <1>1
<1>3. least - 1 \in S /\ least = (least - 1) + 1
  BY <1>1, <1>2
<1> QED
  BY <1>1, <1>2, <1>3

LEMMA Greatest ==
    ASSUME NEW n \in Nat, NEW S \in SUBSET (1..n), S # {}
    PROVE  Max(S) \in S /\ \A j \in S : Max(S) >= j
<1> DEFINE gaps == {n - k : k \in S}
<1>1. \A k \in S : k \in Nat /\ n - k \in Nat
  OBVIOUS
<1>2. gaps \subseteq Nat /\ gaps # {}
  BY <1>1
<1>3. PICK least \in gaps : \A gap \in gaps : least <= gap
  <2> HIDE DEF gaps
  <2> QED
    BY <1>2, Least
<1>4. PICK k \in S : least = n - k
  BY <1>3
<1>5. ASSUME NEW j \in S PROVE k >= j
  <2>1. least <= n - j
    BY <1>3
  <2> QED
    BY <1>1, <1>4, <2>1
<1> QED
  BY <1>5 DEF Max

LEMMA BudgetsAreNumbers == \A key \in Keys : Budget(key).limit \in Nat
<1>1. ResolvedDaily \in Nat
  BY RateAssumption DEF ResolvedDaily
<1>2. ResolvedDaily \div 3 \in Nat
  BY <1>1
<1>3. TenantDaily \in Nat
  BY <1>2, RateAssumption, Bounded DEF TenantDaily
<1>4. TenantDaily \div 2 \in Nat
  BY <1>3
<1>5. TenantHourly \in Nat
  BY <1>4, RateAssumption, Bounded DEF TenantHourly
<1> QED
  BY <1>1, <1>3, <1>5, RateAssumption DEF Budget, Keys

LEMMA WindowsAreWindows ==
    ASSUME NEW w \in Window, NEW key \in Keys, NEW t \in Nat
    PROVE  /\ Upserted(w, key, t) \in Window /\ Upserted(w, key, t).start \in {w.start, t}
           /\ Counted(w, key, t) \in Window /\ Counted(w, key, t).start \in {w.start, t}
<1>1. Budget(key).limit \in Nat
  BY BudgetsAreNumbers
<1>2. w.count + 1 \in Nat /\ Budget(key).limit + 1 \in Nat
  BY <1>1 DEF Window
<1>3. Lower(w.count + 1, Budget(key).limit + 1) \in Nat
  BY <1>2, Bounded
<1>4. PICK limit \in Nat : limit = Lower(w.count + 1, Budget(key).limit + 1)
  BY <1>3
<1>5. [w EXCEPT !.count = limit] \in Window /\ [w EXCEPT !.count = limit].start = w.start
  BY DEF Window
<1>6. [w EXCEPT !.count = Lower(@ + 1, Budget(key).limit + 1)] = [w EXCEPT !.count = limit]
  BY <1>4
<1>7. /\ Upserted(w, key, t) \in Window /\ Upserted(w, key, t).start \in {w.start, t}
  BY <1>5, <1>6 DEF Upserted, Window
<1>8. /\ Counted(w, key, t) \in Window /\ Counted(w, key, t).start \in {w.start, t}
  BY <1>2 DEF Counted, Window
<1> QED
  BY <1>7, <1>8

-------------------------------------------------------------------------------
LEMMA RestingFits == Resting \in CallShape /\ Resting.pc = "idle" /\ (clock \in Nat => CallFits(Resting))
  BY Constants DEF Resting, CallShape, Stages, Wrong, CallFits, Found

LEMMA InitGateInv == GateInit => GateInv
<1> SUFFICES ASSUME GateInit PROVE GateInv
  OBVIOUS
<1>1. PICK before \in {Fresh, Known} :
        LET sent == Len(before.made) IN
        /\ clock = before.clock /\ arrivals = 0 /\ trouble = 0
        /\ approved \in BOOLEAN
        /\ codes = [k \in 1..sent |-> [made |-> before.made[k], attempts |-> 0, used |-> FALSE]]
        /\ durable = [key \in Keys |-> Used(IF key = "target" THEN before.asked ELSE sent)]
        /\ memory = [key \in Keys |-> Unopened]
        /\ call = [r \in Calls |-> Resting]
        /\ tally = [NoTally EXCEPT !.admitted[0] = before.asked]
  BY DEF GateInit
<1>2. /\ clock \in 0..2 /\ before.asked \in Nat /\ Len(before.made) \in 0..2
      /\ \A k \in 1..Len(before.made) : before.made[k] \in 0..1 /\ before.made[k] <= clock
  <2>1. CASE before = Fresh
    BY <1>1, <2>1 DEF Fresh
  <2>2. CASE before = Known
    <3>1. /\ before.made = <<0, 1>> /\ before.clock = 1 /\ before.asked = 1
      BY <2>2 DEF Known
    <3>2. \A k \in 1..2 : k = 1 \/ k = 2
      OBVIOUS
    <3> QED
      BY <1>1, <3>1, <3>2
  <2> QED
    BY <2>1, <2>2
<1>3. tally \in TallyShape /\ \A k \in 1..MaxCodes : tally.opened[k] = 0
  <2>1. NoTally \in TallyShape /\ \A k \in 1..MaxCodes : NoTally.opened[k] = 0
    BY DEF NoTally, TallyShape
  <2>2. PICK admitted : admitted = [NoTally.admitted EXCEPT ![0] = before.asked]
    OBVIOUS
  <2>3. admitted \in [0..MaxClock -> Nat]
    BY <1>2, <2>1, <2>2 DEF TallyShape
  <2>4. tally = [NoTally EXCEPT !.admitted = admitted]
    BY <1>1, <2>2
  <2> QED
    BY <2>1, <2>3, <2>4 DEF TallyShape
<1>4. RestInv
  BY <1>1, <1>2, <1>3, Constants DEF RestInv
<1>5. WindowsInv
  BY <1>1, <1>2 DEF WindowsInv, Window, Used, Unopened
<1>6. CodesInv
  <2>1. codes \in [1..Len(before.made) -> CodeRow]
    BY <1>1, <1>2, Constants DEF CodeRow
  <2>2. codes \in Seq(CodeRow) /\ Len(codes) = Len(before.made)
    BY <1>2, <2>1
  <2>3. \A k \in DOMAIN codes : codes[k].made <= clock
    BY <1>1, <1>2
  <2> QED
    BY <1>2, <2>2, <2>3, Constants DEF CodesInv
<1>7. CallInv
  BY <1>1, <1>2, RestingFits DEF CallInv
<1>8. SessionInv
  BY <1>1, <1>3, RestingFits DEF SessionInv
<1> QED
  BY <1>4, <1>5, <1>6, <1>7, <1>8 DEF GateInv

LEMMA CodesAreRows ==
    ASSUME CodesInv
    PROVE  /\ \A k \in DOMAIN codes : codes[k] \in CodeRow
           /\ DOMAIN codes = 1..Len(codes) /\ Len(codes) \in Nat
           /\ DOMAIN codes \subseteq 1..MaxCodes
<1>1. codes \in [1..Len(codes) -> CodeRow] /\ Len(codes) \in Nat /\ Len(codes) <= MaxCodes
  BY DEF CodesInv
<1> QED
  BY <1>1, Constants

(* The rows that were there are there, and used up if they were. *)
CodesOnlyAge ==
    /\ DOMAIN codes \subseteq DOMAIN codes'
    /\ \A k \in DOMAIN codes : codes[k].used => codes'[k].used

LEMMA SameCodesOnlyAge == UNCHANGED codes => CodesOnlyAge
  BY DEF CodesOnlyAge

(* One call moves on, short of entering. *)
LEMMA OneCallMoves ==
    ASSUME GateInv, NEW r \in Calls, NEW c \in CallShape,
           call' = [call EXCEPT ![r] = c], c.pc # "enter", CodesOnlyAge,
           c.since <= clock', c.pc \in Found => c.row \in DOMAIN codes,
           c.pc = "miss" => c.seen < MaxAttempts,
           clock <= clock', RestInv', WindowsInv', CodesInv', tally'.opened = tally.opened
    PROVE  GateInv'
<1> USE DEF GateInv
<1>1. call' \in [Calls -> CallShape] /\ call'[r] = c
      /\ \A q \in Calls \ {r} : call'[q] = call[q]
  BY DEF CallInv
<1>2. clock \in Nat /\ clock' \in Nat /\ \A q \in Calls : call[q].since \in Nat
  BY Constants DEF RestInv, CallInv, CallShape
<1>3. CallInv'
  BY <1>1, <1>2 DEF CallInv, CallFits, CodesOnlyAge
<1>4. ASSUME NEW q \in Calls, call'[q].pc = "enter"
      PROVE  /\ codes'[call'[q].row].used /\ tally'.opened[call'[q].row] = 0
             /\ \A p \in Calls \ {q} : ~(call'[p].pc = "enter" /\ call'[p].row = call'[q].row)
  <2>1. q # r /\ call'[q] = call[q] /\ call[q].row \in DOMAIN codes
    BY <1>1, <1>4 DEF CallInv, CallFits, Found
  <2>2. /\ codes[call[q].row].used /\ tally.opened[call[q].row] = 0
        /\ \A p \in Calls \ {q} : ~Entering(p, call[q].row)
    BY <1>4, <2>1 DEF SessionInv
  <2> QED
    BY <1>1, <2>1, <2>2 DEF CodesOnlyAge, Entering
<1>5. SessionInv'
  <2>1. \A k \in 1..MaxCodes : tally'.opened[k] = 0
          \/ (tally'.opened[k] = 1 /\ k \in DOMAIN codes' /\ codes'[k].used)
    BY DEF SessionInv, CodesOnlyAge
  <2> QED
    BY <1>4, <2>1 DEF SessionInv, Entering
<1> QED
  BY <1>3, <1>5

(* ... and nothing else changes but the windows and the counters. *)
LEMMA OneCallMovesAlone ==
    ASSUME GateInv, NEW r \in Calls, NEW c \in CallShape,
           call' = [call EXCEPT ![r] = c], c.pc # "enter",
           c.since <= clock, c.pc \in Found => c.row \in DOMAIN codes,
           c.pc = "miss" => c.seen < MaxAttempts,
           UNCHANGED <<clock, codes>>, RestInv', WindowsInv', tally'.opened = tally.opened
    PROVE  GateInv'
<1>1. CodesInv' /\ clock <= clock'
  BY Constants DEF GateInv, CodesInv, RestInv
<1> QED
  BY <1>1, SameCodesOnlyAge, OneCallMoves

(* What the ways to move a call make of it. *)
LEMMA ProceedIs ==
    ASSUME GateInv, NEW r \in Calls, NEW label \in Stages, Proceed(r, label)
    PROVE  \E c \in CallShape :
             /\ call' = [call EXCEPT ![r] = c] /\ c.pc = label /\ c.since <= clock
             /\ c.row = call[r].row /\ c.seen = call[r].seen /\ c.guess = call[r].guess
<1> DEFINE since == IF label \in {"reserve", "charge"} THEN clock ELSE 0
<1>1. call[r] \in CallShape /\ clock \in Nat /\ since \in Nat /\ since <= clock
  BY DEF GateInv, CallInv, RestInv
<1> HIDE DEF since
<1>2. PICK half : half = [call[r] EXCEPT !.pc = label]
  OBVIOUS
<1>3. /\ half \in CallShape /\ half.pc = label
      /\ half.row = call[r].row /\ half.seen = call[r].seen /\ half.guess = call[r].guess
  BY <1>1, <1>2 DEF CallShape
<1>4. PICK c : c = [half EXCEPT !.since = since]
  OBVIOUS
<1>5. /\ c \in CallShape /\ c.pc = label /\ c.since = since
      /\ c.row = call[r].row /\ c.seen = call[r].seen /\ c.guess = call[r].guess
  BY <1>1, <1>3, <1>4 DEF CallShape
<1>6. call' = [call EXCEPT ![r] = c]
  BY <1>1, <1>2, <1>4 DEF Proceed, since, GateInv, CallInv
<1> QED
  BY <1>1, <1>5, <1>6

LEMMA CallGoesOn ==
    ASSUME GateInv, NEW r \in Calls, CodesOnlyAge, RestInv', WindowsInv', CodesInv',
           UNCHANGED clock, tally'.opened = tally.opened,
           Finish(r) \/ \E label \in Stages \ Found : Proceed(r, label)
    PROVE  GateInv'
<1>1. clock \in Nat /\ clock <= clock'
  BY Constants DEF GateInv, RestInv
<1>2. CASE Finish(r)
  BY <1>1, <1>2, RestingFits, OneCallMoves DEF Finish, CallFits, Found
<1>3. CASE \E label \in Stages \ Found : Proceed(r, label)
  <2>1. PICK label \in Stages \ Found : Proceed(r, label)
    BY <1>3
  <2>2. PICK c \in CallShape :
             call' = [call EXCEPT ![r] = c] /\ c.pc = label /\ c.since <= clock
    BY <2>1, ProceedIs
  <2> QED
    BY <1>1, <2>1, <2>2, OneCallMoves DEF Found
<1> QED
  BY <1>2, <1>3

LEMMA CallGoesOnAlone ==
    ASSUME GateInv, NEW r \in Calls, RestInv', WindowsInv',
           UNCHANGED <<clock, codes>>, tally'.opened = tally.opened,
           Finish(r) \/ \E label \in Stages \ Found : Proceed(r, label)
    PROVE  GateInv'
<1>1. CodesInv'
  BY DEF GateInv, CodesInv
<1> QED
  BY <1>1, SameCodesOnlyAge, CallGoesOn

LEMMA TroubleIsCounted ==
    ASSUME RestInv, trouble' = trouble \/ Trouble
    PROVE  trouble' \in 0..MaxTrouble
  BY Constants DEF RestInv, Trouble

LEMMA SameWindows ==
    ASSUME GateInv, UNCHANGED <<clock, durable, memory>>
    PROVE  WindowsInv'
  BY DEF GateInv, WindowsInv

(* A charge leaves windows that are windows. *)
LEMMA ChargeKeepsWindows ==
    ASSUME GateInv, NEW r \in Calls, NEW key, NEW ok, Charge(r, key, ok), UNCHANGED clock
    PROVE  WindowsInv' /\ trouble' \in 0..MaxTrouble
<1>1. /\ durable \in [Keys -> Window] /\ \A k \in Keys : durable[k].start <= clock
      /\ memory \in [Keys -> Window] /\ \A k \in Keys : memory[k].start <= clock
      /\ clock \in Nat /\ clock' = clock /\ call[r].since \in Nat
  BY Constants DEF GateInv, WindowsInv, RestInv, CallInv, CallShape
<1>2. CASE \E t \in {v \in call[r].since..clock : v + MaxWait >= clock} :
              durable' = [durable EXCEPT ![key] = Upserted(@, key, t)]
              /\ UNCHANGED <<memory, trouble>>
  <2>1. PICK t \in call[r].since..clock : durable' = [durable EXCEPT ![key] = Upserted(@, key, t)]
    BY <1>2
  <2>2. t \in Nat /\ t <= clock
    BY <1>1
  <2>3. \A k \in Keys : Upserted(durable[k], k, t) \in Window
                        /\ Upserted(durable[k], k, t).start \in {durable[k].start, t}
    BY <1>1, <2>2, WindowsAreWindows
  <2>4. durable' \in [Keys -> Window] /\ \A k \in Keys : durable'[k].start <= clock
    BY <1>1, <2>1, <2>2, <2>3
  <2> QED
    BY <1>1, <1>2, <2>4 DEF GateInv, RestInv, WindowsInv
<1>3. CASE /\ Trouble /\ memory' = [memory EXCEPT ![key] = Counted(@, key, clock)]
           /\ durable' \in {durable} \cup {[durable EXCEPT ![key] = Upserted(@, key, t)] :
                                t \in {v \in call[r].since..clock : v + MaxWait >= clock}}
  <2>1. PICK t \in Nat : t = clock
    BY <1>1
  <2>2. \A k \in Keys : Counted(memory[k], k, t) \in Window
                        /\ Counted(memory[k], k, t).start \in {memory[k].start, t}
    BY <1>1, WindowsAreWindows
  <2>3. \A k \in Keys : Counted(memory[k], k, t).start <= clock
    BY <1>1, <2>1, <2>2
  <2>4. memory' = [memory EXCEPT ![key] = Counted(memory[key], key, t)]
    BY <1>3, <2>1
  <2>5. memory' \in [Keys -> Window]
    BY <1>1, <2>2, <2>4
  <2>6. \A k \in Keys : memory'[k].start <= clock
    BY <1>1, <2>3, <2>4
  <2>7. trouble' \in 0..MaxTrouble
    BY <1>3, TroubleIsCounted DEF GateInv
  <2>8. durable' \in [Keys -> Window] /\ \A k \in Keys : durable'[k].start <= clock
    <3>1. CASE durable' = durable
      BY <1>1, <3>1
    <3>2. CASE \E u \in call[r].since..clock : durable' = [durable EXCEPT ![key] = Upserted(@, key, u)]
      <4>1. PICK u \in call[r].since..clock : durable' = [durable EXCEPT ![key] = Upserted(@, key, u)]
        BY <3>2
      <4>2. u \in Nat /\ u <= clock
        BY <1>1
      <4>3. \A k \in Keys : Upserted(durable[k], k, u) \in Window
                            /\ Upserted(durable[k], k, u).start \in {durable[k].start, u}
        BY <1>1, <4>2, WindowsAreWindows
      <4> QED
        BY <1>1, <4>1, <4>2, <4>3
    <3> QED
      BY <1>3, <3>1, <3>2
  <2> QED
    BY <1>1, <2>5, <2>6, <2>7, <2>8 DEF WindowsInv
<1> QED
  BY <1>2, <1>3 DEF Charge

-------------------------------------------------------------------------------
(* What comes in. *)
LEMMA ArrivalsKeep ==
    ASSUME GateInv, NEW r \in Calls, NEW label \in {"approve", "append", "charge"},
           NEW guess \in 0..MaxCodes, NEW row \in {0, 1}, Arrive(r, label, guess, row)
    PROVE  GateInv'
<1>1. PICK since \in Nat : since = (IF label = "charge" THEN clock ELSE 0) /\ since <= clock
  BY Constants DEF GateInv, RestInv
<1>2. PICK c : c = [Resting EXCEPT !.pc = label, !.guess = guess, !.row = row, !.since = since]
  OBVIOUS
<1>3. c = [pc |-> label, guess |-> guess, row |-> row, seen |-> 0, since |-> since]
  BY <1>2 DEF Resting
<1>4. c \in CallShape /\ c.pc = label /\ c.since = since
  BY <1>3, Constants DEF CallShape, Stages
<1>5. call' = [call EXCEPT ![r] = c]
  BY <1>1, <1>2 DEF Arrive
<1>6. RestInv' /\ UNCHANGED <<clock, codes, durable, memory, tally>>
  BY Constants DEF GateInv, RestInv, Arrive
<1> QED
  BY <1>1, <1>4, <1>5, <1>6, SameWindows, OneCallMovesAlone DEF Found

LEMMA RequestsKeep ==
    ASSUME GateInv, NEW r \in Calls, RequestAccess(r) \/ SendBuyerInvite(r) \/ VerifyAccess(r)
    PROVE  GateInv'
<1>1. Len(codes) \in Nat /\ Len(codes) <= MaxCodes /\ Wrong \in 0..MaxCodes
  BY Constants DEF GateInv, CodesInv, Wrong
<1>2. 0..Len(codes) \subseteq 0..MaxCodes
  BY <1>1, Constants
<1> QED
  BY <1>1, <1>2, ArrivalsKeep DEF RequestAccess, SendBuyerInvite, VerifyAccess

(* The whitelist, the caps, the cooldown and the mail: no code is touched. *)
LEMMA WhitelistKeeps ==
    ASSUME GateInv, NEW r \in Calls, AppendWhitelist(r)
    PROVE  GateInv'
<1>1. RestInv' /\ WindowsInv' /\ UNCHANGED <<clock, codes>> /\ tally'.opened = tally.opened
  BY SameWindows DEF GateInv, RestInv, AppendWhitelist
<1>2. CASE \E n \in {1, 2} : call' = [call EXCEPT ![r].seen = n]
  <2>1. PICK n \in {1, 2} : call' = [call EXCEPT ![r].seen = n]
    BY <1>2
  <2>2. PICK c : c = [call[r] EXCEPT !.seen = n]
    OBVIOUS
  <2>3. call[r] \in CallShape /\ call[r].pc = "append" /\ call[r].since <= clock
    BY DEF GateInv, CallInv, CallFits, AppendWhitelist, At
  <2>4. c \in CallShape /\ c.pc = "append" /\ c.since <= clock
    BY <2>2, <2>3 DEF CallShape
  <2> QED
    BY <1>1, <2>1, <2>2, <2>4, OneCallMovesAlone DEF Found
<1>3. CASE Finish(r) \/ Proceed(r, "cap")
  BY <1>1, <1>3, CallGoesOnAlone DEF Stages, Found
<1> QED
  BY <1>2, <1>3 DEF AppendWhitelist

LEMMA ChecksKeep ==
    ASSUME GateInv, NEW r \in Calls,
           CountInvites(r) \/ ReadApproval(r) \/ ReadCooldown(r) \/ SendCode(r) \/ ReadSpent(r)
           \/ CallDies(r)
    PROVE  GateInv'
<1>1. trouble' \in 0..MaxTrouble
  BY TroubleIsCounted DEF GateInv, CountInvites, ReadApproval, ReadCooldown, SendCode, ReadSpent, CallDies
<1>2. /\ UNCHANGED <<clock, approved, codes, durable, memory, arrivals, tally>>
      /\ Finish(r) \/ \E label \in {"approve", "cool", "reserve", "read"} : Proceed(r, label)
  BY DEF CountInvites, ReadApproval, ReadCooldown, SendCode, ReadSpent, CallDies
<1>3. RestInv' /\ WindowsInv'
  BY <1>1, <1>2, SameWindows DEF GateInv, RestInv
<1> QED
  BY <1>2, <1>3, CallGoesOnAlone DEF Stages, Found

LEMMA ReserveKeeps ==
    ASSUME GateInv, NEW r \in Calls, ReserveEmail(r)
    PROVE  GateInv'
<1> DEFINE step == call[r].row + 1
<1>1. UNCHANGED <<clock, approved, codes, arrivals, tally>>
  BY DEF ReserveEmail
<1>2. RestInv' /\ WindowsInv'
  <2>1. PICK ok, key : Charge(r, key, ok)
    BY DEF ReserveEmail
  <2> QED
    BY <1>1, <2>1, ChargeKeepsWindows DEF GateInv, RestInv
<1>3. CASE Finish(r) \/ Proceed(r, "insert")
  BY <1>1, <1>2, <1>3, CallGoesOnAlone DEF Stages, Found
<1>4. CASE step < 3 /\ call' = [call EXCEPT ![r].row = step, ![r].since = clock]
  <2>1. call[r] \in CallShape /\ call[r].pc = "reserve" /\ clock \in Nat
    BY Constants DEF GateInv, CallInv, RestInv, ReserveEmail, At
  <2>2. call[r].row \in Nat
    BY <2>1, Constants DEF CallShape
  <2>3. PICK next \in 0..2 : next = step
    BY <1>4, <2>2
  <2>4. PICK half : half = [call[r] EXCEPT !.row = next]
    OBVIOUS
  <2>5. half \in CallShape /\ half.pc = "reserve"
    BY <2>1, <2>4 DEF CallShape
  <2>6. PICK c : c = [half EXCEPT !.since = clock]
    OBVIOUS
  <2>7. c \in CallShape /\ c.pc = "reserve" /\ c.since = clock
    BY <2>1, <2>5, <2>6 DEF CallShape
  <2>8. call' = [call EXCEPT ![r] = c]
    BY <1>4, <2>1, <2>3, <2>4, <2>6 DEF GateInv, CallInv
  <2>9. c.since <= clock /\ c.pc \notin Found
    BY <2>1, <2>7 DEF Found
  <2> QED
    BY <1>1, <1>2, <2>7, <2>8, <2>9, OneCallMovesAlone DEF Found
<1> QED
  BY <1>3, <1>4 DEF ReserveEmail

LEMMA NobodyKeeps ==
    ASSUME GateInv, ReserveForNobody
    PROVE  GateInv'
<1>1. PICK t \in Nat : t = clock
  BY Constants DEF GateInv, RestInv
<1>2. "global" \in Keys /\ durable \in [Keys -> Window]
  BY DEF GateInv, WindowsInv, Keys
<1>3. /\ Upserted(durable["global"], "global", t) \in Window
      /\ Upserted(durable["global"], "global", t).start \in {durable["global"].start, t}
  BY <1>2, WindowsAreWindows
<1>4. /\ durable' = [durable EXCEPT !["global"] = Upserted(durable["global"], "global", t)]
      /\ UNCHANGED <<clock, codes, memory, call, tally>>
  BY <1>1 DEF ReserveForNobody
<1>5. WindowsInv'
  BY <1>1, <1>2, <1>3, <1>4 DEF GateInv, WindowsInv
<1>6. RestInv'
  BY Constants DEF GateInv, RestInv, ReserveForNobody
<1> QED
  BY <1>4, <1>5, <1>6 DEF GateInv, CodesInv, CallInv, CallFits, SessionInv, Entering

LEMMA TickKeeps ==
    ASSUME GateInv, Tick
    PROVE  GateInv'
<1>1. clock \in Nat /\ clock' = clock + 1 /\ clock' \in 0..MaxClock
      /\ UNCHANGED <<approved, codes, durable, memory, call, arrivals, trouble, tally>>
  BY Constants DEF GateInv, RestInv, Tick
<1>2. RestInv'
  BY <1>1 DEF GateInv, RestInv
<1>3. WindowsInv'
  <2>1. \A key \in Keys : durable[key].start \in Nat /\ memory[key].start \in Nat
    BY DEF GateInv, WindowsInv, Window
  <2> QED
    BY <1>1, <2>1 DEF GateInv, WindowsInv
<1>4. CodesInv'
  <2>1. \A k \in DOMAIN codes : codes[k].made \in Nat
    BY CodesAreRows DEF GateInv, CodeRow
  <2> QED
    BY <1>1, <2>1 DEF GateInv, CodesInv
<1>5. CallInv'
  <2>1. \A r \in Calls : call[r].since \in Nat
    BY DEF GateInv, CallInv, CallShape
  <2> QED
    BY <1>1, <2>1 DEF GateInv, CallInv, CallFits
<1> QED
  BY <1>1, <1>2, <1>3, <1>4, <1>5 DEF GateInv, SessionInv, Entering

-------------------------------------------------------------------------------
(* The codes: a row is added, charged a miss or used up. *)
LEMMA InsertKeeps ==
    ASSUME GateInv, NEW r \in Calls, InsertCode(r)
    PROVE  GateInv'
<1>1. trouble' \in 0..MaxTrouble
  BY TroubleIsCounted DEF GateInv, InsertCode
<1>2. /\ UNCHANGED <<clock, approved, durable, memory, arrivals, tally>> /\ Proceed(r, "send")
  BY DEF InsertCode
<1>3. RestInv' /\ WindowsInv'
  BY <1>1, <1>2, SameWindows DEF GateInv, RestInv
<1>4. CASE UNCHANGED codes
  BY <1>2, <1>3, <1>4, CallGoesOnAlone DEF Stages, Found
<1>5. CASE Len(codes) < MaxCodes
           /\ codes' = Append(codes, [made |-> clock, attempts |-> 0, used |-> FALSE])
  <2>1. PICK new : new = [made |-> clock, attempts |-> 0, used |-> FALSE]
    OBVIOUS
  <2>2. new \in CodeRow /\ new.made = clock /\ clock \in Nat /\ clock' = clock
    BY <1>2, <2>1, Constants DEF CodeRow, GateInv, RestInv
  <2>3. codes \in Seq(CodeRow) /\ codes' = Append(codes, new) /\ Len(codes) < MaxCodes
    BY <1>5, <2>1 DEF GateInv, CodesInv
  <2>4. /\ codes' \in Seq(CodeRow) /\ Len(codes') = Len(codes) + 1
        /\ \A k \in DOMAIN codes : k \in DOMAIN codes' /\ codes'[k] = codes[k]
        /\ \A k \in DOMAIN codes' : k \in DOMAIN codes \/ codes'[k] = new
    BY <2>2, <2>3
  <2>5. CodesInv'
    BY <2>2, <2>3, <2>4, Constants DEF GateInv, CodesInv
  <2>6. CodesOnlyAge
    BY <2>4 DEF CodesOnlyAge
  <2> QED
    BY <1>2, <1>3, <2>5, <2>6, CallGoesOn DEF Stages, Found
<1> QED
  BY <1>4, <1>5 DEF InsertCode

LEMMA ChargeGuessKeeps ==
    ASSUME GateInv, NEW r \in Calls, ChargeGuess(r)
    PROVE  GateInv'
<1>1. PICK ok \in BOOLEAN :
        /\ Charge(r, "target", ok)
        /\ IF ok THEN Proceed(r, "spent") ELSE Finish(r)
        /\ tally' = IF ~ok THEN tally
                    ELSE IF trouble' = trouble
                    THEN [tally EXCEPT !.admitted[clock] = @ + 1]
                    ELSE [tally EXCEPT !.fallback[clock] = @ + 1]
  BY DEF ChargeGuess
<1>2. UNCHANGED <<clock, approved, codes, arrivals>>
  BY DEF ChargeGuess
<1>3. WindowsInv' /\ trouble' \in 0..MaxTrouble
  BY <1>1, <1>2, ChargeKeepsWindows
<1>4. /\ tally \in TallyShape /\ clock \in 0..MaxClock
      /\ tally.admitted \in [0..MaxClock -> Nat] /\ tally.fallback \in [0..MaxClock -> Nat]
  BY DEF GateInv, RestInv, TallyShape
<1>5. tally' \in TallyShape /\ tally'.opened = tally.opened
  <2>1. PICK t \in 0..MaxClock : t = clock
    BY <1>4
  <2>2. PICK before \in [0..MaxClock -> Nat] : before = tally.admitted
    BY <1>4
  <2>3. PICK admitted : admitted = [before EXCEPT ![t] = before[t] + 1]
    OBVIOUS
  <2>4. PICK early \in [0..MaxClock -> Nat] : early = tally.fallback
    BY <1>4
  <2>5. PICK fallback : fallback = [early EXCEPT ![t] = early[t] + 1]
    OBVIOUS
  <2>6. admitted \in [0..MaxClock -> Nat] /\ fallback \in [0..MaxClock -> Nat]
    BY <2>3, <2>5
  <2>7. tally' \in {tally, [tally EXCEPT !.admitted = admitted], [tally EXCEPT !.fallback = fallback]}
    BY <1>1, <2>1, <2>2, <2>3, <2>4, <2>5
  <2> QED
    BY <1>4, <2>6, <2>7 DEF TallyShape
<1>6. RestInv'
  BY <1>2, <1>3, <1>5 DEF GateInv, RestInv
<1> QED
  BY <1>1, <1>2, <1>3, <1>5, <1>6, CallGoesOnAlone DEF Stages, Found

LEMMA ReadPendingKeeps ==
    ASSUME GateInv, NEW r \in Calls, ReadPending(r)
    PROVE  GateInv'
<1>1. trouble' \in 0..MaxTrouble
  BY TroubleIsCounted DEF GateInv, ReadPending
<1>2. /\ UNCHANGED <<clock, approved, codes, durable, memory, arrivals, tally>>
  BY DEF ReadPending
<1>3. RestInv' /\ WindowsInv'
  BY <1>1, <1>2, SameWindows DEF GateInv, RestInv
<1>4. /\ call[r] \in CallShape /\ call[r].since <= clock
      /\ call \in [Calls -> CallShape] /\ codes \in Seq(CodeRow) /\ Len(codes) \in Nat
      /\ DOMAIN codes \subseteq 1..MaxCodes
  BY Constants DEF GateInv, CallInv, CallFits, CodesInv
<1>5. Usable \subseteq DOMAIN codes /\ \A k \in Usable : codes[k].attempts < MaxAttempts
  BY DEF Usable, Pending, IsUsable
<1>6. CASE Finish(r)
  BY <1>2, <1>3, <1>6, CallGoesOnAlone
<1>7. ASSUME NEW row \in DOMAIN codes, NEW label \in {"consume", "miss"}, NEW c,
             c.pc = label /\ c.row = row /\ c.since = call[r].since,
             c \in CallShape, label = "miss" => c.seen < MaxAttempts,
             call' = [call EXCEPT ![r] = c]
      PROVE  GateInv'
  BY <1>2, <1>3, <1>4, <1>7, OneCallMovesAlone DEF Found
<1>8. CASE call[r].guess \in Usable
           /\ call' = [call EXCEPT ![r].pc = "consume", ![r].row = call[r].guess]
  <2>1. PICK row \in DOMAIN codes : row = call[r].guess
    BY <1>5, <1>8
  <2>2. PICK half : half = [call[r] EXCEPT !.pc = "consume"]
    OBVIOUS
  <2>3. half \in CallShape /\ half.pc = "consume" /\ half.since = call[r].since
    BY <1>4, <2>2 DEF CallShape, Stages
  <2>4. PICK c : c = [half EXCEPT !.row = row]
    OBVIOUS
  <2>5. c \in CallShape /\ c.pc = "consume" /\ c.row = row /\ c.since = call[r].since
    BY <1>4, <2>1, <2>3, <2>4, Constants DEF CallShape
  <2>6. call' = [call EXCEPT ![r] = c]
    BY <1>4, <1>8, <2>1, <2>2, <2>4
  <2> QED
    BY <1>7, <2>5, <2>6
<1>9. CASE Usable # {}
           /\ call' = [call EXCEPT ![r].pc = "miss", ![r].row = Max(Usable),
                                   ![r].seen = codes[Max(Usable)].attempts]
  <2>1. PICK row \in Usable : row = Max(Usable)
    <3>1. Usable \in SUBSET (1..Len(codes))
      BY <1>4, <1>5
    <3> QED
      BY <1>4, <1>9, <3>1, Greatest
  <2>2. PICK seen : seen = codes[row].attempts
    OBVIOUS
  <2>3. row \in DOMAIN codes /\ row \in 0..MaxCodes /\ seen \in 0..MaxAttempts /\ seen < MaxAttempts
    <3>1. row \in DOMAIN codes /\ codes[row] \in CodeRow /\ seen < MaxAttempts /\ row \in 1..MaxCodes
      BY <1>5, <2>1, <2>2, CodesAreRows DEF GateInv
    <3> QED
      BY <2>2, <3>1, Constants DEF CodeRow
  <2>4. PICK half : half = [call[r] EXCEPT !.pc = "miss"]
    OBVIOUS
  <2>5. half \in CallShape /\ half.pc = "miss" /\ half.since = call[r].since
    BY <1>4, <2>4 DEF CallShape, Stages
  <2>6. PICK more : more = [half EXCEPT !.row = row]
    OBVIOUS
  <2>7. more \in CallShape /\ more.pc = "miss" /\ more.row = row /\ more.since = call[r].since
    BY <1>4, <2>3, <2>5, <2>6 DEF CallShape
  <2>8. PICK c : c = [more EXCEPT !.seen = seen]
    OBVIOUS
  <2>9. /\ c \in CallShape /\ c.pc = "miss" /\ c.row = row /\ c.since = call[r].since
        /\ c.seen = seen
    BY <1>4, <2>3, <2>7, <2>8 DEF CallShape
  <2>10. call' = [call EXCEPT ![r] = c]
    BY <1>4, <1>9, <2>1, <2>2, <2>4, <2>6, <2>8
  <2> QED
    BY <1>7, <2>3, <2>9, <2>10
<1> QED
  BY <1>6, <1>8, <1>9 DEF ReadPending, RefuseAlike

(* Rows that only change in their attempts or their bit. *)
LEMMA RowChanges ==
    ASSUME GateInv, NEW k \in DOMAIN codes, NEW new \in CodeRow, new.made = codes[k].made,
           codes' = [codes EXCEPT ![k] = new], UNCHANGED clock, codes[k].used => new.used
    PROVE  CodesInv' /\ CodesOnlyAge
<1>1. /\ codes \in Seq(CodeRow) /\ Len(codes) <= MaxCodes
      /\ \A j \in DOMAIN codes : codes[j].made <= clock
  BY DEF GateInv, CodesInv
<1>2. codes' \in Seq(CodeRow) /\ Len(codes') = Len(codes) /\ DOMAIN codes' = DOMAIN codes
      /\ codes'[k] = new /\ \A j \in DOMAIN codes \ {k} : codes'[j] = codes[j]
  BY <1>1
<1>3. \A j \in DOMAIN codes : codes'[j].made = codes[j].made
  BY <1>2
<1> QED
  BY <1>1, <1>2, <1>3 DEF CodesInv, CodesOnlyAge

LEMMA FailedAttemptKeeps ==
    ASSUME GateInv, NEW r \in Calls, RecordFailedAttempt(r)
    PROVE  GateInv'
<1>1. trouble' \in 0..MaxTrouble
  BY TroubleIsCounted DEF GateInv, RecordFailedAttempt
<1>2. /\ UNCHANGED <<clock, approved, durable, memory, arrivals>> /\ Finish(r)
      /\ tally' = [tally EXCEPT !.wrong = @ + 1]
  BY DEF RecordFailedAttempt
<1>3. tally' \in TallyShape /\ tally'.opened = tally.opened
  BY <1>2 DEF GateInv, RestInv, TallyShape
<1>4. RestInv' /\ WindowsInv'
  BY <1>1, <1>2, <1>3, SameWindows DEF GateInv, RestInv
<1>5. CASE UNCHANGED codes
  BY <1>2, <1>3, <1>4, <1>5, CallGoesOnAlone
<1>6. CASE codes' = [codes EXCEPT ![call[r].row].attempts = call[r].seen + 1]
  <2>1. PICK k \in DOMAIN codes, seen \in 0..MaxAttempts :
           k = call[r].row /\ seen = call[r].seen + 1
    <3>1. call[r] \in CallShape /\ call[r].row \in DOMAIN codes /\ call[r].seen < MaxAttempts
      BY DEF GateInv, CallInv, CallFits, RecordFailedAttempt, At, Found
    <3>2. call[r].seen \in Nat
      BY <3>1, Constants DEF CallShape
    <3> QED
      BY <3>1, <3>2, Constants
  <2>2. PICK new : new = [codes[k] EXCEPT !.attempts = seen]
    OBVIOUS
  <2>3. new \in CodeRow /\ new.made = codes[k].made /\ new.used = codes[k].used
    BY <2>2, CodesAreRows DEF GateInv, CodeRow
  <2>4. codes' = [codes EXCEPT ![k] = new]
    BY <1>6, <2>1, <2>2
  <2>5. CodesInv' /\ CodesOnlyAge
    BY <1>2, <2>3, <2>4, RowChanges
  <2> QED
    BY <1>2, <1>3, <1>4, <2>5, CallGoesOn
<1> QED
  BY <1>5, <1>6 DEF RecordFailedAttempt

(* The update that uses a code up, and the call that it lets in. *)
LEMMA ConsumeKeeps ==
    ASSUME GateInv, NEW r \in Calls, ConsumeToken(r)
    PROVE  GateInv'
<1>1. trouble' \in 0..MaxTrouble
  BY TroubleIsCounted DEF GateInv, ConsumeToken
<1>2. /\ UNCHANGED <<clock, approved, durable, memory, arrivals, tally>>
  BY DEF ConsumeToken
<1>3. RestInv' /\ WindowsInv'
  BY <1>1, <1>2, SameWindows DEF GateInv, RestInv
<1>4. PICK k \in DOMAIN codes : k = call[r].row
  BY DEF GateInv, CallInv, CallFits, ConsumeToken, At, Found
<1>5. PICK new : new = [codes[k] EXCEPT !.used = TRUE]
  OBVIOUS
<1>6. new \in CodeRow /\ new.made = codes[k].made /\ new.used
  BY <1>5, CodesAreRows DEF GateInv, CodeRow
<1>7. CASE UNCHANGED codes /\ Finish(r)
  BY <1>2, <1>3, <1>7, CallGoesOnAlone
<1>8. ASSUME codes' = [codes EXCEPT ![k].used = TRUE]
      PROVE  CodesInv' /\ CodesOnlyAge /\ codes'[k].used
  <2>1. codes' = [codes EXCEPT ![k] = new]
    BY <1>5, <1>8
  <2> QED
    BY <1>2, <1>6, <2>1, RowChanges DEF GateInv, CodesInv
<1>9. CASE codes' = [codes EXCEPT ![k].used = TRUE] /\ Finish(r)
  BY <1>2, <1>3, <1>8, <1>9, CallGoesOn
<1>10. CASE /\ ~codes[k].used /\ codes' = [codes EXCEPT ![k].used = TRUE]
            /\ Proceed(r, "enter")
  <2>1. PICK c \in CallShape :
             /\ call' = [call EXCEPT ![r] = c] /\ c.pc = "enter" /\ c.since <= clock /\ c.row = k
    BY <1>4, <1>10, ProceedIs DEF Stages
  <2>2. /\ call' \in [Calls -> CallShape] /\ call'[r] = c
        /\ \A q \in Calls \ {r} : call'[q] = call[q]
    BY <2>1 DEF GateInv, CallInv
  <2>3. CodesInv' /\ CodesOnlyAge /\ codes'[k].used
    BY <1>8, <1>10
  <2>4. CallInv'
    BY <1>2, <2>1, <2>2, <2>3 DEF GateInv, CallInv, CallFits, CodesOnlyAge, Found
  <2>5. k \in 1..MaxCodes /\ tally.opened[k] = 0 /\ \A q \in Calls : ~Entering(q, k)
    BY <1>4, <1>10, CodesAreRows DEF GateInv, SessionInv, Entering
  <2>6. \A j \in 1..MaxCodes : tally.opened[j] = 0
          \/ (tally.opened[j] = 1 /\ j \in DOMAIN codes' /\ codes'[j].used)
    BY <2>3 DEF GateInv, SessionInv, CodesOnlyAge
  <2>7. ASSUME NEW q \in Calls, call'[q].pc = "enter"
        PROVE  /\ codes'[call'[q].row].used /\ tally.opened[call'[q].row] = 0
               /\ \A p \in Calls \ {q} : ~(call'[p].pc = "enter" /\ call'[p].row = call'[q].row)
    <3>1. CASE q = r
      BY <2>1, <2>2, <2>3, <2>5, <3>1 DEF Entering
    <3>2. CASE q # r
      <4>1. call'[q] = call[q] /\ call[q].row \in DOMAIN codes /\ call[q].row # k
        BY <2>2, <2>5, <2>7, <3>2 DEF GateInv, CallInv, CallFits, Found, Entering
      <4>2. /\ codes[call[q].row].used /\ tally.opened[call[q].row] = 0
            /\ \A p \in Calls \ {q} : ~Entering(p, call[q].row)
        BY <2>7, <4>1 DEF GateInv, SessionInv
      <4> QED
        BY <2>1, <2>2, <2>3, <4>1, <4>2 DEF CodesOnlyAge, Entering
    <3> QED
      BY <3>1, <3>2
  <2>8. SessionInv'
    BY <1>2, <2>6, <2>7 DEF SessionInv, Entering
  <2> QED
    BY <1>3, <2>3, <2>4, <2>8 DEF GateInv
<1> QED
  BY <1>4, <1>7, <1>9, <1>10 DEF ConsumeToken

LEMMA EnterKeeps ==
    ASSUME GateInv, NEW r \in Calls, EnterPortal(r)
    PROVE  GateInv'
<1>1. PICK k \in DOMAIN codes :
        /\ k = call[r].row /\ k \in 1..MaxCodes /\ codes[k].used /\ tally.opened[k] = 0
        /\ \A q \in Calls \ {r} : ~Entering(q, k)
  BY CodesAreRows DEF GateInv, CallInv, CallFits, EnterPortal, At, Found, SessionInv
<1>2. UNCHANGED <<clock, approved, codes, durable, memory, arrivals, trouble>> /\ Finish(r)
  BY DEF EnterPortal
<1>3. tally \in TallyShape /\ tally.opened \in [1..MaxCodes -> Nat]
  BY DEF GateInv, RestInv, TallyShape
<1>4. PICK before \in [1..MaxCodes -> Nat] : before = tally.opened
  BY <1>3
<1>5. before[k] = 0 /\ k \in 1..MaxCodes
  BY <1>1, <1>4
<1>6. PICK opened : opened = [before EXCEPT ![k] = before[k] + 1]
  OBVIOUS
<1>7. /\ opened \in [1..MaxCodes -> Nat] /\ opened[k] = 1
      /\ \A j \in 1..MaxCodes \ {k} : opened[j] = tally.opened[j]
  <2>1. PICK n \in 1..MaxCodes : n = k
    BY <1>5
  <2>2. before[n] = 0 /\ opened = [before EXCEPT ![n] = before[n] + 1]
    BY <1>5, <1>6, <2>1
  <2>3. /\ opened \in [1..MaxCodes -> Nat] /\ opened[n] = before[n] + 1
        /\ \A j \in 1..MaxCodes \ {n} : opened[j] = before[j]
    BY <2>2
  <2> QED
    BY <1>4, <2>1, <2>2, <2>3
<1>8. tally' = [tally EXCEPT !.opened = opened]
  BY <1>1, <1>4, <1>6 DEF EnterPortal
<1>9. tally' \in TallyShape /\ tally'.opened = opened
  BY <1>3, <1>7, <1>8 DEF TallyShape
<1>10. RestInv' /\ WindowsInv' /\ CodesInv'
  BY <1>2, <1>9, SameWindows DEF GateInv, RestInv, CodesInv
<1>11. /\ call' \in [Calls -> CallShape] /\ call'[r] = Resting
      /\ \A q \in Calls \ {r} : call'[q] = call[q]
  BY <1>2, RestingFits DEF GateInv, CallInv, Finish
<1>12. CallInv'
  <2>1. clock \in Nat
    BY Constants DEF GateInv, RestInv
  <2> QED
    BY <1>2, <1>11, <2>1, RestingFits DEF GateInv, CallInv, CallFits
<1>13. SessionInv'
  <2>1. \A j \in 1..MaxCodes : opened[j] = 0 \/ (opened[j] = 1 /\ j \in DOMAIN codes /\ codes[j].used)
    BY <1>1, <1>7 DEF GateInv, SessionInv
  <2>2. ASSUME NEW q \in Calls, call'[q].pc = "enter"
        PROVE  /\ codes[call'[q].row].used /\ opened[call'[q].row] = 0
               /\ \A p \in Calls \ {q} : ~(call'[p].pc = "enter" /\ call'[p].row = call'[q].row)
    <3>1. q # r /\ call'[q] = call[q] /\ call[q].row \in 1..MaxCodes /\ call[q].row # k
      BY <1>1, <1>11, <2>2, RestingFits, CodesAreRows DEF GateInv, CallInv, CallFits, Found, Entering
    <3>2. /\ codes[call[q].row].used /\ tally.opened[call[q].row] = 0
          /\ \A p \in Calls \ {q} : ~Entering(p, call[q].row)
      BY <2>2, <3>1 DEF GateInv, SessionInv
    <3> QED
      BY <1>7, <1>11, <3>1, <3>2, RestingFits DEF Entering
  <2> QED
    BY <1>2, <1>9, <2>1, <2>2 DEF SessionInv, Entering
<1> QED
  BY <1>10, <1>12, <1>13 DEF GateInv

LEMMA GateStepKeeps == GateInv /\ [GateNext]_gateVars => GateInv'
<1> SUFFICES ASSUME GateInv, [GateNext]_gateVars PROVE GateInv'
  OBVIOUS
<1>1. CASE Tick \/ ReserveForNobody
  BY <1>1, TickKeeps, NobodyKeeps
<1>2. ASSUME NEW r \in Calls, IssueStep(r) PROVE GateInv'
  BY <1>2, RequestsKeep, WhitelistKeeps, ChecksKeep, ReserveKeeps, InsertKeeps DEF IssueStep
<1>3. ASSUME NEW r \in Calls, VerifyStep(r) PROVE GateInv'
  BY <1>3, RequestsKeep, ChargeGuessKeeps, ChecksKeep, ReadPendingKeeps, FailedAttemptKeeps,
     ConsumeKeeps, EnterKeeps DEF VerifyStep
<1>4. CASE UNCHANGED gateVars
  BY <1>4 DEF gateVars, GateInv, RestInv, WindowsInv, CodesInv, CallInv, CallFits, SessionInv, Entering
<1> QED
  BY <1>1, <1>2, <1>3, <1>4 DEF GateNext

LEMMA GateInvAlways == GateSpec => []GateInv
  BY InitGateInv, GateStepKeeps, PTL DEF GateSpec

-------------------------------------------------------------------------------
(* The gate's state has its types: no window, code or charge is dated ahead
   of the clock, and no row takes more wrong guesses than it may. *)
THEOREM GateTypeCorrect == GateSpec => []GateTypeOK
<1>1. ASSUME GateInv PROVE GateTypeOK
  <2>1. clock \in Nat
    BY <1>1, Constants DEF GateInv, RestInv
  <2>2. codes \in BoundedSeq([made : 0..clock, attempts : 0..MaxAttempts, used : BOOLEAN], MaxCodes)
    <3> DEFINE rows == [made : 0..clock, attempts : 0..MaxAttempts, used : BOOLEAN]
    <3>1. /\ \A k \in DOMAIN codes : codes[k] \in CodeRow /\ codes[k].made <= clock
          /\ codes \in Seq(CodeRow) /\ Len(codes) \in 0..MaxCodes /\ DOMAIN codes = 1..Len(codes)
      BY <1>1, CodesAreRows, Constants DEF GateInv, CodesInv
    <3>2. \A k \in DOMAIN codes : codes[k] \in rows
      BY <2>1, <3>1 DEF CodeRow
    <3> HIDE DEF rows
    <3>3. codes \in [1..Len(codes) -> rows]
      BY <3>1, <3>2
    <3>4. codes \in BoundedSeq(rows, MaxCodes)
      BY <3>1, <3>3 DEF BoundedSeq, SeqOf
    <3> QED
      BY <3>4 DEF rows
  <2>3. durable \in [Keys -> [start : 0..clock, count : Nat]]
        /\ memory \in [Keys -> [start : 0..clock, count : Nat]]
    BY <1>1, <2>1 DEF GateInv, WindowsInv, Window
  <2>4. call \in [Calls -> [pc : Stages, guess : 0..MaxCodes, row : 0..MaxCodes \cup 0..2,
                            seen : 0..MaxAttempts \cup 0..2, since : 0..clock]]
    BY <1>1, <2>1 DEF GateInv, CallInv, CallFits, CallShape
  <2> QED
    BY <1>1, <2>2, <2>3, <2>4 DEF GateTypeOK, GateInv, RestInv
<1> QED
  BY <1>1, GateInvAlways, PTL

(* portal-access-token.ts, consumeToken: the conditional update lets one
   submission of a code through, however many race, whatever fails or dies
   between the update and the cookie. *)
THEOREM OneSessionPerCodeAlways == GateSpec => []OneSessionPerCode
<1>1. GateInv => OneSessionPerCode
  BY DEF GateInv, SessionInv, OneSessionPerCode
<1> QED
  BY <1>1, GateInvAlways, PTL

-------------------------------------------------------------------------------
(* What dividing by the cool-down gives. *)
LEMMA QuotientIs ==
    ASSUME NEW a \in Nat, NEW d \in Nat \ {0}
    PROVE  a \div d \in Nat /\ d * (a \div d) <= a /\ a < d * (a \div d) + d
  OBVIOUS

LEMMA TimesGrows ==
    ASSUME NEW d \in Nat \ {0}, NEW x \in Nat, NEW y \in Nat, x < y
    PROVE  d * x + d <= d * y
<1>1. PICK z \in Nat : y = x + 1 + z
  <2>1. y - x - 1 \in Nat /\ y = x + 1 + (y - x - 1)
    OBVIOUS
  <2> QED
    BY <2>1
<1>2. d * y = d * x + d + d * z /\ d * z \in Nat /\ d * x \in Nat
  BY <1>1
<1> QED
  BY <1>2

(* Times a cool-down apart have quotients apart. *)
LEMMA QuotientsApart ==
    ASSUME NEW a \in Nat, NEW b \in Nat, NEW d \in Nat \ {0}, a + d <= b
    PROVE  a \div d < b \div d
<1> DEFINE p == a \div d
           q == b \div d
<1>1. p \in Nat /\ q \in Nat /\ d * p <= a /\ b < d * q + d
  BY QuotientIs
<1> HIDE DEF p, q
<1>2. d * p \in Nat /\ d * q \in Nat
  BY <1>1
<1>3. ASSUME q <= p PROVE FALSE
  <2>1. d * q <= d * p
    <3>1. q = p \/ q < p
      BY <1>1, <1>3
    <3> QED
      BY <3>1, <1>1, <1>2, TimesGrows
  <2> QED
    BY <2>1, <1>1, <1>2
<1>4. p < q
  BY <1>1, <1>3
<1> QED
  BY <1>4 DEF p, q

(* The limit of the read is one more than the quotients that a code younger
   than a live one can have. *)
LEMMA YoungerFit ==
    ASSUME NEW a \in Nat, a < Ttl, Ttl \in Nat, Cooldown \in Nat \ {0}
    PROVE  MaxLiveCandidates \in Nat /\ a \div Cooldown < MaxLiveCandidates
<1>1. a + Cooldown <= Ttl + Cooldown - 1 /\ Ttl + Cooldown - 1 \in Nat
  OBVIOUS
<1>2. a \div Cooldown < (Ttl + Cooldown - 1) \div Cooldown
  BY <1>1, QuotientsApart
<1>3. (Ttl + Cooldown - 1) \div Cooldown \in Nat
  BY <1>1, QuotientIs
<1> QED
  BY <1>2, <1>3 DEF MaxLiveCandidates

(* readPendingTokens: the codes of a buyer that were made a cool-down apart are
   all read as long as they live, for any lifetime and any cool-down. *)
THEOREM LiveCodesAreReadAlways == GateSpec => []LiveCodesAreRead
<1>1. ASSUME GateInv PROVE LiveCodesAreRead
  <2> SUFFICES ASSUME CodesApart, NEW k \in DOMAIN codes, ~codes[k].used, clock < codes[k].made + Ttl
               PROVE  k \in Pending
    BY DEF LiveCodesAreRead
  <2> DEFINE unused == {j \in DOMAIN codes : ~codes[j].used}
             newer == {j \in unused : j > k}
             place == [j \in newer |-> (codes[j].made - codes[k].made) \div Cooldown]
  <2>1. /\ Ttl \in Nat /\ Cooldown \in Nat \ {0} /\ clock \in Nat
        /\ \A j \in DOMAIN codes : codes[j].made \in Nat /\ codes[j].made <= clock
        /\ DOMAIN codes = 1..Len(codes) /\ Len(codes) \in Nat
    BY <1>1, CodesAreRows, Constants, GateAssumption DEF GateInv, CodesInv, RestInv, CodeRow
  <2>2. \A j \in newer : /\ codes[j].made - codes[k].made \in Nat
                         /\ codes[k].made + Cooldown <= codes[j].made
                         /\ codes[j].made - codes[k].made < Ttl
    BY SMTT(30), <2>1 DEF CodesApart
  <2>3. MaxLiveCandidates \in Nat /\ \A j \in newer : place[j] \in 1..(MaxLiveCandidates - 1)
    <3>1. 0 < Ttl
      BY <2>1
    <3>2. MaxLiveCandidates \in Nat
      BY <3>1, <2>1, YoungerFit
    <3>3. ASSUME NEW j \in newer PROVE place[j] \in 1..(MaxLiveCandidates - 1)
      <4> DEFINE age == codes[j].made - codes[k].made
      <4>1. age \in Nat /\ 0 + Cooldown <= age /\ age < Ttl
        BY <2>1, <2>2
      <4> HIDE DEF age
      <4>2. age \div Cooldown < MaxLiveCandidates /\ age \div Cooldown \in Nat
        BY <4>1, <2>1, YoungerFit, QuotientIs
      <4>3. 0 \div Cooldown < age \div Cooldown /\ 0 \div Cooldown \in Nat
        BY <4>1, <2>1, QuotientsApart, QuotientIs
      <4>4. age \div Cooldown \in 1..(MaxLiveCandidates - 1)
        BY <4>2, <4>3, <3>2
      <4> QED
        BY <4>4 DEF age
    <3> QED
      BY <3>2, <3>3
  <2>4. ASSUME NEW i \in newer, NEW j \in newer, place[i] = place[j] PROVE i = j
    <3>1. ASSUME NEW x \in newer, NEW y \in newer, x < y PROVE place[x] < place[y]
      <4> DEFINE a == codes[x].made - codes[k].made
                 b == codes[y].made - codes[k].made
      <4>1. a \in Nat /\ b \in Nat /\ a + Cooldown <= b
        <5>1. x \in DOMAIN codes /\ y \in DOMAIN codes
          OBVIOUS
        <5> HIDE DEF newer, place, a, b
        <5>2. codes[x].made + Cooldown <= codes[y].made
          BY <3>1, <5>1, CodesApart DEF CodesApart
        <5>3. codes[x].made - codes[k].made \in Nat /\ codes[y].made - codes[k].made \in Nat
          BY <2>2
        <5>4. codes[x].made \in Nat /\ codes[y].made \in Nat /\ codes[k].made \in Nat /\ Cooldown \in Nat
          BY <5>1, <2>1
        <5> QED
          BY <5>2, <5>3, <5>4 DEF a, b
      <4> HIDE DEF a, b
      <4>2. a \div Cooldown < b \div Cooldown
        BY <4>1, <2>1, QuotientsApart
      <4> QED
        BY <4>2 DEF a, b
    <3>2. i \in Nat /\ j \in Nat
      BY <2>1
    <3>3. place[i] \in Int /\ place[j] \in Int
      BY <2>3
    <3> HIDE DEF newer, place
    <3>4. ~(i < j) /\ ~(j < i)
      BY <2>4, <3>1, <3>3
    <3> QED
      BY <3>2, <3>4
  <2>5. Cardinality(newer) < MaxLiveCandidates
    <3> DEFINE places == 1..(MaxLiveCandidates - 1)
    <3>1. 0 < MaxLiveCandidates
      BY <2>1, YoungerFit
    <3>2. MaxLiveCandidates - 1 \in Nat
      BY <3>1, <2>3
    <3>3. IsFiniteSet(places) /\ Cardinality(places) = MaxLiveCandidates - 1
      BY <3>2, FS_Interval
    <3>4. place \in Injection(newer, places)
      <4>1. place \in [newer -> places]
        BY <2>3
      <4>2. IsInjective(place)
        BY <2>4 DEF IsInjective
      <4> QED
        BY <4>1, <4>2 DEF Injection, IsInjective
    <3> HIDE DEF newer, place, places
    <3>5. IsFiniteSet(newer) /\ Cardinality(newer) <= Cardinality(places)
      BY <3>3, <3>4, FS_Injection
    <3>6. Cardinality(newer) \in Nat
      BY <3>5, FS_CardinalityType
    <3> QED
      BY <3>2, <3>3, <3>5, <3>6, <2>3
  <2> QED
    BY <2>5 DEF Pending
<1> QED
  BY <1>1, GateInvAlways, PTL

-------------------------------------------------------------------------------
(* There is a function that sums up the attempts at any of the first m rows,
   the last one's last: the one that a fold from the left stands for. *)
Sums(m, rows, sum) ==
    sum = [s \in SUBSET (1..m) |->
             IF s = {} THEN 0 ELSE sum[s \ {Max(s)}] + rows[Max(s)].attempts]

LEMMA SumsExist ==
    ASSUME NEW rows, NEW n \in Nat
    PROVE  \E sum : Sums(n, rows, sum)
<1> DEFINE Summed == {m \in Nat : \E sum : Sums(m, rows, sum)}
<1>1. 0 \in Summed
  <2> DEFINE zero == [s \in SUBSET (1..0) |-> 0]
  <2>1. \A s \in SUBSET (1..0) : s = {}
    OBVIOUS
  <2>2. Sums(0, rows, zero)
    BY <2>1 DEF Sums
  <2> QED
    BY <2>2
<1>2. ASSUME NEW m \in Nat, m \in Summed PROVE m + 1 \in Summed
  <2>1. PICK sum : Sums(m, rows, sum)
    BY <1>2
  <2> DEFINE more == [s \in SUBSET (1..(m + 1)) |->
                        IF m + 1 \in s THEN sum[s \ {m + 1}] + rows[m + 1].attempts ELSE sum[s]]
  <2>2. ASSUME NEW s \in SUBSET (1..(m + 1))
        PROVE  more[s] = IF s = {} THEN 0 ELSE more[s \ {Max(s)}] + rows[Max(s)].attempts
    <3>1. CASE m + 1 \in s
      <4> HIDE DEF more
      <4>1. m + 1 \in Nat /\ s # {}
        BY <3>1
      <4>2. Max(s) \in s /\ \A j \in s : Max(s) >= j
        BY <4>1, Greatest
      <4>3. \A j \in s : j \in Nat /\ j <= m + 1
        OBVIOUS
      <4>4. Max(s) = m + 1
        <5>1. PICK top : top = Max(s)
          OBVIOUS
        <5>2. top \in Nat /\ top <= m + 1 /\ top >= m + 1
          BY <3>1, <4>2, <4>3, <5>1
        <5> QED
          BY <5>1, <5>2
      <4> USE DEF more
      <4>5. s \ {m + 1} \in SUBSET (1..m) /\ m + 1 \notin s \ {m + 1}
        OBVIOUS
      <4>6. more[s \ {m + 1}] = sum[s \ {m + 1}]
        BY <4>5
      <4> QED
        BY <3>1, <4>4, <4>6
    <3>2. CASE m + 1 \notin s
      <4>1. s \in SUBSET (1..m)
        BY <3>2
      <4>2. sum[s] = IF s = {} THEN 0 ELSE sum[s \ {Max(s)}] + rows[Max(s)].attempts
        BY <2>1, <4>1 DEF Sums
      <4>3. s \ {Max(s)} \in SUBSET (1..(m + 1)) /\ m + 1 \notin s \ {Max(s)}
        BY <3>2
      <4>4. more[s \ {Max(s)}] = sum[s \ {Max(s)}] /\ more[s] = sum[s]
        BY <3>2, <4>3
      <4> QED
        BY <4>2, <4>4
    <3> QED
      BY <3>1, <3>2
  <2>3. Sums(m + 1, rows, more)
    <3>1. more = [s \in SUBSET (1..(m + 1)) |-> more[s]]
      OBVIOUS
    <3> HIDE DEF more
    <3> QED
      BY <2>2, <3>1 DEF Sums
  <2> HIDE DEF more
  <2> QED
    BY <2>3
<1> HIDE DEF Summed
<1>3. Nat \subseteq Summed
  BY <1>1, <1>2, Upwards
<1> QED
  BY <1>3 DEF Summed

(* Where no row has more attempts than the bill grows by, there are no more
   attempts in all than the bill ends with. *)
LEMMA AttemptsAreBilled ==
    ASSUME NEW rows, NEW n \in Nat, rows \in Seq(CodeRow), Len(rows) = n, NEW bill,
           \A k \in 0..n : bill[k] \in Nat,
           \A k \in 1..n : bill[k - 1] + rows[k].attempts <= bill[k]
    PROVE  /\ FoldLeft(LAMBDA sofar, c : sofar + c.attempts, 0, rows) \in Nat
           /\ FoldLeft(LAMBDA sofar, c : sofar + c.attempts, 0, rows) <= bill[n]
<1> DEFINE sum == CHOOSE sum : Sums(n, rows, sum)
<1>1. Sums(n, rows, sum)
  BY SumsExist
<1>2. DOMAIN rows = 1..n /\ \A k \in 1..n : rows[k].attempts \in Nat
  <2>1. DOMAIN rows = 1..n /\ \A k \in 1..n : rows[k] \in CodeRow
    OBVIOUS
  <2>2. \A c \in CodeRow : c.attempts \in Nat
    BY Constants DEF CodeRow
  <2> QED
    BY <2>1, <2>2
<1> DEFINE total == FoldLeft(LAMBDA sofar, c : sofar + c.attempts, 0, rows)
<1>3. total = sum[1..n]
  BY <1>2 DEF FoldLeft, MapThenFoldSet, Sums
<1> HIDE DEF sum, total
<1> DEFINE Below == {k \in Nat : k <= n => sum[1..k] \in Nat /\ sum[1..k] <= bill[k]}
<1>4. 0 \in Below
  <2>1. 1..0 = {} /\ 1..0 \in SUBSET (1..n)
    OBVIOUS
  <2>2. sum[1..0] = 0 /\ bill[0] \in Nat
    BY <1>1, <2>1 DEF Sums
  <2> QED
    BY <2>2
<1>5. ASSUME NEW k \in Nat, k \in Below PROVE k + 1 \in Below
  <2> SUFFICES ASSUME k + 1 <= n
               PROVE  sum[1..(k + 1)] \in Nat /\ sum[1..(k + 1)] <= bill[k + 1]
    BY DEF Below
  <2> HIDE DEF Below
  <2>1. /\ 1..(k + 1) \in SUBSET (1..n) /\ k + 1 \in 1..(k + 1) /\ k + 1 \in 1..n
        /\ (1..(k + 1)) \ {k + 1} = 1..k
    <3>1. \A j \in 1..(k + 1) : j \in 1..n
      OBVIOUS
    <3>2. \A j : j \in (1..(k + 1)) \ {k + 1} <=> j \in 1..k
      OBVIOUS
    <3> QED
      BY <3>1, <3>2
  <2>2. PICK S \in SUBSET (1..n) : S = 1..(k + 1)
    BY <2>1
  <2>3. Max(S) = k + 1
    <3>1. Max(S) \in S /\ \A j \in S : Max(S) >= j
      BY <2>1, <2>2, Greatest
    <3> QED
      BY <2>1, <2>2, <3>1
  <2>4. sum[1..(k + 1)] = sum[1..k] + rows[k + 1].attempts
    BY ZenonT(30), <1>1, <2>1, <2>2, <2>3 DEF Sums
  <2>5. bill[(k + 1) - 1] + rows[k + 1].attempts <= bill[k + 1] /\ (k + 1) - 1 = k
    BY <2>1
  <2>6. /\ sum[1..k] \in Nat /\ sum[1..k] <= bill[k]
        /\ bill[k] \in Nat /\ bill[k + 1] \in Nat /\ rows[k + 1].attempts \in Nat
    BY <1>2, <1>5, <2>1 DEF Below
  <2> QED
    BY <2>4, <2>5, <2>6
<1> HIDE DEF Below
<1>6. Nat \subseteq Below
  BY <1>4, <1>5, Upwards
<1>7. sum[1..n] \in Nat /\ sum[1..n] <= bill[n]
  BY <1>6 DEF Below
<1>8. total \in Nat /\ total <= bill[n]
  BY <1>3, <1>7
<1> QED
  BY <1>8 DEF total

(* A bill of the wrong guesses, row by row: it grows at each row by no less
   than the attempts held against it, and by no less than what a call on its
   way to hold one more has read there; and it stays within the guesses made.
   What the rows themselves say is not enough: a late attempt may set a row
   from 1 back to 1, or from 0 to 2. *)
Bills(bill) ==
    /\ bill \in [0..MaxCodes -> Nat]
    /\ \A k \in 0..MaxCodes : bill[k] <= tally.wrong
    /\ \A k \in 1..MaxCodes : bill[k - 1] <= bill[k]
    /\ \A k \in DOMAIN codes : bill[k - 1] + codes[k].attempts <= bill[k]
    /\ \A r \in Calls : At(r, "miss") =>
          bill[call[r].row - 1] + call[r].seen <= bill[call[r].row]
BillInv == \E bill : Bills(bill)

(* Most steps bring no new miss. *)
NoNewMiss == \A r \in Calls : call'[r].pc = "miss" => call'[r] = call[r]

LEMMA MovingIsNoMiss ==
    ASSUME GateInv, NEW r \in Calls,
           \/ Finish(r)
           \/ \E label \in Stages \ {"miss"} : Proceed(r, label)
    PROVE  NoNewMiss
<1>1. CASE Finish(r)
  BY <1>1, RestingFits DEF Finish, NoNewMiss, GateInv, CallInv
<1>2. CASE \E label \in Stages \ {"miss"} : Proceed(r, label)
  <2>1. PICK label \in Stages \ {"miss"} : Proceed(r, label)
    BY <1>2
  <2>2. PICK c \in CallShape : call' = [call EXCEPT ![r] = c] /\ c.pc = label
    BY <2>1, ProceedIs
  <2> QED
    BY <2>1, <2>2 DEF NoNewMiss, GateInv, CallInv
<1> QED
  BY <1>1, <1>2

LEMMA ArrivingIsNoMiss ==
    ASSUME GateInv, NEW r \in Calls, NEW label \in Stages \ {"miss"}, NEW guess, NEW row,
           Arrive(r, label, guess, row)
    PROVE  NoNewMiss
<1>1. PICK c : /\ call' = [call EXCEPT ![r] = c]
               /\ c = [Resting EXCEPT !.pc = label, !.guess = guess, !.row = row,
                                      !.since = IF label = "charge" THEN clock ELSE 0]
  BY DEF Arrive
<1>2. c.pc = label
  BY <1>1 DEF Resting
<1> QED
  BY <1>1, <1>2 DEF NoNewMiss, GateInv, CallInv

LEMMA IssuingIsNoMiss ==
    ASSUME GateInv, NEW r \in Calls, IssueStep(r)
    PROVE  NoNewMiss
<1>1. CASE RequestAccess(r) \/ SendBuyerInvite(r)
  BY <1>1, ArrivingIsNoMiss DEF RequestAccess, SendBuyerInvite, Stages
<1>2. CASE AppendWhitelist(r)
  <2>1. CASE \E n \in {1, 2} : At(r, "append") /\ call' = [call EXCEPT ![r].seen = n]
    BY <2>1 DEF NoNewMiss, GateInv, CallInv, CallShape, At
  <2> QED
    BY <1>2, <2>1, MovingIsNoMiss DEF AppendWhitelist, Stages
<1>3. CASE ReserveEmail(r)
  <2>1. CASE \E n, since : At(r, "reserve") /\ call' = [call EXCEPT ![r].row = n, ![r].since = since]
    BY <2>1 DEF NoNewMiss, GateInv, CallInv, CallShape, At
  <2> QED
    BY <1>3, <2>1, MovingIsNoMiss DEF ReserveEmail, Stages
<1>4. CASE CountInvites(r) \/ ReadApproval(r) \/ ReadCooldown(r) \/ InsertCode(r) \/ SendCode(r)
  BY <1>4, MovingIsNoMiss
  DEF CountInvites, ReadApproval, ReadCooldown, InsertCode, SendCode, Stages
<1> QED
  BY <1>1, <1>2, <1>3, <1>4 DEF IssueStep

(* The rows, their attempts and the number of wrong guesses stay; a row may
   be added that has no attempts. *)
AttemptsStay ==
    /\ tally'.wrong = tally.wrong
    /\ \A k \in DOMAIN codes' : k \in 1..MaxCodes
          /\ (codes'[k].attempts = 0 \/ (k \in DOMAIN codes /\ codes'[k].attempts = codes[k].attempts))

LEMMA BillHolds ==
    ASSUME GateInv, NEW bill, Bills(bill), AttemptsStay,
           \A r \in Calls : call'[r].pc = "miss" =>
              \/ call'[r] = call[r]
              \/ call'[r].row \in DOMAIN codes /\ call'[r].seen = codes[call'[r].row].attempts
    PROVE  Bills(bill)'
<1>1. \A k \in 1..MaxCodes : k - 1 \in 0..MaxCodes /\ k \in 0..MaxCodes
  BY Constants
<1>2. \A k \in 1..MaxCodes : bill[k - 1] \in Nat /\ bill[k] \in Nat
  BY <1>1 DEF Bills
<1> QED
  BY <1>2 DEF Bills, AttemptsStay, At

LEMMA BillGrows ==
    ASSUME GateInv, NEW bill, Bills(bill), NEW r \in Calls, RecordFailedAttempt(r)
    PROVE  BillInv'
<1> DEFINE row  == call[r].row
           seen == call[r].seen
           more == [k \in 0..MaxCodes |-> IF k >= row THEN bill[k] + 1 ELSE bill[k]]
<1>1. row \in DOMAIN codes /\ row \in 1..MaxCodes /\ seen \in Nat /\ call \in [Calls -> CallShape]
  BY Constants, CodesAreRows DEF GateInv, CallInv, CallFits, CallShape, RecordFailedAttempt, At, Found
<1>2. tally'.wrong = tally.wrong + 1 /\ tally.wrong \in Nat
  BY DEF GateInv, RestInv, TallyShape, RecordFailedAttempt
<1>3. NoNewMiss /\ ~At(r, "miss")'
  BY <1>1, MovingIsNoMiss, RestingFits DEF RecordFailedAttempt, Finish, At
<1>4. /\ bill \in [0..MaxCodes -> Nat] /\ bill[row - 1] + seen <= bill[row]
      /\ \A k \in 0..MaxCodes : bill[k] <= tally.wrong
      /\ \A k \in 1..MaxCodes : bill[k - 1] <= bill[k]
      /\ \A k \in DOMAIN codes : bill[k - 1] + codes[k].attempts <= bill[k]
      /\ \A q \in Calls : At(q, "miss") => bill[call[q].row - 1] + call[q].seen <= bill[call[q].row]
  BY DEF Bills, RecordFailedAttempt
<1>5. /\ DOMAIN codes' = DOMAIN codes /\ DOMAIN codes \subseteq 1..MaxCodes
      /\ \A k \in DOMAIN codes : codes[k].attempts \in Nat
      /\ \A k \in DOMAIN codes :
            codes'[k].attempts = codes[k].attempts \/ (k = row /\ codes'[k].attempts = seen + 1)
  <2>1. /\ DOMAIN codes \subseteq 1..MaxCodes /\ \A k \in DOMAIN codes : codes[k] \in CodeRow
    BY CodesAreRows DEF GateInv
  <2>2. \A c \in CodeRow : c.attempts \in Nat /\ [c EXCEPT !.attempts = seen + 1].attempts = seen + 1
    BY Constants DEF CodeRow
  <2>3. CASE UNCHANGED codes
    BY <2>1, <2>2, <2>3
  <2>4. CASE codes' = [codes EXCEPT ![row].attempts = seen + 1]
    <3>1. PICK new : new = [codes[row] EXCEPT !.attempts = seen + 1]
      OBVIOUS
    <3>2. codes' = [codes EXCEPT ![row] = new] /\ new.attempts = seen + 1
      BY <1>1, <2>1, <2>2, <2>4, <3>1
    <3> QED
      BY <1>1, <2>1, <2>2, <3>2
  <2> QED
    BY <2>3, <2>4 DEF RecordFailedAttempt
<1> HIDE DEF seen, row
<1>6. /\ more \in [0..MaxCodes -> Nat]
      /\ \A k \in 0..MaxCodes : more[k] = IF k >= row THEN bill[k] + 1 ELSE bill[k]
  BY <1>4
<1> HIDE DEF more
<1>7. \A k \in 1..MaxCodes :
        /\ k - 1 \in 0..MaxCodes /\ k \in 0..MaxCodes
        /\ bill[k - 1] \in Nat /\ bill[k] \in Nat /\ more[k - 1] \in Nat
        /\ more[k] - more[k - 1] = IF k = row THEN (bill[k] - bill[k - 1]) + 1 ELSE bill[k] - bill[k - 1]
  <2>1. ASSUME NEW k \in 1..MaxCodes
        PROVE  /\ k - 1 \in 0..MaxCodes /\ k \in 0..MaxCodes
               /\ bill[k - 1] \in Nat /\ bill[k] \in Nat /\ more[k - 1] \in Nat
               /\ more[k] - more[k - 1] = IF k = row THEN (bill[k] - bill[k - 1]) + 1
                                                     ELSE bill[k] - bill[k - 1]
    <3>1. k - 1 \in 0..MaxCodes /\ k \in 0..MaxCodes
      BY Constants
    <3>2. bill[k - 1] \in Nat /\ bill[k] \in Nat
      BY <1>4, <3>1
    <3>3. /\ more[k] = IF k >= row THEN bill[k] + 1 ELSE bill[k]
          /\ more[k - 1] = IF k - 1 >= row THEN bill[k - 1] + 1 ELSE bill[k - 1]
      BY <1>6, <3>1
    <3>4. row \in Nat /\ k \in Nat
      BY <1>1, Constants
    <3>5. more[k] = bill[k] + (IF k >= row THEN 1 ELSE 0)
      BY <3>2, <3>3
    <3>6. more[k - 1] = bill[k - 1] + (IF k - 1 >= row THEN 1 ELSE 0)
      BY <3>2, <3>3
    <3>7. CASE k = row
      BY <3>1, <3>2, <3>4, <3>5, <3>6, <3>7
    <3>8. CASE k > row
      BY <3>1, <3>2, <3>4, <3>5, <3>6, <3>8
    <3>9. CASE k < row
      BY <3>1, <3>2, <3>4, <3>5, <3>6, <3>9
    <3> QED
      BY <3>4, <3>7, <3>8, <3>9
  <2> QED
    BY <2>1
<1>8. \A k \in 0..MaxCodes : more[k] <= tally'.wrong
  BY <1>2, <1>4, <1>6
<1>9. \A k \in 1..MaxCodes : more[k - 1] <= more[k]
  BY <1>4, <1>6, <1>7
<1>10. \A k \in DOMAIN codes' : more[k - 1] + codes'[k].attempts <= more[k]
  <2> SUFFICES ASSUME NEW k \in DOMAIN codes PROVE more[k - 1] + codes'[k].attempts <= more[k]
    BY <1>5
  <2>1. k \in 1..MaxCodes /\ bill[k - 1] + codes[k].attempts <= bill[k] /\ more[k] \in Nat
    BY <1>4, <1>5, <1>6, <1>7
  <2>2. CASE codes'[k].attempts = codes[k].attempts
    BY <1>5, <1>7, <2>1, <2>2
  <2>3. CASE k = row /\ codes'[k].attempts = seen + 1
    <3>1. /\ bill[k - 1] \in Nat /\ bill[k] \in Nat /\ more[k - 1] \in Nat
          /\ more[k] - more[k - 1] = (bill[k] - bill[k - 1]) + 1
      BY <1>7, <2>1, <2>3
    <3>2. bill[k - 1] + seen <= bill[k]
      BY <1>4, <2>3
    <3>3. seen \in Nat
      BY <1>1 DEF seen
    <3> QED
      BY <2>1, <2>3, <3>1, <3>2, <3>3
  <2> QED
    BY <1>5, <2>2, <2>3
<1>11. \A q \in Calls : At(q, "miss")' => more[call'[q].row - 1] + call'[q].seen <= more[call'[q].row]
  <2> SUFFICES ASSUME NEW q \in Calls, At(q, "miss")'
               PROVE  more[call'[q].row - 1] + call'[q].seen <= more[call'[q].row]
    OBVIOUS
  <2>1. call'[q] = call[q] /\ At(q, "miss")
    BY <1>3 DEF NoNewMiss, At
  <2>2. call[q].row \in 1..MaxCodes /\ call[q].seen \in Nat
    BY <2>1, Constants, CodesAreRows DEF GateInv, CallInv, CallFits, CallShape, At, Found
  <2>3. PICK k \in 1..MaxCodes, n \in Nat : k = call[q].row /\ n = call[q].seen
    BY <2>2
  <2>4. bill[k - 1] + n <= bill[k] /\ more[k] \in Nat
    BY <1>4, <1>6, <1>7, <2>1, <2>3
  <2>5. more[k - 1] + n <= more[k]
    BY <1>7, <2>4
  <2> QED
    BY <2>1, <2>3, <2>5
<1> QED
  BY <1>6, <1>8, <1>9, <1>10, <1>11 DEF BillInv, Bills

LEMMA BillStepKeeps == GateInv /\ BillInv /\ [GateNext]_gateVars => BillInv'
<1> SUFFICES ASSUME GateInv, BillInv, [GateNext]_gateVars PROVE BillInv'
  OBVIOUS
<1>1. PICK bill : Bills(bill)
  BY DEF BillInv
<1>2. /\ DOMAIN codes \subseteq 1..MaxCodes /\ DOMAIN codes = 1..Len(codes)
      /\ \A k \in DOMAIN codes : codes[k] \in CodeRow
      /\ codes \in Seq(CodeRow) /\ Len(codes) \in Nat
  BY CodesAreRows DEF GateInv, CodesInv
<1>3. UNCHANGED <<codes, tally>> => AttemptsStay
  BY <1>2 DEF AttemptsStay
<1>4. ASSUME AttemptsStay, NoNewMiss PROVE BillInv'
  BY <1>1, <1>4, BillHolds DEF NoNewMiss, BillInv
<1>5. ASSUME NEW r \in Calls, IssueStep(r) PROVE BillInv'
  <2>1. CASE UNCHANGED codes
    BY <1>3, <1>4, <1>5, <2>1, IssuingIsNoMiss
    DEF IssueStep, RequestAccess, SendBuyerInvite, Arrive, AppendWhitelist, CountInvites,
        ReadApproval, ReadCooldown, ReserveEmail, InsertCode, SendCode
  <2>2. CASE InsertCode(r) /\ Len(codes) < MaxCodes
             /\ codes' = Append(codes, [made |-> clock, attempts |-> 0, used |-> FALSE])
    <3>1. PICK new : new = [made |-> clock, attempts |-> 0, used |-> FALSE]
      OBVIOUS
    <3>2. new.attempts = 0 /\ codes' = Append(codes, new)
      BY <2>2, <3>1
    <3>3. /\ DOMAIN codes' = 1..(Len(codes) + 1) /\ codes'[Len(codes) + 1] = new
          /\ \A k \in 1..Len(codes) : codes'[k] = codes[k]
      BY <1>2, <3>2
    <3>4. AttemptsStay
      <4>1. UNCHANGED tally /\ Len(codes) + 1 \in 1..MaxCodes
        <5>1. PICK length \in Nat : length = Len(codes) /\ length < MaxCodes
          BY <1>2, <2>2
        <5>2. length + 1 \in 1..MaxCodes
          BY <5>1, Constants
        <5> QED
          BY SMTT(30), <2>2, <5>1, <5>2 DEF InsertCode
      <4>2. ASSUME NEW k \in DOMAIN codes'
            PROVE  k \in 1..MaxCodes /\ (codes'[k].attempts = 0 \/ (k \in DOMAIN codes /\ codes'[k] = codes[k]))
        <5>1. CASE k = Len(codes) + 1
          BY <3>2, <3>3, <4>1, <5>1
        <5>2. CASE k # Len(codes) + 1
          <6>1. k \in 1..Len(codes)
            BY <1>2, <3>3, <4>2, <5>2
          <6> QED
            BY <1>2, <3>3, <6>1
        <5> QED
          BY <5>1, <5>2
      <4> QED
        BY <4>1, <4>2 DEF AttemptsStay
    <3> QED
      BY <1>4, <1>5, <3>4, IssuingIsNoMiss
  <2> QED
    BY <1>5, <2>1, <2>2
    DEF IssueStep, RequestAccess, SendBuyerInvite, Arrive, AppendWhitelist, CountInvites,
        ReadApproval, ReadCooldown, ReserveEmail, InsertCode, SendCode
<1>6. ASSUME NEW r \in Calls, VerifyStep(r) PROVE BillInv'
  <2>1. CASE RecordFailedAttempt(r)
    BY <1>1, <2>1, BillGrows
  <2>2. CASE VerifyAccess(r)
    BY <1>3, <1>4, <2>2, ArrivingIsNoMiss DEF VerifyAccess, Arrive, Stages
  <2>3. CASE ChargeGuess(r)
    <3>1. tally'.wrong = tally.wrong /\ UNCHANGED codes
      BY <2>3 DEF ChargeGuess, GateInv, RestInv, TallyShape
    <3>2. AttemptsStay
      BY <1>2, <3>1 DEF AttemptsStay
    <3> QED
      BY <1>4, <2>3, <3>2, MovingIsNoMiss DEF ChargeGuess, Stages
  <2>4. CASE ReadSpent(r) \/ CallDies(r)
    BY <1>3, <1>4, <2>4, MovingIsNoMiss DEF ReadSpent, CallDies, Stages
  <2>5. CASE EnterPortal(r)
    <3>1. tally'.wrong = tally.wrong /\ UNCHANGED codes
      BY <2>5 DEF EnterPortal, GateInv, RestInv, TallyShape
    <3>2. AttemptsStay
      BY <1>2, <3>1 DEF AttemptsStay
    <3> QED
      BY <1>4, <2>5, <3>2, MovingIsNoMiss DEF EnterPortal
  <2>6. CASE ConsumeToken(r)
    <3>1. call[r].row \in DOMAIN codes /\ UNCHANGED tally
      BY <2>6 DEF ConsumeToken, GateInv, CallInv, CallFits, At, Found
    <3>2. codes' \in {codes, [codes EXCEPT ![call[r].row].used = TRUE]}
      BY <2>6 DEF ConsumeToken
    <3>3. AttemptsStay
      <4>1. PICK k \in DOMAIN codes : k = call[r].row
        BY <3>1
      <4>2. PICK new : new = [codes[k] EXCEPT !.used = TRUE]
        OBVIOUS
      <4>3. new.attempts = codes[k].attempts
        BY <1>2, <4>2 DEF CodeRow
      <4>4. codes' \in {codes, [codes EXCEPT ![k] = new]}
        BY <1>2, <3>2, <4>1, <4>2
      <4> QED
        BY <1>2, <3>1, <4>3, <4>4 DEF AttemptsStay
    <3> QED
      BY <1>4, <2>6, <3>3, MovingIsNoMiss DEF ConsumeToken, Stages
  <2>7. CASE ReadPending(r)
    <3>1. AttemptsStay
      BY <1>3, <2>7 DEF ReadPending
    <3>2. \A q \in Calls : call'[q].pc = "miss" =>
             \/ call'[q] = call[q]
             \/ call'[q].row \in DOMAIN codes /\ call'[q].seen = codes[call'[q].row].attempts
      <4>1. CASE Finish(r)
        BY <4>1, MovingIsNoMiss DEF NoNewMiss
      <4>2. CASE call' = [call EXCEPT ![r].pc = "consume", ![r].row = call[r].guess]
        BY <4>2 DEF GateInv, CallInv, CallShape
      <4>3. CASE Usable # {}
                 /\ call' = [call EXCEPT ![r].pc = "miss", ![r].row = Max(Usable),
                                         ![r].seen = codes[Max(Usable)].attempts]
        <5>1. Max(Usable) \in DOMAIN codes
          <6>1. Usable \subseteq DOMAIN codes
            BY DEF Usable, Pending
          <6>2. Usable \in SUBSET (1..Len(codes))
            BY <1>2, <6>1
          <6>3. Max(Usable) \in Usable
            BY <1>2, <4>3, <6>2, Greatest
          <6> QED
            BY <6>1, <6>3
        <5>2. PICK row, n : row = Max(Usable) /\ n = codes[row].attempts
          OBVIOUS
        <5>3. call' = [call EXCEPT ![r].pc = "miss", ![r].row = row, ![r].seen = n]
          BY <4>3, <5>2
        <5>4. /\ call'[r].row = row /\ call'[r].seen = n
              /\ \A q \in Calls \ {r} : call'[q] = call[q]
          BY <5>3 DEF GateInv, CallInv, CallShape
        <5> QED
          BY <5>1, <5>2, <5>4
      <4> QED
        BY <2>7, <4>1, <4>2, <4>3 DEF ReadPending, RefuseAlike
    <3> QED
      BY <1>1, <3>1, <3>2, BillHolds DEF BillInv
  <2> QED
    BY <1>6, <2>1, <2>2, <2>3, <2>4, <2>5, <2>6, <2>7 DEF VerifyStep
<1>7. CASE Tick \/ ReserveForNobody \/ UNCHANGED gateVars
  BY <1>3, <1>4, <1>7 DEF Tick, ReserveForNobody, gateVars, NoNewMiss
<1> QED
  BY <1>5, <1>6, <1>7 DEF GateNext

LEMMA InitBillInv == GateInit => BillInv
<1> SUFFICES ASSUME GateInit PROVE BillInv
  OBVIOUS
<1> DEFINE none == [k \in 0..MaxCodes |-> 0]
<1>1. PICK before \in {Fresh, Known} :
        /\ codes = [k \in 1..Len(before.made) |->
                      [made |-> before.made[k], attempts |-> 0, used |-> FALSE]]
        /\ call = [r \in Calls |-> Resting]
        /\ tally = [NoTally EXCEPT !.admitted[0] = before.asked]
  BY DEF GateInit
<1>2. tally.wrong = 0
  BY <1>1 DEF NoTally
<1>3. DOMAIN codes \subseteq 1..MaxCodes
  <2>1. Len(before.made) \in 0..2
    <3>1. before.made \in {<<>>, <<0, 1>>}
      BY DEF Fresh, Known
    <3> QED
      BY <3>1
  <2>2. PICK n \in 0..2 : n = Len(before.made)
    BY <2>1
  <2>3. DOMAIN codes = 1..n
    BY <1>1, <2>2
  <2>4. ASSUME NEW k \in 1..n PROVE k \in 1..MaxCodes
    <3>1. n \in Nat /\ n <= 2 /\ MaxCodes \in Nat /\ 2 <= MaxCodes
      BY Constants
    <3>2. k \in Nat /\ 1 <= k /\ k <= n
      BY <3>1
    <3> HIDE DEF none
    <3> QED
      BY <3>1, <3>2
  <2> QED
    BY <2>3, <2>4
<1>4. \A k \in DOMAIN codes : codes[k].attempts = 0
  BY <1>1
<1>5. \A k \in 1..MaxCodes : k - 1 \in 0..MaxCodes /\ k \in 0..MaxCodes
  BY Constants
<1>6. \A r \in Calls : ~At(r, "miss")
  BY <1>1, RestingFits DEF At
<1>7. Bills(none)
  BY <1>2, <1>3, <1>4, <1>5, <1>6 DEF Bills
<1> QED
  BY <1>7 DEF BillInv

(* portal-access-token.ts, recordFailedAttempt: the buyer's rows never hold
   more attempts against it than wrong guesses were made, though each attempt
   is written as a value read before plus one, for any codes and calls. *)
THEOREM NeverOverchargedAlways == GateSpec => []NeverOvercharged
<1>1. GateInv /\ BillInv => NeverOvercharged
  <2> SUFFICES ASSUME GateInv, BillInv PROVE NeverOvercharged
    OBVIOUS
  <2>1. PICK bill : Bills(bill)
    BY DEF BillInv
  <2>2. /\ codes \in Seq(CodeRow) /\ Len(codes) \in Nat /\ Len(codes) <= MaxCodes
        /\ DOMAIN codes = 1..Len(codes)
    BY CodesAreRows DEF GateInv, CodesInv
  <2>3. /\ \A k \in 0..Len(codes) : bill[k] \in Nat
        /\ \A k \in 1..Len(codes) : bill[k - 1] + codes[k].attempts <= bill[k]
        /\ bill[Len(codes)] <= tally.wrong /\ bill[Len(codes)] \in Nat
    <3>1. Len(codes) \in 0..MaxCodes /\ \A k \in 0..Len(codes) : k \in 0..MaxCodes
      BY <2>2, Constants
    <3>2. /\ \A k \in 0..MaxCodes : bill[k] \in Nat /\ bill[k] <= tally.wrong
          /\ \A k \in DOMAIN codes : bill[k - 1] + codes[k].attempts <= bill[k]
      BY <2>1 DEF Bills
    <3> QED
      BY <2>2, <3>1, <3>2
  <2> DEFINE total == FoldLeft(LAMBDA n, c : n + c.attempts, 0, codes)
  <2>4. total \in Nat /\ total <= bill[Len(codes)]
    BY <2>2, <2>3, AttemptsAreBilled
  <2>5. tally.wrong \in Nat
    BY DEF GateInv, RestInv, TallyShape
  <2> HIDE DEF total
  <2>6. total <= tally.wrong
    BY <2>3, <2>4, <2>5
  <2> QED
    BY <2>6 DEF NeverOvercharged, total
<1> QED
  BY <1>1, InitBillInv, BillStepKeeps, GateInvAlways, PTL DEF GateSpec

-------------------------------------------------------------------------------
(* A function that sums a count up over any set of the first m numbers. *)
Totals(m, count, total) ==
    /\ total \in [SUBSET (0..m) -> Nat] /\ total[{}] = 0
    /\ \A s \in SUBSET (0..m) : \A u \in s : total[s] = count[u] + total[s \ {u}]

LEMMA TotalsExist ==
    ASSUME NEW n \in Nat, NEW count, \A u \in 0..n : count[u] \in Nat
    PROVE  \E total : Totals(n, count, total)
<1> DEFINE Totalled == {m \in Nat : m <= n => \E total : Totals(m, count, total)}
<1>1. 0 \in Totalled
  <2> DEFINE first == [s \in SUBSET (0..0) |-> IF 0 \in s THEN count[0] ELSE 0]
  <2>1. count[0] \in Nat /\ \A s \in SUBSET (0..0) : \A u \in s : u = 0 /\ 0 \notin s \ {u}
    OBVIOUS
  <2>2. Totals(0, count, first)
    BY <2>1 DEF Totals
  <2> QED
    BY <2>2
<1>2. ASSUME NEW m \in Nat, m \in Totalled PROVE m + 1 \in Totalled
  <2> SUFFICES ASSUME m + 1 <= n PROVE \E total : Totals(m + 1, count, total)
    OBVIOUS
  <2>1. PICK total : Totals(m, count, total)
    BY <1>2
  <2> DEFINE top  == m + 1
             more == [s \in SUBSET (0..top) |->
                        IF top \in s THEN count[top] + total[s \ {top}] ELSE total[s]]
  <2>2. /\ top \in 0..n /\ \A u \in 0..top : count[u] \in Nat
        /\ \A s \in SUBSET (0..top) : s \ {top} \in SUBSET (0..m)
        /\ \A s \in SUBSET (0..m) : s \in SUBSET (0..top) /\ top \notin s
    OBVIOUS
  <2>3. /\ total \in [SUBSET (0..m) -> Nat] /\ total[{}] = 0
        /\ \A s \in SUBSET (0..m) : \A u \in s : total[s] = count[u] + total[s \ {u}]
    BY <2>1 DEF Totals
  <2> HIDE DEF top
  <2>4. more \in [SUBSET (0..top) -> Nat] /\ more[{}] = 0
    BY <2>2, <2>3
  <2>5. ASSUME NEW s \in SUBSET (0..top), NEW u \in s
        PROVE  more[s] = count[u] + more[s \ {u}]
    <3>1. CASE top \notin s
      <4>1. s \in SUBSET (0..m) /\ s \ {u} \in SUBSET (0..top) /\ top \notin s \ {u}
        BY <2>2, <3>1, s \ {top} = s
      <4> QED
        BY <2>3, <3>1, <4>1
    <3>2. CASE u = top
      <4>1. s \ {u} \in SUBSET (0..top) /\ top \notin s \ {u}
        BY <3>2
      <4> QED
        BY <3>2, <4>1
    <3>3. CASE top \in s /\ u # top
      <4>1. PICK rest \in SUBSET (0..m) : rest = s \ {top}
        BY <2>2
      <4>2. u \in rest /\ (s \ {u}) \ {top} = rest \ {u} /\ rest \ {u} \in SUBSET (0..m)
        BY <3>3, <4>1
      <4>3. s \ {u} \in SUBSET (0..top) /\ top \in s \ {u}
        BY <3>3
      <4>4. more[s] = count[top] + total[rest] /\ more[s \ {u}] = count[top] + total[rest \ {u}]
        BY <3>3, <4>1, <4>2, <4>3
      <4>5. total[rest] = count[u] + total[rest \ {u}]
        BY <2>3, <4>2
      <4>6. count[top] \in Nat /\ count[u] \in Nat /\ total[rest \ {u}] \in Nat
        BY <2>2, <2>3, <4>2
      <4> HIDE DEF more
      <4> QED
        BY <4>4, <4>5, <4>6
    <3> QED
      BY <3>1, <3>2, <3>3
  <2> HIDE DEF more
  <2>6. Totals(top, count, more)
    BY <2>4, <2>5 DEF Totals
  <2> QED
    BY <2>6 DEF top
<1> HIDE DEF Totalled
<1>3. Nat \subseteq Totalled
  BY <1>1, <1>2, Upwards
<1> QED
  BY <1>3 DEF Totalled

(* How many of a count's calls the ticks of a set let through. *)
Through(count, S) == FoldFunctionOnSet(+, 0, count, S)

(* A fold with any order of choosing has that value. *)
LEMMA FoldsAreTotals ==
    ASSUME NEW n \in Nat, NEW count, \A u \in 0..n : count[u] \in Nat,
           NEW total, Totals(n, count, total), NEW S \in SUBSET (0..n)
    PROVE  Through(count, S) = total[S]
<1> DEFINE Iterates(f) == f = [s \in SUBSET S |->
               IF s = {} THEN 0 ELSE count[CHOOSE x \in s : TRUE] + f[s \ {CHOOSE x \in s : TRUE}]]
           fold == CHOOSE f : Iterates(f)
<1>1. Through(count, S) = fold[S]
  BY DEF Through, FoldFunctionOnSet, MapThenFoldSet
<1>2. /\ total \in [SUBSET (0..n) -> Nat] /\ total[{}] = 0
      /\ \A s \in SUBSET (0..n) : \A u \in s : total[s] = count[u] + total[s \ {u}]
  BY DEF Totals
<1>3. \E f : Iterates(f)
  <2> DEFINE part == [s \in SUBSET S |-> total[s]]
  <2>1. ASSUME NEW s \in SUBSET S
        PROVE  part[s] = IF s = {} THEN 0
                         ELSE count[CHOOSE x \in s : TRUE] + part[s \ {CHOOSE x \in s : TRUE}]
    <3>1. CASE s = {}
      BY <1>2, <3>1
    <3>2. CASE s # {}
      <4>1. PICK u \in s : u = CHOOSE x \in s : TRUE
        BY <3>2
      <4>2. s \in SUBSET (0..n) /\ s \ {u} \in SUBSET S
        OBVIOUS
      <4>3. total[s] = count[u] + total[s \ {u}]
        BY <1>2, <4>2
      <4> QED
        BY <3>2, <4>1, <4>2, <4>3
    <3> QED
      BY <3>1, <3>2
  <2>2. part = [s \in SUBSET S |-> part[s]]
    OBVIOUS
  <2> HIDE DEF part
  <2>3. Iterates(part)
    BY <2>1, <2>2
  <2> QED
    BY <2>3
<1>4. Iterates(fold)
  <2> HIDE DEF Iterates
  <2> QED
    BY <1>3
<1>5. \A s \in SUBSET S : fold[s] = IF s = {} THEN 0
             ELSE count[CHOOSE x \in s : TRUE] + fold[s \ {CHOOSE x \in s : TRUE}]
  BY <1>4
<1> HIDE DEF fold, Iterates
<1> DEFINE Same == {k \in Nat : \A s \in SUBSET S : Cardinality(s) = k => fold[s] = total[s]}
<1>6. IsFiniteSet(S)
  <2>1. IsFiniteSet(0..n)
    BY FS_Interval
  <2> QED
    BY <2>1, FS_Subset
<1>7. \A s \in SUBSET S : IsFiniteSet(s)
  BY <1>6, FS_Subset
<1>8. 0 \in Same
  <2>1. ASSUME NEW s \in SUBSET S, Cardinality(s) = 0 PROVE fold[s] = total[s]
    <3>1. s = {}
      BY <1>7, <2>1, FS_EmptySet
    <3> QED
      BY <1>2, <1>5, <3>1
  <2> QED
    BY <2>1
<1>9. ASSUME NEW k \in Nat, k \in Same PROVE k + 1 \in Same
  <2>1. ASSUME NEW s \in SUBSET S, Cardinality(s) = k + 1 PROVE fold[s] = total[s]
    <3>1. s # {}
      BY <2>1, FS_EmptySet
    <3>2. PICK u \in s : u = CHOOSE x \in s : TRUE
      BY <3>1
    <3>3. s \ {u} \in SUBSET S /\ s \in SUBSET (0..n)
      OBVIOUS
    <3>4. Cardinality(s \ {u}) = Cardinality(s) - 1
      BY <1>7, FS_RemoveElement
    <3>5. Cardinality(s \ {u}) = k
      BY <2>1, <3>4
    <3>6. fold[s \ {u}] = total[s \ {u}]
      BY <1>9, <3>3, <3>5
    <3>7. fold[s] = count[u] + fold[s \ {u}]
      BY <1>5, <3>1, <3>2
    <3>8. total[s] = count[u] + total[s \ {u}]
      BY <1>2, <3>3
    <3> QED
      BY <3>6, <3>7, <3>8
  <2> QED
    BY <2>1
<1> HIDE DEF Same
<1>10. Nat \subseteq Same
  BY <1>8, <1>9, Upwards
<1>11. fold[S] = total[S]
  <2>1. Cardinality(S) \in Nat
    BY <1>6, FS_CardinalityType
  <2> QED
    BY <1>10, <2>1 DEF Same
<1> QED
  BY <1>1, <1>11

(* passed[u]: how many of a count's calls were let through before u. *)
Passes(passed, count) ==
    /\ passed \in [Nat -> Nat] /\ passed[0] = 0
    /\ \A u \in Nat : passed[u + 1] = passed[u] + (IF u \in 0..MaxClock THEN count[u] ELSE 0)

(* ... so what an hour let through is the difference of its two ends. *)
LEMMA HoursAreDifferences ==
    ASSUME NEW count \in [0..MaxClock -> Nat], NEW passed, Passes(passed, count), NEW t \in Nat
    PROVE  \E through \in Nat :
             /\ through = Through(count, {u \in 0..MaxClock : t <= u /\ u < t + Hour})
             /\ through + passed[t] = passed[t + Hour]
<1>1. MaxClock \in Nat /\ Hour \in Nat
  BY Constants, RateAssumption
<1>2. PICK total : Totals(MaxClock, count, total)
  BY <1>1, TotalsExist
<1>3. /\ total \in [SUBSET (0..MaxClock) -> Nat] /\ total[{}] = 0
      /\ \A s \in SUBSET (0..MaxClock) : \A u \in s : total[s] = count[u] + total[s \ {u}]
  BY <1>2 DEF Totals
<1>4. /\ \A u \in Nat : passed[u] \in Nat
      /\ \A u \in Nat : passed[u + 1] = passed[u] + (IF u \in 0..MaxClock THEN count[u] ELSE 0)
  BY DEF Passes
<1> DEFINE stretch(k) == {u \in 0..MaxClock : t <= u /\ u < t + k}
           Right == {k \in Nat : total[stretch(k)] + passed[t] = passed[t + k]}
<1>5. 0 \in Right
  <2>1. stretch(0) = {} /\ t + 0 = t /\ passed[t] \in Nat
    BY <1>4
  <2> HIDE DEF stretch
  <2>2. total[stretch(0)] = 0
    BY <1>3, <2>1
  <2>3. total[stretch(0)] + passed[t] = passed[t + 0]
    BY <2>1, <2>2
  <2> QED
    BY <2>3
<1>6. ASSUME NEW k \in Nat, k \in Right PROVE k + 1 \in Right
  <2>1. /\ total[stretch(k)] + passed[t] = passed[t + k] /\ stretch(k) \in SUBSET (0..MaxClock)
        /\ passed[t] \in Nat /\ total[stretch(k)] \in Nat
    BY <1>3, <1>4, <1>6
  <2>2. passed[(t + k) + 1] = passed[t + k] + (IF t + k \in 0..MaxClock THEN count[t + k] ELSE 0)
    BY <1>4
  <2>3. CASE t + k \in 0..MaxClock
    <3>1. /\ stretch(k + 1) \in SUBSET (0..MaxClock) /\ t + k \in stretch(k + 1)
          /\ stretch(k + 1) \ {t + k} = stretch(k)
      BY <2>3
    <3> HIDE DEF stretch, Right
    <3>2. total[stretch(k + 1)] = count[t + k] + total[stretch(k)]
      BY <1>3, <3>1
    <3>3. (t + k) + 1 = t + (k + 1) /\ count[t + k] \in Nat
      BY <2>3
    <3>4. total[stretch(k + 1)] + passed[t] = passed[t + (k + 1)]
      BY <2>1, <2>2, <2>3, <3>2, <3>3
    <3> QED
      BY <3>4 DEF Right
  <2>4. CASE t + k \notin 0..MaxClock
    <3>1. stretch(k + 1) = stretch(k)
      BY <1>1, <2>4
    <3>2. (t + k) + 1 = t + (k + 1) /\ passed[t + k] \in Nat
      BY <1>4
    <3> HIDE DEF stretch, Right
    <3>3. total[stretch(k + 1)] + passed[t] = passed[t + (k + 1)]
      BY <2>1, <2>2, <2>4, <3>1, <3>2
    <3> QED
      BY <3>3 DEF Right
  <2> QED
    BY <2>3, <2>4
<1>7. Hour \in Right
  <2> HIDE DEF Right
  <2>1. Nat \subseteq Right
    BY <1>5, <1>6, Upwards
  <2> QED
    BY <1>1, <2>1
<1>8. stretch(Hour) \in SUBSET (0..MaxClock) /\ \A u \in 0..MaxClock : count[u] \in Nat
  OBVIOUS
<1>9. Through(count, stretch(Hour)) = total[stretch(Hour)]
  <2>1. PICK S \in SUBSET (0..MaxClock) : S = stretch(Hour)
    BY <1>8
  <2> HIDE DEF stretch, Right
  <2>2. \A m \in Nat : m = MaxClock => \A u \in 0..m : count[u] \in Nat
    BY <1>8
  <2>3. Through(count, S) = total[S]
    BY <1>1, <1>2, <2>2, FoldsAreTotals
  <2> QED
    BY <2>1, <2>3
<1>10. total[stretch(Hour)] + passed[t] = passed[t + Hour]
  BY <1>7
<1>11. total[stretch(Hour)] \in Nat
  BY <1>3, <1>8
<1> QED
  BY <1>9, <1>10, <1>11

-------------------------------------------------------------------------------
(* by[x]: how many calls were let through in windows that began before x.  A
   call passes no earlier than its window began, and no later than an hour
   and the wait from then; windows begin an hour apart or more, so those that
   begin within an hour of each other let through one budget together; and
   the window that is open has counted no fewer than it let through. *)
Fits(by, passed, w, wait) ==
    /\ by \in [Nat -> Nat] /\ by[0] = 0
    /\ \A u \in Nat : passed[u] <= by[u]
    /\ \A x, u \in Nat : x + Hour + wait <= u => by[x] <= passed[u]
    /\ \A x, y \in Nat : x <= y /\ y <= x + Hour => by[y] <= by[x] + TargetLimit
    /\ \A x, y \in Nat : w.start < x /\ x <= y => by[y] = by[x]
    /\ \A x, y \in Nat : x <= w.start /\ w.start < y /\ y <= x + Hour => by[y] <= by[x] + w.count
    /\ w.count = 0 => \A x \in Nat : by[x] = 0

Budgeted(count, w, wait) ==
    \E passed, by : Passes(passed, count) /\ Fits(by, passed, w, wait)

(* One more from a mark on. *)
Raised(f, mark) == [x \in Nat |-> IF x > mark THEN f[x] + 1 ELSE f[x]]

LEMMA RaisedIs ==
    ASSUME NEW f \in [Nat -> Nat], NEW mark \in Nat
    PROVE  /\ Raised(f, mark) \in [Nat -> Nat]
           /\ \A x \in Nat : f[x] \in Nat /\ Raised(f, mark)[x] \in Nat
                 /\ (x > mark => Raised(f, mark)[x] = f[x] + 1)
                 /\ (x <= mark => Raised(f, mark)[x] = f[x])
  BY DEF Raised

(* A call is let through at c that reached its window at t, and opened it or
   was counted by it. *)
LEMMA AdmissionFits ==
    ASSUME NEW count \in [0..MaxClock -> Nat], NEW w \in Window, NEW wait \in Nat,
           Budgeted(count, w, wait),
           NEW c \in 0..MaxClock, NEW t \in Nat, t <= c, c <= t + wait, w.start <= c,
           NEW v \in Window,
           \/ w.count = 0 /\ v.start = t /\ v.count = 1
           \/ w.start + Hour <= t /\ v.start = t /\ v.count = 1
           \/ w.count # 0 /\ t < w.start + Hour /\ v.start = w.start
              /\ v.count = w.count + 1 /\ v.count <= TargetLimit
    PROVE  Budgeted([count EXCEPT ![c] = @ + 1], v, wait)
<1>1. PICK passed, by : Passes(passed, count) /\ Fits(by, passed, w, wait)
  BY DEF Budgeted
<1>2. PICK from \in Nat, had \in Nat, began \in Nat, holds \in Nat :
        from = w.start /\ had = w.count /\ began = v.start /\ holds = v.count
  BY DEF Window
<1> DEFINE passedMore == Raised(passed, c)
           byMore     == Raised(by, began)
<1>3. /\ MaxClock \in Nat /\ Hour \in Nat \ {0} /\ TargetLimit \in Nat \ {0}
      /\ c \in Nat /\ wait \in Nat
      /\ from \in Nat /\ had \in Nat /\ began \in Nat /\ holds \in Nat
  BY <1>2, Constants, RateAssumption
<1>4. /\ passed \in [Nat -> Nat] /\ passed[0] = 0
      /\ \A u \in Nat : passed[u + 1] = passed[u] + (IF u \in 0..MaxClock THEN count[u] ELSE 0)
  BY <1>1 DEF Passes
<1>5. /\ by \in [Nat -> Nat] /\ by[0] = 0
      /\ \A u \in Nat : passed[u] <= by[u]
      /\ \A x, u \in Nat : x + Hour + wait <= u => by[x] <= passed[u]
      /\ \A x, y \in Nat : x <= y /\ y <= x + Hour => by[y] <= by[x] + TargetLimit
      /\ \A x, y \in Nat : from < x /\ x <= y => by[y] = by[x]
      /\ \A x, y \in Nat : x <= from /\ from < y /\ y <= x + Hour => by[y] <= by[x] + had
      /\ had = 0 => \A x \in Nat : by[x] = 0
  BY <1>1, <1>2 DEF Fits
<1>6. /\ began <= c /\ c < began + Hour + wait /\ holds # 0
      /\ \/ began = t /\ holds = 1 /\ (had = 0 \/ from + Hour <= t)
         \/ began = from /\ holds = had + 1 /\ holds <= TargetLimit
  <2>1. /\ \/ had = 0 /\ began = t /\ holds = 1
           \/ from + Hour <= t /\ began = t /\ holds = 1
           \/ had # 0 /\ t < from + Hour /\ began = from /\ holds = had + 1 /\ holds <= TargetLimit
        /\ t <= c /\ c <= t + wait /\ from <= c
    BY <1>2
  <2> QED
    BY <1>3, <2>1
<1>7. /\ passedMore \in [Nat -> Nat] /\ byMore \in [Nat -> Nat]
      /\ \A u \in Nat : passed[u] \in Nat /\ passedMore[u] \in Nat
            /\ (u > c => passedMore[u] = passed[u] + 1) /\ (u <= c => passedMore[u] = passed[u])
      /\ \A x \in Nat : by[x] \in Nat /\ byMore[x] \in Nat
            /\ (x > began => byMore[x] = by[x] + 1) /\ (x <= began => byMore[x] = by[x])
  <2>1. passed \in [Nat -> Nat] /\ by \in [Nat -> Nat] /\ c \in Nat /\ began \in Nat
    BY <1>3, <1>4, <1>5
  <2>2. /\ passedMore \in [Nat -> Nat]
        /\ \A u \in Nat : passed[u] \in Nat /\ passedMore[u] \in Nat
            /\ (u > c => passedMore[u] = passed[u] + 1) /\ (u <= c => passedMore[u] = passed[u])
    BY <2>1, RaisedIs
  <2>3. /\ byMore \in [Nat -> Nat]
        /\ \A x \in Nat : by[x] \in Nat /\ byMore[x] \in Nat
            /\ (x > began => byMore[x] = by[x] + 1) /\ (x <= began => byMore[x] = by[x])
    BY <2>1, RaisedIs
  <2> QED
    BY <2>2, <2>3
<1> HIDE DEF passedMore, byMore
<1>8. Passes(passedMore, [count EXCEPT ![c] = @ + 1])
  <2>1. passedMore[0] = 0
    BY <1>3, <1>4, <1>7
  <2>2. ASSUME NEW u \in Nat
        PROVE  passedMore[u + 1] = passedMore[u]
                  + (IF u \in 0..MaxClock THEN [count EXCEPT ![c] = @ + 1][u] ELSE 0)
    <3>1. PICK next \in Nat : next = u + 1
      OBVIOUS
    <3>2. /\ passed[u] \in Nat /\ passed[next] \in Nat
          /\ (u > c => passedMore[u] = passed[u] + 1) /\ (u <= c => passedMore[u] = passed[u])
          /\ next > c => passedMore[next] = passed[next] + 1
          /\ next <= c => passedMore[next] = passed[next]
      BY <1>7, <3>1
    <3>3. PICK n \in Nat : n = IF u \in 0..MaxClock THEN count[u] ELSE 0
      OBVIOUS
    <3>4. passed[next] = passed[u] + n
      BY <1>4, <3>1, <3>3
    <3>5. (IF u \in 0..MaxClock THEN [count EXCEPT ![c] = @ + 1][u] ELSE 0)
            = IF u = c THEN n + 1 ELSE n
      BY <3>3
    <3>6. passedMore[next] = passedMore[u] + (IF u = c THEN n + 1 ELSE n)
      <4>1. CASE u < c
        <5>1. next <= c /\ u <= c /\ u # c
          BY <1>3, <3>1, <4>1
        <5> QED
          BY <3>2, <3>3, <3>4, <5>1
      <4>2. CASE u = c
        <5>1. next > c /\ u <= c
          BY <1>3, <3>1, <4>2
        <5> QED
          BY <3>2, <3>3, <3>4, <4>2, <5>1
      <4>3. CASE u > c
        <5>1. next > c /\ u # c
          BY <1>3, <3>1, <4>3
        <5>2. passedMore[next] = passed[next] + 1 /\ passedMore[u] = passed[u] + 1
          BY <3>2, <4>3, <5>1
        <5>3. passed[u] \in Nat /\ n \in Nat /\ (IF u = c THEN n + 1 ELSE n) = n
          BY <3>2, <3>3, <5>1
        <5> QED
          BY <3>4, <5>2, <5>3
      <4> QED
        BY <1>3, <4>1, <4>2, <4>3
    <3> QED
      BY <3>1, <3>5, <3>6
  <2> QED
    BY <1>7, <2>1, <2>2 DEF Passes
<1>9. byMore[0] = 0
  BY <1>3, <1>5, <1>7
<1>10. \A u \in Nat : passedMore[u] <= byMore[u]
  <2>1. ASSUME NEW u \in Nat PROVE passedMore[u] <= byMore[u]
    <3>1. /\ passed[u] \in Nat /\ passedMore[u] \in Nat
          /\ (u > c => passedMore[u] = passed[u] + 1) /\ (u <= c => passedMore[u] = passed[u])
          /\ by[u] \in Nat /\ byMore[u] \in Nat
          /\ (u > began => byMore[u] = by[u] + 1) /\ (u <= began => byMore[u] = by[u])
      BY <1>7
    <3>2. passed[u] <= by[u] /\ passed[u] \in Nat /\ by[u] \in Nat
      BY <1>5, <1>7
    <3> QED
      BY <1>3, <1>6, <3>1, <3>2
  <2> QED
    BY <2>1
<1>11. \A x, u \in Nat : x + Hour + wait <= u => byMore[x] <= passedMore[u]
  <2>1. ASSUME NEW x \in Nat, NEW u \in Nat, x + Hour + wait <= u PROVE byMore[x] <= passedMore[u]
    <3>1. /\ passed[u] \in Nat /\ passedMore[u] \in Nat
          /\ (u > c => passedMore[u] = passed[u] + 1) /\ (u <= c => passedMore[u] = passed[u])
          /\ by[x] \in Nat /\ byMore[x] \in Nat
          /\ (x > began => byMore[x] = by[x] + 1) /\ (x <= began => byMore[x] = by[x])
      BY <1>7
    <3>2. by[x] <= passed[u] /\ passed[u] \in Nat /\ by[x] \in Nat
      BY <1>5, <1>7, <2>1
    <3>3. x > began => u > c
      BY <1>3, <1>6, <2>1
    <3> QED
      BY <1>3, <3>1, <3>2, <3>3
  <2> QED
    BY <2>1
<1>12. \A x, y \in Nat : x <= y /\ y <= x + Hour => byMore[y] <= byMore[x] + TargetLimit
  <2>1. ASSUME NEW x \in Nat, NEW y \in Nat, x <= y, y <= x + Hour
        PROVE  byMore[y] <= byMore[x] + TargetLimit
    <3>1. /\ by[x] \in Nat /\ byMore[x] \in Nat
          /\ (x > began => byMore[x] = by[x] + 1) /\ (x <= began => byMore[x] = by[x])
          /\ by[y] \in Nat /\ byMore[y] \in Nat
          /\ (y > began => byMore[y] = by[y] + 1) /\ (y <= began => byMore[y] = by[y])
      BY <1>7
    <3>2. by[x] \in Nat /\ by[y] \in Nat /\ by[y] <= by[x] + TargetLimit
      BY <1>5, <3>1, <2>1
    <3>3. CASE x > began \/ y <= began
      <4>1. CASE x > began
        <5>1. y > began
          BY <1>3, <2>1, <4>1
        <5>2. byMore[x] = by[x] + 1 /\ byMore[y] = by[y] + 1
          BY <3>1, <4>1, <5>1
        <5> QED
          BY SMTT(30), <1>3, <3>2, <5>2
      <4>2. CASE y <= began
        <5>1. x <= began
          BY <1>3, <2>1, <4>2
        <5>2. byMore[x] = by[x] /\ byMore[y] = by[y]
          BY <3>1, <4>2, <5>1
        <5> QED
          BY <3>2, <5>2
      <4> QED
        BY <3>3, <4>1, <4>2
    <3>4. CASE x <= began /\ began < y /\ began = from
      <4>1. by[y] <= by[x] + had /\ (had = 0 => by[y] = by[x] /\ by[x] = 0)
        BY <1>5, <2>1, <3>4
      <4>2. byMore[y] = by[y] + 1 /\ byMore[x] = by[x]
        BY <1>3, <3>1, <3>4
      <4>3. \/ had = 0
            \/ had + 1 <= TargetLimit
        BY <1>3, <1>6, <3>4
      <4> QED
        BY SMTT(30), <1>3, <3>1, <3>2, <4>1, <4>2, <4>3
    <3>5. CASE x <= began /\ began < y /\ began = t /\ (had = 0 \/ from + Hour <= t)
      <4>1. by[y] = by[x]
        <5>1. CASE had = 0
          BY <1>5, <5>1
        <5>2. CASE from + Hour <= t
          <6>1. from < x
            BY <1>3, <2>1, <3>5, <5>2
          <6> QED
            BY <1>5, <2>1, <6>1
        <5> QED
          BY <3>5, <5>1, <5>2
      <4>2. byMore[y] = by[y] + 1 /\ byMore[x] = by[x]
        BY <1>3, <3>1, <3>5
      <4> QED
        BY <1>3, <3>2, <4>1, <4>2
    <3> QED
      BY <1>3, <1>6, <3>3, <3>4, <3>5
  <2> QED
    BY <2>1
<1>13. \A x, y \in Nat : began < x /\ x <= y => byMore[y] = byMore[x]
  <2>1. ASSUME NEW x \in Nat, NEW y \in Nat, began < x, x <= y PROVE byMore[y] = byMore[x]
    <3>1. /\ by[x] \in Nat /\ byMore[x] \in Nat
          /\ (x > began => byMore[x] = by[x] + 1) /\ (x <= began => byMore[x] = by[x])
          /\ by[y] \in Nat /\ byMore[y] \in Nat
          /\ (y > began => byMore[y] = by[y] + 1) /\ (y <= began => byMore[y] = by[y])
      BY <1>7
    <3>2. byMore[y] = by[y] + 1 /\ byMore[x] = by[x] + 1
      BY <1>3, <3>1, <2>1
    <3>3. by[y] = by[x]
      <4>1. had = 0 \/ from < x
        BY <1>3, <1>6, <2>1
      <4> QED
        BY <1>5, <2>1, <4>1
    <3> QED
      BY <3>2, <3>3
  <2> QED
    BY <2>1
<1>14. \A x, y \in Nat : x <= began /\ began < y /\ y <= x + Hour => byMore[y] <= byMore[x] + holds
  <2>1. ASSUME NEW x \in Nat, NEW y \in Nat, x <= began, began < y, y <= x + Hour
        PROVE  byMore[y] <= byMore[x] + holds
    <3>1. /\ by[x] \in Nat /\ byMore[x] \in Nat
          /\ (x > began => byMore[x] = by[x] + 1) /\ (x <= began => byMore[x] = by[x])
          /\ by[y] \in Nat /\ byMore[y] \in Nat
          /\ (y > began => byMore[y] = by[y] + 1) /\ (y <= began => byMore[y] = by[y])
      BY <1>7
    <3>2. byMore[y] = by[y] + 1 /\ byMore[x] = by[x] /\ by[x] \in Nat /\ by[y] \in Nat
      BY <1>3, <3>1, <2>1
    <3>3. CASE began = from /\ holds = had + 1
      <4>1. by[y] <= by[x] + had
        BY <1>5, <2>1, <3>3
      <4> QED
        BY <1>3, <3>2, <3>3, <4>1
    <3>4. CASE began = t /\ holds = 1 /\ (had = 0 \/ from + Hour <= t)
      <4>1. CASE had = 0
        BY <1>5, <3>2, <3>4, <4>1
      <4>2. CASE from + Hour <= t
        <5>1. from < x /\ x <= y
          BY <1>3, <2>1, <3>4, <4>2
        <5>2. by[y] = by[x]
          BY <1>5, <5>1
        <5> QED
          BY <3>2, <3>4, <5>2
      <4> QED
        BY <3>4, <4>1, <4>2
    <3> QED
      BY <1>6, <3>3, <3>4
  <2> QED
    BY <2>1
<1>15. Fits(byMore, passedMore, v, wait)
  BY <1>2, <1>6, <1>7, <1>9, <1>10, <1>11, <1>12, <1>13, <1>14 DEF Fits
<1> QED
  BY <1>8, <1>15 DEF Budgeted

(* A call is refused: the window counts it or does not. *)
LEMMA RefusalFits ==
    ASSUME NEW count, NEW w \in Window, NEW wait, Budgeted(count, w, wait),
           NEW v \in Window, v.start = w.start, w.count <= v.count, w.count # 0
    PROVE  Budgeted(count, v, wait)
<1>1. PICK passed, by : Passes(passed, count) /\ Fits(by, passed, w, wait)
  BY DEF Budgeted
<1>2. by \in [Nat -> Nat] /\ w.count \in Nat /\ v.count \in Nat /\ v.count # 0
  BY <1>1 DEF Fits, Window
<1>3. ASSUME NEW x \in Nat, NEW y \in Nat, x <= v.start, v.start < y, y <= x + Hour
      PROVE  by[y] <= by[x] + v.count
  <2>1. by[y] <= by[x] + w.count
    BY <1>1, <1>3 DEF Fits
  <2>2. by[x] \in Nat /\ by[y] \in Nat
    BY <1>2
  <2> QED
    BY <1>2, <2>1, <2>2
<1>4. Fits(by, passed, v, wait)
  BY <1>1, <1>2, <1>3 DEF Fits
<1> QED
  BY <1>1, <1>4 DEF Budgeted

(* A call that is let through by nobody opens a window: its answer is lost. *)
LEMMA LostOpeningFits ==
    ASSUME NEW count, NEW w \in Window, NEW wait, Budgeted(count, w, wait), NEW t \in Nat,
           w.count = 0 \/ w.start + Hour <= t,
           NEW v \in Window, v.start = t, v.count = 1
    PROVE  Budgeted(count, v, wait)
<1>1. PICK passed, by : Passes(passed, count) /\ Fits(by, passed, w, wait)
  BY DEF Budgeted
<1>2. PICK from \in Nat : from = w.start /\ Hour \in Nat
  BY RateAssumption DEF Window
<1>3. by \in [Nat -> Nat]
  BY <1>1 DEF Fits
<1>4. ASSUME NEW x \in Nat, NEW y \in Nat, t < y, x <= y, y <= x + Hour \/ t < x
      PROVE  by[y] = by[x]
  <2>1. CASE w.count = 0
    BY <1>1, <2>1 DEF Fits
  <2>2. CASE w.start + Hour <= t
    <3>1. from < x
      BY <1>2, <1>4, <2>2
    <3> QED
      BY <1>1, <1>2, <1>4, <3>1 DEF Fits
  <2> QED
    BY <2>1, <2>2
<1>5. \A x, y \in Nat : v.start < x /\ x <= y => by[y] = by[x]
  <2> SUFFICES ASSUME NEW x \in Nat, NEW y \in Nat, t < x, x <= y PROVE by[y] = by[x]
    OBVIOUS
  <2>1. t < y
    OBVIOUS
  <2> QED
    BY <1>4, <2>1
<1>6. \A x, y \in Nat : x <= v.start /\ v.start < y /\ y <= x + Hour => by[y] <= by[x] + v.count
  <2> SUFFICES ASSUME NEW x \in Nat, NEW y \in Nat, x <= t, t < y, y <= x + Hour
               PROVE  by[y] <= by[x] + 1
    OBVIOUS
  <2>1. x <= y
    OBVIOUS
  <2>2. by[y] = by[x] /\ by[x] \in Nat
    BY <1>3, <1>4, <2>1
  <2> QED
    BY <2>2
<1>7. Fits(by, passed, v, wait)
  BY <1>1, <1>5, <1>6 DEF Fits
<1> QED
  BY <1>1, <1>7 DEF Budgeted

(* Three windows, one after the other. *)
LEMMA ThreeWindows ==
    ASSUME NEW a \in Nat, NEW b \in Nat, NEW c \in Nat, NEW d \in Nat, NEW limit \in Nat,
           b <= a + limit, c <= b + limit, d <= c + limit
    PROVE  d <= a + 3 * limit
  OBVIOUS

(* What an hour holds. *)
LEMMA HoursHold ==
    ASSUME NEW count \in [0..MaxClock -> Nat], NEW w, NEW wait \in Nat, Budgeted(count, w, wait),
           NEW t \in Nat
    PROVE  \E through \in Nat :
             /\ through = Through(count, {u \in 0..MaxClock : t <= u /\ u < t + Hour})
             /\ wait = 0 => through <= 2 * TargetLimit
             /\ wait < Hour => through <= 3 * TargetLimit
<1>1. PICK passed, by : Passes(passed, count) /\ Fits(by, passed, w, wait)
  BY DEF Budgeted
<1>2. PICK through \in Nat :
        /\ through = Through(count, {u \in 0..MaxClock : t <= u /\ u < t + Hour})
        /\ through + passed[t] = passed[t + Hour]
  BY <1>1, HoursAreDifferences
<1>3. Hour \in Nat \ {0} /\ TargetLimit \in Nat
  BY RateAssumption
<1>4. PICK end \in Nat : end = t + Hour
  BY <1>3
<1>5. /\ by[0] = 0 /\ \A u \in Nat : by[u] \in Nat /\ passed[u] \in Nat
      /\ passed[end] <= by[end]
      /\ \A x \in Nat : x + Hour + wait <= t => by[x] <= passed[t]
      /\ \A x, y \in Nat : x <= y /\ y <= x + Hour => by[y] <= by[x] + TargetLimit
  BY ZenonT(30), <1>1, <1>4 DEF Passes, Fits
(* from is the last tick all of whose windows have closed. *)
<1>6. PICK from \in Nat :
        /\ by[from] <= passed[t]
        /\ from + Hour <= end /\ end <= from + Hour + Hour + wait
  <2>1. CASE Hour + wait <= t
    <3>1. PICK x \in Nat : x = t - (Hour + wait)
      BY <1>3, <2>1
    <3>2. x + Hour + wait <= t /\ x + Hour <= end /\ end <= x + Hour + Hour + wait
      BY <1>3, <1>4, <2>1, <3>1
    <3> QED
      BY <1>5, <3>2
  <2>2. CASE t < Hour + wait
    <3>1. by[0] <= passed[t]
      BY <1>5
    <3>2. 0 + Hour <= end /\ end <= 0 + Hour + Hour + wait
      BY <1>3, <1>4, <2>2
    <3> QED
      BY <3>1, <3>2
  <2> QED
    BY <1>3, <2>1, <2>2
<1>7. PICK next \in Nat, third \in Nat : next = from + Hour /\ third = next + Hour
  BY <1>3
<1>8. /\ by[from] \in Nat /\ by[next] \in Nat /\ by[third] \in Nat /\ by[end] \in Nat
      /\ passed[t] \in Nat /\ passed[end] \in Nat
  BY <1>5
<1>9. by[next] <= by[from] + TargetLimit
  <2>1. from <= next /\ next <= from + Hour
    BY <1>3, <1>7
  <2> QED
    BY <1>5, <2>1
<1>10. by[third] <= by[next] + TargetLimit
  <2>1. next <= third /\ third <= next + Hour
    BY <1>3, <1>7
  <2> QED
    BY <1>5, <2>1
<1>11. end <= third => by[end] <= by[next] + TargetLimit
  <2>1. next <= end /\ (end <= third => end <= next + Hour)
    BY <1>3, <1>6, <1>7
  <2> QED
    BY <1>5, <2>1
<1>12. wait < Hour /\ end > third => by[end] <= by[third] + TargetLimit
  <2>1. wait < Hour /\ end > third => third <= end /\ end <= third + Hour
    BY <1>3, <1>6, <1>7
  <2> QED
    BY <1>5, <2>1
<1>13. wait = 0 => end <= third
  BY <1>3, <1>6, <1>7
<1>14. through + passed[t] <= by[end]
  BY <1>2, <1>4, <1>5
<1>15. wait = 0 => through <= 2 * TargetLimit
  <2> HAVE wait = 0
  <2>1. by[end] <= by[next] + TargetLimit
    BY <1>11, <1>13
  <2> QED
    BY SMTT(30), <1>3, <1>6, <1>8, <1>9, <1>14, <2>1
<1>16. wait < Hour => through <= 3 * TargetLimit
  <2> HAVE wait < Hour
  <2>1. CASE end <= third
    <3>1. by[end] <= by[next] + TargetLimit
      BY <1>11, <2>1
    <3> QED
      BY SMTT(30), <1>3, <1>6, <1>8, <1>9, <1>14, <3>1
  <2>2. CASE end > third
    <3>1. by[end] <= by[third] + TargetLimit
      BY <1>12, <2>2
    <3>2. TargetLimit \in Nat
      BY <1>3
    <3>3. by[end] <= by[from] + 3 * TargetLimit
      BY <1>8, <1>9, <1>10, <3>1, <3>2, ThreeWindows
    <3>4. by[from] <= passed[t]
      BY <1>6
    <3> QED
      BY <1>3, <1>8, <1>14, <3>3, <3>4
  <2> QED
    BY <2>1, <2>2
<1> QED
  BY <1>2, <1>15, <1>16

-------------------------------------------------------------------------------
(* What the two limiters do to a window of the address's. *)
LEMMA LowerIs ==
    ASSUME NEW a \in Nat, NEW b \in Nat
    PROVE  (a <= b => Lower(a, b) = a) /\ (b <= a => Lower(a, b) = b)
<1>1. ASSUME a <= b PROVE Lower(a, b) = a
  <2>1. \A y \in {a, b} : a <= y
    BY <1>1
  <2>2. \A x \in {a, b} : (\A y \in {a, b} : x <= y) => x = a
    BY <1>1
  <2> QED
    BY <2>1, <2>2 DEF Lower, Min
<1>2. ASSUME b <= a PROVE Lower(a, b) = b
  <2>1. \A y \in {a, b} : b <= y
    BY <1>2
  <2>2. \A x \in {a, b} : (\A y \in {a, b} : x <= y) => x = b
    BY <1>2
  <2> QED
    BY <2>1, <2>2 DEF Lower, Min
<1> QED
  BY <1>1, <1>2

Opens(w, t, v) == (w.count = 0 \/ w.start + Hour <= t) /\ v.start = t /\ v.count = 1
Joins(w, t, v) ==
    /\ w.count # 0 /\ t < w.start + Hour /\ v.start = w.start
    /\ v.count = w.count + 1 /\ v.count <= TargetLimit
Keeps(w, v) == w.count # 0 /\ v.start = w.start /\ w.count <= v.count

LEMMA TargetBudget ==
    /\ Budget("target").limit = TargetLimit /\ Budget("target").length = Hour
    /\ TargetLimit \in Nat \ {0} /\ Hour \in Nat \ {0} /\ "target" \in Keys
  BY RateAssumption DEF Budget, Keys

LEMMA StoreCharges ==
    ASSUME NEW w \in Window, NEW t \in Nat,
           w.count <= TargetLimit + 1
    PROVE  /\ Upserted(w, "target", t).count <= TargetLimit + 1
           /\ DurableAllows(w, "target", t) =>
                 Opens(w, t, Upserted(w, "target", t)) \/ Joins(w, t, Upserted(w, "target", t))
           /\ ~DurableAllows(w, "target", t) => Keeps(w, Upserted(w, "target", t))
<1>1. w.start \in Nat /\ w.count \in Nat
  BY DEF Window
<1> DEFINE fresh == w.count = 0 \/ w.start + Hour <= t
<1>2. CASE fresh
  <2>1. Upserted(w, "target", t) = [start |-> t, count |-> 1]
    BY <1>2, TargetBudget DEF Upserted
  <2>2. DurableAllows(w, "target", t) /\ Opens(w, t, Upserted(w, "target", t))
    BY <1>2, <2>1, TargetBudget DEF DurableAllows, Opens
  <2> QED
    BY <2>1, <2>2, TargetBudget
<1>3. CASE ~fresh
  <2>1. PICK n \in Nat : n = Lower(w.count + 1, TargetLimit + 1)
    <3>1. w.count + 1 \in Nat /\ TargetLimit + 1 \in Nat
      BY <1>1, TargetBudget
    <3> QED
      BY <3>1, Bounded
  <2>2. /\ n <= TargetLimit + 1 /\ w.count <= n /\ n <= w.count + 1
        /\ n <= TargetLimit => n = w.count + 1
    <3>1. PICK had \in Nat : had = w.count /\ had <= TargetLimit + 1
      BY <1>1
    <3>2. had + 1 \in Nat /\ TargetLimit + 1 \in Nat /\ TargetLimit \in Nat
      BY TargetBudget
    <3>3. n = Lower(had + 1, TargetLimit + 1)
      BY <2>1, <3>1
    <3>4. /\ had + 1 <= TargetLimit + 1 => n = had + 1
          /\ TargetLimit + 1 <= had + 1 => n = TargetLimit + 1
      BY <3>2, <3>3, LowerIs
    <3>5. n <= TargetLimit + 1 /\ had <= n /\ n <= had + 1 /\ (n <= TargetLimit => n = had + 1)
      BY <3>1, <3>2, <3>4
    <3> QED
      BY <3>1, <3>5
  <2>3. Upserted(w, "target", t) = [w EXCEPT !.count = n]
    BY <1>3, <2>1, TargetBudget DEF Upserted
  <2>4. Upserted(w, "target", t).count = n /\ Upserted(w, "target", t).start = w.start
    BY <2>3 DEF Window
  <2>5. t < w.start + Hour /\ w.count # 0
    BY <1>1, <1>3, TargetBudget
  <2> QED
    BY <2>2, <2>4, <2>5, TargetBudget DEF DurableAllows, Joins, Keeps
<1> QED
  BY <1>2, <1>3

LEMMA InstanceCharges ==
    ASSUME NEW w \in Window, NEW t \in Nat, w.start <= t
    PROVE  /\ MemoryAllows(w, "target", t) =>
                 Opens(w, t, Counted(w, "target", t)) \/ Joins(w, t, Counted(w, "target", t))
           /\ ~MemoryAllows(w, "target", t) => Keeps(w, Counted(w, "target", t))
<1>1. w.start \in Nat /\ w.count \in Nat
  BY DEF Window
<1>2. (t - w.start >= Hour) <=> (w.start + Hour <= t)
  BY <1>1, TargetBudget
<1>3. CASE w.count = 0 \/ w.start + Hour <= t
  <2>1. Counted(w, "target", t) = [start |-> t, count |-> 1] /\ MemoryAllows(w, "target", t)
    BY <1>2, <1>3, TargetBudget DEF Counted, MemoryAllows
  <2> QED
    BY <1>3, <2>1 DEF Opens
<1>4. CASE w.count # 0 /\ ~(w.start + Hour <= t) /\ w.count < TargetLimit
  <2>1. Counted(w, "target", t) = [w EXCEPT !.count = w.count + 1] /\ MemoryAllows(w, "target", t)
    BY <1>2, <1>4, TargetBudget DEF Counted, MemoryAllows
  <2>2. Counted(w, "target", t).start = w.start /\ Counted(w, "target", t).count = w.count + 1
    BY <2>1 DEF Window
  <2>3. t < w.start + Hour /\ w.count + 1 <= TargetLimit
    BY <1>1, <1>4, TargetBudget
  <2> QED
    BY <1>4, <2>1, <2>2, <2>3 DEF Joins
<1>5. CASE w.count # 0 /\ ~(w.start + Hour <= t) /\ ~(w.count < TargetLimit)
  <2>1. Counted(w, "target", t) = w /\ ~MemoryAllows(w, "target", t)
    BY <1>2, <1>5, TargetBudget DEF Counted, MemoryAllows
  <2> QED
    BY <1>1, <1>5, <2>1 DEF Keeps
<1> QED
  BY <1>3, <1>4, <1>5

-------------------------------------------------------------------------------
(* A call on its way to the mail is at a key of the mail's. *)
MailFits(c) ==
    /\ c.pc \in {"cap", "approve", "cool"} => c.row = 0
    /\ c.pc = "reserve" => c.row \in 0..2
MailInv == \A r \in Calls : MailFits(call[r])

BudgetInv ==
    /\ durable["target"].count <= TargetLimit + 1
    /\ Budgeted(tally.admitted, durable["target"], MaxWait)
    /\ Budgeted(tally.fallback, memory["target"], 0)

LEMMA MovesFitMail ==
    ASSUME GateInv, MailInv, NEW r \in Calls,
           \/ Finish(r)
           \/ \E label \in Stages : Proceed(r, label) /\ (label \in {"cap", "approve", "cool", "reserve"} => call[r].row = 0)
           \/ \E c \in CallShape : call' = [call EXCEPT ![r] = c] /\ MailFits(c)
    PROVE  MailInv'
<1>1. call \in [Calls -> CallShape]
  BY DEF GateInv, CallInv
<1>2. CASE \E c \in CallShape : call' = [call EXCEPT ![r] = c] /\ MailFits(c)
  BY <1>1, <1>2 DEF MailInv
<1>3. CASE Finish(r)
  <2>1. MailFits(Resting)
    BY DEF MailFits, Resting
  <2> QED
    BY <1>2, <1>3, <2>1, RestingFits DEF Finish
<1>4. CASE \E label \in Stages : Proceed(r, label) /\ (label \in {"cap", "approve", "cool", "reserve"} => call[r].row = 0)
  <2>1. PICK label \in Stages :
          Proceed(r, label) /\ (label \in {"cap", "approve", "cool", "reserve"} => call[r].row = 0)
    BY <1>4
  <2>2. PICK c \in CallShape :
          call' = [call EXCEPT ![r] = c] /\ c.pc = label /\ c.row = call[r].row
    BY <2>1, ProceedIs
  <2>3. MailFits(c)
    BY <2>1, <2>2 DEF MailFits
  <2> QED
    BY <1>2, <2>2, <2>3
<1> QED
  BY <1>2, <1>3, <1>4

LEMMA ArrivalsFitMail ==
    ASSUME GateInv, MailInv, NEW r \in Calls, RequestAccess(r) \/ SendBuyerInvite(r) \/ VerifyAccess(r)
    PROVE  MailInv'
<1>1. PICK label, guess, row : Arrive(r, label, guess, row)
          /\ label \in {"approve", "append", "charge"} /\ (label = "approve" => row = 0)
  BY DEF RequestAccess, SendBuyerInvite, VerifyAccess
<1>2. PICK since : since = IF label = "charge" THEN clock ELSE 0
  OBVIOUS
<1>3. PICK c : c = [Resting EXCEPT !.pc = label, !.guess = guess, !.row = row, !.since = since]
  OBVIOUS
<1>4. c.pc = label /\ c.row = row
  BY <1>3 DEF Resting
<1>5. call' = [call EXCEPT ![r] = c]
  BY <1>1, <1>2, <1>3 DEF Arrive
<1>6. MailFits(c)
  BY <1>1, <1>4 DEF MailFits
<1> QED
  BY <1>5, <1>6 DEF MailInv, GateInv, CallInv

LEMMA MailStepKeeps == GateInv /\ MailInv /\ [GateNext]_gateVars => MailInv'
<1> SUFFICES ASSUME GateInv, MailInv, [GateNext]_gateVars PROVE MailInv'
  OBVIOUS
<1>1. ASSUME NEW r \in Calls, IssueStep(r) PROVE MailInv'
  <2>1. /\ call \in [Calls -> CallShape] /\ call[r] \in CallShape /\ MailFits(call[r])
    BY DEF GateInv, CallInv, MailInv
  <2>2. CASE RequestAccess(r) \/ SendBuyerInvite(r)
    BY <2>2, ArrivalsFitMail
  <2>3. CASE AppendWhitelist(r)
    <3>1. CASE \E n \in {1, 2} : call' = [call EXCEPT ![r].seen = n]
      <4>1. PICK n \in {1, 2} : call' = [call EXCEPT ![r].seen = n]
        BY <3>1
      <4>2. PICK c : c = [call[r] EXCEPT !.seen = n]
        OBVIOUS
      <4>3. call[r].pc = "append"
        BY <2>3 DEF AppendWhitelist, At
      <4>4. c.pc = "append" /\ c \in CallShape
        BY <2>1, <4>2, <4>3 DEF CallShape
      <4>5. MailFits(c) /\ call' = [call EXCEPT ![r] = c]
        BY <2>1, <4>1, <4>2, <4>4 DEF MailFits
      <4> QED
        BY <4>4, <4>5, MovesFitMail
    <3>2. CASE Finish(r) \/ (Proceed(r, "cap") /\ call[r].row = 0)
      BY <3>2, MovesFitMail DEF Stages
    <3> QED
      BY <2>3, <3>1, <3>2 DEF AppendWhitelist
  <2>4. CASE CountInvites(r) \/ ReadApproval(r) \/ ReadCooldown(r)
    <3>1. call[r].row = 0
      BY <2>1, <2>4 DEF CountInvites, ReadApproval, ReadCooldown, At, MailFits
    <3>2. Finish(r) \/ \E label \in Stages : Proceed(r, label)
      BY <2>4 DEF CountInvites, ReadApproval, ReadCooldown, Stages
    <3> QED
      BY <3>1, <3>2, MovesFitMail
  <2>5. CASE ReserveEmail(r)
    <3>1. call[r].row \in 0..2 /\ call[r].pc = "reserve"
      BY <2>1, <2>5 DEF ReserveEmail, At, MailFits
    <3>2. PICK step \in 1..3 : step = call[r].row + 1
      BY <3>1
    <3>3. CASE step < 3 /\ call' = [call EXCEPT ![r].row = step, ![r].since = clock]
      <4>1. PICK half : half = [call[r] EXCEPT !.row = step]
        OBVIOUS
      <4>2. half.pc = "reserve" /\ half.row = step /\ DOMAIN half = DOMAIN call[r]
        BY <2>1, <3>1, <4>1 DEF CallShape
      <4>3. PICK c : c = [half EXCEPT !.since = clock]
        OBVIOUS
      <4>4. c.pc = "reserve" /\ c.row = step
        BY <2>1, <4>1, <4>2, <4>3 DEF CallShape
      <4>5. call' = [call EXCEPT ![r] = c]
        BY <2>1, <3>3, <4>1, <4>3
      <4>6. MailFits(c)
        BY <3>3, <4>4 DEF MailFits
      <4> QED
        BY <2>1, <4>5, <4>6 DEF MailInv
    <3>4. CASE Finish(r) \/ Proceed(r, "insert")
      BY <3>4, MovesFitMail DEF Stages
    <3> QED
      BY <2>5, <3>2, <3>3, <3>4 DEF ReserveEmail
  <2>6. CASE InsertCode(r) \/ SendCode(r)
    BY <2>6, MovesFitMail DEF InsertCode, SendCode, Stages
  <2> QED
    BY <1>1, <2>2, <2>3, <2>4, <2>5, <2>6 DEF IssueStep
<1>2. ASSUME NEW r \in Calls, VerifyStep(r) PROVE MailInv'
  <2>1. CASE VerifyAccess(r)
    BY <2>1, ArrivalsFitMail
  <2>2. CASE ChargeGuess(r) \/ ReadSpent(r) \/ RecordFailedAttempt(r) \/ ConsumeToken(r)
             \/ EnterPortal(r) \/ CallDies(r)
    <3>1. Finish(r) \/ \E label \in {"spent", "read", "enter"} : Proceed(r, label)
      BY <2>2 DEF ChargeGuess, ReadSpent, RecordFailedAttempt, ConsumeToken, EnterPortal, CallDies
    <3> QED
      BY <3>1, MovesFitMail DEF Stages
  <2>3. CASE ReadPending(r)
    <3>1. call'[r].pc \notin {"cap", "approve", "cool", "reserve"}
          /\ \A q \in Calls \ {r} : call'[q] = call[q]
      <4>1. call \in [Calls -> CallShape] /\ Resting.pc = "idle"
        BY RestingFits DEF GateInv, CallInv
      <4>2. CASE Finish(r)
        BY <4>1, <4>2 DEF Finish
      <4>3. CASE call' = [call EXCEPT ![r].pc = "consume", ![r].row = call[r].guess]
        BY <4>1, <4>3 DEF CallShape
      <4>4. CASE call' = [call EXCEPT ![r].pc = "miss", ![r].row = Max(Usable),
                                      ![r].seen = codes[Max(Usable)].attempts]
        <5>1. PICK row, n : row = Max(Usable) /\ n = codes[row].attempts
          OBVIOUS
        <5>2. call' = [call EXCEPT ![r].pc = "miss", ![r].row = row, ![r].seen = n]
          BY <4>4, <5>1
        <5> QED
          BY <4>1, <5>2 DEF CallShape
      <4> QED
        BY <2>3, <4>2, <4>3, <4>4 DEF ReadPending, RefuseAlike
    <3> QED
      BY <3>1 DEF MailInv, MailFits
  <2> QED
    BY <1>2, <2>1, <2>2, <2>3 DEF VerifyStep
<1>3. CASE Tick \/ ReserveForNobody \/ UNCHANGED gateVars
  BY <1>3 DEF Tick, ReserveForNobody, gateVars, MailInv
<1> QED
  BY <1>1, <1>2, <1>3 DEF GateNext

(* Where the address's guesses are not charged, nothing of this changes. *)
LEMMA BudgetStays ==
    ASSUME BudgetInv, durable'["target"] = durable["target"], memory'["target"] = memory["target"],
           tally'.admitted = tally.admitted, tally'.fallback = tally.fallback
    PROVE  BudgetInv'
  BY DEF BudgetInv

LEMMA MailChargesSpareTarget ==
    ASSUME GateInv, NEW r \in Calls, NEW key \in {"tenantHour", "tenantDay", "global"}, NEW ok,
           Charge(r, key, ok)
    PROVE  durable'["target"] = durable["target"] /\ memory'["target"] = memory["target"]
<1>1. /\ durable \in [Keys -> Window] /\ memory \in [Keys -> Window]
      /\ key # "target" /\ "target" \in Keys
  BY TargetBudget DEF GateInv, WindowsInv
<1> QED
  BY <1>1 DEF Charge

LEMMA GuessesFit ==
    ASSUME GateInv, BudgetInv, NEW r \in Calls, ChargeGuess(r)
    PROVE  BudgetInv'
<1>1. PICK ok \in BOOLEAN :
        /\ Charge(r, "target", ok)
        /\ tally' = IF ~ok THEN tally
                    ELSE IF trouble' = trouble
                    THEN [tally EXCEPT !.admitted[clock] = @ + 1]
                    ELSE [tally EXCEPT !.fallback[clock] = @ + 1]
  BY DEF ChargeGuess
<1>2. /\ durable \in [Keys -> Window] /\ memory \in [Keys -> Window] /\ "target" \in Keys
      /\ durable["target"].start <= clock /\ memory["target"].start <= clock
      /\ clock \in 0..MaxClock /\ clock \in Nat /\ MaxWait \in Nat /\ call[r].since \in Nat
      /\ trouble \in Nat /\ tally \in TallyShape
  BY Constants DEF GateInv, WindowsInv, RestInv, CallInv, CallShape, Keys
<1>3. PICK w \in Window, m \in Window, admitted \in [0..MaxClock -> Nat],
           fallback \in [0..MaxClock -> Nat], c \in 0..MaxClock :
        /\ w = durable["target"] /\ m = memory["target"] /\ c = clock
        /\ admitted = tally.admitted /\ fallback = tally.fallback
  BY <1>2 DEF TallyShape
<1>4. /\ w.count <= TargetLimit + 1 /\ w.start <= c /\ m.start <= c /\ c \in Nat
      /\ Budgeted(admitted, w, MaxWait) /\ Budgeted(fallback, m, 0)
  BY <1>2, <1>3 DEF BudgetInv
<1>5. CASE \E t \in {x \in call[r].since..clock : x + MaxWait >= clock} :
             /\ durable' = [durable EXCEPT !["target"] = Upserted(@, "target", t)]
             /\ ok = DurableAllows(durable["target"], "target", t)
             /\ UNCHANGED <<memory, trouble>>
  <2>1. PICK t \in Nat :
          /\ t <= c /\ c <= t + MaxWait
          /\ durable' = [durable EXCEPT !["target"] = Upserted(@, "target", t)]
          /\ ok = DurableAllows(w, "target", t) /\ UNCHANGED <<memory, trouble>>
    <3>1. PICK t \in {x \in call[r].since..clock : x + MaxWait >= clock} :
             /\ durable' = [durable EXCEPT !["target"] = Upserted(@, "target", t)]
             /\ ok = DurableAllows(durable["target"], "target", t)
             /\ UNCHANGED <<memory, trouble>>
      BY <1>5
    <3>2. t \in Nat /\ t <= clock /\ clock <= t + MaxWait
      BY <1>2
    <3> QED
      BY <1>3, <3>1, <3>2
  <2>2. PICK v \in Window : v = Upserted(w, "target", t)
    BY <1>2, WindowsAreWindows
  <2>3. durable'["target"] = v /\ memory'["target"] = m
    BY <1>2, <1>3, <2>1, <2>2
  <2>4. /\ v.count <= TargetLimit + 1
        /\ ok => Opens(w, t, v) \/ Joins(w, t, v)
        /\ ~ok => Keeps(w, v)
    BY <1>4, <2>1, <2>2, StoreCharges
  <2>5. CASE ok
    <3>1. tally' = [tally EXCEPT !.admitted[clock] = @ + 1]
      BY <1>1, <2>1, <2>5
    <3>2. PICK more : more = [admitted EXCEPT ![c] = @ + 1]
      OBVIOUS
    <3>3. tally' = [tally EXCEPT !.admitted = more]
      BY <1>2, <1>3, <3>1, <3>2 DEF TallyShape
    <3>4. tally'.admitted = more /\ tally'.fallback = fallback
      BY <1>2, <1>3, <3>3 DEF TallyShape
    <3>5. \/ w.count = 0 /\ v.start = t /\ v.count = 1
          \/ w.start + Hour <= t /\ v.start = t /\ v.count = 1
          \/ w.count # 0 /\ t < w.start + Hour /\ v.start = w.start
             /\ v.count = w.count + 1 /\ v.count <= TargetLimit
      BY <2>4, <2>5 DEF Opens, Joins
    <3>6. Budgeted(more, v, MaxWait)
      BY <1>2, <1>4, <2>1, <3>2, <3>5, AdmissionFits
    <3> QED
      BY <1>4, <2>3, <2>4, <3>4, <3>6 DEF BudgetInv
  <2>6. CASE ~ok
    <3>1. tally' = tally
      BY <1>1, <2>6
    <3>2. Budgeted(admitted, v, MaxWait)
      BY <1>2, <1>4, <2>4, <2>6, RefusalFits DEF Keeps
    <3> QED
      BY <1>3, <1>4, <2>3, <2>4, <3>1, <3>2 DEF BudgetInv
  <2> QED
    BY <2>5, <2>6
<1>6. CASE /\ Trouble
           /\ memory' = [memory EXCEPT !["target"] = Counted(@, "target", clock)]
           /\ ok = MemoryAllows(memory["target"], "target", clock)
           /\ durable' \in {durable} \cup {[durable EXCEPT !["target"] = Upserted(@, "target", t)] :
                                t \in {x \in call[r].since..clock : x + MaxWait >= clock}}
  <2>1. PICK v \in Window : v = Counted(m, "target", c)
    BY <1>2, <1>4, WindowsAreWindows
  <2>2. memory'["target"] = v
    BY <1>2, <1>3, <1>6, <2>1
  <2>7. PICK d \in Window :
          /\ durable'["target"] = d /\ d.count <= TargetLimit + 1
          /\ Budgeted(admitted, d, MaxWait)
    <3>1. CASE durable' = durable
      BY <1>3, <1>4, <3>1
    <3>2. CASE \E x \in call[r].since..clock :
                  durable' = [durable EXCEPT !["target"] = Upserted(@, "target", x)]
      <4>1. PICK x \in call[r].since..clock :
                  durable' = [durable EXCEPT !["target"] = Upserted(@, "target", x)]
        BY <3>2
      <4>2. x \in Nat
        BY <1>2
      <4>3. PICK d \in Window : d = Upserted(w, "target", x)
        BY <1>2, <4>2, WindowsAreWindows
      <4>4. durable'["target"] = d /\ d.count <= TargetLimit + 1
        BY <1>2, <1>3, <1>4, <4>1, <4>2, <4>3, StoreCharges
      <4>5. Opens(w, x, d) \/ Joins(w, x, d) \/ Keeps(w, d)
        BY <1>4, <4>2, <4>3, StoreCharges
      <4>6. ASSUME Opens(w, x, d) PROVE Budgeted(admitted, d, MaxWait)
        BY <1>4, <4>2, <4>6, LostOpeningFits DEF Opens
      <4>7. ASSUME Joins(w, x, d) \/ Keeps(w, d) PROVE Budgeted(admitted, d, MaxWait)
        <5>1. w.count # 0 /\ d.start = w.start /\ w.count <= d.count
          BY <4>7 DEF Joins, Keeps, Window
        <5> QED
          BY <1>4, <5>1, RefusalFits
      <4>8. Budgeted(admitted, d, MaxWait)
        BY <4>5, <4>6, <4>7
      <4> QED
        BY <4>4, <4>8
    <3> QED
      BY <1>6, <3>1, <3>2
  <2>3. /\ ok => Opens(m, c, v) \/ Joins(m, c, v)
        /\ ~ok => Keeps(m, v)
    BY <1>3, <1>4, <1>6, <2>1, InstanceCharges
  <2>4. trouble' # trouble
    BY <1>2, <1>6 DEF Trouble
  <2>5. CASE ok
    <3>1. tally' = [tally EXCEPT !.fallback[clock] = @ + 1]
      BY <1>1, <2>4, <2>5
    <3>2. PICK more : more = [fallback EXCEPT ![c] = @ + 1]
      OBVIOUS
    <3>3. tally' = [tally EXCEPT !.fallback = more]
      BY <1>2, <1>3, <3>1, <3>2 DEF TallyShape
    <3>4. tally'.fallback = more /\ tally'.admitted = admitted
      BY <1>2, <1>3, <3>3 DEF TallyShape
    <3>5. \/ m.count = 0 /\ v.start = c /\ v.count = 1
          \/ m.start + Hour <= c /\ v.start = c /\ v.count = 1
          \/ m.count # 0 /\ c < m.start + Hour /\ v.start = m.start
             /\ v.count = m.count + 1 /\ v.count <= TargetLimit
      BY <2>3, <2>5 DEF Opens, Joins
    <3>6. c <= c /\ c <= c + 0 /\ 0 \in Nat
      BY <1>4
    <3>7. Budgeted(more, v, 0)
      BY <1>4, <3>2, <3>5, <3>6, AdmissionFits
    <3> QED
      BY <2>2, <2>7, <3>4, <3>7 DEF BudgetInv
  <2>6. CASE ~ok
    <3>1. tally' = tally
      BY <1>1, <2>6
    <3>2. Budgeted(fallback, v, 0)
      BY <1>4, <2>3, <2>6, RefusalFits DEF Keeps
    <3> QED
      BY <1>3, <2>2, <2>7, <3>1, <3>2 DEF BudgetInv
  <2> QED
    BY <2>5, <2>6
<1> QED
  BY <1>1, <1>5, <1>6 DEF Charge

LEMMA BudgetStepKeeps == GateInv /\ MailInv /\ BudgetInv /\ [GateNext]_gateVars => BudgetInv'
<1> SUFFICES ASSUME GateInv, MailInv, BudgetInv, [GateNext]_gateVars PROVE BudgetInv'
  OBVIOUS
<1>1. UNCHANGED <<durable, memory, tally>> => BudgetInv'
  BY BudgetStays
<1>2. ASSUME NEW r \in Calls, IssueStep(r) PROVE BudgetInv'
  <2>1. CASE ReserveEmail(r)
    <3>1. call[r].row \in 0..2
      BY <2>1 DEF MailInv, MailFits, ReserveEmail, At
    <3>2. PICK step \in 1..3 : step = call[r].row + 1
      BY <3>1
    <3>3. MailKeys[step] \in {"tenantHour", "tenantDay", "global"}
      BY DEF MailKeys
    <3>4. PICK ok \in BOOLEAN : Charge(r, MailKeys[step], ok)
      BY <2>1, <3>2 DEF ReserveEmail
    <3>5. durable'["target"] = durable["target"] /\ memory'["target"] = memory["target"]
      BY SMTT(30), <3>3, <3>4, MailChargesSpareTarget
    <3> QED
      BY <2>1, <3>5, BudgetStays DEF ReserveEmail
  <2> QED
    BY <1>1, <1>2, <2>1
    DEF IssueStep, RequestAccess, SendBuyerInvite, Arrive, AppendWhitelist, CountInvites,
        ReadApproval, ReadCooldown, InsertCode, SendCode
<1>3. ASSUME NEW r \in Calls, VerifyStep(r) PROVE BudgetInv'
  <2>1. CASE ChargeGuess(r)
    BY <2>1, GuessesFit
  <2>2. CASE RecordFailedAttempt(r) \/ EnterPortal(r)
    <3>1. tally'.admitted = tally.admitted /\ tally'.fallback = tally.fallback
      BY <2>2 DEF RecordFailedAttempt, EnterPortal, GateInv, RestInv, TallyShape
    <3>2. UNCHANGED <<durable, memory>>
      BY <2>2 DEF RecordFailedAttempt, EnterPortal
    <3> QED
      BY <3>1, <3>2, BudgetStays
  <2> QED
    BY <1>1, <1>3, <2>1, <2>2
    DEF VerifyStep, VerifyAccess, Arrive, ReadSpent, ReadPending, ConsumeToken, CallDies
<1>4. CASE ReserveForNobody
  <2>1. durable'["target"] = durable["target"]
    BY <1>4 DEF ReserveForNobody, GateInv, WindowsInv
  <2> QED
    BY <1>4, <2>1, BudgetStays DEF ReserveForNobody
<1>5. CASE Tick \/ UNCHANGED gateVars
  BY <1>1, <1>5 DEF Tick, gateVars
<1> QED
  BY <1>2, <1>3, <1>4, <1>5 DEF GateNext

(* At first at most one guess has been let through, at 0, in a window of 0. *)
LEMMA FirstFits ==
    ASSUME NEW n \in {0, 1}, NEW count, count = [[u \in 0..MaxClock |-> 0] EXCEPT ![0] = n],
           NEW wait \in Nat
    PROVE  Budgeted(count, [start |-> 0, count |-> n], wait)
<1> DEFINE sofar == [u \in Nat |-> IF u > 0 THEN n ELSE 0]
<1>1. MaxClock \in Nat /\ 0 \in 0..MaxClock /\ Hour \in Nat /\ TargetLimit \in Nat \ {0}
  BY Constants, TargetBudget
<1>2. /\ sofar \in [Nat -> Nat] /\ sofar[0] = 0
      /\ \A u \in Nat : sofar[u] \in 0..n /\ (u > 0 => sofar[u] = n)
  OBVIOUS
<1> HIDE DEF sofar
<1>3. Passes(sofar, count)
  <2>1. ASSUME NEW u \in Nat
        PROVE  sofar[u + 1] = sofar[u] + (IF u \in 0..MaxClock THEN count[u] ELSE 0)
    <3>1. u + 1 \in Nat /\ u + 1 > 0
      OBVIOUS
    <3>2. sofar[u + 1] = n
      BY <1>2, <3>1
    <3>3. CASE u = 0
      <4>1. u \in 0..MaxClock /\ count[u] = n
        BY <1>1, <3>3
      <4> QED
        BY <1>2, <3>2, <3>3, <4>1
    <3>4. CASE u > 0
      <4>1. (IF u \in 0..MaxClock THEN count[u] ELSE 0) = 0
        BY <3>4
      <4> QED
        BY <1>2, <3>2, <3>4, <4>1
    <3> QED
      BY <3>3, <3>4
  <2> QED
    BY <1>2, <2>1 DEF Passes
<1>4. ASSUME NEW x \in Nat, NEW u \in Nat, x + Hour + wait <= u PROVE sofar[x] <= sofar[u]
  <2>1. x > 0 => u > 0
    BY <1>1, <1>4
  <2>2. sofar[x] \in 0..n /\ sofar[u] \in 0..n /\ (x > 0 => sofar[x] = n) /\ (u > 0 => sofar[u] = n)
    BY <1>2
  <2>3. x = 0 => sofar[x] = 0
    BY <1>2
  <2> QED
    BY <2>1, <2>2, <2>3
<1>5. ASSUME NEW x \in Nat, NEW y \in Nat PROVE sofar[y] <= sofar[x] + n /\ sofar[x] \in Nat
  BY <1>2
<1>6. ASSUME NEW x \in Nat, NEW y \in Nat PROVE sofar[y] <= sofar[x] + TargetLimit
  BY <1>1, <1>2
<1>7. \A x, y \in Nat : 0 < x /\ x <= y => sofar[y] = sofar[x]
  BY <1>2
<1>8. n = 0 => \A x \in Nat : sofar[x] = 0
  BY <1>2
<1>9. \A u \in Nat : sofar[u] <= sofar[u]
  BY <1>2
<1>10. Fits(sofar, sofar, [start |-> 0, count |-> n], wait)
  BY <1>2, <1>4, <1>5, <1>6, <1>7, <1>8, <1>9 DEF Fits
<1> QED
  BY <1>3, <1>10 DEF Budgeted

LEMMA InitBudgetInv == GateInit => MailInv /\ BudgetInv
<1> SUFFICES ASSUME GateInit PROVE MailInv /\ BudgetInv
  OBVIOUS
<1>1. PICK before \in {Fresh, Known} :
        LET sent == Len(before.made) IN
        /\ durable = [key \in Keys |-> Used(IF key = "target" THEN before.asked ELSE sent)]
        /\ memory = [key \in Keys |-> Unopened]
        /\ call = [r \in Calls |-> Resting]
        /\ tally = [NoTally EXCEPT !.admitted[0] = before.asked]
  BY DEF GateInit
<1>2. PICK n \in {0, 1} : n = before.asked
  BY DEF Fresh, Known
<1>3. /\ durable["target"] = [start |-> 0, count |-> n]
      /\ memory["target"] = [start |-> 0, count |-> 0]
  BY <1>1, <1>2, TargetBudget DEF Used, Unopened
<1>4. /\ tally.admitted = [[u \in 0..MaxClock |-> 0] EXCEPT ![0] = n]
      /\ tally.fallback = [[u \in 0..MaxClock |-> 0] EXCEPT ![0] = 0]
  <2>1. PICK admitted : admitted = [[u \in 0..MaxClock |-> 0] EXCEPT ![0] = n]
    OBVIOUS
  <2>2. tally = [NoTally EXCEPT !.admitted = admitted]
    BY <1>1, <1>2, <2>1 DEF NoTally
  <2>3. tally.admitted = admitted /\ tally.fallback = [u \in 0..MaxClock |-> 0]
    BY <2>2 DEF NoTally
  <2>4. [[u \in 0..MaxClock |-> 0] EXCEPT ![0] = 0] = [u \in 0..MaxClock |-> 0]
    OBVIOUS
  <2> QED
    BY <2>1, <2>3, <2>4
<1>5. /\ Budgeted(tally.admitted, durable["target"], MaxWait)
      /\ Budgeted(tally.fallback, memory["target"], 0)
  <2>1. MaxWait \in Nat /\ 0 \in Nat /\ 0 \in {0, 1}
    BY Constants
  <2>2. Budgeted([[u \in 0..MaxClock |-> 0] EXCEPT ![0] = n], [start |-> 0, count |-> n], MaxWait)
    BY <2>1, FirstFits
  <2>3. Budgeted([[u \in 0..MaxClock |-> 0] EXCEPT ![0] = 0], [start |-> 0, count |-> 0], 0)
    BY <2>1, FirstFits
  <2> QED
    BY <1>3, <1>4, <2>2, <2>3
<1>6. durable["target"].count <= TargetLimit + 1
  BY <1>3, TargetBudget
<1>7. MailInv
  BY <1>1, RestingFits DEF MailInv, MailFits
<1> QED
  BY <1>5, <1>6, <1>7 DEF BudgetInv

(* 0016_check_rate_limit.sql and src/lib/rate-limit.ts, ahead of
   verifyAccess: over any hour the store lets through three budgets of guesses
   at an address at the most, a late charge included, and an instance that
   stands in for it two, for any calls and budgets and for any wait shorter
   than the hour. *)
THEOREM GuessBudgetAlways == GateSpec => []GuessBudget
<1>1. GateInv /\ BudgetInv => GuessBudget
  <2> SUFFICES ASSUME GateInv, BudgetInv, NEW t \in 0..MaxClock
               PROVE  /\ Through(tally.admitted, {u \in 0..MaxClock : t <= u /\ u < t + Hour})
                            <= 3 * TargetLimit
                      /\ Through(tally.fallback, {u \in 0..MaxClock : t <= u /\ u < t + Hour})
                            <= 2 * TargetLimit
    BY DEF GuessBudget, Through
  <2>1. /\ tally.admitted \in [0..MaxClock -> Nat] /\ tally.fallback \in [0..MaxClock -> Nat]
        /\ t \in Nat /\ MaxWait \in Nat /\ 0 \in Nat
    BY Constants DEF GateInv, RestInv, TallyShape
  <2>2. /\ Budgeted(tally.admitted, durable["target"], MaxWait)
        /\ Budgeted(tally.fallback, memory["target"], 0)
    BY DEF BudgetInv
  <2>3. MaxWait < Hour
    BY GateAssumption
  <2>4. Through(tally.admitted, {u \in 0..MaxClock : t <= u /\ u < t + Hour}) <= 3 * TargetLimit
    BY SMTT(30), <2>1, <2>2, <2>3, HoursHold
  <2>5. Through(tally.fallback, {u \in 0..MaxClock : t <= u /\ u < t + Hour}) <= 2 * TargetLimit
    BY <2>1, <2>2, HoursHold
  <2> QED
    BY <2>4, <2>5
<1>2. GateSpec => [](MailInv /\ BudgetInv)
  BY InitBudgetInv, MailStepKeeps, BudgetStepKeeps, GateInvAlways, PTL DEF GateSpec
<1> QED
  BY <1>1, <1>2, GateInvAlways, PTL
===============================================================================
