----------------------------- MODULE CallersProofs -----------------------------
(***************************************************************************)
(* Proofs about the components where several callers meet, for any number  *)
(* of callers: the CRM connection and its tokens; a seller's account; who  *)
(* is let into a deal; and the five components of MCCallers together.      *)
(***************************************************************************)
EXTENDS MCCallers, PortalGateProofs, DealRoomProofs

-------------------------------------------------------------------------------
(* The CRM connection and its tokens. *)
Places == Instances \cup {"nowhere"}
CrmCallShape ==
    [pc : CrmSteps, then : {"build", "request", "retry"}, token : Nat, fresh : Nat, warned : BOOLEAN]
CrmShape == [CrmCalls -> [at : Places, call : CrmCallShape]]

(* Tokens are those the provider has issued. *)
TokensInv ==
    /\ newest \in 1..MaxTokens /\ stored \in 0..newest /\ accepted \subseteq 1..newest
    /\ provider \in {"hubspot", "salesforce"} /\ consent \subseteq {"state", "verifier"}
    /\ cached \subseteq Instances /\ crmArrivals \in 0..MaxCrmCalls
    /\ tangled \in BOOLEAN /\ spoiled \in BOOLEAN /\ left \subseteq 1..newest

(* A call runs somewhere. *)
CallsInv ==
    /\ crm \in CrmShape
    /\ \A c \in CrmCalls : /\ (PC(c) = "idle") = (crm[c].at = "nowhere")
                           /\ crm[c].call.fresh <= newest /\ crm[c].call.token <= newest

(* Where writers did not overlap there is but one, and nothing has happened
   behind its back: the token it is about to store is taken, the one it revokes
   is the stored one, and what it is about to delete is revoked. *)
QuietInv ==
    ~tangled =>
        /\ \A c, d \in CrmCalls : Busy(c) /\ Busy(d) => c = d
        /\ \A c \in CrmCalls :
              /\ PC(c) \in {"save", "persist"} => crm[c].call.fresh \in accepted
              /\ PC(c) = "revoke" => crm[c].call.token = stored
              /\ PC(c) = "delete" /\ ~crm[c].call.warned => stored = 0 \/ stored \notin accepted

(* Between a change at the provider and its being stored, the row may lag;
   at no other time does it. *)
Owed(c) == PC(c) \in {"save", "persist", "delete"}
StoredInv == stored # 0 /\ ~spoiled /\ (\A c \in CrmCalls : ~Owed(c)) => stored \in accepted

(* The token of a clean disconnect is neither taken nor stored, and no call
   holds it for storing. *)
LeftInv ==
    /\ left \cap accepted = {} /\ stored \notin left
    /\ \A c \in CrmCalls : PC(c) \in {"save", "persist"} => crm[c].call.fresh \notin left

CrmInv == TokensInv /\ CallsInv /\ QuietInv /\ StoredInv /\ LeftInv

-------------------------------------------------------------------------------
(* What a step does to the calls. *)
LEMMA CrmConstants == MaxTokens \in Nat \ {0} /\ MaxCrmCalls \in Nat /\ "nowhere" \notin Instances
  BY CrmAssumption

LEMMA InitCrmInv == CrmInit => CrmInv
<1> SUFFICES ASSUME CrmInit PROVE CrmInv
  OBVIOUS
<1>1. AtEase \in [at : Places, call : CrmCallShape]
  BY DEF AtEase, NoCall, Places, CrmCallShape, CrmSteps
<1>2. crm \in CrmShape /\ \A c \in CrmCalls : crm[c] = AtEase
  BY <1>1 DEF CrmInit, CrmShape
<1>3. TokensInv
  <2>1. newest = 1 /\ 1 \in 1..MaxTokens /\ 0 \in 0..MaxCrmCalls /\ stored \in 0..1 /\ accepted \subseteq {1}
    BY CrmConstants DEF CrmInit
  <2>2. newest \in 1..MaxTokens /\ stored \in 0..newest /\ accepted \subseteq 1..newest
    BY <2>1
  <2>3. tangled \in BOOLEAN /\ spoiled \in BOOLEAN /\ left \subseteq 1..newest
    BY DEF CrmInit
  <2>4. provider \in {"hubspot", "salesforce"} /\ consent = {} /\ cached = {} /\ crmArrivals = 0
    BY DEF CrmInit
  <2> QED
    BY <2>1, <2>2, <2>3, <2>4 DEF TokensInv
<1>4. \A c \in CrmCalls : /\ PC(c) = "idle" /\ crm[c].at = "nowhere" /\ ~Busy(c)
                         /\ crm[c].call.fresh = 0 /\ crm[c].call.token = 0
  BY <1>2 DEF AtEase, NoCall, PC, Busy, Refreshing
<1>5. CallsInv
  BY <1>2, <1>3, <1>4 DEF CallsInv, TokensInv
<1>6. QuietInv /\ LeftInv
  BY <1>4 DEF QuietInv, LeftInv, CrmInit
<1>7. StoredInv
  BY DEF StoredInv, CrmInit
<1> QED
  BY <1>3, <1>5, <1>6, <1>7 DEF CrmInv

LEMMA CallsFit ==
    ASSUME CrmInv, NEW c \in CrmCalls
    PROVE  /\ crm \in CrmShape /\ crm[c].call \in CrmCallShape
           /\ crm[c].call.fresh \in 0..newest /\ crm[c].call.token \in 0..newest
           /\ newest \in Nat /\ stored \in 0..newest /\ accepted \subseteq 1..newest
  BY DEF CrmInv, CallsInv, TokensInv, CrmShape, CrmCallShape

(* One call goes on, and runs where it ran. *)
Turned(c, x) ==
    /\ CallsInv' /\ crm'[c].call = x /\ crm'[c].at = crm[c].at
    /\ \A d \in CrmCalls \ {c} : crm'[d] = crm[d]

LEMMA Turning ==
    ASSUME CrmInv, newest' \in Nat, newest <= newest', NEW c \in CrmCalls, PC(c) # "idle",
           NEW x \in CrmCallShape, x.pc # "idle", x.fresh <= newest', x.token <= newest', Turns(c, x)
    PROVE  Turned(c, x)
<1>1. crm \in CrmShape /\ newest \in Nat
  BY DEF CrmInv, CallsInv, TokensInv
<1>2. PICK y : y = [crm[c] EXCEPT !.call = x]
  OBVIOUS
<1>3. y \in [at : Places, call : CrmCallShape] /\ y.call = x /\ y.at = crm[c].at
  BY <1>1, <1>2 DEF CrmShape
<1>4. crm' = [crm EXCEPT ![c] = y]
  BY <1>1, <1>2 DEF Turns, CrmShape
<1>5. crm' \in CrmShape /\ crm'[c] = y /\ \A d \in CrmCalls \ {c} : crm'[d] = crm[d]
  BY <1>1, <1>3, <1>4 DEF CrmShape
<1>6. CallsInv'
  <2>1. \A d \in CrmCalls : crm[d].call.fresh \in Nat /\ crm[d].call.token \in Nat
    BY <1>1 DEF CrmShape, CrmCallShape
  <2>2. ASSUME NEW d \in CrmCalls
        PROVE  /\ (crm'[d].call.pc = "idle") = (crm'[d].at = "nowhere")
               /\ crm'[d].call.fresh <= newest' /\ crm'[d].call.token <= newest'
    <3>1. CASE d = c
      BY <1>3, <1>5, <3>1 DEF CrmInv, CallsInv, PC
    <3>2. CASE d # c
      BY <1>1, <1>5, <2>1, <3>2 DEF CrmInv, CallsInv, PC
    <3> QED
      BY <3>1, <3>2
  <2> QED
    BY <1>5, <2>2 DEF CallsInv, PC
<1> QED
  BY <1>3, <1>5, <1>6 DEF Turned

(* One call is over or past its writes, and so are those that waited on it. *)
Eased(c) ==
    /\ CallsInv' /\ ~Busy(c)'
    /\ \A d \in CrmCalls \ {c} : crm'[d] = crm[d] \/ (~Busy(d) /\ ~Busy(d)')

LEMMA Ending ==
    ASSUME CrmInv, newest' \in Nat, newest <= newest', NEW c \in CrmCalls, Over(c)
    PROVE  Eased(c)
<1>1. AtEase \in [at : Places, call : CrmCallShape] /\ AtEase.call = NoCall /\ AtEase.at = "nowhere"
      /\ NoCall.pc = "idle" /\ NoCall.fresh = 0 /\ NoCall.token = 0
  BY DEF AtEase, NoCall, Places, CrmCallShape, CrmSteps
<1>2. crm' \in CrmShape /\ crm'[c] = AtEase /\ \A d \in CrmCalls \ {c} : crm'[d] = crm[d]
  BY <1>1 DEF CrmInv, CallsInv, CrmShape, Over
<1>3. newest \in Nat /\ \A d \in CrmCalls : crm[d].call.fresh \in Nat /\ crm[d].call.token \in Nat
  BY DEF CrmInv, TokensInv, CallsInv, CrmShape, CrmCallShape
<1>4. ASSUME NEW d \in CrmCalls
      PROVE  /\ (crm'[d].call.pc = "idle") = (crm'[d].at = "nowhere")
             /\ crm'[d].call.fresh <= newest' /\ crm'[d].call.token <= newest'
  BY <1>1, <1>2, <1>3 DEF CrmInv, CallsInv, PC
<1>5. CallsInv'
  BY <1>2, <1>4 DEF CallsInv, PC
<1> QED
  BY <1>1, <1>2, <1>5 DEF Eased, Busy, Refreshing, PC

LEMMA Onwards ==
    ASSUME NEW x \in CrmCallShape
    PROVE  /\ Onward(x) \in CrmCallShape /\ Onward(x).pc \in {"request", "send", "resend"}
           /\ Onward(x).fresh = 0 /\ Onward(x).token = 0
<1>1. Next3(x.then) \in {"request", "send", "resend"}
  BY DEF Next3, CrmCallShape
<1> QED
  BY <1>1 DEF Onward, CrmCallShape, CrmSteps

LEMMA Settling ==
    ASSUME CrmInv, newest' \in Nat, newest <= newest', NEW c \in CrmCalls, PC(c) # "idle",
           NEW result, Settle(c, result)
    PROVE  Eased(c)
<1>1. AtEase \in [at : Places, call : CrmCallShape] /\ AtEase.call = NoCall /\ AtEase.at = "nowhere"
      /\ NoCall.pc = "idle" /\ NoCall.fresh = 0 /\ NoCall.token = 0
  BY DEF AtEase, NoCall, Places, CrmCallShape, CrmSteps
<1>2. crm \in CrmShape /\ newest \in Nat
      /\ \A d \in CrmCalls : crm[d].call.fresh \in Nat /\ crm[d].call.token \in Nat
  BY DEF CrmInv, CallsInv, TokensInv, CrmShape, CrmCallShape
<1>3. ASSUME NEW d \in CrmCalls, PC(d) # "idle", NEW s, s = Settled(crm[d], result)
      PROVE  /\ s \in [at : Places, call : CrmCallShape] /\ (s.call.pc = "idle") = (s.at = "nowhere")
             /\ s.call.fresh = 0 /\ s.call.token = 0 /\ s.call.pc \in {"idle", "request", "send", "resend"}
  <2>1. PICK x \in CrmCallShape : x = Onward(crm[d].call) /\ x.pc \in {"request", "send", "resend"}
                               /\ x.fresh = 0 /\ x.token = 0
    BY <1>2, Onwards DEF CrmShape
  <2>2. crm[d].at # "nowhere"
    BY <1>3 DEF CrmInv, CallsInv
  <2>3. CASE s = [crm[d] EXCEPT !.call = x]
    BY <1>2, <2>1, <2>2, <2>3 DEF CrmShape
  <2>4. CASE s = AtEase
    BY <1>1, <2>4
  <2> QED
    BY <1>3, <2>1, <2>3, <2>4 DEF Settled
<1>4. ASSUME NEW d \in CrmCalls
      PROVE  /\ crm'[d] \in [at : Places, call : CrmCallShape]
             /\ (crm'[d].call.pc = "idle") = (crm'[d].at = "nowhere")
             /\ crm'[d].call.fresh <= newest' /\ crm'[d].call.token <= newest'
             /\ crm'[d].call.pc \in {"idle", "request", "send", "resend"}
                \/ (d # c /\ crm'[d] = crm[d])
             /\ crm'[d] = crm[d] \/ d = c \/ PC(d) = "wait"
  <2>1. CASE d = c \/ (PC(d) = "wait" /\ crm[d].at = crm[c].at)
    <3>1. PICK s : s = Settled(crm[d], result)
      OBVIOUS
    <3>2. crm'[d] = s /\ PC(d) # "idle"
      BY <2>1, <3>1 DEF Settle
    <3> QED
      BY <1>2, <1>3, <2>1, <3>1, <3>2
  <2>2. CASE ~(d = c \/ (PC(d) = "wait" /\ crm[d].at = crm[c].at))
    <3>1. crm'[d] = crm[d]
      BY <2>2 DEF Settle
    <3> QED
      BY <1>2, <2>2, <3>1 DEF CrmInv, CallsInv, CrmShape, PC
  <2> QED
    BY <2>1, <2>2
<1>5. crm' \in CrmShape
  BY <1>4 DEF Settle, CrmShape
<1>6. CallsInv'
  BY <1>4, <1>5 DEF CallsInv, PC
<1>7. \A d \in CrmCalls : crm'[d].call.pc \in {"idle", "request", "send", "resend"} => ~Busy(d)'
  BY DEF Busy, Refreshing, PC
<1>8. ~Busy(c)'
  BY <1>4, <1>7
<1>9. ASSUME NEW d \in CrmCalls \ {c} PROVE crm'[d] = crm[d] \/ (~Busy(d) /\ ~Busy(d)')
  BY <1>4, <1>7 DEF Busy, Refreshing, PC
<1> QED
  BY <1>6, <1>8, <1>9 DEF Eased

-------------------------------------------------------------------------------
(* Keeping the invariant: the steps that no call takes. *)
LEMMA RestKeeps ==
    ASSUME CrmInv, UNCHANGED <<stored, accepted, newest, crm, tangled, spoiled, left>>,
           provider' = provider, consent' \subseteq {"state", "verifier"}, cached' \subseteq Instances,
           crmArrivals' = crmArrivals
    PROVE  CrmInv'
  BY DEF CrmInv, TokensInv, CallsInv, QuietInv, StoredInv, LeftInv, PC, Busy, Refreshing, Owed

LEMMA AuthorisationKeeps == CrmInv /\ AuthorisationEnds => CrmInv'
<1> SUFFICES ASSUME CrmInv, AuthorisationEnds PROVE CrmInv'
  OBVIOUS
<1>1. /\ UNCHANGED <<provider, consent, crmArrivals, stored, newest, cached, crm, left>>
      /\ accepted' \subseteq accepted /\ spoiled' = TRUE /\ tangled' = (\E c \in CrmCalls : Busy(c))
  BY DEF AuthorisationEnds, outside
<1>2. TokensInv' /\ CallsInv'
  BY <1>1 DEF CrmInv, TokensInv, CallsInv, PC
<1>3. QuietInv'
  BY <1>1 DEF QuietInv, Busy, Refreshing, PC
<1> QED
  BY <1>1, <1>2, <1>3 DEF CrmInv, StoredInv, LeftInv, PC

LEMMA InstanceKeeps ==
    ASSUME CrmInv, NEW i \in Instances, InstanceGone(i)
    PROVE  CrmInv'
<1>1. /\ UNCHANGED <<provider, consent, crmArrivals, stored, accepted, newest, left>>
      /\ cached' = cached \ {i}
      /\ crm' = [c \in CrmCalls |-> IF crm[c].at = i THEN AtEase ELSE crm[c]]
      /\ tangled' = (tangled /\ \E c \in CrmCalls : Busy(c) /\ crm[c].at # i)
      /\ spoiled' = (spoiled \/ tangled \/ \E c \in CrmCalls :
                                               crm[c].at = i /\ PC(c) \in {"save", "persist", "delete"})
  BY DEF InstanceGone, outside
<1>2. /\ AtEase \in [at : Places, call : CrmCallShape] /\ AtEase.at = "nowhere" /\ AtEase.call.pc = "idle"
      /\ AtEase.call.fresh = 0 /\ AtEase.call.token = 0
  BY DEF AtEase, NoCall, Places, CrmCallShape, CrmSteps
<1>3. ASSUME NEW c \in CrmCalls
      PROVE  IF crm[c].at = i THEN crm'[c] = AtEase ELSE crm'[c] = crm[c]
  BY <1>1
<1>4. TokensInv' /\ crm \in CrmShape
  BY <1>1 DEF CrmInv, TokensInv, CallsInv
<1>5. crm' \in CrmShape
  BY <1>1, <1>2, <1>4 DEF CrmShape
<1>6. CallsInv'
  BY <1>1, <1>2, <1>3, <1>4, <1>5 DEF CrmInv, CallsInv, TokensInv, PC
<1>7. \A c \in CrmCalls : crm'[c] = crm[c] \/ (crm[c].at = i /\ PC(c)' = "idle" /\ ~Busy(c)')
  BY <1>2, <1>3 DEF PC, Busy, Refreshing
<1>8. QuietInv'
  <2>1. ASSUME ~tangled', tangled PROVE \A c \in CrmCalls : ~Busy(c)'
    <3>1. \A c \in CrmCalls : Busy(c) => crm[c].at = i
      BY <1>1, <2>1
    <3> QED
      BY <1>2, <1>3, <3>1 DEF Busy, Refreshing, PC
  <2>2. CASE tangled
    BY <2>1, <2>2 DEF QuietInv, Busy, Refreshing, PC
  <2>3. CASE ~tangled
    BY <1>1, <1>7, <2>3 DEF CrmInv, QuietInv, Busy, Refreshing, PC
  <2> QED
    BY <2>2, <2>3
<1>9. StoredInv'
  <2> SUFFICES ASSUME stored # 0, ~spoiled', \A c \in CrmCalls : ~Owed(c)' PROVE stored \in accepted
    BY <1>1 DEF StoredInv
  <2>1. ~spoiled /\ \A c \in CrmCalls : ~(crm[c].at = i /\ Owed(c))
    BY <1>1 DEF Owed
  <2>2. \A c \in CrmCalls : ~Owed(c)
    BY <1>3, <2>1 DEF Owed, PC
  <2> QED
    BY <2>1, <2>2 DEF CrmInv, StoredInv
<1>10. LeftInv'
  BY <1>1, <1>7 DEF CrmInv, LeftInv, PC
<1> QED
  BY <1>4, <1>6, <1>8, <1>9, <1>10, <1>1 DEF CrmInv, TokensInv

-------------------------------------------------------------------------------
(* ... the calls that begin. *)
LEMMA Arriving ==
    ASSUME CrmInv, NEW c \in CrmCalls, NEW pc \in {"code", "read", "lookup"}, CrmArrives(c, pc)
    PROVE  /\ UNCHANGED <<provider, stored, accepted, newest, cached, spoiled>>
           /\ crmArrivals' \in 0..MaxCrmCalls /\ PC(c) = "idle" /\ crm[c].at = "nowhere"
           /\ CallsInv' /\ PC(c)' = pc /\ \A d \in CrmCalls \ {c} : crm'[d] = crm[d]
<1>1. PICK i \in Instances : crm' = [crm EXCEPT ![c] = [at |-> i, call |-> [NoCall EXCEPT !.pc = pc]]]
  BY DEF CrmArrives
<1>2. PICK x : x = [NoCall EXCEPT !.pc = pc]
  OBVIOUS
<1>3. x \in CrmCallShape /\ x.pc = pc /\ x.fresh = 0 /\ x.token = 0
  BY <1>2 DEF NoCall, CrmCallShape, CrmSteps
<1>4. PICK y : y = [at |-> i, call |-> x]
  OBVIOUS
<1>5. y \in [at : Places, call : CrmCallShape] /\ y.at = i /\ y.call = x
  BY <1>3, <1>4 DEF Places
<1>6. crm \in CrmShape /\ crm' = [crm EXCEPT ![c] = y]
  BY <1>1, <1>2, <1>4 DEF CrmInv, CallsInv
<1>7. crm' \in CrmShape /\ crm'[c] = y /\ \A d \in CrmCalls \ {c} : crm'[d] = crm[d]
  BY <1>5, <1>6 DEF CrmShape
<1>8. CallsInv'
  <2>1. newest' = newest /\ newest \in Nat /\ i # "nowhere"
    BY CrmConstants DEF CrmArrives, CrmInv, TokensInv
  <2>2. ASSUME NEW d \in CrmCalls
        PROVE  /\ (crm'[d].call.pc = "idle") = (crm'[d].at = "nowhere")
               /\ crm'[d].call.fresh <= newest' /\ crm'[d].call.token <= newest'
    BY <1>3, <1>5, <1>7, <2>1 DEF CrmInv, CallsInv, PC
  <2> QED
    BY <1>7, <2>2 DEF CallsInv, PC
<1> QED
  BY <1>3, <1>5, <1>7, <1>8, CrmConstants DEF CrmArrives, CrmInv, CallsInv, TokensInv, PC

(* Where nobody else writes, one more does not tangle anything. *)
LEMMA CallEnters ==
    ASSUME CrmInv, NEW c \in CrmCalls, Enters(c),
           \A d \in CrmCalls \ {c} : Refreshing(d) => crm[d].at # crm[c].at
    PROVE  /\ tangled' \in BOOLEAN
           /\ ~tangled' => ~tangled /\ \A d \in CrmCalls \ {c} : ~Busy(d)
  BY DEF Enters, Crossed, CrmInv, TokensInv

LEMMA NowhereIsApart ==
    ASSUME CrmInv, NEW c \in CrmCalls, crm[c].at = "nowhere"
    PROVE  \A d \in CrmCalls : Refreshing(d) => crm[d].at # crm[c].at
  BY DEF Refreshing, PC, CrmInv, CallsInv

LEMMA CallbackKeeps ==
    ASSUME CrmInv, NEW c \in CrmCalls, OAuthCallback(c)
    PROVE  CrmInv'
<1>1. CrmArrives(c, "code") /\ consent' \subseteq {"state", "verifier"} /\ left' = left /\ Enters(c)
  BY DEF OAuthCallback, CrmInv, TokensInv
<1>2. /\ UNCHANGED <<provider, stored, accepted, newest, cached, spoiled>>
      /\ crmArrivals' \in 0..MaxCrmCalls /\ PC(c) = "idle" /\ crm[c].at = "nowhere"
      /\ CallsInv' /\ PC(c)' = "code" /\ \A d \in CrmCalls \ {c} : crm'[d] = crm[d]
  BY <1>1, Arriving
<1>3. /\ tangled' \in BOOLEAN
      /\ ~tangled' => ~tangled /\ \A d \in CrmCalls \ {c} : ~Busy(d)
  BY <1>1, <1>2, NowhereIsApart, CallEnters
<1>4. TokensInv'
  BY <1>1, <1>2, <1>3 DEF CrmInv, TokensInv
<1>5. QuietInv'
  BY <1>2, <1>3 DEF CrmInv, QuietInv, Busy, Refreshing, PC
<1>6. StoredInv'
  BY <1>2 DEF CrmInv, StoredInv, Owed, PC
<1>7. LeftInv'
  BY <1>1, <1>2 DEF CrmInv, LeftInv, PC
<1> QED
  BY <1>2, <1>4, <1>5, <1>6, <1>7 DEF CrmInv

LEMMA DisconnectKeeps ==
    ASSUME CrmInv, NEW c \in CrmCalls, Disconnect(c)
    PROVE  CrmInv'
<1>1. CrmArrives(c, "read") /\ UNCHANGED <<consent, left>> /\ Enters(c)
  BY DEF Disconnect
<1>2. /\ UNCHANGED <<provider, stored, accepted, newest, cached, spoiled>>
      /\ crmArrivals' \in 0..MaxCrmCalls /\ PC(c) = "idle" /\ crm[c].at = "nowhere"
      /\ CallsInv' /\ PC(c)' = "read" /\ \A d \in CrmCalls \ {c} : crm'[d] = crm[d]
  BY <1>1, Arriving
<1>3. /\ tangled' \in BOOLEAN
      /\ ~tangled' => ~tangled /\ \A d \in CrmCalls \ {c} : ~Busy(d)
  BY <1>1, <1>2, NowhereIsApart, CallEnters
<1>4. TokensInv'
  BY <1>1, <1>2, <1>3 DEF CrmInv, TokensInv
<1>5. QuietInv'
  BY <1>2, <1>3 DEF CrmInv, QuietInv, Busy, Refreshing, PC
<1>6. StoredInv' /\ LeftInv'
  BY <1>1, <1>2 DEF CrmInv, StoredInv, LeftInv, Owed, PC
<1> QED
  BY <1>2, <1>4, <1>5, <1>6 DEF CrmInv

LEMMA UseKeeps ==
    ASSUME CrmInv, NEW c \in CrmCalls, UseCrm(c)
    PROVE  CrmInv'
<1>1. CrmArrives(c, "lookup") /\ UNCHANGED <<consent, tangled, left>>
  BY DEF UseCrm
<1>2. /\ UNCHANGED <<provider, stored, accepted, newest, cached, spoiled>>
      /\ crmArrivals' \in 0..MaxCrmCalls
      /\ CallsInv' /\ PC(c)' = "lookup" /\ \A d \in CrmCalls \ {c} : crm'[d] = crm[d]
  BY <1>1, Arriving
<1>3. TokensInv'
  BY <1>1, <1>2 DEF CrmInv, TokensInv
<1>4. QuietInv'
  BY <1>1, <1>2 DEF CrmInv, QuietInv, Busy, Refreshing, PC
<1>5. StoredInv' /\ LeftInv'
  BY <1>1, <1>2, Arriving DEF CrmInv, StoredInv, LeftInv, Owed, PC
<1> QED
  BY <1>2, <1>3, <1>4, <1>5 DEF CrmInv

-------------------------------------------------------------------------------
(* ... and the calls that go on. *)
LEMMA Leaving ==
    ASSUME CrmInv, NEW c \in CrmCalls, Busy(c), Leaves(c), Eased(c)
    PROVE  /\ tangled' \in BOOLEAN /\ (tangled' => tangled)
           /\ ~tangled' => \A d \in CrmCalls : ~Busy(d)'
<1>1. tangled' = (tangled /\ ~Alone(c)) /\ tangled \in BOOLEAN
  BY DEF Leaves, CrmInv, TokensInv
<1>2. ASSUME ~tangled', NEW d \in CrmCalls \ {c} PROVE ~Busy(d)
  BY <1>1, <1>2 DEF Alone, CrmInv, QuietInv
<1>3. ASSUME ~tangled', NEW d \in CrmCalls \ {c} PROVE ~Busy(d)'
  BY <1>2, <1>3 DEF Eased, Busy, Refreshing, PC
<1> QED
  BY <1>1, <1>3 DEF Eased

LEMMA EasedKeeps ==
    ASSUME CrmInv, TokensInv', NEW c \in CrmCalls, Busy(c), Leaves(c), Eased(c),
           left' = left, accepted' \cap left = {}, stored' \notin left,
           spoiled' \/ (stored' # 0 => stored' \in accepted')
    PROVE  CrmInv'
<1>1. QuietInv'
  BY Leaving DEF QuietInv, Busy, Refreshing, PC
<1>2. LeftInv'
  BY DEF CrmInv, LeftInv, Eased, Busy, Refreshing, PC
<1> QED
  BY <1>1, <1>2 DEF Eased, CrmInv, StoredInv

(* A grant of the provider's: its token is new, and those before go on or end. *)
LEMMA NewGrant ==
    ASSUME CrmInv, newest < MaxTokens, newest' = newest + 1, stored' = stored, left' = left,
           accepted' \subseteq accepted \cup {newest + 1}
    PROVE  /\ newest' \in 1..MaxTokens /\ newest' \in Nat /\ newest <= newest'
           /\ stored' \in 0..newest' /\ accepted' \subseteq 1..newest' /\ left' \subseteq 1..newest'
           /\ accepted' \cap left = {} /\ newest + 1 \notin left
  BY CrmConstants DEF CrmInv, TokensInv, LeftInv

LEMMA ExchangeCodeKeeps ==
    ASSUME CrmInv, NEW c \in CrmCalls, ExchangeCode(c)
    PROVE  CrmInv'
<1>1. PC(c) = "code" /\ UNCHANGED <<provider, consent, crmArrivals, stored, cached, left>>
  BY DEF ExchangeCode, outside
<1>2. newest \in 1..MaxTokens /\ MaxTokens \in Nat /\ crm \in CrmShape /\ crm[c].call \in CrmCallShape
  BY CrmConstants, CallsFit DEF CrmInv, TokensInv
<1>3. ASSUME newest < MaxTokens, newest' = newest + 1,
             accepted' \subseteq accepted \cup {newest + 1}, newest + 1 \in accepted',
             Turns(c, [crm[c].call EXCEPT !.pc = "save", !.fresh = newest + 1]),
             UNCHANGED <<tangled, spoiled>>
      PROVE  CrmInv'
  <2>1. PICK n \in Nat : n = newest + 1
    BY <1>2
  <2>2. PICK x : x = [crm[c].call EXCEPT !.pc = "save", !.fresh = n]
    OBVIOUS
  <2>3. x \in CrmCallShape /\ x.pc = "save" /\ x.fresh = n /\ x.token = crm[c].call.token
    BY <1>2, <2>2 DEF CrmCallShape, CrmSteps
  <2>4. Turned(c, x)
    <3>1. x.fresh <= newest' /\ x.token <= newest' /\ newest' \in Nat /\ newest <= newest'
      BY <1>2, <1>3, <2>1, <2>3, CallsFit
    <3> QED
      BY <1>1, <1>3, <2>1, <2>2, <2>3, <3>1, Turning
  <2>5. TokensInv'
    BY <1>1, <1>3, NewGrant DEF CrmInv, TokensInv
  <2>6. QuietInv'
    <3>1. ASSUME ~tangled PROVE \A d \in CrmCalls \ {c} : ~Busy(d)
      BY <1>1, <3>1 DEF CrmInv, QuietInv, Busy
    <3> QED
      BY <1>3, <2>1, <2>3, <2>4, <3>1 DEF QuietInv, Turned, Busy, Refreshing, PC
  <2>7. StoredInv'
    BY <1>1, <1>3, <2>3, <2>4 DEF CrmInv, StoredInv, Turned, Owed, PC
  <2>8. LeftInv'
    <3>1. accepted' \cap left = {} /\ n \notin left
      BY <1>1, <1>3, <2>1, NewGrant
    <3> QED
      BY <1>1, <2>3, <2>4, <3>1 DEF CrmInv, LeftInv, Turned, PC
  <2> QED
    BY <2>4, <2>5, <2>6, <2>7, <2>8 DEF CrmInv, Turned
<1>4. ASSUME Over(c), Leaves(c), UNCHANGED <<accepted, newest, spoiled>>
      PROVE  CrmInv'
  <2>1. Eased(c) /\ Busy(c)
    BY <1>1, <1>4, CallsFit, Ending DEF Busy
  <2>2. TokensInv'
    BY <1>1, <1>4, <2>1, Leaving DEF CrmInv, TokensInv
  <2>3. QuietInv' /\ LeftInv'
    BY <1>1, <1>4, <2>1, Leaving DEF CrmInv, QuietInv, LeftInv, Eased, Busy, Refreshing, PC
  <2>4. StoredInv'
    BY <1>1, <1>4, <2>1 DEF CrmInv, StoredInv, Eased, Owed, Busy, Refreshing, PC
  <2> QED
    BY <2>1, <2>2, <2>3, <2>4 DEF CrmInv, Eased
<1>5. ASSUME newest < MaxTokens, newest' = newest + 1, Over(c), Leaves(c), spoiled' = TRUE,
             accepted' \subseteq accepted \cup {newest + 1}, newest + 1 \in accepted'
      PROVE  CrmInv'
  <2>1. Eased(c) /\ Busy(c)
    BY <1>1, <1>2, <1>5, Ending DEF Busy
  <2>2. TokensInv'
    BY <1>1, <1>5, <2>1, Leaving, NewGrant DEF CrmInv, TokensInv
  <2>3. accepted' \cap left = {} /\ stored' \notin left
    BY <1>1, <1>5, NewGrant DEF CrmInv, LeftInv
  <2> QED
    BY <1>1, <1>5, <2>1, <2>2, <2>3, EasedKeeps
<1>6. \A granted \in Issued : granted \subseteq accepted \cup {newest + 1} /\ newest + 1 \in granted
  BY DEF Issued
<1> QED
  BY <1>3, <1>4, <1>5, <1>6 DEF ExchangeCode

LEMMA SaveKeeps ==
    ASSUME CrmInv, NEW c \in CrmCalls, SaveTenantTokens(c)
    PROVE  CrmInv'
<1>1. /\ PC(c) = "save" /\ Over(c) /\ Leaves(c)
      /\ UNCHANGED <<provider, consent, crmArrivals, accepted, newest, cached, left>>
  BY DEF SaveTenantTokens, outside
<1>2. Eased(c) /\ Busy(c)
  BY <1>1, CallsFit, Ending DEF Busy
<1>3. accepted' \cap left = {} /\ stored' \notin left
  BY <1>1 DEF CrmInv, LeftInv, SaveTenantTokens
<1>4. crm[c].call.fresh \in 0..newest /\ (~tangled => crm[c].call.fresh \in accepted)
  BY <1>1 DEF CrmInv, CallsInv, TokensInv, QuietInv, CrmShape, CrmCallShape
<1>5. TokensInv'
  BY <1>1, <1>2, <1>4, Leaving DEF SaveTenantTokens, CrmInv, TokensInv
<1>6. spoiled' \/ stored' \in accepted'
  BY <1>1, <1>4 DEF SaveTenantTokens
<1> QED
  BY <1>1, <1>2, <1>3, <1>5, <1>6, EasedKeeps

LEMMA ReadForRevokeKeeps ==
    ASSUME CrmInv, NEW c \in CrmCalls, ReadForRevoke(c)
    PROVE  CrmInv'
<1>1. PC(c) = "read" /\ UNCHANGED <<provider, consent, crmArrivals, stored, accepted, newest, cached, spoiled, left>>
  BY DEF ReadForRevoke, outside
<1>3. ASSUME Turns(c, [crm[c].call EXCEPT !.pc = IF stored = 0 THEN "delete" ELSE "revoke",
                                          !.token = stored]), UNCHANGED tangled
      PROVE  CrmInv'
  <2>1. PICK pc, t : pc = (IF stored = 0 THEN "delete" ELSE "revoke") /\ t = stored
    OBVIOUS
  <2>2. PICK x : x = [crm[c].call EXCEPT !.pc = pc, !.token = t]
    OBVIOUS
  <2>3. t \in 0..newest /\ newest \in Nat /\ pc \in {"delete", "revoke"} /\ (pc = "delete" => stored = 0)
    BY <2>1, CallsFit
  <2>4. x \in CrmCallShape /\ x.pc = pc /\ x.fresh = crm[c].call.fresh /\ x.token = t
    <3>1. crm[c].call \in CrmCallShape /\ t \in Nat /\ pc \in CrmSteps
      BY <2>3, CallsFit DEF CrmSteps
    <3> QED
      BY <2>2, <3>1 DEF CrmCallShape
  <2>5. Turned(c, x)
    <3>1. x.fresh <= newest' /\ x.token <= newest' /\ newest' = newest
      BY <1>1, <2>3, <2>4, CallsFit
    <3>2. Turns(c, x)
      BY <1>3, <2>1, <2>2
    <3> QED
      BY <1>1, <2>3, <2>4, <3>1, <3>2, Turning
  <2>6. TokensInv'
    BY <1>1, <1>3 DEF CrmInv, TokensInv
  <2>7. QuietInv'
    BY <1>1, <1>3, <2>1, <2>3, <2>4, <2>5 DEF CrmInv, QuietInv, Turned, Busy, Refreshing, PC
  <2>9. LeftInv'
    BY <1>1, <2>3, <2>4, <2>5 DEF CrmInv, LeftInv, Turned, PC
  <2>8. StoredInv'
    BY <1>1, <1>3, <2>3, <2>4, <2>5 DEF CrmInv, StoredInv, Turned, Owed, PC
  <2> QED
    BY <2>5, <2>6, <2>7, <2>8, <2>9 DEF CrmInv, Turned
<1>4. ASSUME Over(c), Leaves(c) PROVE CrmInv'
  <2>1. Eased(c) /\ Busy(c)
    BY <1>1, <1>4, CallsFit, Ending DEF Busy
  <2>2. TokensInv'
    BY <1>1, <1>4, <2>1, Leaving DEF CrmInv, TokensInv
  <2>3. QuietInv' /\ LeftInv'
    BY <1>1, <1>4, <2>1, Leaving DEF CrmInv, QuietInv, LeftInv, Eased, Busy, Refreshing, PC
  <2>4. StoredInv'
    BY <1>1, <1>4, <2>1 DEF CrmInv, StoredInv, Eased, Owed, Busy, Refreshing, PC
  <2> QED
    BY <2>1, <2>2, <2>3, <2>4 DEF CrmInv, Eased
<1> QED
  BY <1>3, <1>4 DEF ReadForRevoke

LEMMA RevokeKeeps ==
    ASSUME CrmInv, NEW c \in CrmCalls, Revoke(c)
    PROVE  CrmInv'
<1>1. PC(c) = "revoke" /\ UNCHANGED <<provider, consent, crmArrivals, stored, newest, cached, tangled, spoiled, left>>
  BY DEF Revoke, outside
<1>2. PICK x : /\ x \in {[crm[c].call EXCEPT !.pc = "delete"],
                         [crm[c].call EXCEPT !.pc = "delete", !.warned = TRUE]}
               /\ Turns(c, x)
               /\ accepted' \subseteq accepted
               /\ x.warned \/ crm[c].call.token \notin accepted'
  <2>1. PICK w : w = [crm[c].call EXCEPT !.pc = "delete", !.warned = TRUE]
    OBVIOUS
  <2>2. w.warned
    BY <2>1, CallsFit DEF CrmCallShape
  <2> QED
    BY <2>1, <2>2 DEF Revoke, Go, Ended
<1>3. x \in CrmCallShape /\ x.pc = "delete" /\ x.fresh = crm[c].call.fresh /\ x.token = crm[c].call.token
  BY <1>2, CallsFit DEF CrmCallShape, CrmSteps
<1>4. Turned(c, x)
  BY <1>1, <1>2, <1>3, CallsFit, Turning
<1>5. TokensInv'
  BY <1>1, <1>2 DEF CrmInv, TokensInv
<1>6. QuietInv'
  <2>1. ASSUME ~tangled
        PROVE  crm[c].call.token = stored /\ \A d \in CrmCalls \ {c} : ~Busy(d)
    BY <1>1, <2>1 DEF CrmInv, QuietInv, Busy
  <2> QED
    BY <1>1, <1>2, <1>3, <1>4, <2>1 DEF QuietInv, Turned, Busy, Refreshing, PC
<1>7. StoredInv' /\ LeftInv'
  BY <1>1, <1>2, <1>3, <1>4 DEF CrmInv, StoredInv, LeftInv, Turned, Owed, PC
<1> QED
  BY <1>4, <1>5, <1>6, <1>7 DEF CrmInv, Turned

LEMMA DeleteKeeps ==
    ASSUME CrmInv, NEW c \in CrmCalls, DeleteTenantTokens(c)
    PROVE  CrmInv'
<1>1. /\ PC(c) = "delete" /\ Over(c) /\ Leaves(c)
      /\ UNCHANGED <<provider, consent, crmArrivals, accepted, newest, cached>>
  BY DEF DeleteTenantTokens, outside
<1>2. Eased(c) /\ Busy(c)
  BY <1>1, CallsFit, Ending DEF Busy
<1>3. CASE /\ stored' = 0 /\ spoiled' = (spoiled \/ tangled)
           /\ left' = IF crm[c].call.warned \/ tangled THEN left ELSE left \cup ({stored} \ {0})
  <2>1. left' \subseteq 1..newest /\ 0 \notin left'
    BY <1>3 DEF CrmInv, TokensInv
  <2>2. TokensInv'
    BY <1>1, <1>2, <1>3, <2>1, Leaving DEF CrmInv, TokensInv
  <2>3. QuietInv'
    BY <1>2, <1>1, Leaving DEF QuietInv, Busy, Refreshing, PC
  <2>4. StoredInv'
    <3>1. stored' = 0
      BY <1>3
    <3> QED
      BY <3>1 DEF StoredInv
  <2>5. left' \cap accepted' = {} /\ stored' \notin left'
    BY <1>1, <1>3, <2>1 DEF CrmInv, QuietInv, LeftInv
  <2>6. ASSUME NEW d \in CrmCalls, PC(d)' \in {"save", "persist"} PROVE crm'[d].call.fresh \notin left'
    <3>1. d # c /\ crm'[d] = crm[d] /\ Busy(d)
      BY <1>2, <2>6 DEF Eased, Busy, Refreshing, PC
    <3>2. left' = left
      BY <1>2, <1>3, <3>1 DEF CrmInv, QuietInv
    <3> QED
      BY <2>6, <3>1, <3>2 DEF CrmInv, LeftInv, PC
  <2>7. LeftInv'
    BY <2>5, <2>6 DEF LeftInv
  <2> QED
    BY <1>2, <2>2, <2>3, <2>4, <2>7 DEF CrmInv, Eased
<1>4. CASE stored' \in {stored, 0} /\ spoiled' = TRUE /\ UNCHANGED left
  <2>1. TokensInv'
    BY <1>1, <1>2, <1>4, Leaving DEF CrmInv, TokensInv
  <2>2. accepted' \cap left = {} /\ stored' \notin left
    BY <1>1, <1>4 DEF CrmInv, LeftInv, TokensInv
  <2> QED
    BY <1>1, <1>2, <1>4, <2>1, <2>2, EasedKeeps
<1> QED
  BY <1>3, <1>4 DEF DeleteTenantTokens

(* A step that writes nothing, and after which no call writes more. *)
LEMMA TurnedKeeps ==
    ASSUME CrmInv, UNCHANGED <<provider, consent, crmArrivals, stored, accepted, newest, tangled, spoiled, left>>,
           cached' \subseteq Instances, NEW c \in CrmCalls, ~Busy(c), NEW x, Turned(c, x),
           x.pc \in {"lookup", "wait", "request", "send", "resend"}
    PROVE  CrmInv'
<1>1. TokensInv'
  BY DEF CrmInv, TokensInv
<1>2. ~Busy(c)' /\ ~Owed(c) /\ ~Owed(c)' /\ PC(c)' \notin {"code", "save", "exchange", "persist"}
  BY DEF Turned, Busy, Refreshing, PC, Owed
<1>3. QuietInv' /\ StoredInv' /\ LeftInv'
  BY <1>2 DEF CrmInv, QuietInv, StoredInv, LeftInv, Turned, Busy, Refreshing, PC, Owed
<1> QED
  BY <1>1, <1>3 DEF CrmInv, Turned

LEMMA RestedKeeps ==
    ASSUME CrmInv, UNCHANGED <<provider, consent, crmArrivals, stored, accepted, newest, tangled, spoiled, left>>,
           cached' = cached, NEW c \in CrmCalls, ~Busy(c), Over(c)
    PROVE  CrmInv'
<1>1. TokensInv' /\ Eased(c)
  BY Ending DEF CrmInv, TokensInv
<1>2. QuietInv' /\ StoredInv' /\ LeftInv'
  BY <1>1 DEF CrmInv, QuietInv, StoredInv, LeftInv, Eased, Busy, Refreshing, PC, Owed
<1> QED
  BY <1>1, <1>2 DEF CrmInv, Eased

LEMMA LookingKeeps ==
    ASSUME CrmInv, NEW c \in CrmCalls, Lookup(c) \/ Send(c) \/ Resend(c)
    PROVE  CrmInv'
<1>1. /\ UNCHANGED <<provider, consent, crmArrivals, stored, accepted, newest, tangled, spoiled, left>>
      /\ PC(c) \in {"request", "send", "resend"}
  BY DEF Lookup, Send, Resend, outside
<1>2. ~Busy(c) /\ PC(c) # "idle"
  BY <1>1 DEF Busy, Refreshing
<1>3. ASSUME NEW then \in {"request", "retry"}, cached' \subseteq Instances,
             Turns(c, [crm[c].call EXCEPT !.pc = "lookup", !.then = then])
      PROVE  CrmInv'
  <2>1. PICK x : x = [crm[c].call EXCEPT !.pc = "lookup", !.then = then]
    OBVIOUS
  <2>2. x \in CrmCallShape /\ x.pc = "lookup" /\ x.fresh = crm[c].call.fresh /\ x.token = crm[c].call.token
    BY <2>1, CallsFit DEF CrmCallShape, CrmSteps
  <2>3. Turned(c, x)
    <3>1. x.fresh <= newest' /\ x.token <= newest' /\ newest' = newest
      BY <1>1, <2>2, CallsFit
    <3>2. Turns(c, x)
      BY <1>3, <2>1
    <3> QED
      BY <1>2, <2>2, <3>1, <3>2, CallsFit, Turning
  <2> QED
    BY <1>1, <1>2, <1>3, <2>2, <2>3, TurnedKeeps
<1>4. cached' \subseteq Instances
  BY DEF Lookup, Send, Resend, CrmInv, TokensInv
<1>5. ASSUME Over(c), cached' = cached PROVE CrmInv'
  BY <1>1, <1>2, <1>5, RestedKeeps
<1> QED
  BY <1>3, <1>4, <1>5 DEF Lookup, Send, Resend

LEMMA AccessTokenKeeps ==
    ASSUME CrmInv, NEW c \in CrmCalls, GetValidAccessToken(c)
    PROVE  CrmInv'
<1>1. PC(c) = "lookup" /\ ~Busy(c)
      /\ UNCHANGED <<provider, consent, crmArrivals, stored, accepted, newest, cached, spoiled, left>>
  BY DEF GetValidAccessToken, outside, Busy, Refreshing
<1>2. cached' \subseteq Instances
  BY <1>1 DEF CrmInv, TokensInv
<1>3. ASSUME Turns(c, Onward(crm[c].call)), tangled' = tangled PROVE CrmInv'
  <2>1. PICK x \in CrmCallShape : x = Onward(crm[c].call) /\ x.pc \in {"request", "send", "resend"}
                               /\ x.fresh = 0 /\ x.token = 0
    BY CallsFit, Onwards
  <2>2. Turned(c, x)
    BY <1>1, <1>3, <2>1, CallsFit, Turning
  <2> QED
    BY <1>1, <1>2, <1>3, <2>1, <2>2, TurnedKeeps
<1>4. ASSUME NEW label \in {"wait", "refresh"}, Go(c, label)
      PROVE  \E x : Turned(c, x) /\ x.pc = label
  <2>1. PICK x : x = [crm[c].call EXCEPT !.pc = label]
    OBVIOUS
  <2>2. x \in CrmCallShape /\ x.pc = label /\ x.fresh = crm[c].call.fresh /\ x.token = crm[c].call.token
    BY <2>1, CallsFit DEF CrmCallShape, CrmSteps
  <2> QED
    <3>1. x.fresh <= newest' /\ x.token <= newest' /\ newest' = newest
      BY <1>1, <2>2, CallsFit
    <3>2. Turns(c, x)
      BY <1>4, <2>1 DEF Go
    <3> QED
      BY <1>1, <2>2, <3>1, <3>2, CallsFit, Turning
<1>5. ASSUME Go(c, "wait"), tangled' = tangled PROVE CrmInv'
  BY <1>1, <1>2, <1>4, <1>5, TurnedKeeps
<1>6. ASSUME Go(c, "refresh"), Enters(c), ~Sharing(c) PROVE CrmInv'
  <2>1. PICK x : Turned(c, x) /\ x.pc = "refresh"
    BY <1>4, <1>6
  <2>2. /\ tangled' \in BOOLEAN
        /\ ~tangled' => ~tangled /\ \A d \in CrmCalls \ {c} : ~Busy(d)
    BY <1>6, CallEnters DEF Sharing
  <2>3. TokensInv'
    BY <1>1, <2>2 DEF CrmInv, TokensInv
  <2>4. QuietInv'
    BY <1>1, <2>1, <2>2 DEF CrmInv, QuietInv, Turned, Busy, Refreshing, PC
  <2>5. StoredInv' /\ LeftInv'
    BY <1>1, <2>1 DEF CrmInv, StoredInv, LeftInv, Turned, Owed, PC
  <2> QED
    BY <2>1, <2>3, <2>4, <2>5 DEF CrmInv, Turned
<1> QED
  BY <1>3, <1>5, <1>6 DEF GetValidAccessToken, RefreshSingleFlight

LEMMA ReadRefreshKeeps ==
    ASSUME CrmInv, NEW c \in CrmCalls, ReadRefreshToken(c)
    PROVE  CrmInv'
<1>1. PC(c) = "refresh" /\ Busy(c)
      /\ UNCHANGED <<provider, consent, crmArrivals, stored, accepted, newest, cached, spoiled, left>>
  BY DEF ReadRefreshToken, outside, Busy, Refreshing
<1>2. ASSUME stored # 0, tangled' = tangled,
             Turns(c, [crm[c].call EXCEPT !.pc = "exchange", !.token = stored])
      PROVE  CrmInv'
  <2>1. PICK t \in Nat : t = stored /\ t <= newest
    BY CallsFit
  <2>2. PICK x : x = [crm[c].call EXCEPT !.pc = "exchange", !.token = t]
    OBVIOUS
  <2>3. x \in CrmCallShape /\ x.pc = "exchange" /\ x.fresh = crm[c].call.fresh /\ x.token = t
    BY <2>2, CallsFit DEF CrmCallShape, CrmSteps
  <2>4. Turned(c, x)
    <3>1. x.fresh <= newest' /\ x.token <= newest' /\ newest' = newest
      BY <1>1, <2>1, <2>3, CallsFit
    <3>2. Turns(c, x)
      BY <1>2, <2>1, <2>2
    <3> QED
      BY <1>1, <2>3, <3>1, <3>2, CallsFit, Turning
  <2>5. TokensInv'
    BY <1>1, <1>2 DEF CrmInv, TokensInv
  <2>6. QuietInv' /\ LeftInv'
    BY <1>1, <1>2, <2>3, <2>4 DEF CrmInv, QuietInv, LeftInv, Turned, Busy, Refreshing, PC
  <2>7. StoredInv'
    BY <1>1, <2>3, <2>4 DEF CrmInv, StoredInv, Turned, Owed, PC
  <2> QED
    BY <2>4, <2>5, <2>6, <2>7 DEF CrmInv, Turned
<1>3. ASSUME NEW result, Settle(c, result), Leaves(c) PROVE CrmInv'
  <2>1. Eased(c)
    BY <1>1, <1>3, CallsFit, Settling
  <2>2. TokensInv'
    BY <1>1, <1>3, <2>1, Leaving DEF CrmInv, TokensInv
  <2>3. QuietInv' /\ LeftInv'
    BY <1>1, <1>3, <2>1, Leaving DEF CrmInv, QuietInv, LeftInv, Eased, Busy, Refreshing, PC
  <2>4. StoredInv'
    BY <1>1, <1>3, <2>1 DEF CrmInv, StoredInv, Eased, Owed, Busy, Refreshing, PC
  <2> QED
    BY <2>1, <2>2, <2>3, <2>4 DEF CrmInv, Eased
<1> QED
  BY <1>2, <1>3 DEF ReadRefreshToken

LEMMA RefreshKeeps ==
    ASSUME CrmInv, NEW c \in CrmCalls, RefreshAccessToken(c)
    PROVE  CrmInv'
<1>1. PC(c) = "exchange" /\ Busy(c)
      /\ UNCHANGED <<provider, consent, crmArrivals, stored, left>>
  BY DEF RefreshAccessToken, outside, Busy, Refreshing
<1>2. cached' \subseteq Instances
  BY <1>1 DEF RefreshAccessToken, CrmInv, TokensInv, CallsInv, CrmShape, Places
<1>3. ASSUME crm[c].call.token \in accepted, newest < MaxTokens, newest' = newest + 1,
             accepted' \subseteq accepted \cup {newest + 1}, newest + 1 \in accepted',
             UNCHANGED <<tangled, spoiled>>,
             Turns(c, [crm[c].call EXCEPT !.pc = "persist", !.token = 0, !.fresh = newest + 1])
      PROVE  CrmInv'
  <2>1. PICK n \in Nat : n = newest + 1
    BY CallsFit
  <2>2. PICK x : x = [crm[c].call EXCEPT !.pc = "persist", !.token = 0, !.fresh = n]
    OBVIOUS
  <2>3. x \in CrmCallShape /\ x.pc = "persist" /\ x.fresh = n /\ x.token = 0
    BY <2>2, CallsFit DEF CrmCallShape, CrmSteps
  <2>4. Turned(c, x)
    <3>1. x.fresh <= newest' /\ x.token <= newest' /\ newest' \in Nat /\ newest <= newest'
      BY <1>3, <2>1, <2>3, CallsFit
    <3> QED
      BY <1>1, <1>3, <2>1, <2>2, <2>3, <3>1, Turning
  <2>5. TokensInv'
    BY <1>1, <1>2, <1>3, NewGrant DEF CrmInv, TokensInv
  <2>6. QuietInv'
    <3>1. ASSUME ~tangled PROVE \A d \in CrmCalls \ {c} : ~Busy(d)
      BY <1>1, <3>1 DEF CrmInv, QuietInv
    <3> QED
      BY <1>3, <2>1, <2>3, <2>4, <3>1 DEF QuietInv, Turned, Busy, Refreshing, PC
  <2>7. StoredInv'
    BY <1>1, <2>3, <2>4 DEF StoredInv, Turned, Owed, PC
  <2>8. LeftInv'
    <3>1. accepted' \cap left = {} /\ n \notin left
      BY <1>1, <1>3, <2>1, NewGrant
    <3> QED
      BY <1>1, <2>3, <2>4, <3>1 DEF CrmInv, LeftInv, Turned, PC
  <2> QED
    BY <2>4, <2>5, <2>6, <2>7, <2>8 DEF CrmInv, Turned
<1>4. ASSUME newest < MaxTokens, newest' = newest + 1, Settle(c, "error"), Leaves(c), spoiled' = TRUE,
             accepted' \subseteq accepted \cup {newest + 1}
      PROVE  CrmInv'
  <2>1. newest' \in Nat /\ newest <= newest' /\ accepted' \cap left = {} /\ stored' \notin left
    BY <1>1, <1>4, NewGrant DEF CrmInv, LeftInv
  <2>2. Eased(c)
    BY <1>1, <1>4, <2>1, Settling
  <2>3. TokensInv'
    BY <1>1, <1>2, <1>4, <2>2, Leaving, NewGrant DEF CrmInv, TokensInv
  <2> QED
    BY <1>1, <1>4, <2>1, <2>2, <2>3, EasedKeeps
<1>5. ASSUME NEW result, Settle(c, result), Leaves(c), UNCHANGED <<newest, accepted, spoiled>>
      PROVE  CrmInv'
  <2>1. Eased(c)
    BY <1>1, <1>5, CallsFit, Settling
  <2>2. TokensInv'
    BY <1>1, <1>2, <1>5, <2>1, Leaving DEF CrmInv, TokensInv
  <2>3. QuietInv' /\ LeftInv'
    BY <1>1, <1>5, <2>1, Leaving DEF CrmInv, QuietInv, LeftInv, Eased, Busy, Refreshing, PC
  <2>4. StoredInv'
    BY <1>1, <1>5, <2>1 DEF CrmInv, StoredInv, Eased, Owed, Busy, Refreshing, PC
  <2> QED
    BY <2>1, <2>2, <2>3, <2>4 DEF CrmInv, Eased
<1>6. \A granted \in Issued : granted \subseteq accepted \cup {newest + 1} /\ newest + 1 \in granted
  BY DEF Issued
<1> QED
  BY <1>3, <1>4, <1>5, <1>6 DEF RefreshAccessToken

LEMMA PersistKeeps ==
    ASSUME CrmInv, NEW c \in CrmCalls, PersistRotated(c)
    PROVE  CrmInv'
<1>1. /\ PC(c) = "persist" /\ Busy(c) /\ Leaves(c)
      /\ UNCHANGED <<provider, consent, crmArrivals, accepted, newest, cached, left>>
  BY DEF PersistRotated, outside, Busy, Refreshing
<1>2. Eased(c)
  BY <1>1, CallsFit, Settling DEF PersistRotated
<1>3. crm[c].call.fresh \in 0..newest /\ (~tangled => crm[c].call.fresh \in accepted)
  BY <1>1, CallsFit DEF CrmInv, QuietInv
<1>4. TokensInv'
  BY <1>1, <1>2, <1>3, Leaving DEF PersistRotated, CrmInv, TokensInv
<1>5. spoiled' \/ stored' \in accepted'
  BY <1>1, <1>3 DEF PersistRotated
<1>6. accepted' \cap left = {} /\ stored' \notin left
  BY <1>1 DEF CrmInv, LeftInv, PersistRotated
<1> QED
  BY <1>1, <1>2, <1>4, <1>5, <1>6, EasedKeeps

LEMMA CrmStepKeeps == CrmInv /\ [CrmNext]_crmVars => CrmInv'
<1> SUFFICES ASSUME CrmInv, [CrmNext]_crmVars PROVE CrmInv'
  OBVIOUS
<1>1. CASE OAuthStart \/ ConsentExpires
  BY <1>1, RestKeeps DEF OAuthStart, ConsentExpires, CrmInv, TokensInv
<1>2. ASSUME NEW i \in Instances, TokenExpires(i) \/ InstanceGone(i) PROVE CrmInv'
  BY <1>2, RestKeeps, InstanceKeeps DEF TokenExpires, outside, CrmInv, TokensInv
<1>3. ASSUME NEW c \in CrmCalls,
             \/ OAuthCallback(c) \/ ExchangeCode(c) \/ SaveTenantTokens(c)
             \/ Disconnect(c) \/ ReadForRevoke(c) \/ Revoke(c) \/ DeleteTenantTokens(c)
             \/ UseCrm(c) \/ GetValidAccessToken(c) \/ Lookup(c) \/ ReadRefreshToken(c)
             \/ RefreshAccessToken(c) \/ PersistRotated(c) \/ Send(c) \/ Resend(c)
      PROVE  CrmInv'
  BY <1>3, CallbackKeeps, ExchangeCodeKeeps, SaveKeeps, DisconnectKeeps, ReadForRevokeKeeps, RevokeKeeps,
     DeleteKeeps, UseKeeps, AccessTokenKeeps, LookingKeeps, ReadRefreshKeeps, RefreshKeeps, PersistKeeps
<1>4. CASE UNCHANGED crmVars
  BY <1>4, RestKeeps DEF crmVars, CrmInv, TokensInv
<1> QED
  BY <1>1, <1>2, <1>3, <1>4, AuthorisationKeeps DEF CrmNext

LEMMA CrmInvAlways == CrmSpec => []CrmInv
  BY InitCrmInv, CrmStepKeeps, PTL DEF CrmSpec

-------------------------------------------------------------------------------
(* The connection's state has its types: in particular, only tokens that the
   provider has issued are ever stored or taken. *)
THEOREM CrmTypeCorrect == CrmSpec => []CrmTypeOK
<1>1. CrmInv => CrmTypeOK
  <2> SUFFICES ASSUME CrmInv PROVE CrmTypeOK
    OBVIOUS
  <2>1. stored \in 0..MaxTokens
    BY CrmConstants DEF CrmInv, TokensInv
  <2>2. DOMAIN crm = CrmCalls
        /\ \A c \in CrmCalls : /\ crm[c].at \in Instances \cup {"nowhere"} /\ crm[c].call \in CrmCallShape
                               /\ crm[c].call.fresh \in 0..newest /\ crm[c].call.token \in 0..newest
    BY CallsFit DEF CrmInv, CallsInv, CrmShape, Places
  <2>3. {tangled, spoiled} \subseteq BOOLEAN
    BY DEF CrmInv, TokensInv
  <2>4. \A c \in CrmCalls :
          /\ crm[c].at \in Instances \cup {"nowhere"} /\ PC(c) \in CrmSteps
          /\ crm[c].call.then \in {"build", "request", "retry"} /\ crm[c].call.warned \in BOOLEAN
          /\ crm[c].call.token \in 0..newest /\ crm[c].call.fresh \in 0..newest
    BY <2>2 DEF PC, CrmCallShape
  <2> QED
    BY <2>1, <2>2, <2>3, <2>4 DEF CrmTypeOK, CrmInv, TokensInv
<1> QED
  BY <1>1, CrmInvAlways, PTL

(* get-client.ts, refreshSingleFlight and refreshAndCache: however often the
   provider rotates the token and however many callers of however many
   instances need it, the one stored is taken, unless writers of it
   overlapped, a write or an answer was lost, or the authorisation ended. *)
THEOREM StoredTokenWorksAlways == CrmSpec => []StoredTokenWorks
<1>1. CrmInv => StoredTokenWorks
  BY DEF CrmInv, StoredInv, StoredTokenWorks, Owed, Busy, Refreshing
<1> QED
  BY <1>1, CrmInvAlways, PTL

(* disconnectHubSpot and disconnectSalesforce: the token is read and revoked
   before its row is deleted, so that the token of a disconnect without a
   warning, whose steps nothing overlapped, is never stored or taken again,
   through whatever calls, refreshes and connections come after. *)
THEOREM CleanDisconnectAlways == CrmSpec => []CleanDisconnect
<1>1. CrmInv => CleanDisconnect
  BY DEF CrmInv, LeftInv, CleanDisconnect
<1> QED
  BY <1>1, CrmInvAlways, PTL

-------------------------------------------------------------------------------
(* A seller's account. *)
Stored == [pc : {"new", "user", "undo", "sign in", "over"}, email : Mailboxes \cup {NoUser}]
Mail == [email : Mailboxes, number : 0..issuedLinks]
Session == [user : Mailboxes \cup {NoUser}, marker : Mailboxes \cup {NoUser}]
Tab == [pc : {"closed", "update", "updated"}, at : Browsers \cup {NoUser},
        user : Mailboxes \cup {NoUser}, proof : BOOLEAN]

(* A registration's tenant is there while its user is made; no user has it
   before that, and none while it is undone unless an answer was lost. *)
SignupInv ==
    /\ tenants \subseteq Signups /\ lostSignups \subseteq Signups
    /\ accounts \in [Mailboxes -> Signups \cup {NoTenant}] /\ signups \in [Signups -> Stored]
    /\ \A s \in Signups : signups[s].pc = "user" => s \in tenants /\ signups[s].email \in Mailboxes
    /\ \A e \in Mailboxes, s \in Signups : accounts[e] = s =>
          signups[s].pc \notin {"new", "user"} /\ (signups[s].pc = "undo" => s \in lostSignups)

LinksInv ==
    /\ issuedLinks \in Nat /\ works \in [Mailboxes -> 0..issuedLinks] /\ inbox \subseteq Mail

(* A marker has its proof, and so has a submission that got past the guard. *)
MarkersInv ==
    /\ browsers \in [Browsers -> Session] /\ tabs \in [ResetTabs -> Tab]
    /\ \A b \in Browsers : browsers[b].marker # NoUser => <<b, browsers[b].marker>> \in proved
    /\ \A t \in ResetTabs : tabs[t].pc # "closed" => tabs[t].proof /\ tabs[t].at \in Browsers

AccountInv == SignupInv /\ OneTenantEach /\ LinksInv /\ MarkersInv

-------------------------------------------------------------------------------
(* Registering. *)
LEMMA Nobody == NoTenant \notin Signups /\ NoUser \notin Mailboxes
  BY AccountAssumption

LEMMA InitAccountInv == AccountInit => AccountInv
<1> SUFFICES ASSUME AccountInit PROVE AccountInv
  OBVIOUS
<1>1. SignupInv
  BY Nobody DEF AccountInit, SignupInv, Stored
<1>2. OneTenantEach
  BY DEF AccountInit, OneTenantEach, Users
<1>3. LinksInv
  BY DEF AccountInit, LinksInv
<1>4. MarkersInv
  BY DEF AccountInit, MarkersInv, Session, Tab, ClosedTab
<1> QED
  BY <1>1, <1>2, <1>3, <1>4 DEF AccountInv

LEMMA SamePart ==
    /\ SignupInv /\ UNCHANGED registration => SignupInv'
    /\ OneTenantEach /\ UNCHANGED registration => OneTenantEach'
    /\ LinksInv /\ UNCHANGED <<issuedLinks, works, inbox>> => LinksInv'
    /\ MarkersInv /\ UNCHANGED <<browsers, proved, tabs>> => MarkersInv'
<1>1. SignupInv /\ UNCHANGED registration => SignupInv'
  BY DEF SignupInv, registration
<1>2. OneTenantEach /\ UNCHANGED registration => OneTenantEach'
  BY DEF OneTenantEach, Users, registration
<1>3. LinksInv /\ UNCHANGED <<issuedLinks, works, inbox>> => LinksInv'
  BY DEF LinksInv, Mail
<1>4. MarkersInv /\ UNCHANGED <<browsers, proved, tabs>> => MarkersInv'
  BY DEF MarkersInv
<1> QED
  BY <1>1, <1>2, <1>3, <1>4

LEMMA SignupMoves ==
    ASSUME SignupInv, NEW s \in Signups, NEW pc \in {"user", "undo", "sign in", "over"},
           NEW e \in Mailboxes \cup {NoUser}, signups' = [signups EXCEPT ![s] = [pc |-> pc, email |-> e]]
    PROVE  /\ signups' \in [Signups -> Stored] /\ signups'[s].pc = pc /\ signups'[s].email = e
           /\ \A r \in Signups \ {s} : signups'[r] = signups[r]
<1>1. PICK x : x = [pc |-> pc, email |-> e]
  OBVIOUS
<1>2. x \in Stored /\ x.pc = pc /\ x.email = e
  BY <1>1 DEF Stored
<1> QED
  BY <1>1, <1>2 DEF SignupInv

LEMMA SignupGoesOn ==
    ASSUME SignupInv, NEW s \in Signups, NEW pc \in {"undo", "sign in"}, SignupGoes(s, pc)
    PROVE  /\ signups' \in [Signups -> Stored] /\ signups'[s].pc = pc
           /\ \A r \in Signups \ {s} : signups'[r] = signups[r]
<1>1. PICK x : x = [signups[s] EXCEPT !.pc = pc]
  OBVIOUS
<1>2. signups \in [Signups -> Stored] /\ signups[s] \in Stored
  BY DEF SignupInv
<1>3. x \in Stored /\ x.pc = pc
  BY <1>1, <1>2 DEF Stored
<1>4. signups' = [signups EXCEPT ![s] = x]
  BY <1>1, <1>2 DEF SignupGoes
<1> QED
  BY <1>2, <1>3, <1>4

(* A registration that is over leaves its tenant to the user it made, or is
   among the lost ones, or took the tenant back. *)
LEMMA SignupEnds ==
    ASSUME SignupInv, OneTenantEach, NEW s \in Signups, SignupOver(s), accounts' = accounts,
           tenants' \subseteq Signups, lostSignups' \subseteq Signups,
           tenants \ {s} \subseteq tenants', tenants' \subseteq tenants \cup {s},
           lostSignups \subseteq lostSignups', lostSignups' \subseteq lostSignups \cup {s},
           \A e \in Mailboxes : accounts[e] = s => s \in tenants' \cup lostSignups',
           s \notin tenants' \/ s \in lostSignups' \/ \E e \in Users : accounts[e] = s
    PROVE  SignupInv' /\ OneTenantEach'
<1>1. /\ signups' \in [Signups -> Stored] /\ signups'[s].pc = "over"
      /\ \A r \in Signups \ {s} : signups'[r] = signups[r]
  BY SignupMoves DEF SignupOver
<1>2. SignupInv'
  BY <1>1 DEF SignupInv
<1>3. Users' = Users /\ \A e \in Users : e \in Mailboxes /\ accounts[e] \in Signups
  BY DEF Users, SignupInv
<1>4. ASSUME NEW e \in Users PROVE accounts[e] \in tenants' \cup lostSignups'
  BY <1>3, <1>4 DEF OneTenantEach
<1>5. ASSUME NEW r \in tenants' \ lostSignups'
      PROVE  signups'[r].pc \in {"user", "undo"} \/ \E e \in Users : accounts[e] = r
  BY <1>1, <1>5 DEF OneTenantEach
<1>6. OneTenantEach'
  BY <1>3, <1>4, <1>5 DEF OneTenantEach
<1> QED
  BY <1>2, <1>6

LEMMA CreateTenantKeeps ==
    ASSUME AccountInv, NEW s \in Signups, CreateTenant(s)
    PROVE  SignupInv' /\ OneTenantEach'
<1>1. SignupInv /\ OneTenantEach /\ signups[s].pc = "new" /\ accounts' = accounts
  BY DEF AccountInv, CreateTenant
<1>2. /\ \A e \in Mailboxes : accounts[e] # s
      /\ s \notin tenants \ lostSignups
  BY <1>1 DEF SignupInv, OneTenantEach, Users
<1>3. ASSUME NEW e \in Mailboxes, signups' = [signups EXCEPT ![s] = [pc |-> "user", email |-> e]],
             tenants' = tenants \cup {s}, lostSignups' = lostSignups
      PROVE  SignupInv' /\ OneTenantEach'
  <2>1. /\ signups' \in [Signups -> Stored] /\ signups'[s].pc = "user" /\ signups'[s].email = e
        /\ \A r \in Signups \ {s} : signups'[r] = signups[r]
    BY <1>1, <1>3, SignupMoves
  <2>2. SignupInv'
    BY <1>1, <1>2, <1>3, <2>1 DEF SignupInv
  <2>3. Users' = Users
    BY <1>1 DEF Users
  <2>4. OneTenantEach'
    BY <1>1, <1>3, <2>1, <2>3 DEF OneTenantEach
  <2> QED
    BY <2>2, <2>4
<1>4. ASSUME SignupOver(s), UNCHANGED <<tenants, lostSignups>> PROVE SignupInv' /\ OneTenantEach'
  BY <1>1, <1>2, <1>4, SignupEnds DEF SignupInv
<1>5. ASSUME SignupOver(s), tenants' = tenants \cup {s}, lostSignups' = lostSignups \cup {s}
      PROVE  SignupInv' /\ OneTenantEach'
  BY <1>1, <1>2, <1>5, SignupEnds DEF SignupInv
<1> QED
  BY <1>3, <1>4, <1>5 DEF CreateTenant

LEMMA CreateUserKeeps ==
    ASSUME AccountInv, NEW s \in Signups, CreateUser(s)
    PROVE  SignupInv' /\ OneTenantEach'
<1>1. SignupInv /\ OneTenantEach /\ signups[s].pc = "user" /\ tenants' = tenants
  BY DEF AccountInv, CreateUser
<1>2. PICK e \in Mailboxes : e = signups[s].email
  BY <1>1 DEF SignupInv
<1>3. s \in tenants /\ \A d \in Mailboxes : accounts[d] # s
  BY <1>1 DEF SignupInv
<1>4. ASSUME e \notin Users, accounts' = [accounts EXCEPT ![e] = s],
             NEW pc \in {"sign in", "undo"}, SignupGoes(s, pc),
             lostSignups' = IF pc = "undo" THEN lostSignups \cup {s} ELSE lostSignups
      PROVE  SignupInv' /\ OneTenantEach'
  <2>1. /\ signups' \in [Signups -> Stored] /\ signups'[s].pc = pc
        /\ \A r \in Signups \ {s} : signups'[r] = signups[r]
    BY <1>1, <1>4, SignupGoesOn
  <2>2. /\ accounts' \in [Mailboxes -> Signups \cup {NoTenant}] /\ accounts'[e] = s
        /\ \A d \in Mailboxes \ {e} : accounts'[d] = accounts[d]
    BY <1>1, <1>4 DEF SignupInv
  <2>3. SignupInv'
    <3>1. lostSignups' \subseteq Signups /\ lostSignups \subseteq lostSignups' /\ (pc = "undo" => s \in lostSignups')
      BY <1>1, <1>4 DEF SignupInv
    <3>2. \A r \in Signups : signups'[r].pc = "user" => r \in tenants /\ signups'[r].email \in Mailboxes
      BY <1>1, <2>1, <1>4 DEF SignupInv
    <3>3. ASSUME NEW d \in Mailboxes, NEW r \in Signups, accounts'[d] = r
          PROVE  signups'[r].pc \notin {"new", "user"} /\ (signups'[r].pc = "undo" => r \in lostSignups')
      BY ZenonT(30), <1>1, <1>3, <1>4, <2>1, <2>2, <3>1, <3>3 DEF SignupInv
    <3> QED
      BY <1>1, <2>1, <2>2, <3>1, <3>2, <3>3 DEF SignupInv
  <2>4. Users' = Users \cup {e} /\ \A d \in Users : d # e /\ accounts'[d] = accounts[d]
    BY <1>4, <2>2, Nobody DEF Users
  <2>5. lostSignups \subseteq lostSignups'
    BY <1>4
  <2>6. \A d \in Users' : accounts'[d] \in tenants' \cup lostSignups'
    BY <1>1, <1>3, <2>2, <2>4, <2>5 DEF OneTenantEach
  <2>7. \A c, d \in Users' : accounts'[c] = accounts'[d] => c = d
    <3>1. /\ \A c, d \in Users : accounts[c] = accounts[d] => c = d
          /\ \A d \in Users : accounts[d] # s
      BY <1>1, <1>3 DEF OneTenantEach, Users
    <3>2. \A d \in Users : accounts'[d] # accounts'[e] /\ accounts'[d] = accounts[d]
      BY <2>2, <2>4, <3>1
    <3>3. ASSUME NEW c \in Users \cup {e}, NEW d \in Users \cup {e}, accounts'[c] = accounts'[d]
          PROVE  c = d
      BY <3>1, <3>2, <3>3
    <3> QED
      BY <2>4, <3>3
  <2>8. ASSUME NEW r \in tenants' \ lostSignups'
        PROVE  signups'[r].pc \in {"user", "undo"} \/ \E d \in Users' : accounts'[d] = r
    <3>1. CASE r = s
      BY <2>2, <2>4, <3>1
    <3>2. CASE r # s
      <4>1. r \in Signups /\ r \in tenants \ lostSignups
        BY <1>1, <2>5, <2>8 DEF SignupInv
      <4>2. signups[r].pc \in {"user", "undo"} \/ \E d \in Users : accounts[d] = r
        BY <1>1, <4>1 DEF OneTenantEach
      <4> QED
        BY <2>1, <2>4, <3>2, <4>1, <4>2
    <3> QED
      BY <3>1, <3>2
  <2> QED
    BY <2>3, <2>6, <2>7, <2>8 DEF OneTenantEach
<1>5. ASSUME SignupGoes(s, "undo"), UNCHANGED <<accounts, lostSignups>>
      PROVE  SignupInv' /\ OneTenantEach'
  <2>1. /\ signups' \in [Signups -> Stored] /\ signups'[s].pc = "undo"
        /\ \A r \in Signups \ {s} : signups'[r] = signups[r]
    BY <1>1, <1>5, SignupGoesOn
  <2>2. SignupInv'
    BY <1>1, <1>3, <1>5, <2>1 DEF SignupInv
  <2>3. OneTenantEach'
    <3>1. Users' = Users
      BY <1>5 DEF Users
    <3>2. ASSUME NEW r \in tenants \ lostSignups
          PROVE  signups'[r].pc \in {"user", "undo"} \/ \E d \in Users : accounts[d] = r
      BY <1>1, <2>1 DEF OneTenantEach, SignupInv
    <3> QED
      BY <1>1, <1>5, <3>1, <3>2 DEF OneTenantEach
  <2> QED
    BY <2>2, <2>3
<1> QED
  BY <1>2, <1>4, <1>5 DEF CreateUser

LEMMA OthersKeep ==
    ASSUME AccountInv, NEW s \in Signups, UndoTenant(s) \/ SignupDies(s) \/ SignInRegistered(s)
    PROVE  SignupInv' /\ OneTenantEach'
<1>1. SignupInv /\ OneTenantEach /\ SignupOver(s) /\ accounts' = accounts
  BY DEF AccountInv, UndoTenant, SignupDies, SignInRegistered
<1>2. /\ tenants \subseteq Signups /\ lostSignups \subseteq Signups
      /\ \A e \in Mailboxes : accounts[e] = s => s \in tenants \cup lostSignups
  BY <1>1, Nobody DEF SignupInv, OneTenantEach, Users
<1>3. ASSUME UndoTenant(s) PROVE SignupInv' /\ OneTenantEach'
  <2>1. \A e \in Mailboxes : accounts[e] = s => s \in lostSignups
    BY <1>1, <1>3 DEF UndoTenant, SignupInv
  <2> QED
    BY <1>1, <1>2, <1>3, <2>1, SignupEnds DEF UndoTenant
<1>4. ASSUME SignupDies(s) PROVE SignupInv' /\ OneTenantEach'
  BY <1>1, <1>2, <1>4, SignupEnds DEF SignupDies
<1>5. ASSUME SignInRegistered(s) PROVE SignupInv' /\ OneTenantEach'
  <2>1. s \in tenants \ lostSignups => \E e \in Users : accounts[e] = s
    BY <1>1, <1>5 DEF SignInRegistered, OneTenantEach
  <2> QED
    BY <1>1, <1>2, <1>5, <2>1, SignupEnds DEF SignInRegistered
<1> QED
  BY <1>3, <1>4, <1>5

-------------------------------------------------------------------------------
(* Recovering. *)
LEMMA SigningKeeps ==
    ASSUME MarkersInv, NEW b \in Browsers, NEW e \in Mailboxes \cup {NoUser}, SignsIn(b, e),
           UNCHANGED <<proved, tabs>>
    PROVE  MarkersInv'
<1>1. PICK x : x = [browsers[b] EXCEPT !.user = e]
  OBVIOUS
<1>2. x \in Session /\ x.marker = browsers[b].marker
  BY <1>1 DEF MarkersInv, Session
<1>3. browsers' = [browsers EXCEPT ![b] = x]
  BY <1>1 DEF SignsIn, MarkersInv
<1>4. browsers' \in [Browsers -> Session] /\ \A c \in Browsers : browsers'[c].marker = browsers[c].marker
  BY <1>2, <1>3 DEF MarkersInv
<1> QED
  BY <1>4 DEF MarkersInv

LEMMA ContinueKeeps ==
    ASSUME LinksInv, MarkersInv, NEW b \in Browsers, ContinueRecovery(b)
    PROVE  LinksInv' /\ MarkersInv'
<1>1. PICK mail \in inbox :
        /\ works' = [works EXCEPT ![mail.email] = 0]
        /\ browsers' = [browsers EXCEPT ![b] = [user |-> mail.email, marker |-> mail.email]]
        /\ proved' = proved \cup {<<b, mail.email>>} /\ inbox' = inbox \ {mail}
        /\ UNCHANGED <<registration, issuedLinks, asking, tabs>>
  BY DEF ContinueRecovery
<1>2. PICK e \in Mailboxes : e = mail.email
  BY DEF LinksInv, Mail
<1>3. LinksInv'
  BY <1>1 DEF LinksInv, Mail
<1>4. PICK x : x = [user |-> e, marker |-> e]
  OBVIOUS
<1>5. x \in Session /\ x.marker = e
  BY <1>4 DEF Session
<1>6. browsers' = [browsers EXCEPT ![b] = x]
  BY <1>1, <1>2, <1>4
<1>7. /\ browsers' \in [Browsers -> Session] /\ browsers'[b].marker = e
      /\ \A c \in Browsers \ {b} : browsers'[c] = browsers[c]
  BY <1>5, <1>6 DEF MarkersInv
<1>8. \A c \in Browsers : browsers'[c].marker # NoUser => <<c, browsers'[c].marker>> \in proved'
  BY <1>1, <1>2, <1>7 DEF MarkersInv
<1> QED
  BY <1>1, <1>3, <1>7, <1>8 DEF MarkersInv

LEMMA MarkerExpiresKeeps ==
    ASSUME MarkersInv, NEW b \in Browsers, MarkerExpires(b)
    PROVE  MarkersInv'
<1>1. /\ browsers' = [browsers EXCEPT ![b].marker = NoUser]
      /\ proved' = proved \ {<<b, e>> : e \in Mailboxes} /\ tabs' = tabs
  BY DEF MarkerExpires
<1>2. PICK x : x = [browsers[b] EXCEPT !.marker = NoUser]
  OBVIOUS
<1>3. x \in Session /\ x.marker = NoUser
  BY <1>2 DEF MarkersInv, Session
<1>4. browsers' = [browsers EXCEPT ![b] = x]
  BY <1>1, <1>2 DEF MarkersInv
<1>5. /\ browsers' \in [Browsers -> Session] /\ browsers'[b].marker = NoUser
      /\ \A c \in Browsers \ {b} : browsers'[c] = browsers[c]
  BY <1>3, <1>4 DEF MarkersInv
<1>6. \A c \in Browsers : browsers'[c].marker # NoUser => <<c, browsers'[c].marker>> \in proved'
  BY <1>1, <1>5 DEF MarkersInv
<1> QED
  BY <1>1, <1>5, <1>6 DEF MarkersInv

LEMMA TabMoves ==
    ASSUME MarkersInv, NEW t \in ResetTabs, NEW x \in Tab, tabs' = [tabs EXCEPT ![t] = x],
           x.pc # "closed" => x.proof /\ x.at \in Browsers
    PROVE  /\ tabs' \in [ResetTabs -> Tab]
           /\ \A u \in ResetTabs : tabs'[u].pc # "closed" => tabs'[u].proof /\ tabs'[u].at \in Browsers
  BY DEF MarkersInv

LEMMA CheckKeeps ==
    ASSUME MarkersInv, NEW t \in ResetTabs, CheckNewPassword(t)
    PROVE  MarkersInv'
<1>1. PICK b \in Browsers :
        /\ \E e \in GetRecoveryUser(b) : tabs' = [tabs EXCEPT ![t] =
              [pc |-> "update", at |-> b, user |-> e, proof |-> <<b, e>> \in proved]]
        /\ UNCHANGED <<browsers, proved>>
  BY DEF CheckNewPassword
<1>2. PICK e \in GetRecoveryUser(b) : tabs' = [tabs EXCEPT ![t] =
        [pc |-> "update", at |-> b, user |-> e, proof |-> <<b, e>> \in proved]]
  BY <1>1
<1>3. e \in Mailboxes /\ <<b, e>> \in proved
  BY <1>2, Nobody DEF GetRecoveryUser, SignedIn, MarkersInv, Session
<1>4. PICK x : x = [pc |-> "update", at |-> b, user |-> e, proof |-> <<b, e>> \in proved]
  OBVIOUS
<1>5. x \in Tab /\ x.proof /\ x.at = b
  BY <1>3, <1>4 DEF Tab
<1> QED
  BY <1>1, <1>2, <1>4, <1>5, TabMoves DEF MarkersInv

LEMMA SetKeeps ==
    ASSUME MarkersInv, NEW t \in ResetTabs, SetNewPassword(t)
    PROVE  MarkersInv'
<1>1. PICK b, e : b = tabs[t].at /\ e = tabs[t].user
  OBVIOUS
<1>2. tabs[t].pc = "update" /\ b \in Browsers /\ tabs[t] \in Tab /\ tabs[t].proof
  BY <1>1 DEF SetNewPassword, MarkersInv
<1>3. ASSUME tabs' = [tabs EXCEPT ![t].pc = "updated"], NEW signedOut \in BOOLEAN,
             browsers' = [c \in Browsers |->
                 IF c = b THEN [browsers[c] EXCEPT !.marker = NoUser]
                 ELSE IF signedOut /\ browsers[c].user = e THEN [browsers[c] EXCEPT !.user = NoUser]
                 ELSE browsers[c]],
             proved' = proved \ {<<b, e>>}
      PROVE  MarkersInv'
  <2>1. PICK x : x = [tabs[t] EXCEPT !.pc = "updated"]
    OBVIOUS
  <2>2. x \in Tab /\ x.proof /\ x.at \in Browsers
    BY <1>1, <1>2, <2>1 DEF Tab
  <2>3. tabs' = [tabs EXCEPT ![t] = x]
    BY <1>3, <2>1 DEF MarkersInv
  <2>4. /\ tabs' \in [ResetTabs -> Tab]
        /\ \A u \in ResetTabs : tabs'[u].pc # "closed" => tabs'[u].proof /\ tabs'[u].at \in Browsers
    BY <2>2, <2>3, TabMoves
  <2>5. ASSUME NEW c \in Browsers
        PROVE  /\ browsers'[c] \in Session
               /\ browsers'[c].marker = IF c = b THEN NoUser ELSE browsers[c].marker
    <3>1. browsers[c] \in Session
      BY DEF MarkersInv
    <3>2. PICK y, z : y = [browsers[c] EXCEPT !.marker = NoUser] /\ z = [browsers[c] EXCEPT !.user = NoUser]
      OBVIOUS
    <3>3. /\ y \in Session /\ y.marker = NoUser
          /\ z \in Session /\ z.marker = browsers[c].marker
      BY <3>1, <3>2 DEF Session
    <3>4. browsers'[c] = IF c = b THEN y ELSE IF signedOut /\ browsers[c].user = e THEN z ELSE browsers[c]
      BY <1>3, <3>2
    <3> QED
      BY <3>1, <3>3, <3>4
  <2>6. browsers' \in [Browsers -> Session]
    BY <1>3, <2>5
  <2>7. \A c \in Browsers : browsers'[c].marker # NoUser => <<c, browsers'[c].marker>> \in proved'
    BY <1>3, <2>5 DEF MarkersInv
  <2> QED
    BY <2>4, <2>6, <2>7 DEF MarkersInv
<1>4. ASSUME tabs' = [tabs EXCEPT ![t] = ClosedTab], UNCHANGED <<browsers, proved>> PROVE MarkersInv'
  <2>1. ClosedTab \in Tab /\ ClosedTab.pc = "closed"
    BY DEF ClosedTab, Tab
  <2> QED
    BY <1>4, <2>1, TabMoves DEF MarkersInv
<1> QED
  BY <1>1, <1>3, <1>4 DEF SetNewPassword

LEMMA LinkKeeps ==
    ASSUME LinksInv, NEW e \in Mailboxes, RequestPasswordReset(e)
    PROVE  LinksInv'
<1>1. ASSUME issuedLinks' = issuedLinks + 1, works' = [works EXCEPT ![e] = issuedLinks'],
             inbox' \in {inbox, inbox \cup {[email |-> e, number |-> issuedLinks']}}
      PROVE  LinksInv'
  <2>1. PICK n \in Nat : n = issuedLinks + 1
    BY DEF LinksInv
  <2>2. issuedLinks' = n /\ works' = [works EXCEPT ![e] = n] /\ works \in [Mailboxes -> 0..n]
    BY <1>1, <2>1 DEF LinksInv
  <2>3. works' \in [Mailboxes -> 0..n]
    BY <2>1, <2>2
  <2>4. PICK mail : mail = [email |-> e, number |-> n]
    OBVIOUS
  <2>5. mail \in [email : Mailboxes, number : 0..n] /\ inbox \subseteq [email : Mailboxes, number : 0..n]
    BY <2>1, <2>4 DEF LinksInv, Mail
  <2>6. inbox' \subseteq [email : Mailboxes, number : 0..n]
    BY <1>1, <2>2, <2>4, <2>5
  <2> QED
    BY <2>1, <2>2, <2>3, <2>6 DEF LinksInv, Mail
<1>2. UNCHANGED <<issuedLinks, works, inbox>> => LinksInv'
  BY DEF LinksInv, Mail
<1> QED
  BY <1>1, <1>2 DEF RequestPasswordReset

LEMMA AccountStepKeeps == AccountInv /\ [AccountNext]_accountVars => AccountInv'
<1> SUFFICES ASSUME AccountInv, [AccountNext]_accountVars PROVE AccountInv'
  OBVIOUS
<1>1. ASSUME NEW s \in Signups,
             CreateTenant(s) \/ CreateUser(s) \/ UndoTenant(s) \/ SignupDies(s) \/ SignInRegistered(s)
      PROVE  AccountInv'
  <2>1. SignupInv' /\ OneTenantEach'
    BY <1>1, CreateTenantKeeps, CreateUserKeeps, OthersKeep
  <2>2. UNCHANGED <<issuedLinks, works, inbox, asking, proved, tabs>>
    BY <1>1 DEF CreateTenant, CreateUser, UndoTenant, SignupDies, SignInRegistered, recovery
  <2>3. MarkersInv'
    <3>1. CASE browsers' = browsers
      BY <2>2, <3>1, SamePart DEF AccountInv
    <3>2. CASE SignInRegistered(s) /\ browsers' # browsers
      <4>1. PICK b \in Browsers : SignsIn(b, signups[s].email)
        BY <3>2 DEF SignInRegistered
      <4>2. PICK e \in Mailboxes \cup {NoUser} : e = signups[s].email
        BY DEF AccountInv, SignupInv, Stored
      <4> QED
        BY <2>2, <4>1, <4>2, SigningKeeps DEF AccountInv
    <3> QED
      BY <1>1, <3>1, <3>2 DEF CreateTenant, CreateUser, UndoTenant, SignupDies
  <2> QED
    BY <2>1, <2>2, <2>3, SamePart DEF AccountInv
<1>2. ASSUME NEW b \in Browsers, SignIn(b) \/ SessionEnds(b) \/ ConfirmMagicLink(b)
      PROVE  AccountInv'
  <2>1. UNCHANGED <<registration, issuedLinks, works, asking, proved, tabs>>
    BY <1>2 DEF SignIn, SessionEnds, ConfirmMagicLink, recovery
  <2>2. PICK e \in Mailboxes \cup {NoUser} : SignsIn(b, e)
    BY <1>2 DEF SignIn, SessionEnds, ConfirmMagicLink, Users, AccountInv, LinksInv, Mail
  <2>3. MarkersInv'
    BY <2>1, <2>2, SigningKeeps DEF AccountInv
  <2>4. LinksInv'
    BY <1>2, <2>1 DEF SignIn, SessionEnds, ConfirmMagicLink, recovery, AccountInv, LinksInv, Mail
  <2> QED
    BY <2>1, <2>3, <2>4, SamePart DEF AccountInv
<1>3. ASSUME NEW b \in Browsers, ContinueRecovery(b) \/ MarkerExpires(b)
      PROVE  AccountInv'
  <2>1. UNCHANGED registration
    BY <1>3 DEF ContinueRecovery, MarkerExpires
  <2>2. MarkersInv' /\ LinksInv'
    BY <1>3, ContinueKeeps, MarkerExpiresKeeps, SamePart DEF AccountInv, MarkerExpires
  <2> QED
    BY <2>1, <2>2, SamePart DEF AccountInv
<1>4. CASE SendMagicLink
  <2>1. LinksInv'
    <3>1. PICK e \in Mailboxes : inbox' = inbox \cup {[email |-> e, number |-> 0]}
      BY <1>4 DEF SendMagicLink, Users
    <3>2. [email |-> e, number |-> 0] \in Mail
      BY DEF AccountInv, LinksInv, Mail
    <3> QED
      BY <1>4, <3>1, <3>2 DEF SendMagicLink, AccountInv, LinksInv, Mail
  <2> QED
    BY <1>4, <2>1, SamePart DEF AccountInv, SendMagicLink
<1>5. CASE RequestReset
  BY <1>5, SamePart DEF AccountInv, RequestReset
<1>6. ASSUME NEW e \in Mailboxes, IsWithinRecoveryCooldown(e) \/ RequestPasswordReset(e)
      PROVE  AccountInv'
  <2>1. LinksInv'
    BY <1>6, LinkKeeps, SamePart DEF AccountInv, IsWithinRecoveryCooldown
  <2> QED
    BY <1>6, <2>1, SamePart DEF AccountInv, IsWithinRecoveryCooldown, RequestPasswordReset
<1>7. ASSUME NEW t \in ResetTabs, CheckNewPassword(t) \/ SetNewPassword(t)
      PROVE  AccountInv'
  <2>1. MarkersInv'
    BY <1>7, CheckKeeps, SetKeeps DEF AccountInv
  <2>2. UNCHANGED <<registration, issuedLinks, works, inbox>>
    BY <1>7 DEF CheckNewPassword, SetNewPassword
  <2> QED
    BY <2>1, <2>2, SamePart DEF AccountInv
<1>8. CASE UNCHANGED accountVars
  BY <1>8, SamePart DEF AccountInv, accountVars, registration
<1> QED
  BY <1>1, <1>2, <1>3, <1>4, <1>5, <1>6, <1>7, <1>8 DEF AccountNext

LEMMA AccountInvAlways == AccountSpec => []AccountInv
  BY InitAccountInv, AccountStepKeeps, PTL DEF AccountSpec

-------------------------------------------------------------------------------
(* Every variable of the accounts has its type. *)
THEOREM AccountTypeCorrect == AccountSpec => []AccountTypeOK
<1>1. AccountInv => AccountTypeOK
  BY DEF AccountInv, SignupInv, LinksInv, MarkersInv, Session, AccountTypeOK
<1> QED
  BY <1>1, AccountInvAlways, PTL

(* provision-seller.ts, provisionSeller: however registrations for one
   address race, the unique address and the compensating delete leave every
   user a tenant of its own, and every tenant its user, but for those whose
   registration died, lost an answer or could not be undone. *)
THEOREM OneTenantEachAlways == AccountSpec => []OneTenantEach
<1>1. AccountInv => OneTenantEach
  BY DEF AccountInv
<1> QED
  BY <1>1, AccountInvAlways, PTL

(* app/auth/reset/actions.ts, setNewPassword behind getRecoveryUser: whoever
   signed in to the browser since, a password is changed only where a
   recovery link of that very user had been used. *)
THEOREM PasswordNeedsRecoveryAlways == AccountSpec => []PasswordNeedsRecovery
<1>1. AccountInv => PasswordNeedsRecovery
  BY DEF AccountInv, MarkersInv, PasswordNeedsRecovery
<1> QED
  BY <1>1, AccountInvAlways, PTL

-------------------------------------------------------------------------------
(* Who is let in. *)
AccessInv == AccessTypeOK /\ (kind = "sample" => (listed \cup sentCode \cup sessions) \subseteq {"own"})

LEMMA LinksStay ==
    ASSUME AccessTypeOK, NEW k \in Links, AddLink(k) \/ SetLinkVisibility(k) \/ DeleteLink(k)
    PROVE  links' \in [Links -> {"none", "shared", "private", "gone"}]
  BY DEF AccessTypeOK, AddLink, SetLinkVisibility, DeleteLink

LEMMA AccessStepKeeps == AccessInv /\ [AccessNext]_accessVars => AccessInv'
<1> SUFFICES ASSUME AccessInv, [AccessNext]_accessVars PROVE AccessInv'
  OBVIOUS
<1>1. CASE FlipToBuyerView
  BY <1>1 DEF AccessInv, AccessTypeOK, FlipToBuyerView, IsEmailApproved, linkVars, Emails
<1>2. ASSUME NEW email \in Emails,
             SendInvite(email) \/ AskForCode(email) \/ EnterWithCode(email) \/ Expire(email)
      PROVE  AccessInv'
  BY <1>2 DEF AccessInv, AccessTypeOK, SendInvite, AskForCode, EnterWithCode, Expire, IsEmailApproved, linkVars
<1>3. ASSUME NEW email \in Emails, EnterView(email) PROVE AccessInv'
  <2>1. links' \in [Links -> {"none", "shared", "private", "gone"}]
    BY <1>3 DEF EnterView, AccessInv, AccessTypeOK
  <2> QED
    BY <1>3, <2>1 DEF AccessInv, AccessTypeOK, EnterView
<1>4. ASSUME NEW whose \in Emails \cup {"nobody"}, PointDomain(whose) PROVE AccessInv'
  BY <1>4 DEF AccessInv, AccessTypeOK, PointDomain, linkVars
<1>5. ASSUME NEW k \in Links, AddLink(k) \/ SetLinkVisibility(k) \/ DeleteLink(k) PROVE AccessInv'
  <2>1. links' \in [Links -> {"none", "shared", "private", "gone"}]
    BY <1>5, LinksStay DEF AccessInv
  <2>2. UNCHANGED <<kind, domain, listed, sentCode, sessions, click, clicked>>
    BY <1>5 DEF AddLink, SetLinkVisibility, DeleteLink
  <2> QED
    BY <2>1, <2>2 DEF AccessInv, AccessTypeOK
<1>6. ASSUME NEW k \in Links, Track(k) \/ LogClick(k) PROVE AccessInv'
  BY <1>6 DEF AccessInv, AccessTypeOK, Track, LogClick
<1>7. CASE UNCHANGED accessVars
  BY <1>7 DEF AccessInv, AccessTypeOK, accessVars
<1> QED
  BY <1>1, <1>2, <1>3, <1>4, <1>5, <1>6, <1>7 DEF AccessNext

LEMMA AccessInvAlways == AccessSpec => []AccessInv
<1>1. AccessInit => AccessInv
  BY DEF AccessInit, AccessInv, AccessTypeOK, Emails
<1> QED
  BY <1>1, AccessStepKeeps, PTL DEF AccessSpec

(* portal-access.ts, isEmailApproved, and sendBuyerInvite's guard: no
   sequence of invitations, requests, domain changes and visits lets another
   address into the sample deal, or leaves it with a code for it. *)
THEOREM SampleStaysOwnAlways == AccessSpec => []SampleStaysOwn
<1>1. AccessInv => SampleStaysOwn
  BY DEF AccessInv, SampleStaysOwn, Admitted, PortalPage, ViewPage
<1> QED
  BY <1>1, AccessInvAlways, PTL

(* portal-access.ts and the link actions: whoever is invited, asks, enters or
   leaves, and whatever becomes of the links, addresses and links stay those
   there are, and each link in one of its states. *)
THEOREM AccessTypeCorrect == AccessSpec => []AccessTypeOK
<1>1. AccessInv => AccessTypeOK
  BY DEF AccessInv
<1> QED
  BY <1>1, AccessInvAlways, PTL

-------------------------------------------------------------------------------
(* The five components together. *)

(* The components share no state: what is proved of one of them holds when
   the callers of all are about, each of them at any door. *)
THEOREM CallersAreTheirComponents ==
    Spec => GateSpec /\ RoomSpec /\ AccessSpec /\ CrmSpec /\ AccountSpec
<1> DEFINE all == <<door, gateVars, roomVars, accessVars, crmVars, accountVars>>
<1>1. Init => GateInit /\ RoomInit /\ AccessInit /\ CrmInit /\ AccountInit
  BY DEF Init
<1>2. [Next]_all => [GateNext]_gateVars
  BY DEF Next
<1>3. [Next]_all => [RoomNext]_roomVars
  BY DEF Next
<1>4. [Next]_all => [AccessNext]_accessVars
  BY DEF Next
<1>5. [Next]_all => [CrmNext]_crmVars
  BY DEF Next
<1>6. [Next]_all => [AccountNext]_accountVars
  BY DEF Next
<1> QED
  BY <1>1, <1>2, <1>3, <1>4, <1>5, <1>6, PTL
  DEF Spec, GateSpec, RoomSpec, AccessSpec, CrmSpec, AccountSpec

(* Every row, window, call, cookie and token of the five has its type, for
   any number of callers. *)
THEOREM CallersTypeCorrect == Spec => []CallersTypeOK
<1>1. GateTypeOK /\ RoomTypeOK /\ AccessTypeOK /\ CrmTypeOK /\ AccountTypeOK
      /\ door \in {"gate", "room", "access", "crm", "account"} => CallersTypeOK
  BY DEF CallersTypeOK
<1>2. Init => door \in {"gate", "room", "access", "crm", "account"}
  BY DEF Init
<1>3. door \in {"gate", "room", "access", "crm", "account"}
      /\ [Next]_<<door, gateVars, roomVars, accessVars, crmVars, accountVars>>
      => (door \in {"gate", "room", "access", "crm", "account"})'
  BY DEF Next
<1>4. Spec => [](door \in {"gate", "room", "access", "crm", "account"})
  BY <1>2, <1>3, PTL DEF Spec
<1> QED
  BY <1>1, <1>4, CallersAreTheirComponents, GateTypeCorrect, RoomTypeCorrect, AccessTypeCorrect,
     CrmTypeCorrect, AccountTypeCorrect, PTL
===============================================================================
