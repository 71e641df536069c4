------------------------------- MODULE CrmTokens -------------------------------
(***************************************************************************)
(* One tenant's connection to one CRM, HubSpot or Salesforce: connecting   *)
(* through OAuth, the refresh token stored for it and rotated by the       *)
(* provider, the access token each server instance caches, the refresh     *)
(* that concurrent callers of an instance share, and disconnecting.        *)
(*                                                                         *)
(* Refresh tokens are numbered as the provider issues them; 0 is none.     *)
(***************************************************************************)
EXTENDS Integers, FiniteSets

CONSTANTS CrmCalls, Instances, MaxTokens, MaxCrmCalls

ASSUME CrmAssumption ==
    MaxTokens \in Nat \ {0} /\ MaxCrmCalls \in Nat /\ "nowhere" \notin Instances

VARIABLES
    provider,    \* "hubspot" or "salesforce"
    consent,     \* what the browser holds: "state", and Salesforce's "verifier"
    stored,      \* crm_connections: the refresh token, or 0
    accepted,    \* the refresh tokens the provider takes (external)
    newest,      \* the last one it issued
    cached,      \* the instances with a fresh access token in their cache
    crm,         \* what each call is doing
    tangled,     \* writers of `stored` have overlapped since it was last quiet
    spoiled,     \* ... or a change of it was lost on its way
    left,        \* a record for the properties: the tokens of connections that
                 \* were disconnected without a warning and without an overlap
    crmArrivals

crmVars == <<provider, consent, stored, accepted, newest, cached, crm, tangled, spoiled,
             left, crmArrivals>>
outside == <<provider, consent, crmArrivals>>

NoCall == [pc |-> "idle", then |-> "build", token |-> 0, fresh |-> 0, warned |-> FALSE]
AtEase == [at |-> "nowhere", call |-> NoCall]

CrmInit ==
    /\ provider \in {"hubspot", "salesforce"} /\ consent = {} /\ crmArrivals = 0
    /\ stored \in {0, 1} /\ newest = 1 /\ accepted = {stored} \ {0}
    /\ cached = {} /\ crm = [c \in CrmCalls |-> AtEase]
    /\ tangled = FALSE /\ spoiled = FALSE /\ left = {}

PC(c) == crm[c].call.pc
Turns(c, call) == crm' = [crm EXCEPT ![c].call = call]
Go(c, label) == Turns(c, [crm[c].call EXCEPT !.pc = label])
Over(c) == crm' = [crm EXCEPT ![c] = AtEase]

(* Who may still write the connection: a refresh, a callback or a disconnect
   that has begun.  Those of one instance's refreshes are never two. *)
Refreshing(c) == PC(c) \in {"refresh", "exchange", "persist"}
Busy(c) == Refreshing(c) \/ PC(c) \in {"code", "save", "read", "revoke", "delete"}
Crossed(c) == \E d \in CrmCalls \ {c} : Busy(d) /\ (Refreshing(d) => crm[d].at # crm[c].at)
Alone(c) == \A d \in CrmCalls \ {c} : ~Busy(d)
Enters(c) == tangled' = (tangled \/ Crossed(c))
Leaves(c) == tangled' = (tangled /\ ~Alone(c))

CrmArrives(c, pc) ==
    /\ PC(c) = "idle" /\ crmArrivals < MaxCrmCalls /\ crmArrivals' = crmArrivals + 1
    /\ \E i \in Instances : crm' = [crm EXCEPT ![c] = [at |-> i, call |-> [NoCall EXCEPT !.pc = pc]]]
    /\ UNCHANGED <<provider, stored, accepted, newest, cached, spoiled>>

-------------------------------------------------------------------------------
(* Connecting. *)

(* GET oauth/start: a signed state, and Salesforce's verifier in a cookie. *)
OAuthStart ==
    /\ consent' = {"state"} \cup (IF provider = "salesforce" THEN {"verifier"} ELSE {})
    /\ UNCHANGED <<provider, stored, accepted, newest, cached, crm, tangled, spoiled, left, crmArrivals>>

(* Ten minutes, or another tenant signed in: the state is good for nothing. *)
ConsentExpires ==
    /\ consent # {} /\ consent' = {}
    /\ UNCHANGED <<provider, stored, accepted, newest, cached, crm, tangled, spoiled, left, crmArrivals>>

(* GET oauth/callback: every refusal before the exchange, and Salesforce's
   cookie cleared whatever happens. *)
ConsentHolds == "state" \in consent /\ (provider = "salesforce" => "verifier" \in consent)
OAuthCallback(c) ==
    /\ ConsentHolds /\ CrmArrives(c, "code") /\ consent' = consent \ {"verifier"}
    /\ Enters(c) /\ UNCHANGED left

(* The provider issues one more token.  Which of the older ones go on, of
   the same authorisation or of others, is its affair. *)
Issued == {kept \cup {newest + 1} : kept \in SUBSET accepted}

(* exchangeCodeForTokens: one more grant, and nothing that was granted before
   is given back.  The answer may be lost. *)
ExchangeCode(c) ==
    /\ PC(c) = "code"
    /\ \/ /\ newest < MaxTokens /\ newest' = newest + 1 /\ accepted' \in Issued
          /\ \/ /\ Turns(c, [crm[c].call EXCEPT !.pc = "save", !.fresh = newest + 1])
                /\ UNCHANGED <<tangled, spoiled>>
             \/ Over(c) /\ Leaves(c) /\ spoiled' = TRUE
       \/ Over(c) /\ Leaves(c) /\ UNCHANGED <<accepted, newest, spoiled>>   \* refused
    /\ UNCHANGED <<outside, stored, cached, left>>

(* saveTenantTokens from the callback: an upsert on tenant and provider. *)
SaveTenantTokens(c) ==
    /\ PC(c) = "save" /\ Over(c) /\ Leaves(c)
    /\ \/ stored' = crm[c].call.fresh /\ spoiled' = tangled
       \/ stored' \in {stored, crm[c].call.fresh} /\ spoiled' = TRUE   \* save_failed
    /\ UNCHANGED <<outside, accepted, newest, cached, left>>

-------------------------------------------------------------------------------
(* Disconnecting: disconnectHubSpot, disconnectSalesforce. *)
Disconnect(c) == CrmArrives(c, "read") /\ Enters(c) /\ UNCHANGED <<consent, left>>

(* Mutant: a connection that cannot be read is taken for none. *)
BugReadErrorIsNone(c) ==
    /\ PC(c) = "read"
    /\ \/ Turns(c, [crm[c].call EXCEPT !.pc = IF stored = 0 THEN "delete" ELSE "revoke",
                                       !.token = stored]) /\ UNCHANGED tangled
       \/ Go(c, "delete") /\ UNCHANGED tangled
    /\ UNCHANGED <<outside, stored, accepted, newest, cached, spoiled, left>>

(* A connection that cannot be read is not deleted: its token could then not
   be revoked any more. *)
ReadForRevoke(c) ==
    /\ PC(c) = "read"
    /\ \/ Turns(c, [crm[c].call EXCEPT !.pc = IF stored = 0 THEN "delete" ELSE "revoke",
                                       !.token = stored]) /\ UNCHANGED tangled
       \/ Over(c) /\ Leaves(c)
    /\ UNCHANGED <<outside, stored, accepted, newest, cached, spoiled, left>>

(* revokeRefreshToken: failing to revoke does not stop the deletion, but is
   remembered for the warning.  The one token is ended, and perhaps the whole
   authorisation with it; where the answer is lost it may have been. *)
Ended(token) == {accepted \ {token}, {}}
Revoke(c) ==
    /\ PC(c) = "revoke"
    /\ \/ /\ crm[c].call.token \in accepted /\ accepted' \in Ended(crm[c].call.token)
          /\ Go(c, "delete")
       \/ /\ accepted' \in {accepted} \cup Ended(crm[c].call.token)
          /\ Turns(c, [crm[c].call EXCEPT !.pc = "delete", !.warned = TRUE])
    /\ UNCHANGED <<outside, stored, newest, cached, tangled, spoiled, left>>

(* deleteTenantTokens.  The caches of the instances are left as they are. *)
DeleteTenantTokens(c) ==
    /\ PC(c) = "delete" /\ Over(c) /\ Leaves(c)
    /\ \/ /\ stored' = 0 /\ spoiled' = (spoiled \/ tangled)
          /\ left' = IF crm[c].call.warned \/ tangled THEN left ELSE left \cup ({stored} \ {0})
       \/ stored' \in {stored, 0} /\ spoiled' = TRUE /\ UNCHANGED left  \* disconnect_failed
    /\ UNCHANGED <<outside, accepted, newest, cached>>

-------------------------------------------------------------------------------
(* Using the connection: getHubSpotClientForTenant and its fetch, the same
   for Salesforce.  A call looks an access token up to build the client, again
   for the request, and once more if the provider answers 401. *)
UseCrm(c) == stored # 0 /\ CrmArrives(c, "lookup") /\ UNCHANGED <<consent, tangled, left>>

Sharing(c) == \E d \in CrmCalls \ {c} : Refreshing(d) /\ crm[d].at = crm[c].at
Next3(then) == CASE then = "build" -> "request" [] then = "request" -> "send" [] OTHER -> "resend"
Onward(call) == [call EXCEPT !.pc = Next3(call.then), !.token = 0, !.fresh = 0]

(* Mutant: every caller refreshes for itself. *)
BugEachForItself(c) == Go(c, "refresh") /\ Enters(c)

(* refreshSingleFlight: join the refresh of this instance, or begin one. *)
RefreshSingleFlight(c) ==
    IF Sharing(c) THEN Go(c, "wait") /\ UNCHANGED tangled
    ELSE Go(c, "refresh") /\ Enters(c)

(* getValidAccessToken: the cache of this instance, then a refresh.  The label
   says what for; a retry forgets the cached token first. *)
GetValidAccessToken(c) ==
    /\ PC(c) = "lookup"
    /\ IF crm[c].at \in cached
       THEN Turns(c, Onward(crm[c].call)) /\ UNCHANGED tangled
       ELSE RefreshSingleFlight(c)
    /\ UNCHANGED <<outside, stored, accepted, newest, cached, spoiled, left>>
Lookup(c) ==
    /\ PC(c) = "request" /\ Turns(c, [crm[c].call EXCEPT !.pc = "lookup", !.then = "request"])
    /\ UNCHANGED <<outside, stored, accepted, newest, cached, tangled, spoiled, left>>

(* The promise settles, for the call that refreshes and for all that wait.
   Without a token the client is null; a request goes out with the one it was
   built with; a retry is given up.  A refresh that throws throws in all. *)
Settled(call, result) ==
    IF result = "token" \/ (result = "null" /\ call.call.then = "request")
    THEN [call EXCEPT !.call = Onward(@)] ELSE AtEase
Settle(c, result) ==
    crm' = [d \in CrmCalls |->
               IF d = c \/ (PC(d) = "wait" /\ crm[d].at = crm[c].at)
               THEN Settled(crm[d], result) ELSE crm[d]]

(* getTenantRefreshToken: no row is "not connected", an error is not. *)
ReadRefreshToken(c) ==
    /\ PC(c) = "refresh"
    /\ \/ stored # 0 /\ UNCHANGED tangled
          /\ Turns(c, [crm[c].call EXCEPT !.pc = "exchange", !.token = stored])
       \/ stored = 0 /\ Settle(c, "null") /\ Leaves(c)
       \/ Settle(c, "error") /\ Leaves(c)
    /\ UNCHANGED <<outside, stored, accepted, newest, cached, spoiled, left>>

(* refreshAccessToken.  The provider may rotate the token, and then perhaps
   takes the one exchanged for a while longer.  Its answer may be lost.  The
   access token is cached before anything is stored. *)
RefreshAccessToken(c) ==
    /\ PC(c) = "exchange"
    /\ \/ /\ crm[c].call.token \in accepted /\ newest < MaxTokens
          /\ newest' = newest + 1 /\ accepted' \in Issued
          /\ \/ /\ cached' = cached \cup {crm[c].at} /\ UNCHANGED <<tangled, spoiled>>
                /\ Turns(c, [crm[c].call EXCEPT !.pc = "persist", !.token = 0, !.fresh = newest + 1])
             \/ Settle(c, "error") /\ Leaves(c) /\ spoiled' = TRUE /\ UNCHANGED cached
       \/ /\ crm[c].call.token \in accepted /\ cached' = cached \cup {crm[c].at}
          /\ Settle(c, "token") /\ Leaves(c) /\ UNCHANGED <<newest, accepted, spoiled>>
       \/ Settle(c, "error") /\ Leaves(c) /\ UNCHANGED <<newest, accepted, cached, spoiled>>
    /\ UNCHANGED <<outside, stored, left>>

(* The rotated token is stored, whatever the row says by now. *)
PersistRotated(c) ==
    /\ PC(c) = "persist" /\ Leaves(c)
    /\ \/ stored' = crm[c].call.fresh /\ spoiled' = (spoiled \/ tangled) /\ Settle(c, "token")
       \/ stored' \in {stored, crm[c].call.fresh} /\ spoiled' = TRUE /\ Settle(c, "error")
    /\ UNCHANGED <<outside, accepted, newest, cached, left>>

(* The request: an answer, or one 401 and one more try; the second answer is
   the caller's whatever it is. *)
Send(c) ==
    /\ PC(c) = "send"
    /\ \/ Over(c) /\ UNCHANGED cached
       \/ /\ cached' = cached \ {crm[c].at}
          /\ Turns(c, [crm[c].call EXCEPT !.pc = "lookup", !.then = "retry"])
    /\ UNCHANGED <<outside, stored, accepted, newest, tangled, spoiled, left>>
Resend(c) ==
    /\ PC(c) = "resend" /\ Over(c)
    /\ UNCHANGED <<outside, stored, accepted, newest, cached, tangled, spoiled, left>>

-------------------------------------------------------------------------------
(* An access token runs out; an instance goes, with all that runs in it; the
   customer, or the provider's policy, ends grants. *)
TokenExpires(i) ==
    /\ i \in cached /\ cached' = cached \ {i}
    /\ UNCHANGED <<outside, stored, accepted, newest, crm, tangled, spoiled, left>>
InstanceGone(i) ==
    /\ \E c \in CrmCalls : PC(c) # "idle" /\ crm[c].at = i
    /\ cached' = cached \ {i}
    /\ crm' = [c \in CrmCalls |-> IF crm[c].at = i THEN AtEase ELSE crm[c]]
    /\ tangled' = (tangled /\ \E c \in CrmCalls : Busy(c) /\ crm[c].at # i)
    /\ spoiled' = (spoiled \/ tangled \/ \E c \in CrmCalls :
                                             crm[c].at = i /\ PC(c) \in {"save", "persist", "delete"})
    /\ UNCHANGED <<outside, stored, accepted, newest, left>>
AuthorisationEnds ==
    /\ accepted' \in SUBSET accepted \ {accepted} /\ spoiled' = TRUE
    /\ tangled' = (\E c \in CrmCalls : Busy(c))
    /\ UNCHANGED <<outside, stored, newest, cached, crm, left>>

CrmNext ==
    \/ OAuthStart \/ ConsentExpires \/ AuthorisationEnds
    \/ \E i \in Instances : TokenExpires(i) \/ InstanceGone(i)
    \/ \E c \in CrmCalls :
          \/ OAuthCallback(c) \/ ExchangeCode(c) \/ SaveTenantTokens(c)
          \/ Disconnect(c) \/ ReadForRevoke(c) \/ Revoke(c) \/ DeleteTenantTokens(c)
          \/ UseCrm(c) \/ GetValidAccessToken(c) \/ Lookup(c) \/ ReadRefreshToken(c)
          \/ RefreshAccessToken(c) \/ PersistRotated(c) \/ Send(c) \/ Resend(c)
CrmSpec == CrmInit /\ [][CrmNext]_crmVars

-------------------------------------------------------------------------------
CrmSteps ==
    {"idle", "code", "save", "read", "revoke", "delete", "lookup", "wait", "refresh", "exchange",
     "persist", "request", "send", "resend"}

(* Every variable has its type. *)
CrmTypeOK ==
    /\ provider \in {"hubspot", "salesforce"} /\ consent \subseteq {"state", "verifier"}
    /\ stored \in 0..MaxTokens /\ newest \in 1..MaxTokens /\ accepted \subseteq 1..newest
    /\ cached \subseteq Instances /\ {tangled, spoiled} \subseteq BOOLEAN /\ left \subseteq 1..newest
    /\ crmArrivals \in 0..MaxCrmCalls
    /\ DOMAIN crm = CrmCalls
    /\ \A c \in CrmCalls :
          /\ crm[c].at \in Instances \cup {"nowhere"} /\ PC(c) \in CrmSteps
          /\ crm[c].call.then \in {"build", "request", "retry"} /\ crm[c].call.warned \in BOOLEAN
          /\ crm[c].call.token \in 0..newest /\ crm[c].call.fresh \in 0..newest

(* The refresh token that is stored is one the provider takes, however often
   it was rotated and however many callers of one instance needed it at once:
   unless two instances overlapped, a write failed, an answer was lost or an
   instance went after a rotation, or the authorisation was ended. *)
StoredTokenWorks ==
    stored # 0 /\ ~spoiled /\ ~tangled /\ (\A c \in CrmCalls : ~Busy(c)) => stored \in accepted

(* The token of a connection that was disconnected with success, and that
   nothing overlapped, is never stored and never taken again: not through a
   call that still holds it, nor through a refresh or another connection. *)
CleanDisconnect == left \cap (accepted \cup {stored}) = {}
===============================================================================
