------------------------------ MODULE SampleSeed ------------------------------
(***************************************************************************)
(* "Start with a sample deal": the seed of a tenant's sample workspace.    *)
(*                                                                         *)
(* A sample is five inserts without a transaction, undone by hand when one *)
(* of them fails.  Several clicks of one tenant may run at once; the       *)
(* unique index on sample workspaces decides which of them builds, and the *)
(* others answer with the workspace they find.  One query is one step.     *)
(*                                                                         *)
(* Every click builds under fresh ids, so rows[c] are the rows that click  *)
(* c inserted.  One tenant: the index and every query are per tenant.      *)
(***************************************************************************)
EXTENDS Naturals, Sequences

CONSTANTS
    Clicks,       \* calls of seedSampleDeal for the tenant
    Nowhere,      \* no workspace
    MaxFaults     \* bound on refused queries, lost answers and crashes

ASSUME SeedAssumption == Nowhere \notin Clicks /\ MaxFaults \in Nat

VARIABLES
    rows,     \* the rows each click's sample has in the database
    call,     \* what each click is doing
    faults,
    dirty     \* history: a click died while building, or an outcome other than the
              \* one reported took place, and nothing undid it

vars == <<rows, call, faults, dirty>>

Parts == {"workspace", "plan", "stages", "steps", "links"}
InsertOrder == <<"workspace", "plan", "stages", "steps", "links">>
UndoOrder   == <<"steps", "stages", "plan", "links", "workspace">>

(* built: the parts the click believes it has inserted and not yet undone;
   shown: the workspace it redirected the seller to, when it succeeded. *)
CallRecords ==
    {k \in [pc    : {"idle", "look", "raced", "insert", "undo", "done", "failed", "dead"},
            built : SUBSET Parts,
            shown : Clicks \cup {Nowhere}] : k.pc = "done" <=> k.shown # Nowhere}
Quiet == [pc |-> "idle", built |-> {}, shown |-> Nowhere]

Init ==
    /\ rows = [c \in Clicks |-> {}]
    /\ call = [c \in Clicks |-> Quiet]
    /\ faults = 0
    /\ dirty = FALSE

pc(c) == call[c].pc
Goto(c, label)   == call' = [call EXCEPT ![c].pc = label]
Over(label, w)   == [pc |-> label, built |-> {}, shown |-> w]
Redirect(c, w)   == call' = [call EXCEPT ![c] = Over("done", w)]
GiveUp(c)        == call' = [call EXCEPT ![c] = Over("failed", Nowhere)]
FirstOf(order, parts) ==
    order[CHOOSE i \in DOMAIN order : order[i] \in parts /\ \A j \in 1..(i-1) : order[j] \notin parts]

(* Mutant: no foreign key cascades. *)
BugNoCascade(part) == {part}

(* What else a delete takes along (ON DELETE CASCADE); links do not cascade
   and keep their workspace in place. *)
Below(part) ==
    CASE part = "workspace" -> {"workspace", "plan", "stages", "steps"}
      [] part = "plan"      -> {"plan", "stages", "steps"}
      [] part = "stages"    -> {"stages", "steps"}
      [] OTHER              -> {part}

Deleted(held, part) ==
    IF part = "workspace" /\ "links" \in held THEN held ELSE held \ Below(part)

Samples == {c \in Clicks : "workspace" \in rows[c]}
Whole(c) == rows[c] = Parts

-------------------------------------------------------------------------------
Start(c) ==
    /\ pc(c) = "idle"
    /\ Goto(c, "look")
    /\ UNCHANGED <<rows, faults, dirty>>

(* Mutant: losing the race is answered as a success, whoever is found. *)
BugNoSample(c) ==
    /\ pc(c) \in {"look", "raced"}
    /\ \/ \E w \in Samples : IF "plan" \in rows[w] THEN Redirect(c, w) ELSE GiveUp(c)
       \/ Samples = {} /\ pc(c) = "look"  /\ Goto(c, "insert")
       \/ Samples = {} /\ pc(c) = "raced" /\ Redirect(c, Nowhere)
    /\ UNCHANGED <<rows, faults, dirty>>

(* findExistingSample, before the first insert and after losing the race for
   it: a workspace without a plan is refused as "broken". *)
Look(c) ==
    /\ pc(c) \in {"look", "raced"}
    /\ \/ \E w \in Samples :
            IF "plan" \in rows[w] THEN Redirect(c, w) ELSE GiveUp(c)
       \/ Samples = {} /\ pc(c) = "look"  /\ Goto(c, "insert")
       \/ Samples = {} /\ pc(c) = "raced" /\ GiveUp(c)
    /\ UNCHANGED <<rows, faults, dirty>>

(* Mutant: the unique index on sample workspaces is missing. *)
BugNoIndex(part) == FALSE

(* 0015: one sample workspace per tenant. *)
IndexRefuses(part) == part = "workspace" /\ Samples # {}

Insert(c) ==
    LET part == FirstOf(InsertOrder, Parts \ call[c].built)
        built == call[c].built \cup {part}
    IN  /\ pc(c) = "insert"
        /\ \/ IndexRefuses(part) /\ Goto(c, "raced") /\ UNCHANGED rows
           \/ /\ ~IndexRefuses(part)
              /\ rows' = [rows EXCEPT ![c] = @ \cup {part}]
              /\ IF built = Parts THEN Redirect(c, c)
                                  ELSE call' = [call EXCEPT ![c].built = built]
        /\ UNCHANGED <<faults, dirty>>

(* Mutant: a failed insert is answered without undoing the others. *)
BugNoUndo(c) ==
    /\ pc(c) = "insert"
    /\ GiveUp(c)
    /\ faults < MaxFaults /\ faults' = faults + 1
    /\ UNCHANGED <<rows, dirty>>

(* An insert fails: everything inserted so far is undone. *)
FailInsert(c) ==
    /\ pc(c) = "insert"
    /\ Goto(c, "undo")
    /\ faults < MaxFaults /\ faults' = faults + 1
    /\ UNCHANGED <<rows, dirty>>

(* An insert takes place and is reported as failed.  A plan, stages or steps
   go with the rows above them; a workspace or links stay. *)
LoseAnswer(c) ==
    LET part == FirstOf(InsertOrder, Parts \ call[c].built) IN
    /\ pc(c) = "insert"
    /\ ~IndexRefuses(part)
    /\ rows' = [rows EXCEPT ![c] = @ \cup {part}]
    /\ Goto(c, "undo")
    /\ faults < MaxFaults /\ faults' = faults + 1
    /\ dirty' = (dirty \/ part \in {"workspace", "links"})

(* rollback: one delete after another, of the parts known to be inserted. *)
Undo(c) ==
    LET part == FirstOf(UndoOrder, call[c].built) IN
    /\ pc(c) = "undo"
    /\ \/ call[c].built = {} /\ GiveUp(c) /\ UNCHANGED rows
       \/ /\ call[c].built # {}
          /\ rows' = [rows EXCEPT ![c] = Deleted(@, part)]
          /\ call' = [call EXCEPT ![c].built = @ \ {part}]
    /\ UNCHANGED <<faults, dirty>>

(* A delete fails and the next one is tried all the same. *)
FailUndo(c) ==
    LET part == FirstOf(UndoOrder, call[c].built) IN
    /\ pc(c) = "undo"
    /\ call[c].built # {}
    /\ call' = [call EXCEPT ![c].built = @ \ {part}]
    /\ faults < MaxFaults /\ faults' = faults + 1
    /\ dirty' = (dirty \/ part = "workspace")
    /\ UNCHANGED rows

(* The seller cannot be looked up, or the sample cannot: the first refuses,
   the second counts as "none". *)
FailLook(c) ==
    /\ pc(c) \in {"look", "raced"}
    /\ GiveUp(c) \/ (pc(c) = "look" /\ Goto(c, "insert"))
    /\ faults < MaxFaults /\ faults' = faults + 1
    /\ UNCHANGED <<rows, dirty>>

(* The invocation dies. *)
Die(c) ==
    /\ pc(c) \in {"look", "raced", "insert", "undo"}
    /\ Goto(c, "dead")
    /\ faults < MaxFaults /\ faults' = faults + 1
    /\ dirty' = (dirty \/ rows[c] # {})
    /\ UNCHANGED rows

Step(c) == Look(c) \/ Insert(c) \/ Undo(c)
Fault(c) == FailInsert(c) \/ LoseAnswer(c) \/ FailUndo(c) \/ FailLook(c) \/ Die(c)

Next == \E c \in Clicks : Start(c) \/ Step(c) \/ Fault(c)

Spec == Init /\ [][Next]_vars

(* A call that neither fails nor dies runs on. *)
FairSpec == Spec /\ \A c \in Clicks : WF_vars(Step(c))
-------------------------------------------------------------------------------
TypeOK ==
    /\ rows \in [Clicks -> SUBSET Parts]
    /\ call \in [Clicks -> CallRecords]
    /\ faults \in 0..MaxFaults
    /\ dirty \in BOOLEAN

(* However the clicks race and fail, the rows of at most one of them are in
   the database: there is never a second free, uncounted deal, nor a piece
   of one (0015, idx_workspaces_one_sample_per_tenant). *)
OneSample == \A c, d \in Clicks : rows[c] # {} /\ rows[d] # {} => c = d

(* What a click that is over leaves behind is a whole sample or nothing,
   except after a crash in the middle, or when the answer to the workspace's
   or the links' insert, or the last delete, goes wrong: the deletes cascade,
   so no other half-done query leaves anything (sample-deal.ts, rollback). *)
AllOrNothing ==
    ~dirty => \A c \in Clicks :
                 pc(c) \in {"idle", "done", "failed", "dead"} => rows[c] \in {{}, Parts}

(* A seller is redirected to a sample that becomes whole, or that a rollback
   takes away: it is not left half-built (sample-deal.ts, the loser "reads
   the winner's row back"). *)
ShownSettles ==
    \A c, w \in Clicks :
        call[c].shown = w ~> Whole(w) \/ rows[w] = {} \/ dirty

-------------------------------------------------------------------------------
(* A claim of the repository that the code does not keep.
   sample-deal.ts: "two clicks racing each other both succeed". *)
RacersBothSucceed == \A c \in Clicks : pc(c) # "failed"
===============================================================================
