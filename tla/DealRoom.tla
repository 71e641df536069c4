------------------------------- MODULE DealRoom -------------------------------
(***************************************************************************)
(* The inside of one deal: its plan under the seller's edits and the       *)
(* buyer's completions (who gets in is DealAccess's).  Every edit reads    *)
(* whether the plan is open and then writes; a go-live reads and writes    *)
(* too, by the plan's id, over whatever was committed in between; every    *)
(* completion looks the step up, updates it conditionally, and logs.       *)
(*                                                                         *)
(* One stage; texts and dates are left out, a step's owner and status are  *)
(* kept.  What else a go-live asks is DealLifecycle's; the order of rows   *)
(* is PlanBuilder's.                                                       *)
(***************************************************************************)
EXTENDS PlanViews

CONSTANTS RoomCalls, Steps, Buyers, MaxRoomCalls

ASSUME RoomAssumption == Steps \subseteq Nat \ {0} /\ MaxRoomCalls \in Nat

VARIABLES
    plan,        \* "none", "draft", "active", "closed" (won or lost), "gone"
    stage,       \* "none", its status, or "gone"
    steps,       \* the plan's rows; status "none" before and "gone" after
    logged,      \* step_complete events, per step
    room,        \* what each call is doing
    roomArrivals

roomVars == <<plan, stage, steps, logged, room, roomArrivals>>
planVars == <<plan, stage, steps, logged>>

NoRow == [owner |-> "none", status |-> "none", by |-> "none"]
Row(owner) == [owner |-> owner, status |-> "open", by |-> "none"]
(* late: the call came in when the plan was closed, and it has stayed so. *)
Quiet == [pc |-> "idle", edit |-> "none", step |-> NoStep, owner |-> "none",
          status |-> "keep", email |-> "none", late |-> FALSE]

RoomInit ==
    /\ \/ plan = "none" /\ stage = "none" /\ steps = [s \in Steps |-> NoRow]
       \/ /\ plan \in {"draft", "active"} /\ stage = "upcoming"
          /\ steps = [s \in Steps |-> IF s = 1 THEN Row("buyer") ELSE NoRow]
    /\ logged = [s \in Steps |-> 0]
    /\ room = [c \in RoomCalls |-> Quiet] /\ roomArrivals = 0

-------------------------------------------------------------------------------
(* The seller's edits. *)
NoRowYet(s) == steps[s].status = "none"
There(s) == s \in Steps /\ steps[s].status \in {"open", "done", "blocked"}
StageThere == stage \in {"upcoming", "current", "done"}
StepEdits  == {"addStep", "patchStep", "deleteStep"}
StageEdits == {"addStage", "patchStage", "deleteStage"}
PlanEdits  == {"deletePlan", "closePlan", "goLive"}

Becomes(c, call) == room' = [room EXCEPT ![c] = call]

(* The call is over: done, or one of mapPostgrestError's codes, which say
   why and keep nothing. *)
Answer(c) == Becomes(c, Quiet)
Moves(c, label) == room' = [room EXCEPT ![c].pc = label]

(* A seller's edit of a step, or of none; a buyer's completion of one. *)
Edit(edit, s, owner, status) ==
    [pc |-> "gate", edit |-> edit, step |-> s, owner |-> owner, status |-> status,
     email |-> "none", late |-> plan = "closed"]
Completion(s, email) ==
    [pc |-> "resolve", edit |-> "complete", step |-> s, owner |-> "none", status |-> "keep",
     email |-> email, late |-> plan = "closed"]

Called(c, call) ==
    /\ room[c].pc = "idle" /\ roomArrivals < MaxRoomCalls
    /\ roomArrivals' = roomArrivals + 1
    /\ Becomes(c, call)
    /\ UNCHANGED planVars

(* createStepAction, updateStepAction, deleteStepAction: the form sends the
   owner, and the status unless the step was done when the page was made. *)
EditStep(c) == \E edit \in StepEdits, s \in Steps, owner \in {"seller", "buyer"},
                  status \in {"keep", "open", "blocked", "done"} :
    /\ IF edit = "addStep" THEN NoRowYet(s) ELSE There(s)
    /\ edit # "patchStep" => status = "keep"
    /\ edit = "deleteStep" => owner = "seller"
    /\ Called(c, Edit(edit, s, owner, status))

(* createStageAction, updateStageAction, deleteStageAction. *)
EditStage(c) == \E edit \in StageEdits, status \in {"upcoming", "current", "done"} :
    /\ edit = "addStage" <=> stage = "none"
    /\ edit # "patchStage" => status = "upcoming"
    /\ Called(c, Edit(edit, NoStep, "none", status))

(* deletePlanAction, closePlanAction and markPlanLiveAction. *)
EditPlan(c) == \E edit \in PlanEdits :
    Called(c, Edit(edit, NoStep, "none", "keep"))

(* createPlanAction: one insert, and nothing to ask first. *)
CreatePlan ==
    /\ plan = "none" /\ plan' = "draft"
    /\ UNCHANGED <<stage, steps, logged, room, roomArrivals>>

(* ensurePlanIsOpen follows the row named to its plan; then the input is
   validated: a step is written open or blocked, never done. *)
Named(call) == CASE call.edit \in {"patchStep", "deleteStep"} -> There(call.step)
                 [] call.edit \in {"addStep", "patchStage", "deleteStage"} -> StageThere
                 [] OTHER -> plan \in {"draft", "active", "closed"}
ValidStepStatus(call) == call.edit = "patchStep" => call.status # "done"

(* Mutant: the plan's status is not looked at. *)
BugClosedStaysOpen(c) ==
    /\ room[c].pc = "gate" /\ room[c].edit # "goLive"
    /\ IF Named(room[c]) /\ ValidStepStatus(room[c]) THEN Moves(c, "write") ELSE Answer(c)
    /\ UNCHANGED <<planVars, roomArrivals>>

EnsurePlanIsOpen(c) ==
    /\ room[c].pc = "gate" /\ room[c].edit # "goLive"
    /\ IF Named(room[c]) /\ plan # "closed" /\ ValidStepStatus(room[c])
       THEN Moves(c, "write") ELSE Answer(c)
    /\ UNCHANGED <<planVars, roomArrivals>>

(* mark_plan_live() reads the plan: only a draft is made live, if the seat
   and the subscription allow it. *)
ReadGoLive(c) ==
    /\ room[c].pc = "gate" /\ room[c].edit = "goLive"
    /\ \/ plan = "draft" /\ Moves(c, "write")
       \/ Answer(c)
    /\ UNCHANGED <<planVars, roomArrivals>>

(* plan_steps_completion_coherent: done exactly when completed_at is set, and
   a patch never sets completed_at. *)
Coherent(row, status) == status = "keep" \/ row.status # "done"

Gone(row) == IF row.status = "none" THEN row ELSE [NoRow EXCEPT !.status = "gone"]

(* Mutant: a status that was not sent is written all the same. *)
BugWritesUnsent(row, call) == [row EXCEPT !.owner = call.owner, !.status = call.status]

(* A patch has the columns that were sent. *)
Patched(row, call) ==
    [row EXCEPT !.owner = call.owner,
                !.status = IF call.status = "keep" THEN @ ELSE call.status]

(* createStep, updateStep, deleteStep: by id, without asking again whether
   the plan is open.  What is not there is NOT_FOUND. *)
WriteStep(c) ==
    /\ room[c].pc = "write" /\ room[c].edit \in StepEdits /\ Answer(c)
    /\ \/ /\ room[c].edit = "addStep" /\ StageThere /\ NoRowYet(room[c].step)
          /\ steps' = [steps EXCEPT ![room[c].step] = Row(room[c].owner)]
       \/ /\ room[c].edit = "patchStep" /\ There(room[c].step)
          /\ steps' = [steps EXCEPT ![room[c].step] =
                          IF Coherent(@, room[c].status) THEN Patched(@, room[c]) ELSE @]
       \/ /\ room[c].edit = "deleteStep" /\ There(room[c].step)
          /\ steps' = [steps EXCEPT ![room[c].step] = Gone(@)]
       \/ /\ UNCHANGED steps
          /\ IF room[c].edit = "addStep" THEN ~StageThere \/ ~NoRowYet(room[c].step)
             ELSE ~There(room[c].step)
    /\ UNCHANGED <<plan, stage, logged, roomArrivals>>

(* createStage, updateStage, deleteStage: the steps go with their stage. *)
WriteStage(c) ==
    /\ room[c].pc = "write" /\ room[c].edit \in StageEdits /\ Answer(c)
    /\ \/ /\ room[c].edit = "addStage" /\ plan # "gone" /\ stage = "none"
          /\ stage' = "upcoming" /\ UNCHANGED steps
       \/ room[c].edit = "patchStage" /\ StageThere /\ stage' = room[c].status /\ UNCHANGED steps
       \/ /\ room[c].edit = "deleteStage" /\ StageThere
          /\ stage' = "gone" /\ steps' = [s \in Steps |-> Gone(steps[s])]
       \/ /\ IF room[c].edit = "addStage" THEN plan = "gone" \/ stage # "none" ELSE ~StageThere
          /\ UNCHANGED <<stage, steps>>
    /\ UNCHANGED <<plan, logged, roomArrivals>>

(* updatePlan with a closing status, and deletePlan with all below it. *)
WritePlan(c) ==
    /\ room[c].pc = "write" /\ room[c].edit \in {"closePlan", "deletePlan"} /\ Answer(c)
    /\ \/ /\ room[c].edit = "closePlan" /\ plan # "gone"
          /\ plan' = "closed" /\ UNCHANGED <<stage, steps>>
       \/ /\ room[c].edit = "deletePlan" /\ plan # "gone"
          /\ plan' = "gone" /\ stage' = "gone" /\ steps' = [s \in Steps |-> Gone(steps[s])]
       \/ plan = "gone" /\ UNCHANGED <<plan, stage, steps>>
    /\ UNCHANGED <<logged, roomArrivals>>

(* The last statement of mark_plan_live(): by id, so a deal that was closed
   since the read is open again, to the calls refused before as well. *)
MarkLive(c) ==
    /\ room[c].pc = "write" /\ room[c].edit = "goLive"
    /\ plan' = IF plan = "gone" THEN plan ELSE "active"
    /\ room' = [d \in RoomCalls |-> IF d = c THEN Quiet
                                   ELSE [room[d] EXCEPT !.late = @ /\ plan = "gone"]]
    /\ UNCHANGED <<stage, steps, logged, roomArrivals>>

-------------------------------------------------------------------------------
(* The buyer's completions: POST /api/steps/[id]/complete. *)
CompleteStep(c) == \E s \in Steps, email \in Buyers :
    Called(c, Completion(s, email))

(* resolveStepWorkspace and the refusals read off it. *)
ResolveStep(c) ==
    LET s == room[c].step IN
    /\ room[c].pc = "resolve"
    /\ IF There(s) /\ steps[s].owner = "buyer" /\ plan # "closed"
       THEN Moves(c, "update") \/ Answer(c)    \* with and without a cookie
       ELSE Answer(c)
    /\ UNCHANGED <<planVars, roomArrivals>>

(* Mutant: the update trusts the owner that was looked up. *)
BugAnyOwner(s) == There(s) /\ steps[s].status = "open"

Completable(s) == There(s) /\ steps[s].status = "open" /\ steps[s].owner = "buyer"

(* completeStepAsBuyer, the conditional update: the rows it returns decide. *)
UpdateStep(c) ==
    LET s == room[c].step IN
    /\ room[c].pc = "update"
    /\ IF Completable(s)
       THEN /\ steps' = [steps EXCEPT ![s] = [@ EXCEPT !.status = "done", !.by = room[c].email]]
            /\ Moves(c, "log")
       ELSE Moves(c, "explain") /\ UNCHANGED steps
    /\ UNCHANGED <<plan, stage, logged, roomArrivals>>

(* Mutant: a step found done is logged like one just completed. *)
BugLogsAgain(c) ==
    /\ room[c].pc = "explain"
    /\ IF There(room[c].step) /\ steps[room[c].step].status = "done"
       THEN Moves(c, "log") ELSE Answer(c)
    /\ UNCHANGED <<planVars, roomArrivals>>

(* The read that says why nothing matched: done already, blocked, gone, or
   "unexpected" when the seller reopened or reassigned the step meanwhile. *)
ExplainStep(c) ==
    /\ room[c].pc = "explain" /\ Answer(c)
    /\ UNCHANGED <<planVars, roomArrivals>>

(* The event refers to the step, and failing to write it fails nothing. *)
LogCompletion(c) ==
    /\ room[c].pc = "log" /\ Answer(c)
    /\ \/ There(room[c].step) /\ logged' = [logged EXCEPT ![room[c].step] = @ + 1]
       \/ UNCHANGED logged
    /\ UNCHANGED <<plan, stage, steps, roomArrivals>>

(* The instance dies under a call, at any of its queries. *)
RoomCallDies(c) ==
    /\ room[c].pc # "idle" /\ Answer(c)
    /\ UNCHANGED <<planVars, roomArrivals>>

EditRoom(c) ==
    \/ EditStep(c) \/ EditStage(c) \/ EditPlan(c) \/ EnsurePlanIsOpen(c) \/ ReadGoLive(c)
    \/ WriteStep(c) \/ WriteStage(c) \/ WritePlan(c) \/ MarkLive(c)
CompleteRoom(c) ==
    \/ CompleteStep(c) \/ ResolveStep(c) \/ UpdateStep(c) \/ ExplainStep(c)
    \/ LogCompletion(c) \/ RoomCallDies(c)
RoomNext == CreatePlan \/ \E c \in RoomCalls : EditRoom(c) \/ CompleteRoom(c)
RoomSpec == RoomInit /\ [][RoomNext]_roomVars

-------------------------------------------------------------------------------
(* The rows, their logs and the count of calls have their types (what a call
   holds between its queries is the business of the properties below). *)
RoomTypeOK ==
    /\ plan \in {"none", "draft", "active", "closed", "gone"}
    /\ stage \in {"none", "upcoming", "current", "done", "gone"}
    /\ \A s \in Steps : /\ steps[s].status \in {"none", "open", "done", "blocked", "gone"}
                        /\ steps[s].owner = "none" <=> steps[s].status \in {"none", "gone"}
    /\ logged \in [Steps -> 0..MaxRoomCalls]
    /\ roomArrivals \in 0..MaxRoomCalls

(* A step is logged as completed at most once, and only if it was, however
   many buyers tick it at once. *)
CompletionLoggedOnce ==
    \A s \in Steps : logged[s] <= 1 /\ (logged[s] = 1 => steps[s].status \in {"done", "gone"})

(* A step is completed only while it is the buyer's, though the seller may
   have reassigned it since the call looked it up; and a completed step is
   never open again, it can only be deleted. *)
CompletionIsTheBuyers ==
    [][\A s \in Steps :
          /\ steps[s].status = "done" => steps'[s].status \in {"done", "gone"}
          /\ steps[s].status # "done" /\ steps'[s].status = "done"
                => steps[s].owner = "buyer" /\ steps'[s].by \in Buyers]_roomVars

(* A call that comes in after the deal was closed changes nothing of it as
   long as it stays closed, though a go-live that had read the plan before
   the close may still open it again.  The call's own step moves its pc. *)
ClosedDealIsKept ==
    [][\A c \in RoomCalls : room[c].late /\ room'[c].pc # room[c].pc
                               => UNCHANGED <<plan, stage, steps>>]_roomVars

(* What the buyer's page calls "your move", and what it calls overdue, is a
   step the buyer can complete as the rows stand. *)
RoomTree == PlanTree({[id |-> 1, order |-> 0, status |-> stage]},
                     {[id |-> s, order |-> 0, stage |-> 1, due |-> 1, owner |-> steps[s].owner,
                       status |-> steps[s].status] : s \in {t \in Steps : There(t)}})
RoomPage == BuyerWorkspaceView(IF plan \in {"draft", "active"} /\ StageThere
                               THEN {[start |-> 1, target |-> 3, tree |-> RoomTree]} ELSE {}, <<>>, 2)
UrgedIsCompletable ==
    LET page == RoomPage
    IN  /\ \A spine \in page.spine :
               spine.next.heading = "your move" => Completable(spine.next.step)
        /\ \A i \in DOMAIN page.rail.overdue : Completable(page.rail.overdue[i].id)
===============================================================================
