---------------------------- MODULE DealRoomProofs ----------------------------
(***************************************************************************)
(* Proofs about DealRoom for any calls, steps and buyers: a completion is  *)
(* logged once, is the buyer's and final, a closed deal is left alone, and *)
(* what the buyer's page urges can be done.                                *)
(***************************************************************************)
EXTENDS DealRoom, PlanViewsProofs

Edits == StepEdits \cup StageEdits \cup PlanEdits \cup {"none", "complete"}
RoomCallShape ==
    [pc : {"idle", "gate", "write", "resolve", "update", "explain", "log"}, edit : Edits,
     step : Steps \cup {NoStep}, owner : {"none", "seller", "buyer"},
     status : {"keep", "open", "blocked", "done", "upcoming", "current"},
     email : Buyers \cup {"none"}, late : BOOLEAN]
RowShape ==
    [owner : {"none", "seller", "buyer"}, status : {"none", "open", "done", "blocked", "gone"},
     by : Buyers \cup {"none"}]

(* The rows of the deal have their types, and a plan that is gone has taken
   its stage and its steps along. *)
DealInv ==
    /\ plan \in {"none", "draft", "active", "closed", "gone"}
    /\ stage \in {"none", "upcoming", "current", "done", "gone"}
    /\ steps \in [Steps -> RowShape] /\ logged \in [Steps -> Nat]
    /\ plan = "gone" => stage = "gone" /\ \A s \in Steps : ~There(s)

(* What is known of a call by where it is. *)
CallOK(call, thePlan) ==
    /\ call \in RoomCallShape
    /\ call.edit = "patchStep" => call.status \in {"keep", "open", "blocked", "done"}
    /\ call.edit \in {"addStep", "patchStep"} => call.owner # "none"
    /\ call.edit \in StageEdits => call.status \in {"upcoming", "current", "done"}
    /\ call.pc = "write" => call.edit # "patchStep" \/ call.status # "done"
    /\ call.pc \in {"resolve", "update", "explain", "log"} => call.email \in Buyers /\ call.step \in Steps
    /\ call.edit \in StepEdits => call.step \in Steps
    /\ call.late => call.pc \in {"gate", "resolve"} /\ thePlan \in {"closed", "gone"}
RoomCallsInv == room \in [RoomCalls -> RoomCallShape] /\ \A c \in RoomCalls : CallOK(room[c], plan)

(* Whoever is about to log has completed its step, alone, and it is not
   logged yet. *)
Finished(s) == steps[s].status \in {"done", "gone"}
LogInv ==
    /\ \A s \in Steps : logged[s] = 0 \/ (logged[s] = 1 /\ Finished(s))
    /\ \A c \in RoomCalls : room[c].pc = "log" =>
          /\ Finished(room[c].step) /\ logged[room[c].step] = 0
          /\ \A d \in RoomCalls \ {c} : room[d].pc # "log" \/ room[d].step # room[c].step

RoomInv == DealInv /\ RoomCallsInv /\ LogInv

-------------------------------------------------------------------------------
LEMMA InitRoomInv == RoomInit => RoomInv
<1> SUFFICES ASSUME RoomInit PROVE RoomInv
  OBVIOUS
<1> USE DEF RoomInit
<1>1. Quiet \in RoomCallShape /\ CallOK(Quiet, plan)
  BY DEF Quiet, CallOK, RoomCallShape, Edits, StageEdits, StepEdits, PlanEdits
<1>2. NoRow \in RowShape /\ Row("buyer") \in RowShape
  BY DEF NoRow, Row, RowShape
<1>3. DealInv
  BY <1>2 DEF DealInv
<1>4. RoomCallsInv
  BY <1>1 DEF RoomCallsInv
<1>5. LogInv
  BY DEF LogInv, Quiet
<1> QED
  BY <1>3, <1>4, <1>5 DEF RoomInv

(* What a row may become. *)
LEMMA RowsKeepShape ==
    ASSUME NEW row \in RowShape
    PROVE  /\ Gone(row) \in RowShape
           /\ Gone(row).status \in {"none", "gone"}
           /\ row.status \in {"done", "gone"} => Gone(row).status = "gone"
           /\ \A call \in RoomCallShape :
                call.status \in {"keep", "open", "blocked", "done"} => Patched(row, call) \in RowShape
  BY ZenonT(30) DEF Gone, NoRow, RowShape, Patched, RoomCallShape
LEMMA QuietOK == Quiet \in RoomCallShape /\ Quiet.pc = "idle" /\ \A p : CallOK(Quiet, p)
  BY DEF Quiet, CallOK, RoomCallShape, Edits, StageEdits, StepEdits, PlanEdits

(* A step that moves one call, not to its log, and finishes no step twice. *)
LEMMA RoomCallMoves ==
    ASSUME RoomInv, DealInv', NEW c \in RoomCalls, NEW call \in RoomCallShape,
           room' = [room EXCEPT ![c] = call], CallOK(call, plan'), call.pc # "log",
           UNCHANGED logged, plan \in {"closed", "gone"} => plan' \in {"closed", "gone"},
           \A s \in Steps : Finished(s) => steps'[s].status \in {"done", "gone"}
    PROVE  RoomInv'
<1> USE DEF RoomInv
<1>1. room' \in [RoomCalls -> RoomCallShape] /\ room'[c] = call
      /\ \A d \in RoomCalls \ {c} : room'[d] = room[d]
  BY DEF RoomCallsInv
<1>2. RoomCallsInv'
  BY <1>1 DEF RoomCallsInv, CallOK
<1>3. ASSUME NEW d \in RoomCalls, room'[d].pc = "log"
      PROVE  /\ steps'[room'[d].step].status \in {"done", "gone"} /\ logged'[room'[d].step] = 0
             /\ \A e \in RoomCalls \ {d} : room'[e].pc # "log" \/ room'[e].step # room'[d].step
  <2>1. d # c /\ room'[d] = room[d] /\ room[d].step \in Steps
    BY <1>1, <1>3 DEF RoomCallsInv, CallOK
  <2> QED
    BY <2>1, <1>1, <1>3 DEF LogInv
<1>4. LogInv'
  BY <1>3 DEF LogInv, Finished
<1> QED
  BY <1>2, <1>4

(* ... and changes no row. *)
LEMMA RoomCallMovesAlone ==
    ASSUME RoomInv, NEW c \in RoomCalls, NEW call \in RoomCallShape,
           room' = [room EXCEPT ![c] = call], CallOK(call, plan), call.pc # "log",
           UNCHANGED planVars
    PROVE  RoomInv'
<1>1. DealInv'
  BY DEF RoomInv, DealInv, planVars, There
<1>2. UNCHANGED <<plan, steps, logged>>
  BY DEF planVars
<1> QED
  BY <1>1, <1>2, RoomCallMoves DEF Finished

(* What comes in is as it should be. *)
LEMMA EditsAreOK ==
    ASSUME NEW edit \in StepEdits \cup StageEdits \cup PlanEdits, NEW s \in Steps \cup {NoStep},
           NEW owner \in {"none", "seller", "buyer"},
           NEW status \in {"keep", "open", "blocked", "done", "upcoming", "current"},
           edit \in StepEdits => s \in Steps /\ owner # "none",
           edit \in StepEdits => status \in {"keep", "open", "blocked", "done"},
           edit \in StageEdits => status \in {"upcoming", "current", "done"}
    PROVE  LET call == Edit(edit, s, owner, status) IN
           call \in RoomCallShape /\ call.pc # "log" /\ CallOK(call, plan)
<1> DEFINE call == Edit(edit, s, owner, status)
<1>1. /\ call.pc = "gate" /\ call.edit = edit /\ call.step = s /\ call.owner = owner
      /\ call.status = status /\ call.late = (plan = "closed")
  BY DEF Edit
<1>2. call \in RoomCallShape
  BY DEF Edit, RoomCallShape, Edits
<1>3. call.late => plan = "closed"
  BY <1>1, Zenon
<1> HIDE DEF call
<1>4. CallOK(call, plan)
  BY <1>1, <1>2, <1>3 DEF CallOK, StepEdits, StageEdits, PlanEdits
<1> QED
  BY <1>1, <1>2, <1>4 DEF call

LEMMA CompletionsAreOK ==
    ASSUME NEW s \in Steps, NEW email \in Buyers
    PROVE  LET call == Completion(s, email) IN
           call \in RoomCallShape /\ call.pc # "log" /\ CallOK(call, plan)
<1> DEFINE call == Completion(s, email)
<1>1. /\ call.pc = "resolve" /\ call.edit = "complete" /\ call.step = s /\ call.email = email
      /\ call.late = (plan = "closed")
  BY DEF Completion
<1>2. call \in RoomCallShape
  BY DEF Completion, RoomCallShape, Edits
<1>3. call.late => plan = "closed"
  BY <1>1, Zenon
<1> HIDE DEF call
<1>4. CallOK(call, plan)
  BY <1>1, <1>2, <1>3 DEF CallOK, StepEdits, StageEdits, PlanEdits
<1> QED
  BY <1>1, <1>2, <1>4 DEF call

LEMMA RoomArrivalsKeep ==
    ASSUME RoomInv, NEW c \in RoomCalls,
           EditStep(c) \/ EditStage(c) \/ EditPlan(c) \/ CompleteStep(c)
    PROVE  RoomInv'
<1>1. ASSUME NEW call \in RoomCallShape, Called(c, call), CallOK(call, plan), call.pc # "log"
      PROVE  RoomInv'
  BY <1>1, RoomCallMovesAlone DEF Called, Becomes
<1>2. CASE EditStep(c)
  <2>1. PICK edit \in StepEdits, s \in Steps, owner \in {"seller", "buyer"},
             status \in {"keep", "open", "blocked", "done"} :
           Called(c, Edit(edit, s, owner, status))
    BY <1>2 DEF EditStep
  <2> QED
    BY <2>1, <1>1, EditsAreOK DEF StepEdits, StageEdits
<1>3. CASE EditStage(c)
  <2>1. PICK edit \in StageEdits, status \in {"upcoming", "current", "done"} :
           Called(c, Edit(edit, NoStep, "none", status))
    BY <1>3 DEF EditStage
  <2> QED
    BY <2>1, <1>1, EditsAreOK DEF StepEdits, StageEdits
<1>4. CASE EditPlan(c)
  <2>1. PICK edit \in PlanEdits : Called(c, Edit(edit, NoStep, "none", "keep"))
    BY <1>4 DEF EditPlan
  <2> QED
    BY <2>1, <1>1, EditsAreOK DEF StepEdits, StageEdits, PlanEdits
<1>5. CASE CompleteStep(c)
  BY <1>5, <1>1, CompletionsAreOK DEF CompleteStep
<1> QED
  BY <1>2, <1>3, <1>4, <1>5
-------------------------------------------------------------------------------
(* A call that goes on, or ends, without touching a row. *)
LEMMA MovesOnKeeps ==
    ASSUME RoomInv, NEW c \in RoomCalls,
           EnsurePlanIsOpen(c) \/ ReadGoLive(c) \/ ResolveStep(c) \/ ExplainStep(c) \/ RoomCallDies(c)
    PROVE  RoomInv'
<1>1. room[c] \in RoomCallShape /\ CallOK(room[c], plan)
  BY DEF RoomInv, RoomCallsInv
<1>2. CASE Answer(c) /\ UNCHANGED planVars
  BY <1>2, QuietOK, RoomCallMovesAlone DEF Answer, Becomes
<1>3. CASE EnsurePlanIsOpen(c) /\ Moves(c, "write")
  <2> DEFINE call == [room[c] EXCEPT !.pc = "write"]
  <2>1. /\ room[c].pc = "gate" /\ Named(room[c]) /\ plan # "closed"
        /\ ValidStepStatus(room[c]) /\ UNCHANGED planVars
    BY <1>3, <1>1 DEF EnsurePlanIsOpen, Moves, Answer, Becomes, Quiet, RoomCallShape, RoomInv, RoomCallsInv
  <2>2. plan # "gone"
    <3>1. plan = "gone" => ~StageThere /\ ~There(room[c].step)
      BY DEF RoomInv, DealInv, StageThere, There
    <3>2. plan = "gone" => ~Named(room[c])
      BY <3>1 DEF Named
    <3> QED
      BY <2>1, <3>2
  <2>4. call \in RoomCallShape
    BY <1>1 DEF RoomCallShape
  <2>5. /\ call.pc = "write" /\ call.edit = room[c].edit /\ call.step = room[c].step
        /\ call.owner = room[c].owner /\ call.status = room[c].status /\ call.late = room[c].late
    BY <1>1 DEF RoomCallShape
  <2>6. room' = [room EXCEPT ![c] = call]
    BY <1>3 DEF Moves
  <2> HIDE DEF call
  <2>7. CallOK(call, plan)
    BY <1>1, <2>1, <2>2, <2>4, <2>5 DEF CallOK, ValidStepStatus
  <2> QED
    BY <2>1, <2>4, <2>5, <2>6, <2>7, RoomCallMovesAlone
<1>5. CASE ReadGoLive(c) /\ Moves(c, "write") /\ plan = "draft"
  <2> DEFINE call == [room[c] EXCEPT !.pc = "write"]
  <2>1. room[c].pc = "gate" /\ room[c].edit = "goLive" /\ UNCHANGED planVars
    BY <1>5 DEF ReadGoLive
  <2>2. call \in RoomCallShape
    BY <1>1 DEF RoomCallShape
  <2>3. /\ call.pc = "write" /\ call.edit = room[c].edit /\ call.step = room[c].step
        /\ call.owner = room[c].owner /\ call.status = room[c].status /\ call.late = room[c].late
    BY <1>1 DEF RoomCallShape
  <2>4. room' = [room EXCEPT ![c] = call]
    BY <1>5 DEF Moves
  <2> HIDE DEF call
  <2>5. CallOK(call, plan)
    BY <1>1, <1>5, <2>1, <2>2, <2>3 DEF CallOK
  <2> QED
    BY <2>1, <2>2, <2>3, <2>4, <2>5, RoomCallMovesAlone
<1>4. CASE ResolveStep(c) /\ Moves(c, "update")
  <2> DEFINE call == [room[c] EXCEPT !.pc = "update"]
  <2>1. /\ room[c].pc = "resolve" /\ There(room[c].step) /\ plan # "closed" /\ UNCHANGED planVars
    BY <1>4, <1>1 DEF ResolveStep, Moves, Answer, Becomes, Quiet, RoomCallShape, RoomInv, RoomCallsInv
  <2>2. plan # "gone"
    BY <2>1, <1>1 DEF RoomInv, DealInv, CallOK
  <2>4. call \in RoomCallShape
    BY <1>1 DEF RoomCallShape
  <2>5. /\ call.pc = "update" /\ call.edit = room[c].edit /\ call.step = room[c].step
        /\ call.owner = room[c].owner /\ call.status = room[c].status /\ call.late = room[c].late
        /\ call.email = room[c].email
    BY <1>1 DEF RoomCallShape
  <2>6. room' = [room EXCEPT ![c] = call]
    BY <1>4 DEF Moves
  <2> HIDE DEF call
  <2>7. CallOK(call, plan)
    BY <1>1, <2>1, <2>2, <2>4, <2>5 DEF CallOK
  <2> QED
    BY <2>1, <2>4, <2>5, <2>6, <2>7, RoomCallMovesAlone
<1> QED
  BY <1>2, <1>3, <1>4, <1>5 DEF EnsurePlanIsOpen, ReadGoLive, ResolveStep, ExplainStep, RoomCallDies

(* A seller's write: one row, all of a stage, or all of a plan. *)
LEMMA WritesKeep ==
    ASSUME RoomInv, NEW c \in RoomCalls, WriteStep(c) \/ WriteStage(c) \/ WritePlan(c)
    PROVE  /\ RoomInv'
           /\ \A s \in Steps : steps[s].status = "done" => steps'[s].status \in {"done", "gone"}
           /\ \A s \in Steps : steps[s].status # "done" => steps'[s].status # "done"
<1> DEFINE Lasting == \A s \in Steps : /\ Finished(s) => steps'[s].status \in {"done", "gone"}
                                       /\ steps[s].status = "done" => steps'[s].status \in {"done", "gone"}
                                       /\ steps[s].status # "done" => steps'[s].status # "done"
<1>1. room[c] \in RoomCallShape /\ CallOK(room[c], plan) /\ DealInv
  BY DEF RoomInv, RoomCallsInv
<1>2. /\ Answer(c) /\ UNCHANGED logged /\ ~room[c].late
      /\ plan \in {"closed", "gone"} => plan' \in {"closed", "gone"}
  BY <1>1 DEF WriteStep, WriteStage, WritePlan, CallOK
<1>3. ASSUME steps' = [s \in Steps |-> Gone(steps[s])] PROVE steps' \in [Steps -> RowShape] /\ Lasting
             /\ \A s \in Steps : steps'[s].status \in {"none", "gone"}
  BY <1>3, <1>1, RowsKeepShape DEF DealInv, Finished
<1>4. ASSUME UNCHANGED steps PROVE Lasting
  BY <1>4 DEF Finished
<1>5. CASE WriteStep(c) /\ ~UNCHANGED steps
  <2>1. PICK s \in Steps, row \in RowShape :
           /\ steps' = [steps EXCEPT ![s] = row] /\ plan # "gone"
           /\ Finished(s) => row.status \in {"done", "gone"}
           /\ steps[s].status # "done" => row.status # "done"
    <3> DEFINE s == room[c].step
    <3>1. room[c].pc = "write" /\ room[c].edit \in StepEdits /\ s \in Steps /\ steps[s] \in RowShape
      BY <1>1, <1>5 DEF WriteStep, CallOK, DealInv
    <3>2. CASE StageThere /\ NoRowYet(s) /\ steps' = [steps EXCEPT ![s] = Row(room[c].owner)]
      <4>1. Row(room[c].owner) \in RowShape /\ Row(room[c].owner).status = "open"
        BY <1>1 DEF Row, RowShape, RoomCallShape
      <4>2. plan # "gone" /\ ~Finished(s)
        BY <1>1, <3>2 DEF DealInv, StageThere, NoRowYet, Finished
      <4> QED
        BY <3>1, <3>2, <4>1, <4>2
    <3>3. CASE /\ There(s) /\ room[c].edit = "patchStep"
               /\ steps' = [steps EXCEPT ![s] =
                               IF Coherent(@, room[c].status) THEN Patched(@, room[c]) ELSE @]
      <4>1. PICK row : row = IF Coherent(steps[s], room[c].status)
                             THEN Patched(steps[s], room[c]) ELSE steps[s]
        OBVIOUS
      <4>2. steps' = [steps EXCEPT ![s] = row]
        BY <3>3, <4>1
      <4>3. row \in RowShape
        BY <1>1, <3>1, <3>3, <4>1, RowsKeepShape DEF CallOK
      <4>4. Patched(steps[s], room[c]).status =
               IF room[c].status = "keep" THEN steps[s].status ELSE room[c].status
        BY <3>1 DEF Patched, RowShape
      <4>5. plan # "gone" /\ steps[s].status # "gone"
        BY <1>1, <3>1, <3>3 DEF DealInv, There
      <4>6. room[c].status # "done"
        BY <1>1, <3>1, <3>3 DEF CallOK
      <4>7. /\ Finished(s) => row.status \in {"done", "gone"}
            /\ steps[s].status # "done" => row.status # "done"
        BY <4>1, <4>4, <4>5, <4>6 DEF Coherent, Finished
      <4> QED
        BY <3>1, <4>2, <4>3, <4>5, <4>7
    <3>4. CASE There(s) /\ steps' = [steps EXCEPT ![s] = Gone(@)]
      <4>1. steps' = [steps EXCEPT ![s] = Gone(steps[s])] /\ plan # "gone"
        BY <1>1, <3>1, <3>4 DEF DealInv
      <4> QED
        BY <3>1, <4>1, RowsKeepShape DEF Finished
    <3> QED
      BY <1>5, <3>1, <3>2, <3>3, <3>4 DEF WriteStep
  <2>2. Lasting
    BY <1>1, <2>1 DEF DealInv, Finished
  <2>3. DealInv'
    BY <1>1, <1>5, <2>1 DEF DealInv, WriteStep
  <2> QED
    BY <1>2, <2>2, <2>3, QuietOK, RoomCallMoves DEF Answer, Becomes
<1>6. CASE WriteStage(c) /\ ~UNCHANGED <<stage, steps>>
  <2>1. DealInv' /\ Lasting
    <3>1. CASE /\ room[c].edit = "addStage" /\ plan # "gone" /\ stage = "none"
               /\ stage' = "upcoming" /\ UNCHANGED steps
      BY <1>1, <1>4, <1>6, <3>1 DEF DealInv, WriteStage
    <3>2. CASE StageThere /\ room[c].edit = "patchStage" /\ stage' = room[c].status /\ UNCHANGED steps
      BY <1>1, <1>4, <1>6, <3>2 DEF DealInv, WriteStage, CallOK, StageEdits, StageThere
    <3>3. CASE StageThere /\ stage' = "gone" /\ steps' = [s \in Steps |-> Gone(steps[s])]
      BY <1>1, <1>3, <1>6, <3>3 DEF DealInv, WriteStage, There
    <3> QED
      BY <1>6, <3>1, <3>2, <3>3 DEF WriteStage
  <2> QED
    BY <1>2, <2>1, QuietOK, RoomCallMoves DEF Answer, Becomes
<1>7. CASE WritePlan(c) /\ plan # "gone"
  <2>1. DealInv' /\ Lasting
    <3>1. CASE plan' = "closed" /\ UNCHANGED <<stage, steps>>
      BY <1>1, <1>4, <1>7, <3>1 DEF DealInv, WritePlan
    <3>2. CASE plan' = "gone" /\ stage' = "gone" /\ steps' = [s \in Steps |-> Gone(steps[s])]
      BY <1>1, <1>3, <1>7, <3>2 DEF DealInv, WritePlan, There
    <3> QED
      BY <1>7, <3>1, <3>2 DEF WritePlan
  <2> QED
    BY <1>2, <2>1, QuietOK, RoomCallMoves DEF Answer, Becomes
<1>8. CASE UNCHANGED <<plan, stage, steps>>
  <2>1. DealInv' /\ Lasting
    BY <1>1, <1>2, <1>4, <1>8 DEF DealInv, There
  <2> QED
    BY <1>2, <2>1, QuietOK, RoomCallMoves DEF Answer, Becomes
<1>9. \/ WriteStep(c) /\ ~UNCHANGED steps
      \/ WriteStage(c) /\ ~UNCHANGED <<stage, steps>>
      \/ WritePlan(c) /\ plan # "gone"
      \/ UNCHANGED <<plan, stage, steps>>
  BY DEF WriteStep, WriteStage, WritePlan
<1> QED
  BY <1>5, <1>6, <1>7, <1>8, <1>9

(* A go-live's write: no call is late any more, unless the plan is gone. *)
LEMMA MarkLiveKeeps ==
    ASSUME RoomInv, NEW c \in RoomCalls, MarkLive(c)
    PROVE  RoomInv'
<1>1. /\ DealInv /\ RoomCallsInv /\ LogInv /\ UNCHANGED <<stage, steps, logged>>
      /\ plan' = IF plan = "gone" THEN plan ELSE "active"
  BY DEF RoomInv, MarkLive
<1>2. ASSUME NEW d \in RoomCalls
      PROVE  /\ room'[d] \in RoomCallShape /\ CallOK(room'[d], plan')
             /\ room'[d].pc = "log" => d # c /\ room[d].pc = "log" /\ room'[d].step = room[d].step
  <2>1. CASE d = c
    BY <2>1, QuietOK DEF MarkLive
  <2>2. CASE d # c
    <3>1. room[d] \in RoomCallShape /\ CallOK(room[d], plan)
      BY <1>1 DEF RoomCallsInv
    <3>2. PICK late \in BOOLEAN : late = (room[d].late /\ plan = "gone")
      OBVIOUS
    <3>3. room'[d] = [room[d] EXCEPT !.late = late]
      BY <2>2, <3>2 DEF MarkLive
    <3>4. PICK call : call = room'[d]
      OBVIOUS
    <3>5. /\ call.pc = room[d].pc /\ call.edit = room[d].edit /\ call.step = room[d].step
          /\ call.owner = room[d].owner /\ call.status = room[d].status
          /\ call.email = room[d].email /\ call.late = late
      BY <3>1, <3>3, <3>4 DEF RoomCallShape
    <3>6. call \in RoomCallShape
      BY <3>1, <3>3, <3>4 DEF RoomCallShape
    <3>7. call.late => room[d].late /\ plan = "gone" /\ plan' = plan
      BY <1>1, <3>2, <3>5
    <3>8. CallOK(call, plan')
      BY <3>1, <3>5, <3>6, <3>7 DEF CallOK
    <3> QED
      BY <2>2, <3>4, <3>5, <3>6, <3>8
  <2> QED
    BY <2>1, <2>2
<1>3. DealInv'
  BY <1>1 DEF DealInv, There
<1>4. RoomCallsInv'
  <2>1. DOMAIN room' = RoomCalls /\ room' = [d \in RoomCalls |-> room'[d]]
    BY DEF MarkLive
  <2> QED
    BY <1>2, <2>1 DEF RoomCallsInv
<1>5. LogInv'
  <2>1. \A s \in Steps : logged'[s] = 0
           \/ (logged'[s] = 1 /\ steps'[s].status \in {"done", "gone"})
    BY <1>1 DEF LogInv, Finished
  <2>2. ASSUME NEW d \in RoomCalls, room'[d].pc = "log"
        PROVE  /\ steps'[room'[d].step].status \in {"done", "gone"} /\ logged'[room'[d].step] = 0
               /\ \A e \in RoomCalls \ {d} : room'[e].pc # "log" \/ room'[e].step # room'[d].step
    BY <1>1, <1>2, <2>2 DEF LogInv, Finished
  <2> QED
    BY <2>1, <2>2 DEF LogInv, Finished
<1> QED
  BY <1>3, <1>4, <1>5 DEF RoomInv

(* What CompletionIsTheBuyers says of one step of the system. *)
DoneIsTheBuyers ==
    \A s \in Steps :
       /\ steps[s].status = "done" => steps'[s].status \in {"done", "gone"}
       /\ steps[s].status # "done" /\ steps'[s].status = "done"
             => steps[s].owner = "buyer" /\ steps'[s].by \in Buyers

(* The buyer's completion: the row is done, and its log is this call's. *)
LEMMA UpdateKeeps ==
    ASSUME RoomInv, NEW c \in RoomCalls, UpdateStep(c)
    PROVE  RoomInv' /\ DoneIsTheBuyers
<1> DEFINE t == room[c].step
<1>1. /\ room[c] \in RoomCallShape /\ CallOK(room[c], plan) /\ DealInv /\ room[c].pc = "update"
      /\ t \in Steps /\ room[c].email \in Buyers /\ steps[t] \in RowShape /\ ~room[c].late
  BY DEF RoomInv, RoomCallsInv, DealInv, CallOK, UpdateStep
<1>2. ASSUME NEW label \in {"log", "explain"}, Moves(c, label)
      PROVE  \E call \in RoomCallShape :
                /\ room' = [room EXCEPT ![c] = call] /\ CallOK(call, plan)
                /\ call.pc = label /\ call.step = t
  <2> DEFINE call == [room[c] EXCEPT !.pc = label]
  <2>1. call \in RoomCallShape
    BY <1>1 DEF RoomCallShape
  <2>2. /\ call.pc = label /\ call.edit = room[c].edit /\ call.step = room[c].step
        /\ call.owner = room[c].owner /\ call.status = room[c].status /\ call.late = room[c].late
        /\ call.email = room[c].email
    BY <1>1 DEF RoomCallShape
  <2>3. room' = [room EXCEPT ![c] = call]
    BY <1>2 DEF Moves
  <2> HIDE DEF call
  <2>4. CallOK(call, plan)
    BY <1>1, <2>1, <2>2 DEF CallOK
  <2> QED
    BY <2>1, <2>2, <2>3, <2>4
<1>3. CASE Completable(t)
  <2>1. PICK row : row = [steps[t] EXCEPT !.status = "done", !.by = room[c].email]
    OBVIOUS
  <2>2. row \in RowShape /\ row.status = "done" /\ row.by = room[c].email
    <3>1. PICK half : half = [steps[t] EXCEPT !.status = "done"]
      OBVIOUS
    <3>2. half \in RowShape /\ half.status = "done"
      BY <1>1, <3>1 DEF RowShape
    <3>3. row = [half EXCEPT !.by = room[c].email]
      BY <2>1, <3>1, <3>2, <1>1 DEF RowShape
    <3> QED
      BY <1>1, <3>2, <3>3 DEF RowShape
  <2>3. steps' = [steps EXCEPT ![t] = row] /\ Moves(c, "log") /\ UNCHANGED <<plan, stage, logged>>
    BY <1>3, <2>1 DEF UpdateStep
  <2>4. PICK call \in RoomCallShape :
           /\ room' = [room EXCEPT ![c] = call] /\ CallOK(call, plan) /\ call.pc = "log" /\ call.step = t
    BY <1>2, <2>3
  <2>5. steps[t].status = "open" /\ steps[t].owner = "buyer" /\ There(t)
    BY <1>3 DEF Completable
  <2>6. DealInv'
    BY <1>1, <2>2, <2>3, <2>5 DEF DealInv, There
  <2>7. RoomCallsInv'
    BY <2>3, <2>4 DEF RoomInv, RoomCallsInv
  <2>8. logged[t] = 0 /\ \A d \in RoomCalls : room[d].pc = "log" => room[d].step # t
    BY <1>1, <2>5 DEF RoomInv, LogInv, Finished
  <2>9. steps'[t] = row /\ \A s \in Steps \ {t} : steps'[s] = steps[s]
    BY <1>1, <2>3 DEF DealInv
  <2>10. room'[c] = call /\ \A d \in RoomCalls \ {c} : room'[d] = room[d]
    BY <2>4 DEF RoomInv, RoomCallsInv
  <2>11. LogInv'
    <3>1. \A s \in Steps : logged'[s] = 0
             \/ (logged'[s] = 1 /\ steps'[s].status \in {"done", "gone"})
      BY <2>2, <2>3, <2>9 DEF RoomInv, LogInv, Finished
    <3>2. ASSUME NEW d \in RoomCalls, room'[d].pc = "log"
          PROVE  /\ steps'[room'[d].step].status \in {"done", "gone"} /\ logged'[room'[d].step] = 0
                 /\ \A e \in RoomCalls \ {d} : room'[e].pc # "log" \/ room'[e].step # room'[d].step
      <4>1. CASE d = c
        BY <2>2, <2>3, <2>4, <2>8, <2>9, <2>10, <4>1
      <4>2. CASE d # c
        <5>1. room'[d] = room[d] /\ room[d].step \in Steps \ {t}
          BY <2>8, <2>10, <3>2, <4>2 DEF RoomInv, RoomCallsInv, CallOK
        <5> QED
          BY <2>3, <2>4, <2>9, <2>10, <3>2, <5>1 DEF RoomInv, LogInv, Finished
      <4> QED
        BY <4>1, <4>2
    <3> QED
      BY <3>1, <3>2 DEF LogInv, Finished
  <2> QED
    BY <1>1, <2>2, <2>5, <2>6, <2>7, <2>9, <2>11 DEF RoomInv, DoneIsTheBuyers
<1>4. CASE ~Completable(t)
  <2>1. Moves(c, "explain") /\ UNCHANGED planVars
    BY <1>4 DEF UpdateStep, planVars
  <2>2. PICK call \in RoomCallShape :
           room' = [room EXCEPT ![c] = call] /\ CallOK(call, plan) /\ call.pc = "explain"
    BY <1>2, <2>1
  <2>3. RoomInv'
    BY <2>1, <2>2, RoomCallMovesAlone
  <2> QED
    BY <2>1, <2>3 DEF planVars, DoneIsTheBuyers
<1> QED
  BY <1>3, <1>4

(* The log of a completion, written or failed. *)
LEMMA LogKeeps ==
    ASSUME RoomInv, NEW c \in RoomCalls, LogCompletion(c)
    PROVE  RoomInv'
<1> DEFINE t == room[c].step
<1>1. /\ CallOK(room[c], plan) /\ DealInv /\ t \in Steps /\ room[c].pc = "log"
      /\ Finished(t) /\ logged[t] = 0 /\ UNCHANGED <<plan, stage, steps>>
      /\ room' = [room EXCEPT ![c] = Quiet]
  BY DEF RoomInv, RoomCallsInv, CallOK, LogInv, LogCompletion, Answer, Becomes
<1>2. room'[c] = Quiet /\ \A d \in RoomCalls \ {c} : room'[d] = room[d]
  BY <1>1 DEF RoomInv, RoomCallsInv
<1>3. logged' = logged \/ logged' = [logged EXCEPT ![t] = 1]
  BY <1>1 DEF LogCompletion
<1>4. DealInv'
  BY <1>1, <1>3 DEF DealInv, There
<1>5. RoomCallsInv'
  BY <1>1, <1>2, QuietOK DEF RoomInv, RoomCallsInv
<1>6. \A s \in Steps : logged'[s] = IF s = t /\ logged' # logged THEN 1 ELSE logged[s]
  BY <1>1, <1>3 DEF DealInv
<1>7. LogInv'
  <2>1. \A s \in Steps : logged'[s] = 0 \/ (logged'[s] = 1 /\ steps'[s].status \in {"done", "gone"})
    BY <1>1, <1>6 DEF RoomInv, LogInv, Finished
  <2>2. ASSUME NEW d \in RoomCalls, room'[d].pc = "log"
        PROVE  /\ steps'[room'[d].step].status \in {"done", "gone"} /\ logged'[room'[d].step] = 0
               /\ \A e \in RoomCalls \ {d} : room'[e].pc # "log" \/ room'[e].step # room'[d].step
    <3>1. d # c /\ room'[d] = room[d] /\ room[d].step \in Steps /\ room[d].step # t
      BY <1>1, <1>2, <2>2, QuietOK DEF RoomInv, LogInv, RoomCallsInv, CallOK
    <3> QED
      BY <1>1, <1>2, <1>6, <2>2, <3>1, QuietOK DEF RoomInv, LogInv, Finished
  <2> QED
    BY <2>1, <2>2 DEF LogInv, Finished
<1> QED
  BY <1>4, <1>5, <1>7 DEF RoomInv

(* The plan is made: no call asks for a closed one yet. *)
LEMMA CreatePlanKeeps ==
    ASSUME RoomInv, CreatePlan
    PROVE  RoomInv'
<1>1. DealInv'
  BY DEF RoomInv, DealInv, CreatePlan, There
<1>2. RoomCallsInv'
  <2>1. ASSUME NEW call, CallOK(call, plan) PROVE CallOK(call, plan')
    BY <2>1 DEF CreatePlan, CallOK
  <2> QED
    BY <2>1 DEF RoomInv, RoomCallsInv, CreatePlan
<1>3. LogInv'
  BY DEF RoomInv, LogInv, CreatePlan, Finished
<1> QED
  BY <1>1, <1>2, <1>3 DEF RoomInv

LEMMA RoomStepKeeps == RoomInv /\ [RoomNext]_roomVars => RoomInv'
<1> SUFFICES ASSUME RoomInv, [RoomNext]_roomVars PROVE RoomInv'
  OBVIOUS
<1>1. CASE CreatePlan
  BY <1>1, CreatePlanKeeps
<1>2. ASSUME NEW c \in RoomCalls, EditRoom(c) \/ CompleteRoom(c) PROVE RoomInv'
  BY <1>2, RoomArrivalsKeep, MovesOnKeeps, WritesKeep, MarkLiveKeeps, UpdateKeeps, LogKeeps
     DEF EditRoom, CompleteRoom
<1>3. CASE UNCHANGED roomVars
  BY <1>3 DEF roomVars, RoomInv, DealInv, RoomCallsInv, LogInv, Finished, There
<1> QED
  BY <1>1, <1>2, <1>3 DEF RoomNext

LEMMA RoomInvAlways == RoomSpec => []RoomInv
  BY InitRoomInv, RoomStepKeeps, PTL DEF RoomSpec

-------------------------------------------------------------------------------
(* complete-step.ts: the conditional update lets one of the buyers' calls
   through, and only that one logs: in no run is a completion logged twice,
   or one logged that did not happen. *)
THEOREM CompletionLoggedOnceAlways == RoomSpec => []CompletionLoggedOnce
<1>1. RoomInv => CompletionLoggedOnce
  BY DEF RoomInv, LogInv, CompletionLoggedOnce, Finished
<1> QED
  BY <1>1, RoomInvAlways, PTL

(* complete-step.ts and plan-actions.ts: whatever the seller reassigns or
   deletes under a buyer's call, a step becomes done only while it is the
   buyer's, and a step that is done is never open again. *)
THEOREM CompletionIsTheBuyersAlways == RoomSpec => CompletionIsTheBuyers
<1>1. ASSUME RoomInv, NEW c \in RoomCalls, EditRoom(c) \/ CompleteRoom(c) PROVE DoneIsTheBuyers
  <2>1. CASE WriteStep(c) \/ WriteStage(c) \/ WritePlan(c)
    BY <1>1, <2>1, WritesKeep DEF DoneIsTheBuyers
  <2>2. CASE UpdateStep(c)
    BY <1>1, <2>2, UpdateKeeps
  <2>3. CASE UNCHANGED steps
    BY <2>3 DEF DoneIsTheBuyers
  <2> QED
    BY <1>1, <2>1, <2>2, <2>3 DEF EditRoom, CompleteRoom, EditStep, EditStage, EditPlan, Called,
       EnsurePlanIsOpen, ReadGoLive, MarkLive, CompleteStep, ResolveStep, ExplainStep, LogCompletion,
       RoomCallDies, planVars
<1>2. CreatePlan \/ UNCHANGED roomVars => DoneIsTheBuyers
  BY DEF DoneIsTheBuyers, CreatePlan, roomVars
<1>3. RoomInv /\ [RoomNext]_roomVars => [DoneIsTheBuyers]_roomVars
  BY <1>1, <1>2 DEF RoomNext
<1> QED
  BY <1>3, RoomInvAlways, PTL DEF RoomSpec, CompletionIsTheBuyers, DoneIsTheBuyers

(* plan-actions.ts and the complete route: a call that comes in once the deal
   is closed is refused at its first look at the plan, and leaves the plan,
   the stage and every step as they are for as long as no go-live that was
   under way opens the deal again (0015_deal_limits.sql, mark_plan_live). *)
THEOREM ClosedDealIsKeptAlways == RoomSpec => ClosedDealIsKept
<1> DEFINE Kept == \A c \in RoomCalls : room[c].late /\ room'[c].pc # room[c].pc
                                          => UNCHANGED <<plan, stage, steps>>
<1>1. ASSUME RoomInv, NEW d \in RoomCalls, EditRoom(d) \/ CompleteRoom(d) PROVE Kept
  <2>1. \A c \in RoomCalls \ {d} : room'[c].pc = room[c].pc
    <3>1. CASE MarkLive(d)
      <4>1. ASSUME NEW c \in RoomCalls \ {d} PROVE room'[c].pc = room[c].pc
        <5>1. room[c] \in RoomCallShape
          BY <1>1 DEF RoomInv, RoomCallsInv
        <5>2. PICK late : room'[c] = [room[c] EXCEPT !.late = late]
          BY <3>1 DEF MarkLive
        <5> QED
          BY <5>1, <5>2 DEF RoomCallShape
      <4> QED
        BY <4>1
    <3>2. CASE ~MarkLive(d)
      BY <1>1, <3>2 DEF RoomInv, RoomCallsInv, EditRoom, CompleteRoom, EditStep, EditStage, EditPlan,
         Called, EnsurePlanIsOpen, ReadGoLive, WriteStep, WriteStage, WritePlan, CompleteStep,
         ResolveStep, UpdateStep, ExplainStep, LogCompletion, RoomCallDies, Answer, Becomes, Moves
    <3> QED
      BY <3>1, <3>2
  <2>2. room[d].late => room[d].pc \in {"gate", "resolve"}
    BY <1>1 DEF RoomInv, RoomCallsInv, CallOK
  <2>3. room[d].pc \in {"gate", "resolve"} => UNCHANGED <<plan, stage, steps>>
    BY <1>1 DEF EditRoom, CompleteRoom, EditStep, EditStage, EditPlan, Called,
       EnsurePlanIsOpen, ReadGoLive, WriteStep, WriteStage, WritePlan, MarkLive, CompleteStep,
       ResolveStep, UpdateStep, ExplainStep, LogCompletion, RoomCallDies, planVars
  <2> QED
    BY <2>1, <2>2, <2>3
<1>2. CreatePlan \/ UNCHANGED roomVars => Kept
  BY DEF CreatePlan, roomVars
<1>3. RoomInv /\ [RoomNext]_roomVars => [Kept]_roomVars
  BY <1>1, <1>2 DEF RoomNext
<1> QED
  BY <1>3, RoomInvAlways, PTL DEF RoomSpec, ClosedDealIsKept

-------------------------------------------------------------------------------
(* The steps there are, which addStep alone adds to, one at a time. *)
TheSteps == {s \in Steps : There(s)}
StepsInv == IsFiniteSet(TheSteps)

LEMMA StepsStayFinite == RoomInv /\ StepsInv /\ [RoomNext]_roomVars => StepsInv'
<1> SUFFICES ASSUME RoomInv, StepsInv, [RoomNext]_roomVars PROVE IsFiniteSet(TheSteps')
  BY DEF StepsInv
<1>1. ASSUME NEW T, TheSteps' \subseteq TheSteps \cup {T} PROVE IsFiniteSet(TheSteps')
  <2>1. IsFiniteSet(TheSteps \cup {T})
    BY FS_AddElement DEF StepsInv
  <2> QED
    BY <1>1, <2>1, FS_Subset
<1>2. steps \in [Steps -> RowShape]
  BY DEF RoomInv, DealInv
<1>3. CASE UNCHANGED steps
  BY <1>1, <1>3 DEF TheSteps, There
<1>4. ASSUME NEW s, NEW row, steps' = [steps EXCEPT ![s] = row] PROVE IsFiniteSet(TheSteps')
  <2>1. TheSteps' \subseteq TheSteps \cup {s}
    BY <1>2, <1>4 DEF TheSteps, There
  <2> QED
    BY <1>1, <2>1
<1>5. CASE steps' = [s \in Steps |-> Gone(steps[s])]
  <2>1. \A s \in Steps : steps'[s].status \in {"none", "gone"}
    BY <1>2, <1>5, RowsKeepShape
  <2> QED
    BY <1>1, <2>1 DEF TheSteps, There
<1>6. ASSUME NEW c \in RoomCalls, EditRoom(c) \/ CompleteRoom(c)
      PROVE  \/ UNCHANGED steps
             \/ \E s, row : steps' = [steps EXCEPT ![s] = row]
             \/ steps' = [s \in Steps |-> Gone(steps[s])]
  <2>1. CASE WriteStep(c)
    BY <2>1 DEF WriteStep
  <2>2. CASE UpdateStep(c)
    BY <2>2 DEF UpdateStep
  <2>3. CASE WriteStage(c) \/ WritePlan(c)
    BY <2>3 DEF WriteStage, WritePlan
  <2> QED
    BY <1>6, <2>1, <2>2, <2>3 DEF EditRoom, CompleteRoom, EditStep, EditStage, EditPlan, Called,
       EnsurePlanIsOpen, ReadGoLive, MarkLive, CompleteStep, ResolveStep, ExplainStep, LogCompletion,
       RoomCallDies, planVars
<1>7. CreatePlan \/ UNCHANGED roomVars => UNCHANGED steps
  BY DEF CreatePlan, roomVars
<1> QED
  BY <1>3, <1>4, <1>5, <1>6, <1>7 DEF RoomNext

LEMMA StepsAreFinite == RoomInit => StepsInv
<1> SUFFICES ASSUME RoomInit PROVE IsFiniteSet(TheSteps)
  BY DEF StepsInv
<1>1. TheSteps \subseteq {1}
  BY DEF RoomInit, TheSteps, There, NoRow
<1> QED
  BY <1>1, FS_Singleton, FS_Subset

(* A reading of the steps there are. *)
Reads(all, n) ==
    /\ DOMAIN all = 1..n
    /\ \A j \in 1..n : \E s \in Steps : /\ There(s) /\ all[j].id = s
                                       /\ all[j].owner = steps[s].owner /\ all[j].status = steps[s].status

LEMMA ReadingUrgesCompletable ==
    ASSUME NEW tree, NEW n \in Nat, Reads(AllSteps(tree), n), NEW today
    PROVE  /\ NextMove(tree).heading = "your move" => Completable(NextMove(tree).step)
           /\ \A i \in DOMAIN OverdueBuyerSteps(tree, today) :
                 Completable(OverdueBuyerSteps(tree, today)[i].id)
<1> DEFINE all == AllSteps(tree)
<1>1. ASSUME NEW j \in 1..n, Open(all[j]), all[j].owner = "buyer" PROVE Completable(all[j].id)
  BY <1>1 DEF Reads, Completable, Open
<1>2. NextMove(tree).heading = "your move" => Completable(NextMove(tree).step)
  <2> SUFFICES ASSUME NextMove(tree).heading = "your move" PROVE Completable(NextMove(tree).step)
    OBVIOUS
  <2>1. /\ NextOpenStep(tree) # NoStep /\ StepsWhere(tree, Open)[1].owner = "buyer"
        /\ NextMove(tree).step = StepsWhere(tree, Open)[1].id
    BY DEF NextMove
  <2>2. PICK i \in 1..n : StepsWhere(tree, Open)[1] = all[i] /\ Open(all[i])
    BY <2>1, NextOpenStepIsFirst DEF Reads
  <2> QED
    BY <1>1, <2>1, <2>2
<1>3. ASSUME NEW i \in DOMAIN OverdueBuyerSteps(tree, today)
      PROVE  Completable(OverdueBuyerSteps(tree, today)[i].id)
  <2> DEFINE chosen == {j \in 1..n : LET s == all[j] IN
                          s.owner = "buyer" /\ Open(s) /\ s.due # NoDay /\ s.due < today}
             overdue == OverdueBuyerSteps(tree, today)
  <2>1. Selects(overdue, all, chosen)
    BY OverdueBuyerStepsAre DEF Reads
  <2>2. \A j \in chosen : j \in 1..n /\ all[j].owner = "buyer" /\ Open(all[j])
    OBVIOUS
  <2> HIDE DEF chosen, all
  <2>3. PICK j \in chosen : overdue[i] = all[j]
    <3> HIDE DEF overdue
    <3>1. i \in DOMAIN overdue
      BY <1>3 DEF overdue
    <3> QED
      BY <2>1, <3>1 DEF Selects
  <2> QED
    BY <1>1, <2>2, <2>3
<1> QED
  BY <1>2, <1>3

(* The room's tree: one stage with the steps there are, in order. *)
TheRow(s) == [id |-> s, order |-> 0, stage |-> 1, due |-> 1, owner |-> steps[s].owner,
              status |-> steps[s].status]
TheRows == {TheRow(s) : s \in TheSteps}

LEMMA TheRowsAreRows == StepsInv => AreRows(TheRows)
<1> SUFFICES ASSUME StepsInv PROVE AreRows(TheRows)
  OBVIOUS
<1> DEFINE f == [s \in TheSteps |-> TheRow(s)]
<1>1. f \in Surjection(TheSteps, TheRows)
  BY DEF Surjection, TheRows
<1>2. IsFiniteSet(TheRows)
  BY <1>1, FS_Surjection DEF StepsInv
<1>3. \A r \in TheRows : \E s \in TheSteps : r = TheRow(s)
  BY DEF TheRows
<1>4. \A s \in TheSteps : s \in Int /\ TheRow(s).order = 0 /\ TheRow(s).id = s
  BY RoomAssumption DEF TheSteps, TheRow
<1> QED
  BY <1>2, <1>3, <1>4 DEF AreRows

LEMMA RoomTreeIs ==
    ASSUME StepsInv
    PROVE  RoomTree = [i \in 1..1 |-> [id |-> 1, status |-> stage, steps |-> InOrder(TheRows)]]
<1> DEFINE g      == [id |-> 1, order |-> 0, status |-> stage]
           stages == {g}
<1>1. AreRows(stages) /\ Cardinality(stages) = 1
  <2>1. IsFiniteSet(stages) /\ Cardinality(stages) = 1
    BY FS_Singleton
  <2>2. g.order = 0 /\ g.id = 1
    OBVIOUS
  <2>3. \A a \in stages : a = g
    OBVIOUS
  <2> HIDE DEF g, stages
  <2> QED
    BY <2>1, <2>2, <2>3 DEF AreRows
<1>2. InOrder(stages) \in [1..1 -> stages]
  BY <1>1, InOrderSorts
<1>3. InOrder(stages)[1] = g /\ DOMAIN InOrder(stages) = 1..1
  BY <1>2
<1>4. {s \in TheRows : s.stage = 1} = TheRows
  BY DEF TheRows, TheRow
<1>5. RoomTree = PlanTree(stages, TheRows)
  BY DEF RoomTree, TheRows, TheRow, TheSteps
<1>6. \A i \in 1..1 : InOrder(stages)[i].id = 1 /\ InOrder(stages)[i].status = stage
  BY <1>3
<1> HIDE DEF stages
<1>7. PlanTree(stages, TheRows) = [i \in 1..1 |-> [id |-> 1, status |-> stage, steps |-> InOrder(TheRows)]]
  BY <1>3, <1>4, <1>6 DEF PlanTree
<1> QED
  BY <1>5, <1>7

(* What the buyer is sent of the tree, and the tree the rail is read off. *)
LEMMA RoomIsRead ==
    ASSUME StepsInv
    PROVE  \E n \in Nat : Reads(AllSteps(RoomTree), n) /\ Reads(AllSteps(BuyerPlan(RoomTree)), n)
<1> DEFINE rows == InOrder(TheRows)
           n    == Cardinality(TheRows)
           sent == [j \in 1..n |-> BuyerStep(rows[j])]
<1>1. n \in Nat /\ rows \in [1..n -> TheRows]
  BY TheRowsAreRows, InOrderSorts, FS_CardinalityType DEF AreRows
<1>2. ASSUME NEW j \in 1..n
      PROVE  \E s \in Steps : /\ There(s) /\ rows[j].id = s
                              /\ rows[j].owner = steps[s].owner /\ rows[j].status = steps[s].status
  <2>1. rows[j] \in TheRows
    BY <1>1
  <2>2. PICK s \in TheSteps : rows[j] = TheRow(s)
    BY <2>1 DEF TheRows
  <2>3. s \in Steps /\ There(s)
    BY DEF TheSteps
  <2> QED
    BY <2>2, <2>3 DEF TheRow
<1>3. \A j \in 1..n : /\ sent[j].id = rows[j].id /\ sent[j].owner = rows[j].owner
                       /\ sent[j].status = rows[j].status
  BY DEF BuyerStep
<1>4. PICK list, g : list = rows /\ g = [id |-> 1, status |-> stage, steps |-> list]
  OBVIOUS
<1>5. RoomTree = [i \in 1..1 |-> g]
  BY <1>4, RoomTreeIs
<1>6. AllSteps(RoomTree) = rows
  <2>1. [i \in DOMAIN RoomTree |-> RoomTree[i].steps] = [i \in 1..1 |-> list]
    BY <1>4, <1>5
  <2> QED
    BY <1>4, <2>1, OneFlattens DEF AllSteps
<1>7. AllSteps(BuyerPlan(RoomTree)) = sent
  <2>1. PICK seen, h : seen = sent /\ h = [g EXCEPT !.steps = seen]
    OBVIOUS
  <2>2. h.steps = sent
    BY <1>4, <2>1
  <2>3. [j \in DOMAIN g.steps |-> BuyerStep(g.steps[j])] = seen
    BY <1>1, <1>4, <2>1
  <2>4. BuyerPlan(RoomTree) = [i \in 1..1 |-> h]
    BY <1>5, <2>1, <2>3 DEF BuyerPlan
  <2>5. [i \in DOMAIN BuyerPlan(RoomTree) |-> BuyerPlan(RoomTree)[i].steps] = [i \in 1..1 |-> seen]
    BY <2>1, <2>2, <2>4
  <2> QED
    BY <2>1, <2>5, OneFlattens DEF AllSteps
<1> HIDE DEF rows, n
<1>8. Reads(rows, n)
  BY <1>1, <1>2 DEF Reads
<1>9. Reads(sent, n)
  <2> HIDE DEF sent
  <2>1. DOMAIN sent = 1..n
    BY DEF sent
  <2> QED
    BY <1>2, <1>3, <2>1 DEF Reads
<1> QED
  BY <1>1, <1>6, <1>7, <1>8, <1>9

LEMMA NothingIsRead ==
    LET none == FlattenSeq(SetToSeq({})) IN DOMAIN AllSteps(none) = 1..0
<1>1. PICK f : f = SetToSeq({})
  OBVIOUS
<1>2. f \in [1..0 -> {}]
  <2>0. PICK none : none = [i \in 1..0 |-> 0]
    OBVIOUS
  <2>1. none \in [1..0 -> {}]
    BY <2>0
  <2>2. Cardinality({}) = 0
    BY FS_EmptySet
  <2>3. IsInjective(none)
    BY <2>1 DEF IsInjective
  <2> QED
    BY <1>1, <2>1, <2>2, <2>3 DEF SetToSeq
<1>3. DOMAIN f = {} /\ f \in Seq({})
  BY <1>2
<1>4. FlattenSeq(f) = f
  BY <1>3, NoneFlattens
<1>5. PICK empty : empty = [i \in DOMAIN f |-> f[i].steps]
  OBVIOUS
<1>6. DOMAIN empty = {} /\ empty \in Seq({})
  BY <1>3, <1>5
<1>7. FlattenSeq(empty) = empty
  BY <1>6, NoneFlattens
<1> QED
  BY <1>1, <1>4, <1>5, <1>6, <1>7 DEF AllSteps

LEMMA OneIsRead ==
    ASSUME NEW x
    PROVE  FlattenSeq(SetToSeq({x})) = x
<1>1. PICK f : f = SetToSeq({x})
  OBVIOUS
<1>2. f = [i \in 1..1 |-> x]
  <2>1. PICK one : one = [i \in 1..1 |-> x]
    OBVIOUS
  <2>2. Cardinality({x}) = 1
    BY FS_Singleton
  <2>3. one \in [1..1 -> {x}] /\ IsInjective(one)
    BY <2>1 DEF IsInjective
  <2>4. f \in [1..1 -> {x}]
    BY <1>1, <2>2, <2>3 DEF SetToSeq
  <2> QED
    BY <2>4
<1> QED
  BY <1>1, <1>2, OneFlattens

LEMMA StepsInvUrges == StepsInv => UrgedIsCompletable
<1> SUFFICES ASSUME StepsInv PROVE UrgedIsCompletable
  OBVIOUS
<1> DEFINE p == [start |-> 1, target |-> 3, tree |-> RoomTree]
           railTree(plans) == FlattenSeq(SetToSeq({q.tree : q \in plans}))
<1>1. PICK n \in Nat : Reads(AllSteps(RoomTree), n) /\ Reads(AllSteps(BuyerPlan(RoomTree)), n)
  BY RoomIsRead
<1>2. ASSUME NEW plans, RoomPage = BuyerWorkspaceView(plans, <<>>, 2)
      PROVE  RoomPage.rail.overdue = OverdueBuyerSteps(railTree(plans), 2)
  BY <1>2 DEF BuyerWorkspaceView, Rail
<1>3. CASE plan \in {"draft", "active"} /\ StageThere
  <2>1. RoomPage = BuyerWorkspaceView({p}, <<>>, 2)
    BY <1>3 DEF RoomPage
  <2>2. PICK sent, q : sent = BuyerPlan(RoomTree) /\ q = [p EXCEPT !.tree = sent]
    OBVIOUS
  <2>3. p.tree = RoomTree /\ q.tree = BuyerPlan(RoomTree)
    BY <2>2
  <2>4. RoomPage.spine = {Spine(q, 2)}
    <3>1. [p EXCEPT !.tree = BuyerPlan(@)] = q
      BY <2>2, <2>3
    <3>2. {Spine([r EXCEPT !.tree = BuyerPlan(@)], 2) : r \in {p}} = {Spine(q, 2)}
      BY <3>1
    <3> QED
      BY <2>1, <3>2 DEF BuyerWorkspaceView
  <2>5. Spine(q, 2).next = NextMove(BuyerPlan(RoomTree))
    BY <2>3 DEF Spine
  <2>6. railTree({p}) = RoomTree
    <3>1. {r.tree : r \in {p}} = {RoomTree}
      BY <2>3
    <3> QED
      BY <3>1, OneIsRead
  <2>7. RoomPage.rail.overdue = OverdueBuyerSteps(RoomTree, 2)
    BY <1>2, <2>1, <2>6
  <2>8. /\ NextMove(BuyerPlan(RoomTree)).heading = "your move"
              => Completable(NextMove(BuyerPlan(RoomTree)).step)
        /\ \A i \in DOMAIN OverdueBuyerSteps(RoomTree, 2) :
              Completable(OverdueBuyerSteps(RoomTree, 2)[i].id)
    BY <1>1, ReadingUrgesCompletable
  <2> QED
    BY <2>4, <2>5, <2>7, <2>8 DEF UrgedIsCompletable
<1>4. CASE ~(plan \in {"draft", "active"} /\ StageThere)
  <2>1. RoomPage = BuyerWorkspaceView({}, <<>>, 2)
    BY <1>4 DEF RoomPage
  <2>2. RoomPage.spine = {}
    BY <2>1 DEF BuyerWorkspaceView
  <2>3. railTree({}) = FlattenSeq(SetToSeq({}))
    OBVIOUS
  <2>4. RoomPage.rail.overdue = OverdueBuyerSteps(railTree({}), 2)
    BY <1>2, <2>1
  <2>5. Reads(AllSteps(railTree({})), 0)
    BY <2>3, NothingIsRead DEF Reads
  <2>6. \A i \in DOMAIN RoomPage.rail.overdue : Completable(RoomPage.rail.overdue[i].id)
    BY <2>4, <2>5, ReadingUrgesCompletable
  <2> QED
    BY <2>2, <2>6 DEF UrgedIsCompletable
<1> QED
  BY <1>3, <1>4

(* plan-selectors.ts, portal-payload.ts and the complete route: whatever the
   calls have made of the rows, the step that the buyer's page calls "your
   move", and each one it calls overdue, is one that the complete route lets
   the buyer complete as the rows stand. *)
THEOREM UrgedIsCompletableAlways == RoomSpec => []UrgedIsCompletable
<1>1. RoomSpec => []StepsInv
  BY StepsAreFinite, InitRoomInv, StepsStayFinite, RoomStepKeeps, PTL DEF RoomSpec
<1> QED
  BY <1>1, StepsInvUrges, PTL

-------------------------------------------------------------------------------
(* A step has an owner while it is there, and a call has come in before it
   does anything. *)
OwnerFits(row) == row.owner = "none" <=> row.status \in {"none", "gone"}
OwnersInv == \A s \in Steps : OwnerFits(steps[s])
ArrivedInv ==
    /\ roomArrivals \in 0..MaxRoomCalls
    /\ roomArrivals = 0 => (\A c \in RoomCalls : room[c].pc = "idle") /\ \A s \in Steps : logged[s] = 0

LEMMA RowsKeepOwner ==
    ASSUME NEW row \in RowShape, OwnerFits(row)
    PROVE  /\ OwnerFits(Gone(row))
           /\ \A call \in RoomCallShape :
                 /\ row.status \notin {"none", "gone"} /\ call.owner # "none"
                 /\ call.status \in {"keep", "open", "blocked", "done"}
                 => OwnerFits(Patched(row, call))
<1>1. OwnerFits(Gone(row))
  BY DEF Gone, NoRow, RowShape, OwnerFits
<1>2. ASSUME NEW call \in RoomCallShape, row.status \notin {"none", "gone"}, call.owner # "none",
             call.status \in {"keep", "open", "blocked", "done"}
      PROVE  OwnerFits(Patched(row, call))
  <2>1. /\ Patched(row, call).owner = call.owner
        /\ Patched(row, call).status = IF call.status = "keep" THEN row.status ELSE call.status
    BY DEF Patched, RowShape
  <2> QED
    BY <1>2, <2>1 DEF OwnerFits
<1> QED
  BY <1>1, <1>2

LEMMA OwnersKeep == RoomInv /\ OwnersInv /\ [RoomNext]_roomVars => OwnersInv'
<1> SUFFICES ASSUME RoomInv, OwnersInv, [RoomNext]_roomVars PROVE OwnersInv'
  OBVIOUS
<1>1. steps \in [Steps -> RowShape]
  BY DEF RoomInv, DealInv
<1>2. CASE UNCHANGED steps
  BY <1>2 DEF OwnersInv
<1>3. ASSUME NEW s \in Steps, NEW row, steps' = [steps EXCEPT ![s] = row], OwnerFits(row) PROVE OwnersInv'
  BY <1>1, <1>3 DEF OwnersInv
<1>4. CASE steps' = [s \in Steps |-> Gone(steps[s])]
  BY <1>1, <1>4, RowsKeepOwner DEF OwnersInv
<1>5. ASSUME NEW c \in RoomCalls, WriteStep(c) PROVE OwnersInv'
  <2> DEFINE s == room[c].step
             call == room[c]
  <2>1. call \in RoomCallShape /\ CallOK(call, plan) /\ call.pc = "write" /\ call.edit \in StepEdits /\ s \in Steps
    BY <1>5 DEF RoomInv, RoomCallsInv, WriteStep, CallOK
  <2>2. steps[s] \in RowShape /\ OwnerFits(steps[s])
    BY <1>1, <2>1 DEF OwnersInv
  <2>3. CASE call.edit = "addStep" /\ steps' = [steps EXCEPT ![s] = Row(call.owner)]
    <3>1. call.owner # "none"
      BY <2>1, <2>3 DEF CallOK
    <3>2. OwnerFits(Row(call.owner))
      BY <3>1 DEF Row, OwnerFits
    <3> QED
      BY <1>3, <2>1, <2>3, <3>2
  <2>4. CASE /\ call.edit = "patchStep" /\ There(s)
             /\ steps' = [steps EXCEPT ![s] = IF Coherent(@, call.status) THEN Patched(@, call) ELSE @]
    <3>1. PICK row : row = IF Coherent(steps[s], call.status) THEN Patched(steps[s], call) ELSE steps[s]
      OBVIOUS
    <3>2. /\ steps[s].status \notin {"none", "gone"} /\ call.owner # "none"
          /\ call.status \in {"keep", "open", "blocked", "done"}
      BY <2>1, <2>4 DEF There, CallOK
    <3>3. OwnerFits(Patched(steps[s], call))
      BY <2>1, <2>2, <3>2, RowsKeepOwner
    <3>4. OwnerFits(row)
      BY <2>2, <3>1, <3>3
    <3>5. steps' = [steps EXCEPT ![s] = row]
      BY <2>4, <3>1
    <3> QED
      BY <1>3, <2>1, <3>4, <3>5
  <2>5. CASE steps' = [steps EXCEPT ![s] = Gone(@)]
    <3>1. steps' = [steps EXCEPT ![s] = Gone(steps[s])]
      BY <2>5
    <3>2. OwnerFits(Gone(steps[s]))
      BY <2>2, RowsKeepOwner
    <3> QED
      BY <1>3, <2>1, <3>1, <3>2
  <2> QED
    BY <1>2, <1>5, <2>3, <2>4, <2>5 DEF WriteStep
<1>6. ASSUME NEW c \in RoomCalls, UpdateStep(c) PROVE OwnersInv'
  <2> DEFINE s == room[c].step
  <2>1. CASE Completable(s)
    <3>1. s \in Steps /\ steps[s] \in RowShape /\ steps[s].owner = "buyer"
      BY <1>1, <2>1 DEF Completable, There
    <3>2. PICK row : row = [steps[s] EXCEPT !.status = "done", !.by = room[c].email]
      OBVIOUS
    <3>3. OwnerFits(row)
      BY <3>1, <3>2 DEF OwnerFits, RowShape
    <3>4. steps' = [steps EXCEPT ![s] = row]
      BY <1>6, <2>1, <3>2 DEF UpdateStep
    <3> QED
      BY <1>3, <3>1, <3>3, <3>4
  <2>2. CASE ~Completable(s)
    BY <1>2, <1>6, <2>2 DEF UpdateStep
  <2> QED
    BY <2>1, <2>2
<1>7. ASSUME NEW c \in RoomCalls, WriteStage(c) \/ WritePlan(c) PROVE OwnersInv'
  BY <1>2, <1>4, <1>7 DEF WriteStage, WritePlan
<1>8. ASSUME NEW c \in RoomCalls, EditRoom(c) \/ CompleteRoom(c) PROVE OwnersInv'
  BY <1>2, <1>5, <1>6, <1>7, <1>8 DEF EditRoom, CompleteRoom, EditStep, EditStage, EditPlan, Called,
     EnsurePlanIsOpen, ReadGoLive, MarkLive, CompleteStep, ResolveStep, ExplainStep, LogCompletion,
     RoomCallDies, planVars
<1>9. CASE CreatePlan \/ UNCHANGED roomVars
  BY <1>2, <1>9 DEF CreatePlan, roomVars
<1> QED
  BY <1>8, <1>9 DEF RoomNext

LEMMA ArrivedKeeps == RoomInv /\ ArrivedInv /\ [RoomNext]_roomVars => ArrivedInv'
<1> SUFFICES ASSUME RoomInv, ArrivedInv, [RoomNext]_roomVars PROVE ArrivedInv'
  OBVIOUS
<1>0. MaxRoomCalls \in Nat
  BY RoomAssumption
<1>1. ASSUME NEW c \in RoomCalls, NEW call, Called(c, call) PROVE ArrivedInv'
  BY <1>0, <1>1 DEF ArrivedInv, Called
<1>2. ASSUME NEW c \in RoomCalls, room[c].pc # "idle", UNCHANGED roomArrivals PROVE ArrivedInv'
  BY <1>2 DEF ArrivedInv
<1>3. ASSUME NEW c \in RoomCalls, EditRoom(c) \/ CompleteRoom(c) PROVE ArrivedInv'
  <2>1. CASE EditStep(c) \/ EditStage(c) \/ EditPlan(c) \/ CompleteStep(c)
    BY <1>1, <2>1 DEF EditStep, EditStage, EditPlan, CompleteStep
  <2>2. CASE \/ EnsurePlanIsOpen(c) \/ ReadGoLive(c) \/ MarkLive(c) \/ WriteStep(c) \/ WriteStage(c) \/ WritePlan(c) \/ ResolveStep(c)
             \/ UpdateStep(c) \/ ExplainStep(c) \/ LogCompletion(c) \/ RoomCallDies(c)
    BY <1>2, <2>2 DEF EnsurePlanIsOpen, ReadGoLive, MarkLive, WriteStep, WriteStage, WritePlan, ResolveStep, UpdateStep,
       ExplainStep, LogCompletion, RoomCallDies
  <2> QED
    BY <1>3, <2>1, <2>2 DEF EditRoom, CompleteRoom
<1>4. CASE CreatePlan \/ UNCHANGED roomVars
  BY <1>4 DEF CreatePlan, roomVars, ArrivedInv
<1> QED
  BY <1>3, <1>4 DEF RoomNext

(* plan-actions.ts and complete-step.ts: the plan, its stage, its steps and
   their logs keep to their types, and a step has an owner exactly while it
   is there, whatever was written over it. *)
THEOREM RoomTypeCorrect == RoomSpec => []RoomTypeOK
<1>1. RoomInit => OwnersInv /\ ArrivedInv
  <2> SUFFICES ASSUME RoomInit PROVE OwnersInv /\ ArrivedInv
    OBVIOUS
  <2>1. OwnersInv
    BY DEF RoomInit, OwnersInv, OwnerFits, NoRow, Row
  <2>2. ArrivedInv
    BY RoomAssumption DEF RoomInit, ArrivedInv, Quiet
  <2> QED
    BY <2>1, <2>2
<1>2. RoomInv /\ OwnersInv /\ ArrivedInv => RoomTypeOK
  <2> SUFFICES ASSUME RoomInv, OwnersInv, ArrivedInv PROVE RoomTypeOK
    OBVIOUS
  <2>1. logged \in [Steps -> Nat] /\ \A s \in Steps : logged[s] \in {0, 1}
    BY DEF RoomInv, DealInv, LogInv
  <2>2. \A s \in Steps : logged[s] \in 0..MaxRoomCalls
    BY <2>1, RoomAssumption DEF ArrivedInv
  <2>3. logged \in [Steps -> 0..MaxRoomCalls]
    BY <2>1, <2>2
  <2>4. \A s \in Steps : steps[s] \in RowShape /\ OwnerFits(steps[s])
    BY DEF RoomInv, DealInv, OwnersInv
  <2> QED
    BY <2>3, <2>4 DEF RoomInv, DealInv, RowShape, OwnerFits, ArrivedInv, RoomTypeOK
<1> QED
  BY <1>1, <1>2, InitRoomInv, RoomStepKeeps, OwnersKeep, ArrivedKeeps, PTL DEF RoomSpec
===============================================================================
