------------------------------- MODULE PlanViews -------------------------------
(***************************************************************************)
(* What the pages read off a plan: pure functions of the rows, the sent    *)
(* links and the day.  A tree is a sequence of stages, each with its id,   *)
(* status and a sequence of steps; days are numbers, NoDay stands for null.*)
(***************************************************************************)
EXTENDS Integers, Sequences, SequencesExt

NoDay == 0-1
NoStep == 0

(* The members of a set from the least to the greatest: each is where it has
   as many before it as there are places before. *)
Ranked(set, Less(_, _)) ==
    [i \in 1..Cardinality(set) |->
        CHOOSE x \in set : Cardinality({y \in set : Less(y, x)}) = i - 1]

(* byDisplayOrderThenId, assemblePlanTree: rows have an order and an id. *)
Before(a, b) == a.order < b.order \/ (a.order = b.order /\ a.id < b.id)
InOrder(rows) == Ranked(rows, Before)
PlanTree(stages, steps) ==
    [i \in DOMAIN InOrder(stages) |->
        [id |-> InOrder(stages)[i].id, status |-> InOrder(stages)[i].status,
         steps |-> InOrder({s \in steps : s.stage = InOrder(stages)[i].id})]]

AllSteps(tree) == FlattenSeq([i \in DOMAIN tree |-> tree[i].steps])
StepsWhere(tree, Test(_)) ==
    LET all    == AllSteps(tree)
        places == Ranked({i \in DOMAIN all : Test(all[i])}, <)
    IN  [k \in DOMAIN places |-> all[places[k]]]

(* findNextOpenStep, and findLiveStepId of the builder: the first open step
   in reading order, whoever owns it. *)
Open(s) == s.status = "open"
NextOpenStep(tree) ==
    LET open == StepsWhere(tree, Open) IN IF open = <<>> THEN NoStep ELSE open[1].id

CurrentStages(tree) == SelectSeq(tree, LAMBDA g : g.status = "current")
BlockedSteps(tree) == StepsWhere(tree, LAMBDA s : s.status = "blocked")

(* Mutant: whoever owns it. *)
BugOverdueAnyones(tree, today) ==
    StepsWhere(tree, LAMBDA s : Open(s) /\ s.due # NoDay /\ s.due < today)

OverdueBuyerSteps(tree, today) ==
    StepsWhere(tree, LAMBDA s : s.owner = "buyer" /\ Open(s) /\ s.due # NoDay /\ s.due < today)

(* computeRunway: both ends count, and the day shown stays within the plan.
   The percentage is in whole points. *)
Clamp(low, n, high) == Max({low, Min({n, high})})
Runway(start, target, today) ==
    LET days    == Max({1, target - start + 1})
        elapsed == today - start + 1
    IN  IF NoDay \in {start, target} THEN {}
        ELSE {[day |-> Clamp(1, elapsed, days), days |-> days,
               percent |-> IF days = 1 THEN (IF elapsed >= 1 THEN 100 ELSE 0)
                           ELSE Clamp(0, (100 * (elapsed - 1)) \div (days - 1), 100)]}

(* toBuyerStep .. toBuyerPayload: the columns a buyer is sent.  Everything
   else a row has (private_note, owner_email, ...) stays behind. *)
BuyerStep(s) == [id |-> s.id, owner |-> s.owner, status |-> s.status, due |-> s.due]
BuyerPlan(tree) == [i \in DOMAIN tree |->
    [tree[i] EXCEPT !.steps = [j \in DOMAIN @ |-> BuyerStep(@[j])]]]
SharedLinks(links) == {k \in DOMAIN links : links[k] = "shared"}

(* BuyerWorkspaceView: the spine and the rail.  The next move is "yours" or
   "theirs", or a reason there is none; only the sections with something to
   say are there. *)
NextMove(tree) ==
    IF NextOpenStep(tree) # NoStep
    THEN LET step == StepsWhere(tree, Open)[1] IN
         [heading |-> IF step.owner = "buyer" THEN "your move" ELSE "their move", step |-> step.id]
    ELSE [heading |-> CASE tree = <<>> -> "nothing yet"
                        [] tree # <<>> /\ BlockedSteps(tree) # <<>> -> "held up"
                        [] OTHER -> "caught up",
          step |-> NoStep]
Spine(plan, today) ==
    [runway |-> Runway(plan.start, plan.target, today), next |-> NextMove(plan.tree),
     stages |-> [i \in DOMAIN plan.tree |-> [ramp |-> plan.tree[i].status = "current",
                                             steps |-> plan.tree[i].steps]]]
Rail(tree, links, today) ==
    [blockers |-> BlockedSteps(tree), overdue |-> OverdueBuyerSteps(tree, today),
     resources |-> SharedLinks(links)]
(* plans: the live plan of the workspace, if there is one. *)
BuyerWorkspaceView(plans, links, today) ==
    [spine |-> {Spine([p EXCEPT !.tree = BuyerPlan(@)], today) : p \in plans},
     rail  |-> Rail(FlattenSeq(SetToSeq({p.tree : p \in plans})), links, today)]
===============================================================================
