------------------------------ MODULE PlanBuilder ------------------------------
(***************************************************************************)
(* The order of one list of the plan builder: the stages of a plan or the  *)
(* steps of a stage, which are handled alike.  A tab shows the order it    *)
(* confirmed last, or the one it is waiting for; other tabs write too.     *)
(*                                                                         *)
(* Next.js answers the server actions of one tab one at a time, in order   *)
(* (external): the queue holds those not answered, the first one running.  *)
(***************************************************************************)
EXTENDS PlanViews

CONSTANTS Rows, MaxBuilds

ASSUME BuilderAssumption == Rows \subseteq Nat \ {0} /\ IsFiniteSet(Rows) /\ MaxBuilds \in Nat

VARIABLES
    open,        \* the plan is not closed
    order,       \* display_order of the rows there are; ids are random, as numbers
    unused,      \* ids not given yet
    confirmed,   \* the tab's `stages`: ids in the order shown
    queue,       \* its actions, see Request
    wanted,      \* the list of the reorder that is pending, or <<>>
    error,       \* reorderError is shown
    crashed,     \* a reply was lost: the page's error boundary is shown
    stale,       \* since the tab last heard of the rows somebody else wrote, or
                 \* a write of its own was stored but answered as failed
    builds

builderVars == <<open, order, unused, confirmed, queue, wanted, error, crashed, stale, builds>>

Listed(o) == [i \in 1..Cardinality(DOMAIN o) |->
                 InOrder({[id |-> r, order |-> o[r]] : r \in DOMAIN o})[i].id]

(* kind; the list or the row asked for; the display_order in the form; at:
   how far it is ("sent", "open", "checked", "written"); fresh: what a
   reorder returned. *)
Request(kind, list, row, position) ==
    [kind |-> kind, list |-> list, row |-> row, position |-> position, at |-> "sent", fresh |-> <<>>]

BuilderInit ==
    /\ open = TRUE /\ unused \in {Rows \ pair : pair \in {p \in SUBSET Rows : Cardinality(p) = 2}}
    /\ \E first \in Rows \ unused :
          order = [r \in Rows \ unused |-> IF r = first THEN 0 ELSE 1]
    /\ confirmed = Listed(order)
    /\ queue = <<>> /\ wanted = <<>> /\ error = FALSE /\ crashed = FALSE /\ stale = FALSE
    /\ builds = 0

Shown == IF wanted = <<>> THEN confirmed ELSE wanted
Build == builds < MaxBuilds /\ builds' = builds + 1

-------------------------------------------------------------------------------
(* The tab. *)

(* Mutant: one neighbour is written over the other. *)
BugWritesOver(list, i, direction) ==
    LET j == IF direction = "up" THEN i - 1 ELSE i + 1 IN
    IF j \in DOMAIN list THEN [list EXCEPT ![j] = list[i]] ELSE list

(* moveIndex: the neighbours change places; at an end nothing moves. *)
Moved(list, i, direction) ==
    LET j == IF direction = "up" THEN i - 1 ELSE i + 1 IN
    IF j \in DOMAIN list THEN [list EXCEPT ![i] = list[j], ![j] = list[i]] ELSE list

(* handleMoveStage, handleMoveStep: the buttons rest while a move is pending. *)
HandleMove == \E i \in DOMAIN Shown, direction \in {"up", "down"} :
    /\ Build /\ wanted = <<>> /\ ~crashed
    /\ Moved(Shown, i, direction) # Shown
    /\ wanted' = Moved(Shown, i, direction) /\ error' = FALSE
    /\ queue' = Append(queue, Request("reorder", wanted', 0, 0))
    /\ UNCHANGED <<open, order, unused, confirmed, crashed, stale>>

(* AddStageForm, AddStepForm: the form carries the number of rows confirmed,
   and rests until it is answered. *)
SubmitAdd ==
    /\ Build /\ ~crashed /\ \A i \in DOMAIN queue : queue[i].kind # "add"
    /\ queue' = Append(queue, Request("add", <<>>, 0, Len(confirmed)))
    /\ UNCHANGED <<open, order, unused, confirmed, wanted, error, crashed, stale>>

(* StageRow, StepRow: saving or deleting a row is a form of the row. *)
SubmitRow == \E kind \in {"save", "delete"}, i \in DOMAIN Shown :
    /\ Build /\ ~crashed
    /\ queue' = Append(queue, Request(kind, <<>>, Shown[i], 0))
    /\ UNCHANGED <<open, order, unused, confirmed, wanted, error, crashed, stale>>

-------------------------------------------------------------------------------
(* The server, at the first request of the queue. *)
Running == Head(queue)
Serving(kinds, at) == queue # <<>> /\ Running.kind \in kinds /\ Running.at = at
Now(request) == queue' = [queue EXCEPT ![1] = request]
Forms == {"add", "save", "delete"}

(* A refused reorder shows its error, a refused form keeps its own. *)
Refuse ==
    /\ queue' = Tail(queue)
    /\ error' = (error \/ Running.kind = "reorder")
    /\ wanted' = IF Running.kind = "reorder" THEN <<>> ELSE wanted
    /\ UNCHANGED <<confirmed, crashed>>

GateRequest ==
    /\ Serving(Forms \cup {"reorder"}, "sent")
    /\ IF open THEN Now([Running EXCEPT !.at = "open"]) /\ UNCHANGED <<confirmed, wanted, error, crashed>>
       ELSE Refuse
    /\ UNCHANGED <<open, order, unused, stale, builds>>

(* reorder_plan_stages, reorder_plan_steps: the list must be the very set of
   rows, without repetition ... *)
CheckSet ==
    /\ Serving({"reorder"}, "open")
    /\ IF ToSet(Running.list) = DOMAIN order
       THEN Now([Running EXCEPT !.at = "checked"]) /\ UNCHANGED <<confirmed, wanted, error, crashed>>
       ELSE Refuse
    /\ UNCHANGED <<open, order, unused, stale, builds>>

(* ... and every row there is by then takes its place in it, counted from 1;
   a row that came in between has none, which fails the whole call. *)
PlaceIn(list, r) == CHOOSE i \in DOMAIN list : list[i] = r
RewriteOrder ==
    /\ Serving({"reorder"}, "checked")
    /\ IF DOMAIN order \subseteq ToSet(Running.list)
       THEN /\ order' = [r \in DOMAIN order |-> PlaceIn(Running.list, r)]
            /\ Now([Running EXCEPT !.at = "written", !.fresh = Listed(order')])
            /\ stale' = FALSE /\ UNCHANGED <<confirmed, wanted, error, crashed>>
       ELSE Refuse /\ UNCHANGED <<order, stale>>
    /\ UNCHANGED <<open, unused, builds>>

(* createStage .. deleteStep, and the page rendered again for the tab. *)
With(o, r, position) == [x \in DOMAIN o \cup {r} |-> IF x = r THEN position ELSE o[x]]
Without(o, r) == [x \in DOMAIN o \ {r} |-> o[x]]
WriteForm ==
    /\ Serving(Forms, "open")
    /\ \/ /\ Running.kind = "add"
          /\ \E r \in unused : order' = With(order, r, Running.position) /\ unused' = unused \ {r}
          /\ Now([Running EXCEPT !.at = "written"]) /\ UNCHANGED <<confirmed, wanted, error, crashed>>
       \/ /\ Running.kind # "add" /\ Running.row \in DOMAIN order
          /\ order' = IF Running.kind = "delete" THEN Without(order, Running.row) ELSE order
          /\ Now([Running EXCEPT !.at = "written"])
          /\ UNCHANGED <<unused, confirmed, wanted, error, crashed>>
       \/ /\ Running.kind # "add" /\ Running.row \notin DOMAIN order    \* NOT_FOUND
          /\ Refuse /\ UNCHANGED <<order, unused>>
    /\ UNCHANGED <<open, stale, builds>>

-------------------------------------------------------------------------------
(* The replies. *)

(* Mutant: the order that came back is not kept. *)
BugForgetsOrder(current, fresh) == current

(* mergeStageOrder, mergeStepOrder: the rows returned, in their order. *)
MergedOrder(current, fresh) == fresh

AnswerReorder ==
    /\ Serving({"reorder"}, "written") /\ queue' = Tail(queue)
    /\ confirmed' = MergedOrder(confirmed, Running.fresh) /\ wanted' = <<>>
    /\ UNCHANGED <<open, order, unused, error, crashed, stale, builds>>

(* revalidatePath: the reply carries the page as it is by then, and the tab
   takes its rows over (setStages in the effect). *)
AnswerForm ==
    /\ Serving(Forms, "written") /\ queue' = Tail(queue)
    /\ confirmed' = Listed(order) /\ stale' = FALSE
    /\ UNCHANGED <<open, order, unused, wanted, error, crashed, builds>>

(* fromError: the database cannot be reached before the write, or the write is
   stored and only its answer is lost; the tab is told of a failure either way. *)
ServerFails ==
    /\ queue # <<>> /\ Running.at # "written" /\ Refuse
    /\ UNCHANGED <<open, order, unused, stale, builds>>

AnswerIsLost ==
    /\ queue # <<>> /\ Running.at = "written" /\ Refuse /\ stale' = TRUE
    /\ UNCHANGED <<open, order, unused, builds>>

(* The network drops an action's reply: nothing catches it. *)
LoseReply ==
    /\ queue # <<>>
    /\ crashed' = TRUE /\ queue' = <<>> /\ wanted' = <<>>
    /\ UNCHANGED <<open, order, unused, confirmed, error, stale, builds>>

(* Another tab adds or deletes a row, reorders, or closes the deal. *)
OtherTab ==
    /\ Build /\ open /\ stale' = TRUE
    /\ \/ /\ \E r \in unused, position \in 0..Cardinality(DOMAIN order) :
                order' = With(order, r, position) /\ unused' = unused \ {r}
          /\ UNCHANGED open
       \/ \E r \in DOMAIN order : order' = Without(order, r) /\ UNCHANGED <<unused, open>>
       \/ \E list \in {l \in [1..Cardinality(DOMAIN order) -> DOMAIN order] : IsInjective(l)} :
             order' = [r \in DOMAIN order |-> PlaceIn(list, r)] /\ UNCHANGED <<unused, open>>
       \/ open' = FALSE /\ UNCHANGED <<order, unused>>
    /\ UNCHANGED <<confirmed, queue, wanted, error, crashed>>

BuilderNext ==
    \/ HandleMove \/ SubmitAdd \/ SubmitRow \/ GateRequest \/ CheckSet \/ RewriteOrder \/ WriteForm
    \/ AnswerReorder \/ AnswerForm \/ ServerFails \/ AnswerIsLost \/ LoseReply \/ OtherTab
BuilderSpec == BuilderInit /\ [][BuilderNext]_builderVars

-------------------------------------------------------------------------------
(* Every variable has its type. *)
BuilderTypeOK ==
    /\ DOMAIN order \cap unused = {} /\ DOMAIN order \cup unused \subseteq Rows
    /\ \A r \in DOMAIN order : order[r] \in 0..Cardinality(Rows)
    /\ ToSet(confirmed) \cup ToSet(wanted) \subseteq Rows
    /\ IsInjective(confirmed) /\ IsInjective(wanted) /\ {open, error, crashed, stale} \subseteq BOOLEAN
    /\ builds \in 0..MaxBuilds
    /\ \A i \in DOMAIN queue :
          LET r == queue[i] IN
          /\ r.kind \in Forms \cup {"reorder"} /\ r.at \in {"sent", "open", "checked", "written"}
          /\ ToSet(r.list) \cup ToSet(r.fresh) \subseteq Rows /\ IsInjective(r.list) /\ IsInjective(r.fresh)
          /\ r.row \in Rows \cup {0} /\ r.position \in 0..Cardinality(Rows)

(* A tab that waits for nothing shows the rows in the order the buyer's page
   reads them, unless somebody else wrote since or a write of its own was
   stored and answered as failed (the move is taken back then, though it is
   stored): no move is left half applied, and a refused one is taken back. *)
SettledTabAgrees == queue = <<>> /\ ~stale /\ ~crashed => Shown = Listed(order)
===============================================================================
