--------------------------- MODULE SampleSeedProofs ---------------------------
(***************************************************************************)
(* Proofs about SampleSeed for any clicks and any number of faults: types, *)
(* one sample at a time, all or nothing.                                   *)
(***************************************************************************)
EXTENDS SampleSeed, TLAPS

(* The first element of an order that is in a set is the one of which no
   earlier element is in the set. *)
LEMMA FirstOfFive ==
    ASSUME NEW order, DOMAIN order = 1..5, NEW parts
    PROVE  /\ order[1] \in parts => FirstOf(order, parts) = order[1]
           /\ order[1] \notin parts /\ order[2] \in parts => FirstOf(order, parts) = order[2]
           /\ order[1] \notin parts /\ order[2] \notin parts /\ order[3] \in parts
              => FirstOf(order, parts) = order[3]
           /\ order[1] \notin parts /\ order[2] \notin parts /\ order[3] \notin parts
              /\ order[4] \in parts => FirstOf(order, parts) = order[4]
           /\ order[1] \notin parts /\ order[2] \notin parts /\ order[3] \notin parts
              /\ order[4] \notin parts /\ order[5] \in parts => FirstOf(order, parts) = order[5]
<1> DEFINE Is(k) == /\ k \in DOMAIN order /\ order[k] \in parts
                    /\ \A j \in 1..(k-1) : order[j] \notin parts
           pick == CHOOSE k : Is(k)
<1>1. FirstOf(order, parts) = order[CHOOSE k \in DOMAIN order :
                                order[k] \in parts /\ \A j \in 1..(k-1) : order[j] \notin parts]
  BY DEF FirstOf
<1>2. FirstOf(order, parts) = order[pick]
  BY <1>1
<1>3. ASSUME NEW k \in 1..5, NEW l \in 1..5, Is(k), Is(l) PROVE k = l
  <2>1. ~(k < l)
    BY <1>3
  <2>2. ~(l < k)
    BY <1>3
  <2> QED
    BY <2>1, <2>2
<1>4. ASSUME NEW k \in 1..5, Is(k) PROVE pick = k
  <2>1. Is(pick)
    BY <1>4
  <2>2. pick \in 1..5
    BY <2>1
  <2> HIDE DEF pick
  <2> QED
    BY <2>1, <2>2, <1>3, <1>4
<1> HIDE DEF pick
<1>5. order[1] \in parts => Is(1)
  OBVIOUS
<1>6. order[1] \notin parts /\ order[2] \in parts => Is(2)
  OBVIOUS
<1>7. order[1] \notin parts /\ order[2] \notin parts /\ order[3] \in parts => Is(3)
  OBVIOUS
<1>8. order[1] \notin parts /\ order[2] \notin parts /\ order[3] \notin parts
      /\ order[4] \in parts => Is(4)
  OBVIOUS
<1>9. order[1] \notin parts /\ order[2] \notin parts /\ order[3] \notin parts
      /\ order[4] \notin parts /\ order[5] \in parts => Is(5)
  OBVIOUS
<1> HIDE DEF Is
<1> QED
  BY <1>2, <1>4, <1>5, <1>6, <1>7, <1>8, <1>9

(* A workspace is inserted before everything else, and links after. *)
LEMMA InsertsInOrder ==
    ASSUME NEW built \in SUBSET Parts, built # Parts
    PROVE  LET part == FirstOf(InsertOrder, Parts \ built) IN
           /\ part \in Parts \ built
           /\ part = "workspace" <=> "workspace" \notin built
           /\ part = "links" => Parts \ {"links"} \subseteq built
<1> DEFINE rest == Parts \ built
           first == FirstOf(InsertOrder, rest)
<1>1. /\ DOMAIN InsertOrder = 1..5
      /\ InsertOrder[1] = "workspace" /\ InsertOrder[2] = "plan" /\ InsertOrder[3] = "stages"
      /\ InsertOrder[4] = "steps" /\ InsertOrder[5] = "links"
  BY DEF InsertOrder
<1>2. /\ "workspace" \in rest => first = "workspace"
      /\ "workspace" \notin rest /\ "plan" \in rest => first = "plan"
      /\ "workspace" \notin rest /\ "plan" \notin rest /\ "stages" \in rest => first = "stages"
      /\ "workspace" \notin rest /\ "plan" \notin rest /\ "stages" \notin rest
         /\ "steps" \in rest => first = "steps"
      /\ "workspace" \notin rest /\ "plan" \notin rest /\ "stages" \notin rest
         /\ "steps" \notin rest /\ "links" \in rest => first = "links"
  <2> HIDE DEF rest
  <2> QED
    BY <1>1, FirstOfFive
<1> HIDE DEF first
<1>3. /\ first \in rest
      /\ first = "workspace" <=> "workspace" \notin built
      /\ first = "links" => Parts \ {"links"} \subseteq built
  BY <1>2 DEF Parts
<1> QED
  BY <1>3 DEF first

(* The workspace is the last thing rollback deletes. *)
LEMMA UndoesInOrder ==
    ASSUME NEW built \in SUBSET Parts, built # {}
    PROVE  LET part == FirstOf(UndoOrder, built) IN
           /\ part \in built
           /\ part = "workspace" => built = {"workspace"}
<1> DEFINE first == FirstOf(UndoOrder, built)
<1>1. /\ DOMAIN UndoOrder = 1..5
      /\ UndoOrder[1] = "steps" /\ UndoOrder[2] = "stages" /\ UndoOrder[3] = "plan"
      /\ UndoOrder[4] = "links" /\ UndoOrder[5] = "workspace"
  BY DEF UndoOrder
<1>2. /\ "steps" \in built => first = "steps"
      /\ "steps" \notin built /\ "stages" \in built => first = "stages"
      /\ "steps" \notin built /\ "stages" \notin built /\ "plan" \in built => first = "plan"
      /\ "steps" \notin built /\ "stages" \notin built /\ "plan" \notin built
         /\ "links" \in built => first = "links"
      /\ "steps" \notin built /\ "stages" \notin built /\ "plan" \notin built
         /\ "links" \notin built /\ "workspace" \in built => first = "workspace"
  BY <1>1, FirstOfFive
<1> HIDE DEF first
<1>3. first \in built /\ (first = "workspace" => built = {"workspace"})
  BY <1>2 DEF Parts
<1> QED
  BY <1>3 DEF first
-------------------------------------------------------------------------------
(* A sample is never without its workspace. *)
Rooted == \A c \in Clicks : rows[c] # {} => "workspace" \in rows[c]

(* What the rows of a click are, by what it is doing. *)
RowsOf(k, held) ==
    /\ k.pc \in {"idle", "look", "raced"} => k.built = {} /\ held = {}
    /\ k.pc = "insert" => held = k.built /\ "links" \notin k.built
    /\ k.pc = "undo" /\ ~dirty => /\ "links" \notin held
                                  /\ k.built = {} => held = {}
                                  /\ k.built # {} => "workspace" \in k.built
    /\ k.pc = "done" => held \in {{}, Parts}
    /\ k.pc \in {"failed", "dead"} /\ ~dirty => held = {}

Inv == TypeOK /\ Rooted /\ OneSample /\ \A c \in Clicks : RowsOf(call[c], rows[c])

USE DEF pc

(* A step of one click keeps the invariant when it leaves that click in
   order, forgets no stain, and adds rows only to a sample begun, or when
   there is none. *)
LEMMA OneClickMoves ==
    ASSUME Inv, NEW c \in Clicks,
           call' = [call EXCEPT ![c] = call'[c]],
           rows' = [rows EXCEPT ![c] = rows'[c]],
           faults' \in 0..MaxFaults, dirty' \in BOOLEAN, dirty => dirty',
           call'[c] \in CallRecords, rows'[c] \in SUBSET Parts,
           rows'[c] # {} => "workspace" \in rows'[c] /\ (rows[c] # {} \/ Samples = {}),
           RowsOf(call[c], rows[c])'
    PROVE  Inv'
<1>1. TypeOK'
  BY DEF Inv, TypeOK
<1>2. ASSUME NEW d \in Clicks \ {c} PROVE call'[d] = call[d] /\ rows'[d] = rows[d]
  BY DEF Inv, TypeOK
<1>3. Rooted'
  BY <1>2 DEF Inv, Rooted
<1>4. OneSample'
  <2>1. ASSUME NEW d \in Clicks \ {c}, rows'[c] # {}, rows'[d] # {} PROVE FALSE
    <3>1. rows[d] # {} /\ "workspace" \in rows[d]
      BY <1>2, <2>1 DEF Inv, Rooted
    <3>2. Samples # {}
      BY <3>1 DEF Samples
    <3> QED
      BY <2>1, <3>1, <3>2 DEF Inv, OneSample
  <2> QED
    BY <1>2, <2>1 DEF Inv, OneSample
<1>5. ASSUME NEW d \in Clicks PROVE RowsOf(call[d], rows[d])'
  BY <1>2 DEF Inv, RowsOf
<1> QED
  BY <1>1, <1>3, <1>4, <1>5 DEF Inv

(* The same when the rows stay as they are. *)
LEMMA OnlyCallMoves ==
    ASSUME Inv, NEW c \in Clicks,
           call' = [call EXCEPT ![c] = call'[c]], rows' = rows,
           faults' \in 0..MaxFaults, dirty' \in BOOLEAN, dirty => dirty',
           call'[c] \in CallRecords, RowsOf(call[c], rows[c])'
    PROVE  Inv'
<1>1. rows' = [rows EXCEPT ![c] = rows'[c]]
  BY DEF Inv, TypeOK
<1>2. rows'[c] \in SUBSET Parts /\ rows'[c] = rows[c]
  BY DEF Inv, TypeOK
<1>3. rows'[c] # {} => "workspace" \in rows'[c]
  BY DEF Inv, Rooted
<1> QED
  BY <1>1, <1>2, <1>3, OneClickMoves

(* A fault is counted, within the bound. *)
LEMMA FaultCounted ==
    ASSUME Inv, faults < MaxFaults, faults' = faults + 1 PROVE faults' \in 0..MaxFaults
  BY SeedAssumption DEF Inv, TypeOK

(* What the invariant says of one click. *)
LEMMA ClickFacts ==
    ASSUME Inv, NEW c \in Clicks
    PROVE  /\ call[c] \in CallRecords /\ call[c].built \in SUBSET Parts
           /\ rows[c] \in SUBSET Parts /\ (rows[c] # {} => "workspace" \in rows[c])
           /\ RowsOf(call[c], rows[c])
           /\ faults \in 0..MaxFaults /\ dirty \in BOOLEAN
           /\ call = [d \in Clicks |-> call[d]] /\ rows = [d \in Clicks |-> rows[d]]
  BY DEF Inv, TypeOK, Rooted, CallRecords

(* A call that goes on to another label, or is over, remains a call record. *)
LEMMA GotoMoves ==
    ASSUME Inv, NEW c \in Clicks, NEW l \in {"look", "raced", "insert", "undo", "dead"},
           call[c].pc # "done", Goto(c, l)
    PROVE  /\ call' = [call EXCEPT ![c] = call'[c]] /\ call'[c] \in CallRecords
           /\ call'[c].pc = l /\ call'[c].built = call[c].built
<1>1. call' = [call EXCEPT ![c].pc = l]
  BY DEF Goto
<1>2. call'[c] = [call[c] EXCEPT !.pc = l] /\ call' = [call EXCEPT ![c] = call'[c]]
  BY <1>1, ClickFacts
<1>3. call[c].shown = Nowhere
  BY ClickFacts DEF CallRecords
<1> QED
  BY <1>2, <1>3, ClickFacts DEF CallRecords

(* So does one that ends, with a workspace when it succeeds and with none when not. *)
LEMMA OverMoves ==
    ASSUME Inv, NEW c \in Clicks, NEW l \in {"done", "failed"},
           NEW w \in Clicks \cup {Nowhere}, l = "done" <=> w # Nowhere,
           call' = [call EXCEPT ![c] = Over(l, w)]
    PROVE  /\ call' = [call EXCEPT ![c] = call'[c]] /\ call'[c] \in CallRecords
           /\ call'[c].pc = l /\ call'[c].built = {}
  BY ClickFacts DEF CallRecords, Over

(* No click has begun, and there are no rows. *)
LEMMA InitInv == Init => Inv
<1> SUFFICES ASSUME Init PROVE Inv
  OBVIOUS
<1>1. Quiet \in CallRecords
  BY DEF Quiet, CallRecords
<1>2. TypeOK
  <2>1. rows \in [Clicks -> SUBSET Parts]
    BY DEF Init
  <2>2. call \in [Clicks -> CallRecords]
    BY <1>1 DEF Init
  <2>3. faults \in 0..MaxFaults
    BY SeedAssumption DEF Init
  <2>4. dirty \in BOOLEAN
    BY DEF Init
  <2> QED
    BY <2>1, <2>2, <2>3, <2>4 DEF TypeOK
<1>3. \A c \in Clicks : call[c].pc = "idle" /\ call[c].built = {} /\ rows[c] = {}
  BY DEF Init, Quiet
<1> QED
  BY <1>2, <1>3 DEF Inv, Rooted, OneSample, RowsOf

(* Every action of a click keeps the invariant. *)
LEMMA StartInv == ASSUME Inv, NEW c \in Clicks, Start(c) PROVE Inv'
<1>0. /\ call' = [call EXCEPT ![c].pc = "look"] /\ call[c].pc = "idle"
      /\ rows' = rows /\ faults' = faults /\ dirty' = dirty
  BY DEF Start, Goto
<1>1. /\ call' = [call EXCEPT ![c] = call'[c]] /\ call'[c] \in CallRecords
      /\ call'[c].pc = "look" /\ call'[c].built = call[c].built
  BY <1>0, ClickFacts DEF CallRecords
<1>2. RowsOf(call[c], rows[c])'
  BY <1>0, <1>1, ClickFacts DEF RowsOf
<1> QED
  BY <1>0, <1>1, <1>2, ClickFacts, OnlyCallMoves

(* The invariant is kept by findExistingSample. *)
LEMMA LookInv == ASSUME Inv, NEW c \in Clicks, Look(c) PROVE Inv'
<1>1. /\ rows[c] = {} /\ call[c].built = {}
      /\ rows' = rows /\ faults' = faults /\ dirty' = dirty
  BY ClickFacts DEF RowsOf, Look
<1>2. \/ \E w \in Clicks : call' = [call EXCEPT ![c] = Over("done", w)]
      \/ call' = [call EXCEPT ![c] = Over("failed", Nowhere)]
      \/ Goto(c, "insert")
  BY DEF Look, Samples, Redirect, GiveUp
<1>0. call[c].pc # "done"
  BY DEF Look
<1> DEFINE Fine == /\ call' = [call EXCEPT ![c] = call'[c]] /\ call'[c] \in CallRecords
                   /\ call'[c].pc \in {"done", "failed", "insert"} /\ call'[c].built = {}
<1>5. ASSUME NEW w \in Clicks, call' = [call EXCEPT ![c] = Over("done", w)] PROVE Fine
  BY <1>5, SeedAssumption, OverMoves
<1>6. ASSUME call' = [call EXCEPT ![c] = Over("failed", Nowhere)] PROVE Fine
  BY <1>6, OverMoves
<1>7. ASSUME Goto(c, "insert") PROVE Fine
  BY <1>0, <1>1, <1>7, GotoMoves
<1>3. Fine
  <2> HIDE DEF Fine
  <2> QED
    BY <1>2, <1>5, <1>6, <1>7
<1>4. RowsOf(call[c], rows[c])'
  BY <1>1, <1>3 DEF RowsOf
<1> QED
  BY <1>1, <1>3, <1>4, ClickFacts, OnlyCallMoves

(* The invariant is kept by an insert, taken or refused by the index. *)
LEMMA InsertInv == ASSUME Inv, NEW c \in Clicks, Insert(c) PROVE Inv'
<1> DEFINE part == FirstOf(InsertOrder, Parts \ call[c].built)
           built == call[c].built \cup {part}
<1>0. /\ call[c] \in CallRecords /\ call[c].pc = "insert"
      /\ rows[c] = call[c].built /\ "links" \notin call[c].built
      /\ call[c].built \in SUBSET Parts /\ call[c].built # Parts
  BY DEF Inv, TypeOK, CallRecords, RowsOf, Insert, Parts
<1>1. /\ part \in Parts \ call[c].built
      /\ part = "workspace" <=> "workspace" \notin call[c].built
      /\ part = "links" => Parts \ {"links"} \subseteq call[c].built
  BY <1>0, InsertsInOrder
<1>2. CASE IndexRefuses(part)
  <2>1. call[c].built = {}
    BY <1>0, <1>1, <1>2 DEF Inv, Rooted, IndexRefuses
  <2>2. /\ call' = [call EXCEPT ![c].pc = "raced"]
        /\ rows' = rows /\ faults' = faults /\ dirty' = dirty
    BY <1>2 DEF Insert, Goto
  <2>3. RowsOf(call[c], rows[c])'
    BY <1>0, <2>1, <2>2 DEF Inv, TypeOK, CallRecords, RowsOf
  <2> QED
    BY <1>0, <2>1, <2>2, <2>3, OneClickMoves DEF Inv, TypeOK, CallRecords
<1>3. CASE ~IndexRefuses(part)
  <2>1. /\ rows' = [rows EXCEPT ![c] = @ \cup {part}]
        /\ IF built = Parts THEN call' = [call EXCEPT ![c] = Over("done", c)]
                            ELSE call' = [call EXCEPT ![c].built = built]
        /\ faults' = faults /\ dirty' = dirty
    BY <1>3 DEF Insert, Redirect
  <2> HIDE DEF part
  <2>2. rows'[c] = built /\ built \in SUBSET Parts /\ "workspace" \in built
    BY <1>0, <1>1, <2>1 DEF Inv, TypeOK, Parts
  <2>3. "links" \in built => built = Parts
    BY <1>0, <1>1
  <2>4. /\ call' = [call EXCEPT ![c] = call'[c]]
        /\ call'[c] \in CallRecords
        /\ IF built = Parts THEN call'[c].pc = "done"
                            ELSE call'[c].pc = "insert" /\ call'[c].built = built
    <3>1. CASE built = Parts
      BY <2>1, <3>1, SeedAssumption, OverMoves
    <3>2. CASE built # Parts
      BY <1>0, <2>1, <2>2, <3>2, ClickFacts DEF CallRecords
    <3> QED
      BY <3>1, <3>2
  <2>5. RowsOf(call[c], rows[c])'
    BY <2>2, <2>3, <2>4 DEF RowsOf
  <2>6. rows[c] # {} \/ Samples = {}
    BY <1>0, <1>1, <1>3 DEF IndexRefuses
  <2> QED
    BY <2>1, <2>2, <2>4, <2>5, <2>6, OneClickMoves DEF Inv, TypeOK
<1> QED
  BY <1>2, <1>3

(* The invariant is kept by an insert that fails. *)
LEMMA FailInsertInv == ASSUME Inv, NEW c \in Clicks, FailInsert(c) PROVE Inv'
<1>1. /\ Goto(c, "undo") /\ call[c].pc # "done"
      /\ rows' = rows /\ faults' = faults + 1 /\ faults < MaxFaults /\ dirty' = dirty
      /\ rows[c] = call[c].built /\ "links" \notin call[c].built
  BY ClickFacts DEF RowsOf, FailInsert
<1>2. /\ call' = [call EXCEPT ![c] = call'[c]] /\ call'[c] \in CallRecords
      /\ call'[c].pc = "undo" /\ call'[c].built = call[c].built
  BY <1>1, GotoMoves
<1>3. RowsOf(call[c], rows[c])'
  BY <1>1, <1>2, ClickFacts DEF RowsOf
<1> QED
  BY <1>1, <1>2, <1>3, ClickFacts, FaultCounted, OnlyCallMoves

(* The invariant is kept by an insert whose answer is lost. *)
LEMMA LoseAnswerInv == ASSUME Inv, NEW c \in Clicks, LoseAnswer(c) PROVE Inv'
<1> DEFINE part == FirstOf(InsertOrder, Parts \ call[c].built)
<1>0. /\ call[c] \in CallRecords /\ call[c].pc = "insert"
      /\ rows[c] = call[c].built /\ "links" \notin call[c].built
      /\ call[c].built \in SUBSET Parts /\ call[c].built # Parts
  BY DEF Inv, TypeOK, CallRecords, RowsOf, LoseAnswer, Parts
<1>1. /\ part \in Parts \ call[c].built
      /\ part = "workspace" <=> "workspace" \notin call[c].built
  BY <1>0, InsertsInOrder
<1>2. /\ rows' = [rows EXCEPT ![c] = @ \cup {part}] /\ ~IndexRefuses(part)
      /\ call' = [call EXCEPT ![c].pc = "undo"]
      /\ faults' = faults + 1 /\ faults < MaxFaults
      /\ dirty' = (dirty \/ part \in {"workspace", "links"})
  BY DEF LoseAnswer, Goto
<1> HIDE DEF part
<1>3. /\ rows'[c] = call[c].built \cup {part} /\ rows'[c] \in SUBSET Parts
      /\ "workspace" \in rows'[c]
      /\ call'[c].pc = "undo" /\ call'[c].built = call[c].built /\ call'[c] \in CallRecords
  BY <1>0, <1>1, <1>2 DEF Inv, TypeOK, CallRecords
<1>4. RowsOf(call[c], rows[c])'
  BY <1>0, <1>1, <1>2, <1>3 DEF RowsOf
<1>5. rows[c] # {} \/ Samples = {}
  BY <1>0, <1>1, <1>2 DEF IndexRefuses
<1>6. faults' \in 0..MaxFaults /\ dirty' \in BOOLEAN /\ (dirty => dirty')
  BY <1>2, SeedAssumption DEF Inv, TypeOK
<1>7. /\ call' = [call EXCEPT ![c] = call'[c]]
      /\ rows' = [rows EXCEPT ![c] = rows'[c]]
  BY <1>2 DEF Inv, TypeOK
<1> QED
  BY <1>3, <1>4, <1>5, <1>6, <1>7, OneClickMoves

(* What a delete leaves of a sample. *)
LEMMA DeletedLeaves ==
    ASSUME NEW held \in SUBSET Parts, NEW part \in Parts,
           held # {} => "workspace" \in held
    PROVE  /\ Deleted(held, part) \subseteq held
           /\ Deleted(held, part) # {} => "workspace" \in Deleted(held, part)
           /\ part = "workspace" /\ "links" \notin held => Deleted(held, part) = {}
  BY DEF Deleted, Below, Parts

(* The invariant is kept by a delete of rollback. *)
LEMMA UndoInv == ASSUME Inv, NEW c \in Clicks, Undo(c) PROVE Inv'
<1> DEFINE part == FirstOf(UndoOrder, call[c].built)
<1>0. /\ call[c] \in CallRecords /\ call[c].pc = "undo" /\ call[c].built \in SUBSET Parts
      /\ rows[c] \in SUBSET Parts /\ (rows[c] # {} => "workspace" \in rows[c])
      /\ faults' = faults /\ dirty' = dirty
  BY DEF Inv, TypeOK, CallRecords, Rooted, Undo
<1>1. CASE call[c].built = {}
  <2>1. rows' = rows /\ call' = [call EXCEPT ![c] = Over("failed", Nowhere)]
    BY <1>1 DEF Undo, GiveUp
  <2>2. /\ call'[c] \in CallRecords /\ call'[c].pc = "failed"
        /\ call' = [call EXCEPT ![c] = call'[c]]
    BY <1>0, <2>1 DEF Inv, TypeOK, CallRecords, Over
  <2>4. RowsOf(call[c], rows[c])
    BY ClickFacts
  <2>5. ~dirty => rows[c] = {}
    BY <1>0, <1>1, <2>4 DEF RowsOf
  <2>3. RowsOf(call[c], rows[c])'
    BY <1>0, <2>1, <2>2, <2>5 DEF RowsOf
  <2> QED
    BY <1>0, <2>1, <2>2, <2>3, OneClickMoves DEF Inv, TypeOK
<1>2. CASE call[c].built # {}
  <2>1. part \in call[c].built /\ (part = "workspace" => call[c].built = {"workspace"})
    BY <1>0, <1>2, UndoesInOrder
  <2>2. /\ rows' = [rows EXCEPT ![c] = Deleted(@, part)]
        /\ call' = [call EXCEPT ![c].built = @ \ {part}]
    BY <1>2 DEF Undo
  <2> HIDE DEF part
  <2>3. /\ call'[c] \in CallRecords /\ call'[c].pc = "undo"
        /\ call'[c].built = call[c].built \ {part}
        /\ call' = [call EXCEPT ![c] = call'[c]]
    BY <1>0, <2>2 DEF Inv, TypeOK, CallRecords
  <2>4. /\ rows'[c] = Deleted(rows[c], part)
        /\ rows' = [rows EXCEPT ![c] = rows'[c]]
    BY <2>2 DEF Inv, TypeOK
  <2>5. /\ rows'[c] \subseteq rows[c]
        /\ rows'[c] # {} => "workspace" \in rows'[c]
        /\ part = "workspace" /\ "links" \notin rows[c] => rows'[c] = {}
    BY <1>0, <2>1, <2>4, DeletedLeaves
  <2>6. ~dirty => "links" \notin rows[c] /\ "workspace" \in call[c].built
    <3>1. RowsOf(call[c], rows[c])
      BY ClickFacts
    <3> QED
      BY <1>0, <1>2, <3>1 DEF RowsOf
  <2>7. RowsOf(call[c], rows[c])'
    BY <1>0, <2>1, <2>3, <2>5, <2>6 DEF RowsOf
  <2> QED
    BY <1>0, <2>3, <2>4, <2>5, <2>7, OneClickMoves DEF Inv, TypeOK
<1> QED
  BY <1>1, <1>2

(* The invariant is kept by a delete of rollback that fails. *)
LEMMA FailUndoInv == ASSUME Inv, NEW c \in Clicks, FailUndo(c) PROVE Inv'
<1> DEFINE part == FirstOf(UndoOrder, call[c].built)
<1>0. /\ call[c] \in CallRecords /\ call[c].pc = "undo" /\ call[c].built # {}
      /\ call[c].built \in SUBSET Parts
      /\ rows[c] \in SUBSET Parts /\ (rows[c] # {} => "workspace" \in rows[c])
      /\ rows' = rows /\ call' = [call EXCEPT ![c].built = @ \ {part}]
      /\ faults' = faults + 1 /\ faults < MaxFaults
      /\ dirty' = (dirty \/ part = "workspace")
  BY DEF Inv, TypeOK, CallRecords, Rooted, FailUndo
<1>1. part \in call[c].built /\ (part = "workspace" => call[c].built = {"workspace"})
  BY <1>0, UndoesInOrder
<1> HIDE DEF part
<1>2. /\ call'[c] \in CallRecords /\ call'[c].pc = "undo"
      /\ call'[c].built = call[c].built \ {part}
      /\ call' = [call EXCEPT ![c] = call'[c]]
  BY <1>0 DEF Inv, TypeOK, CallRecords
<1>3. RowsOf(call[c], rows[c])'
  BY <1>0, <1>1, <1>2 DEF Inv, RowsOf
<1>4. faults' \in 0..MaxFaults /\ dirty' \in BOOLEAN /\ (dirty => dirty')
  BY <1>0, SeedAssumption DEF Inv, TypeOK
<1>5. rows' = [rows EXCEPT ![c] = rows'[c]]
  BY <1>0 DEF Inv, TypeOK
<1> QED
  BY <1>0, <1>2, <1>3, <1>4, <1>5, OneClickMoves

(* The invariant is kept by a lookup that fails. *)
LEMMA FailLookInv == ASSUME Inv, NEW c \in Clicks, FailLook(c) PROVE Inv'
<1>1. /\ rows[c] = {} /\ call[c].built = {}
      /\ rows' = rows /\ faults' = faults + 1 /\ faults < MaxFaults /\ dirty' = dirty
  BY ClickFacts DEF RowsOf, FailLook
<1>2. \/ call' = [call EXCEPT ![c] = Over("failed", Nowhere)]
      \/ Goto(c, "insert")
  BY DEF FailLook, GiveUp
<1>0. call[c].pc # "done"
  BY DEF FailLook
<1> DEFINE Fine == /\ call' = [call EXCEPT ![c] = call'[c]] /\ call'[c] \in CallRecords
                   /\ call'[c].pc \in {"failed", "insert"} /\ call'[c].built = {}
<1>5. ASSUME call' = [call EXCEPT ![c] = Over("failed", Nowhere)] PROVE Fine
  BY <1>5, OverMoves
<1>6. ASSUME Goto(c, "insert") PROVE Fine
  BY <1>0, <1>1, <1>6, GotoMoves
<1>3. Fine
  <2> HIDE DEF Fine
  <2> QED
    BY <1>2, <1>5, <1>6
<1>4. RowsOf(call[c], rows[c])'
  BY <1>1, <1>3 DEF RowsOf
<1> QED
  BY <1>1, <1>3, <1>4, ClickFacts, FaultCounted, OnlyCallMoves

(* The invariant is kept by the death of the invocation. *)
LEMMA DieInv == ASSUME Inv, NEW c \in Clicks, Die(c) PROVE Inv'
<1>1. /\ rows' = rows /\ faults' = faults + 1 /\ faults < MaxFaults
      /\ dirty' = (dirty \/ rows[c] # {})
      /\ Goto(c, "dead") /\ call[c].pc # "done"
  BY DEF Die
<1>2. /\ call' = [call EXCEPT ![c] = call'[c]]
      /\ call'[c] \in CallRecords /\ call'[c].pc = "dead"
  BY <1>1, GotoMoves
<1>3. RowsOf(call[c], rows[c])'
  BY <1>1, <1>2 DEF RowsOf
<1>4. dirty' \in BOOLEAN /\ (dirty => dirty')
  BY <1>1
<1> QED
  BY <1>1, <1>2, <1>3, <1>4, FaultCounted, OnlyCallMoves

(* So does every step. *)
LEMMA NextInv == Inv /\ [Next]_vars => Inv'
<1> SUFFICES ASSUME Inv, [Next]_vars PROVE Inv'
  OBVIOUS
<1>1. CASE UNCHANGED vars
  BY <1>1 DEF vars, Inv, TypeOK, Rooted, OneSample, RowsOf
<1>2. CASE Next
  <2>1. PICK c \in Clicks : Start(c) \/ Step(c) \/ Fault(c)
    BY <1>2 DEF Next
  <2> QED
    BY <2>1, StartInv, LookInv, InsertInv, UndoInv, FailInsertInv, LoseAnswerInv,
       FailUndoInv, FailLookInv, DieInv DEF Step, Fault
<1> QED
  BY <1>1, <1>2

(* The invariant holds in every reachable state. *)
LEMMA InvAlways == Spec => []Inv
  BY InitInv, NextInv, PTL DEF Spec

(* Every reachable state of the seed is well typed. *)
THEOREM SeedTypeCorrect == Spec => []TypeOK
  BY InvAlways, PTL DEF Inv

(* There is never a second sample, nor a piece of one (sample-deal.ts and
   the unique index of 0015), for any number of clicks and faults. *)
THEOREM OneSampleAlways == Spec => []OneSample
  BY InvAlways, PTL DEF Inv

(* A seed that is over left a whole sample or nothing, whatever failed short
   of the outcomes that make the history dirty (sample-deal.ts, rollback). *)
THEOREM AllOrNothingAlways == Spec => []AllOrNothing
<1>1. Inv => AllOrNothing
  BY DEF Inv, AllOrNothing, RowsOf, pc
<1> QED
  BY <1>1, InvAlways, PTL
===============================================================================
