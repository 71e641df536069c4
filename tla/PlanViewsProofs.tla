---------------------------- MODULE PlanViewsProofs ----------------------------
(***************************************************************************)
(* What PlanViews' operators return for any plan: rows are put in order,   *)
(* and a selection holds steps of the plan that pass its test.             *)
(***************************************************************************)
EXTENDS PlanViews, FiniteSetTheorems, TLAPS

(* The members of S that R puts before x, and a sequence that has each place
   held by a member with as many before it. *)
Below(S, R, x) == {y \in S : <<y, x>> \in R}
RankedBy(S, R, s) ==
    /\ s = [i \in 1..Cardinality(S) |-> s[i]]
    /\ \A i \in 1..Cardinality(S) : s[i] \in S /\ Cardinality(Below(S, R, s[i])) = i - 1
StrictOrder(S, R) ==
    /\ \A x \in S : <<x, x>> \notin R
    /\ \A x, y, z \in S : <<x, y>> \in R /\ <<y, z>> \in R => <<x, z>> \in R
    /\ \A x, y \in S : x # y => <<x, y>> \in R \/ <<y, x>> \in R

LEMMA BelowIsSmaller ==
    ASSUME NEW S, IsFiniteSet(S), NEW R, StrictOrder(S, R), NEW x \in S
    PROVE  /\ IsFiniteSet(Below(S, R, x)) /\ Cardinality(S) \in Nat
           /\ Cardinality(Below(S, R, x)) \in 0..Cardinality(S) - 1
<1>1. Below(S, R, x) \subseteq S \ {x}
  BY DEF Below, StrictOrder
<1>2. IsFiniteSet(S \ {x}) /\ Cardinality(S \ {x}) = Cardinality(S) - 1
  BY FS_RemoveElement
<1>3. /\ IsFiniteSet(Below(S, R, x))
      /\ Cardinality(Below(S, R, x)) <= Cardinality(S) - 1
  BY <1>1, <1>2, FS_Subset
<1> QED
  BY <1>3, FS_CardinalityType

(* Who comes later has more before it. *)
LEMMA LaterHasMoreBelow ==
    ASSUME NEW S, IsFiniteSet(S), NEW R, StrictOrder(S, R), NEW x \in S, NEW y \in S, <<x, y>> \in R
    PROVE  Cardinality(Below(S, R, x)) < Cardinality(Below(S, R, y))
<1>1. Below(S, R, x) \subseteq Below(S, R, y)
  BY DEF Below, StrictOrder
<1>2. x \in Below(S, R, y) /\ x \notin Below(S, R, x)
  BY DEF Below, StrictOrder
<1>3. /\ IsFiniteSet(Below(S, R, y)) /\ Cardinality(Below(S, R, x)) \in Nat
      /\ Cardinality(Below(S, R, y)) \in Nat
  BY BelowIsSmaller, FS_CardinalityType
<1>4. Cardinality(Below(S, R, x)) <= Cardinality(Below(S, R, y))
      /\ Cardinality(Below(S, R, x)) # Cardinality(Below(S, R, y))
  BY <1>1, <1>2, <1>3, FS_Subset
<1> QED
  BY <1>3, <1>4

(* As many ranks as members, and no two alike: each is taken. *)
LEMMA EveryRankIsTaken ==
    ASSUME NEW S, IsFiniteSet(S), NEW R, StrictOrder(S, R)
    PROVE  \A i \in 1..Cardinality(S) : \E x \in S : Cardinality(Below(S, R, x)) = i - 1
<1> DEFINE n    == Cardinality(S)
           rank == [x \in S |-> Cardinality(Below(S, R, x)) + 1]
<1>1. n \in Nat
  BY FS_CardinalityType
<1>2. rank \in [S -> 1..n]
  BY <1>1, BelowIsSmaller
<1>3. ASSUME NEW x \in S, NEW y \in S, x # y PROVE rank[x] # rank[y]
  <2>1. <<x, y>> \in R \/ <<y, x>> \in R
    BY <1>3 DEF StrictOrder
  <2>2. Cardinality(Below(S, R, x)) \in Nat /\ Cardinality(Below(S, R, y)) \in Nat
    BY BelowIsSmaller, FS_CardinalityType
  <2>3. Cardinality(Below(S, R, x)) # Cardinality(Below(S, R, y))
    BY <2>1, <2>2, LaterHasMoreBelow
  <2> QED
    BY <2>2, <2>3
<1>4. rank \in Injection(S, 1..n)
  BY <1>2, <1>3 DEF Injection, IsInjective
<1>5. IsFiniteSet(1..n) /\ Cardinality(1..n) = n
  BY <1>1, FS_Interval
<1>6. rank \in Surjection(S, 1..n)
  BY <1>4, <1>5, FS_Injection
<1>7. ASSUME NEW i \in 1..n PROVE \E x \in S : Cardinality(Below(S, R, x)) = i - 1
  <2>1. PICK x \in S : rank[x] = i
    BY <1>6 DEF Surjection
  <2>2. Cardinality(Below(S, R, x)) \in Nat
    BY BelowIsSmaller, FS_CardinalityType
  <2> QED
    BY <2>1, <2>2
<1> QED
  BY <1>7

(* The ranked sequence has every member of the set once, in order. *)
LEMMA RankedSorts ==
    ASSUME NEW S, IsFiniteSet(S), NEW R, StrictOrder(S, R), NEW s, RankedBy(S, R, s)
    PROVE  /\ s \in [1..Cardinality(S) -> S]
           /\ \A i, j \in 1..Cardinality(S) : i < j => <<s[i], s[j]>> \in R
           /\ \A x \in S : \E i \in 1..Cardinality(S) : s[i] = x
<1> DEFINE n == Cardinality(S)
           below(x) == Cardinality(Below(S, R, x))
<1>1. n \in Nat /\ \A x \in S : below(x) \in 0..n - 1
  BY BelowIsSmaller, FS_CardinalityType
<1>2. ASSUME NEW i \in 1..n PROVE s[i] \in S /\ below(s[i]) = i - 1
  BY DEF RankedBy
<1>3. s \in [1..n -> S]
  BY <1>2 DEF RankedBy
<1>4. ASSUME NEW i \in 1..n, NEW j \in 1..n, i < j PROVE <<s[i], s[j]>> \in R
  <2>1. s[i] \in S /\ s[j] \in S /\ below(s[i]) = i - 1 /\ below(s[j]) = j - 1
    BY <1>2
  <2>2. s[i] # s[j]
    BY <1>1, <1>4, <2>1
  <2>3. <<s[j], s[i]>> \in R => below(s[j]) < below(s[i])
    BY <2>1, LaterHasMoreBelow
  <2>4. ~(below(s[j]) < below(s[i]))
    BY <1>1, <1>4, <2>1
  <2> QED
    BY <2>1, <2>2, <2>3, <2>4 DEF StrictOrder
<1>5. ASSUME NEW x \in S PROVE \E i \in 1..n : s[i] = x
  <2> DEFINE i == below(x) + 1
  <2>1. i \in 1..n /\ below(x) = i - 1
    BY <1>1
  <2>2. s[i] \in S /\ below(s[i]) = below(x)
    BY <1>2, <2>1
  <2>3. s[i] # x => below(s[i]) # below(x)
    <3> SUFFICES ASSUME s[i] # x PROVE below(s[i]) # below(x)
      OBVIOUS
    <3>1. <<s[i], x>> \in R \/ <<x, s[i]>> \in R
      BY <2>2 DEF StrictOrder
    <3>2. below(s[i]) < below(x) \/ below(x) < below(s[i])
      BY <2>2, <3>1, LaterHasMoreBelow
    <3>3. below(s[i]) \in Int /\ below(x) \in Int
      BY <1>1, <2>2
    <3> QED
      BY <3>2, <3>3
  <2> QED
    BY <2>1, <2>2, <2>3
<1> QED
  BY <1>3, <1>4, <1>5

-------------------------------------------------------------------------------
(* Rows that an id tells apart. *)
AreRows(rows) ==
    /\ IsFiniteSet(rows)
    /\ \A a \in rows : a.order \in Int /\ a.id \in Int
    /\ \A a, b \in rows : a.id = b.id => a = b

(* byDisplayOrderThenId, assemblePlanTree: a list of rows, which ids tell
   apart, is put in one order whatever order the database sent them in, with
   every row in it once, by display order and among equals by id. *)
THEOREM InOrderSorts ==
    ASSUME NEW rows, AreRows(rows)
    PROVE  /\ InOrder(rows) \in [1..Cardinality(rows) -> rows]
           /\ \A i, j \in 1..Cardinality(rows) : i < j => Before(InOrder(rows)[i], InOrder(rows)[j])
           /\ \A r \in rows : \E i \in 1..Cardinality(rows) : InOrder(rows)[i] = r
<1> DEFINE R == {p \in rows \X rows : Before(p[1], p[2])}
<1>1. \A a, b \in rows : <<a, b>> \in R <=> Before(a, b)
  OBVIOUS
<1>2. StrictOrder(rows, R)
  <2>1. \A a \in rows : ~Before(a, a)
    BY DEF AreRows, Before
  <2>2. \A a, b, c \in rows : Before(a, b) /\ Before(b, c) => Before(a, c)
    BY DEF AreRows, Before
  <2>3. \A a, b \in rows : a # b => Before(a, b) \/ Before(b, a)
    BY DEF AreRows, Before
  <2> HIDE DEF R
  <2> QED
    BY <1>1, <2>1, <2>2, <2>3 DEF StrictOrder
<1>3. \A x \in rows : {y \in rows : Before(y, x)} = Below(rows, R, x)
  BY <1>1 DEF Below
<1> HIDE DEF R
<1>4. IsFiniteSet(rows)
  BY DEF AreRows
<1>5. RankedBy(rows, R, InOrder(rows))
  <2>1. ASSUME NEW i \in 1..Cardinality(rows)
        PROVE  /\ InOrder(rows)[i] \in rows
               /\ Cardinality(Below(rows, R, InOrder(rows)[i])) = i - 1
    <3>0. \E x \in rows : Cardinality(Below(rows, R, x)) = i - 1
      BY <1>2, <1>4, EveryRankIsTaken
    <3>1. \E x \in rows : Cardinality({y \in rows : Before(y, x)}) = i - 1
      BY <1>3, <3>0
    <3>2. InOrder(rows)[i] = CHOOSE x \in rows : Cardinality({y \in rows : Before(y, x)}) = i - 1
      BY DEF InOrder, Ranked
    <3> QED
      BY <1>3, <3>1, <3>2
  <2>2. InOrder(rows) = [i \in 1..Cardinality(rows) |-> InOrder(rows)[i]]
    BY DEF InOrder, Ranked
  <2> QED
    BY <2>1, <2>2 DEF RankedBy
<1>6. /\ InOrder(rows) \in [1..Cardinality(rows) -> rows]
      /\ \A i, j \in 1..Cardinality(rows) : i < j => <<InOrder(rows)[i], InOrder(rows)[j]>> \in R
      /\ \A r \in rows : \E i \in 1..Cardinality(rows) : InOrder(rows)[i] = r
  BY <1>2, <1>4, <1>5, RankedSorts
<1> QED
  BY <1>1, <1>6

-------------------------------------------------------------------------------
(* The places of a selection, from the first to the last. *)
LEMMA PlacesAreSorted ==
    ASSUME NEW places, IsFiniteSet(places), places \subseteq Int
    PROVE  /\ Cardinality(places) \in Nat
           /\ Ranked(places, <) \in [1..Cardinality(places) -> places]
           /\ \A k, l \in 1..Cardinality(places) :
                 k < l => Ranked(places, <)[k] < Ranked(places, <)[l]
           /\ \A i \in places : \E k \in 1..Cardinality(places) : Ranked(places, <)[k] = i
<1> DEFINE R == {p \in places \X places : p[1] < p[2]}
<1>1. \A a, b \in places : <<a, b>> \in R <=> a < b
  OBVIOUS
<1> HIDE DEF R
<1>2. StrictOrder(places, R)
  BY <1>1 DEF StrictOrder
<1>3. \A x \in places : {y \in places : y < x} = Below(places, R, x)
  BY <1>1 DEF Below
<1>4. RankedBy(places, R, Ranked(places, <))
  <2>1. ASSUME NEW i \in 1..Cardinality(places)
        PROVE  /\ Ranked(places, <)[i] \in places
               /\ Cardinality(Below(places, R, Ranked(places, <)[i])) = i - 1
    <3>1. \E x \in places : Cardinality(Below(places, R, x)) = i - 1
      BY <1>2, EveryRankIsTaken
    <3>2. \E x \in places : Cardinality({y \in places : y < x}) = i - 1
      BY <1>3, <3>1
    <3>3. Ranked(places, <)[i] = CHOOSE x \in places : Cardinality({y \in places : y < x}) = i - 1
      BY DEF Ranked
    <3> QED
      BY <1>3, <3>2, <3>3
  <2>2. Ranked(places, <) = [i \in 1..Cardinality(places) |-> Ranked(places, <)[i]]
    BY DEF Ranked
  <2> QED
    BY <2>1, <2>2 DEF RankedBy
<1>5. /\ Ranked(places, <) \in [1..Cardinality(places) -> places]
      /\ \A k, l \in 1..Cardinality(places) :
            k < l => <<Ranked(places, <)[k], Ranked(places, <)[l]>> \in R
      /\ \A i \in places : \E k \in 1..Cardinality(places) : Ranked(places, <)[k] = i
  BY <1>2, <1>4, RankedSorts
<1> QED
  BY <1>1, <1>5, FS_CardinalityType

(* A plan of one stage reads as that stage does, one of none as nothing. *)
LEMMA OneFlattens ==
    ASSUME NEW x, NEW s, s = [i \in 1..1 |-> x]
    PROVE  FlattenSeq(s) = x
<1>1. s \in Seq({x}) /\ Len(s) = 1 /\ s[1] = x
  OBVIOUS
<1> DEFINE flat(f) == f = [i \in 1..Len(s) |-> IF i = 1 THEN s[i] ELSE f[i - 1] \o s[i]]
<1>2. \E f : flat(f)
  <2>1. PICK f : f = [i \in 1..1 |-> x]
    OBVIOUS
  <2>2. flat(f)
    BY <1>1, <2>1
  <2> QED
    BY <2>2
<1>3. PICK f : f = CHOOSE g : flat(g)
  OBVIOUS
<1>4. flat(f)
  BY <1>2, <1>3
<1>5. f[1] = x
  BY <1>1, <1>4
<1>6. FlattenSeq(s) = f[Len(s)]
  BY <1>1, <1>3 DEF FlattenSeq
<1> QED
  BY <1>1, <1>5, <1>6

LEMMA NoneFlattens ==
    ASSUME NEW s, DOMAIN s = {}, s \in Seq({})
    PROVE  FlattenSeq(s) = s
<1>1. Len(s) = 0
  OBVIOUS
<1> QED
  BY <1>1 DEF FlattenSeq

-------------------------------------------------------------------------------
(* What was chosen of a reading, all of it, in its order, and no more. *)
Selects(selection, all, chosen) ==
    \E m \in Nat : \E places \in [1..m -> chosen] :
        /\ selection = [k \in 1..m |-> all[places[k]]]
        /\ \A k, l \in 1..m : k < l => places[k] < places[l]
        /\ \A i \in chosen : \E k \in 1..m : places[k] = i

LEMMA PlacesAreFinite ==
    ASSUME NEW n \in Nat, NEW chosen \in SUBSET (1..n)
    PROVE  IsFiniteSet(chosen) /\ chosen \subseteq Int
<1>1. IsFiniteSet(1..n)
  BY FS_Interval
<1>2. IsFiniteSet(chosen)
  BY <1>1, FS_Subset
<1>3. chosen \subseteq Int
  OBVIOUS
<1> QED
  BY <1>2, <1>3

LEMMA SelectionSelects ==
    ASSUME NEW n \in Nat, NEW all, NEW chosen \in SUBSET (1..n), NEW selection,
           selection = [k \in DOMAIN Ranked(chosen, <) |-> all[Ranked(chosen, <)[k]]]
    PROVE  Selects(selection, all, chosen)
<1>1. IsFiniteSet(chosen) /\ chosen \subseteq Int
  BY PlacesAreFinite
<1> DEFINE m == Cardinality(chosen)
           places == Ranked(chosen, <)
<1>2. /\ m \in Nat /\ places \in [1..m -> chosen]
      /\ \A k, l \in 1..m : k < l => places[k] < places[l]
      /\ \A i \in chosen : \E k \in 1..m : places[k] = i
  BY <1>1, PlacesAreSorted
<1> HIDE DEF m, places
<1>3. selection = [k \in 1..m |-> all[places[k]]]
  <2>1. selection = [k \in DOMAIN places |-> all[places[k]]]
    BY DEF places
  <2> QED
    BY <1>2, <2>1
<1> QED
  BY <1>2, <1>3 DEF Selects

(* plan-selectors.ts, the overdue steps of the buyer's page: each open step
   of the buyer's whose day has passed, in reading order, and no other. *)
THEOREM OverdueBuyerStepsAre ==
    ASSUME NEW tree, NEW today, NEW n \in Nat, DOMAIN AllSteps(tree) = 1..n
    PROVE  Selects(OverdueBuyerSteps(tree, today), AllSteps(tree),
                   {i \in 1..n : LET s == AllSteps(tree)[i] IN
                       s.owner = "buyer" /\ Open(s) /\ s.due # NoDay /\ s.due < today})
<1> DEFINE all    == AllSteps(tree)
           chosen == {i \in 1..n : LET s == all[i] IN
                        s.owner = "buyer" /\ Open(s) /\ s.due # NoDay /\ s.due < today}
<1>1. OverdueBuyerSteps(tree, today)
         = [k \in DOMAIN Ranked(chosen, <) |-> all[Ranked(chosen, <)[k]]]
  BY DEF OverdueBuyerSteps, StepsWhere
<1> HIDE DEF chosen
<1>2. chosen \in SUBSET (1..n)
  BY DEF chosen
<1>3. Selects(OverdueBuyerSteps(tree, today), all, chosen)
  BY <1>1, <1>2, SelectionSelects
<1> QED
  BY <1>3 DEF chosen

LEMMA OpenStepsAre ==
    ASSUME NEW tree, NEW n \in Nat, DOMAIN AllSteps(tree) = 1..n
    PROVE  Selects(StepsWhere(tree, Open), AllSteps(tree), {i \in 1..n : Open(AllSteps(tree)[i])})
<1> DEFINE all    == AllSteps(tree)
           chosen == {i \in 1..n : Open(all[i])}
<1>1. StepsWhere(tree, Open) = [k \in DOMAIN Ranked(chosen, <) |-> all[Ranked(chosen, <)[k]]]
  BY DEF StepsWhere
<1> HIDE DEF chosen
<1>2. chosen \in SUBSET (1..n)
  BY DEF chosen
<1>3. Selects(StepsWhere(tree, Open), all, chosen)
  BY <1>1, <1>2, SelectionSelects
<1> QED
  BY <1>3 DEF chosen

(* findNextOpenStep and findLiveStepId: the step shown as the next one is the
   first open step in reading order, and there is none only when no step is
   open. *)
THEOREM NextOpenStepIsFirst ==
    ASSUME NEW tree, NEW n \in Nat, DOMAIN AllSteps(tree) = 1..n
    PROVE  LET all == AllSteps(tree) IN
           \/ NextOpenStep(tree) = NoStep /\ \A i \in 1..n : ~Open(all[i])
           \/ \E i \in 1..n : /\ NextOpenStep(tree) = all[i].id /\ StepsWhere(tree, Open)[1] = all[i]
                               /\ Open(all[i]) /\ \A j \in 1..i - 1 : ~Open(all[j])
<1> DEFINE all    == AllSteps(tree)
           chosen == {i \in 1..n : Open(all[i])}
           open   == StepsWhere(tree, Open)
<1>0. Selects(open, all, chosen)
  BY OpenStepsAre
<1>1. PICK m \in Nat : \E places \in [1..m -> chosen] :
         /\ open = [k \in 1..m |-> all[places[k]]]
         /\ \A k, l \in 1..m : k < l => places[k] < places[l]
         /\ \A i \in chosen : \E k \in 1..m : places[k] = i
  <2> HIDE DEF all, chosen, open
  <2> QED
    BY <1>0 DEF Selects
<1>2. PICK places \in [1..m -> chosen] :
         /\ open = [k \in 1..m |-> all[places[k]]]
         /\ \A k, l \in 1..m : k < l => places[k] < places[l]
         /\ \A i \in chosen : \E k \in 1..m : places[k] = i
  BY <1>1
<1>3. NextOpenStep(tree) = IF open = <<>> THEN NoStep ELSE open[1].id
  BY DEF NextOpenStep
<1>4. \A i \in 1..n : i \in chosen <=> Open(all[i])
  OBVIOUS
<1>5. chosen \subseteq 1..n
  OBVIOUS
<1> HIDE DEF all, chosen, open
<1>6. CASE m = 0
  <2>1. open = <<>>
    BY <1>2, <1>6
  <2>2. \A i \in 1..n : ~Open(all[i])
    BY <1>2, <1>4, <1>6
  <2> QED
    BY <1>3, <2>1, <2>2 DEF all
<1>7. CASE m # 0
  <2>1. 1 \in 1..m /\ places[1] \in chosen /\ open[1] = all[places[1]]
    BY <1>2, <1>7
  <2>2. open # <<>>
    <3>1. 1 \in DOMAIN open
      BY <1>2, <2>1
    <3> QED
      BY <3>1
  <2>3. places[1] \in 1..n /\ Open(all[places[1]])
    BY <1>4, <1>5, <2>1
  <2>4. ASSUME NEW j \in 1..places[1] - 1, Open(all[j]) PROVE FALSE
    <3>1. j \in 1..n /\ j < places[1]
      BY <2>3
    <3>2. PICK k \in 1..m : places[k] = j
      BY <1>2, <1>4, <2>4, <3>1
    <3>3. k = 1 \/ 1 < k
      OBVIOUS
    <3>4. places[k] \in Int /\ places[1] \in Int
      BY <1>5, <2>3, <3>1, <3>2
    <3>5. places[1] <= places[k]
      BY <1>2, <2>1, <3>3, <3>4
    <3> QED
      BY <3>1, <3>2, <3>4, <3>5
  <2>5. NextOpenStep(tree) = all[places[1]].id
    BY <1>3, <2>1, <2>2
  <2> QED
    BY <2>1, <2>3, <2>4, <2>5 DEF all, open
<1> QED
  BY <1>6, <1>7
===============================================================================
