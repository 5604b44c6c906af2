-------------------------- MODULE ToolLevelsProofs --------------------------
(***************************************************************************)
(* The order in which execute calls the tools of a plan, for every plan.   *)
(*                                                                         *)
(* The argument: what _topo_levels keeps in remaining is exactly what the  *)
(* levels found so far leave open of each step's dependencies (Peeled), so *)
(* a step joins a level when all it depends on is in earlier ones; and the *)
(* loop of _run passes a level only with all its results (Passed).  A set  *)
(* of steps that wait for each other never enters a level (NeverPlaced):   *)
(* an invariant of the loop takes the place of an induction over levels.   *)
(* That the node ends: each of its steps leaves less to do (Work), and the *)
(* calls not begun are those of levels ahead, so that one can be taken.    *)
(***************************************************************************)
EXTENDS ToolLevels, TLAPS, FiniteSetTheorems, WellFoundedInduction

\* The steps in the levels before n, and in all levels.
Before(n) == UNION {levels[m] : m \in 1..(n - 1)}
Placed    == UNION {levels[m] : m \in 1..Len(levels)}

Typed ==
    /\ levels \in Seq(SUBSET StepIds(steps)) /\ at \in 1..(Len(levels) + 1)
    /\ call \in [StepIds(steps) -> {"idle", "flight", "result", "raised", "cancelled"}]
    /\ tool_results \subseteq StepIds(steps)

Peeled ==
    /\ DOMAIN remaining = StepIds(steps) \ Placed
    /\ \A i \in DOMAIN remaining : remaining[i] = Deps(i) \ Placed
    /\ \A n \in 1..Len(levels) : \A i \in levels[n] : Deps(i) \subseteq Before(n)

Passed ==
    /\ node = "levels" => at = 1
    /\ node \in {"calls", "done"} => DOMAIN remaining = {}
    /\ node = "cycle" => DOMAIN remaining # {} /\ Ready = {}
    /\ node = "done" => at = Len(levels) + 1
    /\ Before(at) \subseteq tool_results

NeverPlaced ==
    \A X \in SUBSET StepIds(steps) : (\A i \in X : Waits(i, X)) => X \intersect Placed = {}

IInv == Typed /\ Peeled /\ Passed /\ NeverPlaced

\* The inductive invariant holds before the first iteration.
LEMMA InitInv == Init => IInv
<1> SUFFICES ASSUME Init PROVE IInv
  OBVIOUS
<1>1. Len(levels) = 0 /\ Placed = {} /\ Before(1) = {}
  BY DEF Init, Placed, Before
<1>2. Typed
  BY <1>1 DEF Init, Typed
<1>3. Peeled
  BY <1>1 DEF Init, Peeled
<1>4. Passed
  BY <1>1 DEF Init, Passed
<1>5. NeverPlaced
  BY <1>1 DEF NeverPlaced
<1> QED
  BY <1>2, <1>3, <1>4, <1>5 DEF IInv

\* Appending a level leaves the earlier ones alone and adds its steps to the placed ones.
LEMMA AppendLevel ==
  ASSUME NEW S, levels \in Seq(S), NEW R \in S, levels' = Append(levels, R)
  PROVE  /\ Placed' = Placed \union R
         /\ \A n \in 1..(Len(levels) + 1) : Before(n)' = Before(n)
         /\ Before(Len(levels) + 1) = Placed
         /\ Len(levels') = Len(levels) + 1 /\ levels'[Len(levels) + 1] = R
         /\ \A n \in 1..Len(levels) : levels'[n] = levels[n]
<1>1. /\ Len(levels) \in Nat /\ Len(levels') = Len(levels) + 1
      /\ levels'[Len(levels) + 1] = R /\ \A n \in 1..Len(levels) : levels'[n] = levels[n]
  OBVIOUS
<1>2. 1..Len(levels') = 1..Len(levels) \union {Len(levels) + 1}
  BY <1>1
<1>3. Placed' = Placed \union R
  BY <1>1, <1>2 DEF Placed
<1>4. ASSUME NEW n \in 1..(Len(levels) + 1) PROVE Before(n)' = Before(n)
  <2>1. \A m \in 1..(n - 1) : levels'[m] = levels[m]
    BY <1>1
  <2> QED
    BY <2>1 DEF Before
<1>5. Before(Len(levels) + 1) = Placed
  <2>1. (Len(levels) + 1) - 1 = Len(levels)
    BY <1>1
  <2> QED
    BY <2>1 DEF Before, Placed
<1> QED
  BY <1>1, <1>3, <1>4, <1>5

\* An iteration of _topo_levels keeps the invariant.
LEMMA NextLevelInv == ASSUME IInv, NextLevel PROVE IInv'
<1> DEFINE R == Ready
<1>1. R \in SUBSET StepIds(steps) /\ levels \in Seq(SUBSET StepIds(steps))
  BY DEF Ready, IInv, Peeled, Typed
<1>2. levels' = Append(levels, R) /\ remaining' = Pop(R)
      /\ UNCHANGED <<steps, at, call, tool_results, node>> /\ node = "levels"
  BY DEF NextLevel
<1>3. \A i \in R : i \in DOMAIN remaining /\ remaining[i] = {}
  BY DEF Ready
<1> HIDE DEF R
<1>4. /\ Placed' = Placed \union R
      /\ \A n \in 1..(Len(levels) + 1) : Before(n)' = Before(n)
      /\ Before(Len(levels) + 1) = Placed
      /\ Len(levels') = Len(levels) + 1 /\ levels'[Len(levels) + 1] = R
      /\ \A n \in 1..Len(levels) : levels'[n] = levels[n]
  BY <1>1, <1>2, AppendLevel
<1>5. Len(levels) \in Nat
  BY <1>1
<1>6. Typed'
  <2>1. levels' \in Seq(SUBSET StepIds(steps))
    BY <1>1, <1>2
  <2> QED
    BY <1>2, <1>4, <1>5, <2>1 DEF Typed, IInv, StepIds
<1>7. \A i : Deps(i)' = Deps(i)
  BY <1>2 DEF Deps
<1>8. \A i \in R : Deps(i) \subseteq Placed
  BY <1>3 DEF IInv, Peeled
<1>9. Peeled'
  <2>1. DOMAIN remaining' = StepIds(steps)' \ Placed'
    BY <1>2, <1>4 DEF Pop, IInv, Peeled, StepIds
  <2>2. \A i \in DOMAIN remaining' : remaining'[i] = Deps(i)' \ Placed'
    BY <1>2, <1>4, <1>7 DEF Pop, IInv, Peeled
  <2>3. ASSUME NEW n \in 1..Len(levels'), NEW i \in levels'[n] PROVE Deps(i)' \subseteq Before(n)'
    <3>1. CASE n = Len(levels) + 1
      BY <1>4, <1>5, <1>7, <1>8, <2>3, <3>1
    <3>2. CASE n \in 1..Len(levels)
      BY <1>4, <1>5, <1>7, <2>3, <3>2 DEF IInv, Peeled
    <3> QED
      BY <1>4, <1>5, <3>1, <3>2
  <2> QED
    BY <2>1, <2>2, <2>3 DEF Peeled
<1>10. Passed'
  <2>1. at = 1 /\ Before(1)' = Before(1)
    BY <1>2, <1>4, <1>5 DEF IInv, Passed
  <2>2. DOMAIN remaining' = DOMAIN remaining \ R /\ DOMAIN remaining # {}
    BY <1>2 DEF NextLevel, Pop
  <2>3. Before(at)' = Before(at)
    BY <1>2, <2>1 DEF Before
  <2> QED
    BY <1>2, <2>1, <2>2, <2>3 DEF IInv, Passed
<1>11. NeverPlaced'
  <2> SUFFICES ASSUME NEW X \in SUBSET StepIds(steps), \A i \in X : Waits(i, X)
               PROVE  X \intersect Placed' = {}
    <3>1. StepIds(steps)' = StepIds(steps)
      BY <1>2 DEF StepIds
    <3>2. \A X \in SUBSET StepIds(steps), i \in StepIds(steps) : Waits(i, X)' <=> Waits(i, X)
      BY <1>7, <3>1 DEF Waits
    <3> QED
      BY <3>1, <3>2 DEF NeverPlaced
  <2>1. X \intersect Placed = {}
    BY DEF IInv, NeverPlaced
  <2>2. Placed \subseteq StepIds(steps)
    BY <1>1 DEF Placed
  <2>3. X \intersect R = {}
    BY <1>8, <2>1, <2>2 DEF Waits
  <2> QED
    BY <1>4, <2>1, <2>3
<1> QED
  BY <1>6, <1>9, <1>10, <1>11 DEF IInv

\* What depends on the plan and its levels only.
LEMMA LevelsKept ==
  ASSUME IInv, UNCHANGED <<steps, remaining, levels>>
  PROVE  /\ Peeled' /\ NeverPlaced' /\ Ready' = Ready
         /\ StepIds(steps)' = StepIds(steps) /\ \A n : Before(n)' = Before(n)
<1>1. /\ Placed' = Placed /\ Ready' = Ready /\ StepIds(steps)' = StepIds(steps)
      /\ \A n : Before(n)' = Before(n)
  BY DEF Placed, Before, Ready, StepIds
<1>2. \A i : Deps(i)' = Deps(i)
  BY DEF Deps
<1> QED
  BY <1>1, <1>2 DEF Peeled, NeverPlaced, Waits, IInv

\* The other steps keep it.
LEMMA OtherInv ==
  ASSUME IInv,
         \/ RaiseCycle \/ LevelsFound \/ StartAll \/ NextOfLevels \/ Finish \/ Cancel
         \/ \E i \in StepIds(steps) : StartOne(i) \/ Settle(i) \/ Keep(i)
         \/ UNCHANGED vars
  PROVE  IInv'
<1>1. UNCHANGED <<steps, remaining, levels>>
  BY DEF RaiseCycle, LevelsFound, StartAll, NextOfLevels, Finish, Cancel, StartOne, Settle, Keep, vars
<1>2. /\ Peeled' /\ NeverPlaced' /\ Ready' = Ready
      /\ StepIds(steps)' = StepIds(steps) /\ \A n : Before(n)' = Before(n)
  BY <1>1, LevelsKept
<1>3. Len(levels) \in Nat /\ Typed /\ Passed
  BY DEF IInv, Typed
<1>4. CASE RaiseCycle \/ LevelsFound \/ UNCHANGED vars
  BY <1>1, <1>2, <1>3, <1>4
     DEF RaiseCycle, LevelsFound, vars, Typed, Passed, IInv, Ready
<1>5. CASE StartAll \/ Cancel \/ \E i \in StepIds(steps) : StartOne(i)
  BY <1>1, <1>2, <1>3, <1>5 DEF StartAll, Cancel, StartOne, Typed, Passed, IInv, Calling
<1>6. CASE \E i \in StepIds(steps) : Settle(i)
  BY <1>1, <1>2, <1>3, <1>6 DEF Settle, Typed, Passed, IInv
<1>7. CASE \E i \in StepIds(steps) : Keep(i)
  BY <1>1, <1>2, <1>3, <1>7 DEF Keep, Typed, Passed, IInv, Calling
<1>8. CASE NextOfLevels
  <2>1. at \in 1..Len(levels) /\ levels[at] \subseteq tool_results
    BY <1>3, <1>8 DEF NextOfLevels, Calling, Level, Typed
  <2>2. Before(at + 1) = Before(at) \union levels[at]
    <3>1. 1..((at + 1) - 1) = 1..(at - 1) \union {at}
      BY <2>1
    <3> QED
      BY <3>1 DEF Before
  <2> QED
    BY <1>1, <1>2, <1>3, <1>8, <2>1, <2>2 DEF NextOfLevels, Calling, Typed, Passed, IInv
<1>9. CASE Finish
  BY <1>1, <1>2, <1>3, <1>9 DEF Finish, Exhausted, Typed, Passed, IInv
<1> QED
  BY <1>4, <1>5, <1>6, <1>7, <1>8, <1>9

\* The inductive invariant holds throughout.
LEMMA Invariance == Spec => []IInv
<1>1. IInv /\ [Next]_vars => IInv'
  BY NextLevelInv, OtherInv DEF Next, Step
<1> QED
  BY InitInv, <1>1, PTL DEF Spec

(* For every plan, of any size and shape: no call starts before the results   *)
(* of all steps it depends on are saved, whatever fails or is cancelled.      *)
THEOREM OrderRespected == Spec => DependenciesFirst
<1> DEFINE Start == \A i \in DOMAIN call :
              call[i] = "idle" /\ call'[i] = "flight" => Deps(i) \subseteq tool_results
<1>1. ASSUME IInv, [Next]_vars PROVE [Start]_vars
  <2>1. ASSUME NEW i \in DOMAIN call, call[i] = "idle", call'[i] = "flight"
        PROVE  Calling /\ i \in Level
    BY <1>1, <2>1 DEF Next, Step, vars, NextLevel, RaiseCycle, LevelsFound, StartAll,
         NextOfLevels, Finish, StartOne, Settle, Keep, Cancel, IInv, Typed
  <2>2. ASSUME NEW i, Calling, i \in Level PROVE Deps(i) \subseteq tool_results
    <3>1. at \in 1..Len(levels) /\ i \in levels[at]
      BY <1>1, <2>2 DEF Calling, Level, IInv, Typed
    <3> QED
      BY <1>1, <3>1 DEF IInv, Peeled, Passed
  <2> QED
    BY <2>1, <2>2
<1> QED
  BY <1>1, Invariance, PTL DEF Spec, DependenciesFirst

(* A plan whose execution ends well has a saved result of every step id.      *)
THEOREM Complete == Spec => []DoneIsComplete
<1>1. IInv => DoneIsComplete
  <2> SUFFICES ASSUME IInv, node = "done" PROVE tool_results = StepIds(steps)
    BY DEF DoneIsComplete
  <2>1. Before(at) = Placed
    BY DEF IInv, Typed, Passed, Before, Placed
  <2> QED
    BY <2>1 DEF IInv, Typed, Peeled, Passed
<1> QED
  BY <1>1, Invariance, PTL

(* "cycle_in_plan_steps" is raised for the plans that cannot be ordered and   *)
(* for no other.                                                              *)
THEOREM CycleExact == Spec => []CycleIffStuck
<1>1. IInv => CycleIffStuck
  <2> SUFFICES ASSUME IInv PROVE CycleIffStuck
    OBVIOUS
  <2>1. ASSUME node = "cycle" PROVE Stuck # {}
    <3> DEFINE X == DOMAIN remaining
    <3>1. X # {} /\ X \in SUBSET StepIds(steps) /\ \A i \in X : remaining[i] # {}
      BY <2>1 DEF IInv, Passed, Peeled, Ready
    <3>2. \A i \in X : Waits(i, X)
      BY <3>1 DEF IInv, Peeled, Waits
    <3> HIDE DEF X
    <3> QED
      BY <3>1, <3>2 DEF Stuck
  <2>2. ASSUME node \in {"calls", "done"} PROVE Stuck = {}
    <3>1. Placed = StepIds(steps)
      <4>1. Placed \subseteq StepIds(steps)
        BY DEF IInv, Typed, Placed
      <4> QED
        BY <2>2, <4>1 DEF IInv, Passed, Peeled
    <3> QED
      BY <3>1 DEF IInv, NeverPlaced, Stuck
  <2> QED
    BY <2>1, <2>2 DEF CycleIffStuck
<1> QED
  BY <1>1, Invariance, PTL
-----------------------------------------------------------------------------
(* Types.                                                                    *)

\* Of the steps with one id there is a last one.
LEMMA LastNamed ==
  ASSUME NEW plan \in Seq(PlanSteps), NEW i \in StepIds(plan)
  PROVE  Named(plan, i) \in 1..Len(plan) /\ plan[Named(plan, i)].id = i
<1> DEFINE T == {n \in Nat : \E m \in 1..Len(plan) : n = Len(plan) - m /\ plan[m].id = i}
<1>1. Len(plan) \in Nat
  OBVIOUS
<1>2. PICK k \in 1..Len(plan) : plan[k].id = i
  BY DEF StepIds
<1>3. Len(plan) - k \in T
  BY <1>1, <1>2
<1>4. PICK n \in T : \A y \in T : ~(<<y, n>> \in OpToRel(<, Nat))
  <2>1. T \subseteq Nat /\ T # {}
    BY <1>3
  <2> HIDE DEF T
  <2> QED
    BY <2>1, NatLessThanWellFounded, WFMin
<1>5. PICK m \in 1..Len(plan) : n = Len(plan) - m /\ plan[m].id = i
  BY <1>4
<1>6. ASSUME NEW j \in (m + 1)..Len(plan), plan[j].id = i PROVE FALSE
  <2>1. j \in 1..Len(plan) /\ Len(plan) - j \in Nat /\ Len(plan) - j < n /\ n \in Nat
    BY <1>1, <1>5, <1>6
  <2>2. Len(plan) - j \in T
    BY <1>6, <2>1
  <2>3. <<Len(plan) - j, n>> \in OpToRel(<, Nat)
    BY <2>1 DEF OpToRel
  <2> QED
    BY <1>4, <2>2, <2>3
<1> HIDE DEF T
<1>7. \E p \in 1..Len(plan) : plan[p].id = i /\ \A q \in (p + 1)..Len(plan) : plan[q].id # i
  BY <1>5, <1>6
<1> QED
  BY <1>7 DEF Named


\* A set that is not empty, and a sequence over a larger set.
LEMMA NonEmpty == ASSUME NEW S, NEW R, R \subseteq S, R # {} PROVE R \in (SUBSET S) \ {{}}
OBVIOUS
LEMMA LargerSeq == ASSUME NEW A, NEW B, A \subseteq B, NEW s \in Seq(A) PROVE s \in Seq(B)
OBVIOUS

\* The parts of TypeOK that IInv does not tell.
Rows ==
    /\ steps \in Seq(PlanSteps) /\ Len(steps) <= MaxSteps /\ parallel \in BOOLEAN
    /\ remaining = [i \in DOMAIN remaining |-> remaining[i]]
    /\ levels \in Seq((SUBSET StepIds(steps)) \ {{}})
    /\ node \in {"levels", "calls", "cycle", "failed", "cancelled", "done"}

LEMMA InitRows == Init => Rows
<1> SUFFICES ASSUME Init PROVE Rows
  OBVIOUS
<1>1. PICK n \in 0..MaxSteps : steps \in [1..n -> PlanSteps]
  BY DEF Init
<1>2. n \in Nat /\ n <= MaxSteps
  BY <1>1, IdsOK
<1>3. steps \in Seq(PlanSteps) /\ Len(steps) = n
  BY <1>1, <1>2
<1> QED
  BY <1>2, <1>3 DEF Init, Rows

LEMMA StepRows == IInv /\ Rows /\ [Next]_vars => Rows'
<1> SUFFICES ASSUME IInv, Rows, [Next]_vars PROVE Rows'
  OBVIOUS
<1>1. CASE NextLevel
  <2>1. Ready \in (SUBSET StepIds(steps)) \ {{}}
    <3>1. Ready \subseteq StepIds(steps)
      BY DEF Ready, IInv, Peeled
    <3>2. Ready # {}
      BY <1>1 DEF NextLevel
    <3> QED
      BY <3>1, <3>2, NonEmpty
  <2>2. levels' \in Seq((SUBSET StepIds(steps)) \ {{}})
    BY <1>1, <2>1 DEF NextLevel, Rows
  <2>3. remaining' = [i \in DOMAIN remaining' |-> remaining'[i]]
    BY <1>1 DEF NextLevel, Pop
  <2> QED
    BY <1>1, <2>2, <2>3 DEF NextLevel, Rows, StepIds
<1>2. CASE ~NextLevel
  BY <1>2 DEF Rows, Next, Step, vars, RaiseCycle, LevelsFound, StartAll, StartOne, Settle,
       Keep, NextOfLevels, Finish, Cancel, StepIds
<1> QED
  BY <1>1, <1>2

\* IInv with the types.
LEMMA TypedInvariance == Spec => [](IInv /\ Rows)
<1>1. IInv /\ Rows /\ [Next]_vars => (IInv /\ Rows)'
  BY StepRows, NextLevelInv, OtherInv DEF Next, Step
<1> QED
  BY InitInv, InitRows, <1>1, PTL DEF Spec

(* For every plan: the levels are non-empty sets of its ids, of two steps    *)
(* with one id the last counts, and what is kept is a result of the plan's.  *)
THEOREM LevelsTyped == Spec => []TypeOK
<1>1. IInv /\ Rows => TypeOK
  <2> SUFFICES ASSUME IInv, Rows PROVE TypeOK
    OBVIOUS
  <2>1. StepIds(steps) \subseteq Ids
    <3> SUFFICES ASSUME NEW n \in 1..Len(steps) PROVE steps[n].id \in Ids
      BY DEF StepIds
    <3>1. steps[n] \in PlanSteps
      BY DEF Rows
    <3> QED
      BY <3>1 DEF PlanSteps
  <2>2. ASSUME NEW i \in DOMAIN remaining PROVE remaining[i] \in SUBSET (Ids \union {Unknown})
    <3>1. i \in StepIds(steps) /\ remaining[i] \subseteq Deps(i)
      BY DEF IInv, Peeled
    <3>2. Named(steps, i) \in 1..Len(steps)
      BY <3>1, LastNamed DEF Rows
    <3>3. steps[Named(steps, i)] \in PlanSteps
      BY <3>2 DEF Rows
    <3> QED
      BY <3>1, <3>3 DEF Deps, PlanSteps
  <2>3. DOMAIN remaining \in SUBSET Ids
    BY <2>1 DEF IInv, Peeled
  <2>4. remaining \in [DOMAIN remaining -> SUBSET (Ids \union {Unknown})]
    BY <2>2 DEF Rows
  <2>5. levels \in Seq((SUBSET Ids) \ {{}})
    <3>1. levels \in Seq((SUBSET StepIds(steps)) \ {{}})
      BY DEF Rows
    <3>2. (SUBSET StepIds(steps)) \ {{}} \subseteq (SUBSET Ids) \ {{}}
      BY <2>1
    <3> QED
      BY <3>1, <3>2, LargerSeq
  <2> QED
    BY <2>3, <2>4, <2>5 DEF IInv, Typed, Rows, TypeOK
<1> QED
  BY <1>1, TypedInvariance, PTL

-----------------------------------------------------------------------------
(* What is in flight.                                                        *)

\* Calls in flight are of the level at hand, and one at most if they go one by one.
Flying ==
    /\ InFlight \subseteq Level
    /\ \A i \in tool_results : call[i] = "result"
    /\ ~parallel => \A i, j \in InFlight : i = j

LEMMA FlyingInv == Spec => []Flying
<1>1. Init => Flying
  BY DEF Init, Flying, InFlight
<1>2. ASSUME IInv, Rows, Flying, [Next]_vars PROVE Flying'
  <2> USE DEF IInv, Typed
  <2>1. CASE NextLevel
    <3>1. at = 1 /\ UNCHANGED <<at, call, tool_results, parallel>> /\ levels' = Append(levels, Ready)
      BY <1>2, <2>1 DEF NextLevel, Passed
    <3>2. at <= Len(levels) => Level' = Level
      BY <1>2, <3>1 DEF Level
    <3>3. at > Len(levels) => InFlight = {}
      BY <1>2 DEF Flying, Level
    <3> QED
      BY <1>2, <3>1, <3>2, <3>3 DEF Flying, InFlight
  <2>2. CASE NextOfLevels
    <3>1. InFlight = {}
      BY <1>2, <2>2 DEF NextOfLevels, Flying, InFlight
    <3> QED
      BY <1>2, <2>2, <3>1 DEF NextOfLevels, Flying, InFlight
  <2>3. CASE StartAll \/ \E i \in StepIds(steps) : StartOne(i)
    <3>1. Level' = Level /\ UNCHANGED <<tool_results, parallel>>
      BY <2>3 DEF StartAll, StartOne, Level
    <3>2. \A i \in tool_results : call'[i] = "result"
      BY <1>2, <2>3 DEF StartAll, StartOne, Flying
    <3>3. InFlight' \subseteq Level
      BY <1>2, <2>3 DEF StartAll, StartOne, Flying, InFlight
    <3>4. ~parallel => \A i, j \in InFlight' : i = j
      BY <1>2, <2>3 DEF StartAll, StartOne, InFlight
    <3> QED
      BY <3>1, <3>2, <3>3, <3>4 DEF Flying
  <2>4. CASE \E i \in StepIds(steps) : Settle(i)
    <3>1. PICK i \in StepIds(steps) : Settle(i)
      BY <2>4
    <3>2. UNCHANGED <<levels, at, tool_results, parallel>> /\ InFlight' \subseteq InFlight
      BY <1>2, <3>1 DEF Settle, InFlight
    <3>3. \A j \in tool_results : call'[j] = "result"
      BY <1>2, <3>1 DEF Settle, Flying
    <3> QED
      BY <1>2, <3>2, <3>3 DEF Flying, Level
  <2>5. CASE \E i \in StepIds(steps) : Keep(i)
    BY <1>2, <2>5 DEF Keep, Settled, Calling, Level, Flying, InFlight
  <2>6. CASE Cancel
    BY <1>2, <2>6 DEF Cancel, Level, Flying, InFlight
  <2>7. CASE RaiseCycle \/ LevelsFound \/ Finish \/ UNCHANGED vars
    BY <1>2, <2>7 DEF RaiseCycle, LevelsFound, Finish, vars, Level, Flying, InFlight
  <2> QED
    BY <1>2, <2>1, <2>2, <2>3, <2>4, <2>5, <2>6, <2>7 DEF Next, Step
<1> QED
  BY <1>1, <1>2, TypedInvariance, PTL DEF Spec

(* For every plan: the calls of two levels are never in flight together, and *)
(* those of a sequential plan are made one by one, whatever raises or is     *)
(* cancelled in between.                                                     *)
THEOREM LevelByLevel == Spec => []OneLevelInFlight
<1>1. IInv /\ Flying => OneLevelInFlight
  <2> SUFFICES ASSUME IInv, Flying PROVE OneLevelInFlight
    OBVIOUS
  <2>1. ASSUME InFlight # {} PROVE \E n \in 1..Len(levels) : InFlight \subseteq levels[n]
    <3>1. at \in 1..Len(levels)
      BY <2>1 DEF Flying, Level, IInv, Typed
    <3> QED
      BY <3>1 DEF Flying, Level
  <2>2. ASSUME ~parallel PROVE Cardinality(InFlight) <= 1
    <3>1. CASE InFlight = {}
      BY <3>1, FS_EmptySet
    <3>2. CASE InFlight # {}
      <4>1. \E i : InFlight = {i}
        <5>1. PICK i \in InFlight : TRUE
          BY <3>2
        <5>2. InFlight = {i}
          BY <2>2, <5>1 DEF Flying
        <5> QED
          BY <5>2
      <4> QED
        BY <4>1, FS_Singleton
    <3> QED
      BY <3>1, <3>2
  <2> QED
    BY <2>1, <2>2 DEF OneLevelInFlight
<1> QED
  BY <1>1, Invariance, FlyingInv, PTL
-----------------------------------------------------------------------------
(* The node ends: what NodeEnds rests on.                                    *)

Idle      == {i \in DOMAIN call : call[i] = "idle"}
Unsettled == {i \in DOMAIN call : call[i] \in {"idle", "flight"}}
Unsaved   == StepIds(steps) \ tool_results
Phase     == IF node = "levels" THEN 2 ELSE IF node = "calls" THEN 1 ELSE 0

\* What the node has left to do: steps to place and levels to pass, calls to start, to
\* settle and to save, and the end itself.
ToPlace  == Cardinality(DOMAIN remaining)
ToPass   == (Len(levels) + 1) - at
ToStart  == Cardinality(Idle)
ToSettle == Cardinality(Unsettled)
ToSave   == Cardinality(Unsaved)
Sum(p, l, n, a, b, c) == 2 * p + l + n + a + b + c
Work     == Sum(ToPlace, ToPass, Phase, ToStart, ToSettle, ToSave)

\* Fewer elements, if not the same.
LEMMA Fewer ==
  ASSUME NEW S, IsFiniteSet(S), NEW T, T \subseteq S
  PROVE  /\ Cardinality(S) \in Nat /\ Cardinality(T) \in Nat /\ Cardinality(T) <= Cardinality(S)
         /\ T # S => Cardinality(T) < Cardinality(S)
<1>1. /\ IsFiniteSet(T) /\ Cardinality(T) <= Cardinality(S)
      /\ Cardinality(S) = Cardinality(T) => S = T
  BY FS_Subset
<1>2. Cardinality(S) \in Nat /\ Cardinality(T) \in Nat
  BY <1>1, FS_CardinalityType
<1> QED
  BY <1>1, <1>2

\* What is left to do is a number, and smaller with each part that is.
LEMMA Smaller ==
  ASSUME NEW p \in Nat, NEW l \in Nat, NEW n \in Nat, NEW a \in Nat, NEW b \in Nat, NEW c \in Nat
  PROVE  /\ Sum(p, l, n, a, b, c) \in Nat
         /\ \A q \in Nat : q < p => Sum(q, l + 1, n, a, b, c) < Sum(p, l, n, a, b, c)
         /\ \A k \in Nat : l = k + 1 => Sum(p, k, n, a, b, c) < Sum(p, l, n, a, b, c)
         /\ \A m, e \in Nat : m < n /\ e <= b
               => Sum(p, l, m, a, e, c) < Sum(p, l, n, a, b, c)
         /\ \A d \in Nat : d < a => Sum(p, l, n, d, b, c) < Sum(p, l, n, a, b, c)
         /\ \A m, e \in Nat : m <= n /\ e < b => Sum(p, l, m, a, e, c) < Sum(p, l, n, a, b, c)
         /\ \A m, f \in Nat : m <= n /\ f < c => Sum(p, l, m, a, b, f) < Sum(p, l, n, a, b, c)
BY DEF Sum

\* A plan has finitely many ids.
LEMMA FiniteIds == Rows => StepIds(steps) \subseteq Ids /\ IsFiniteSet(StepIds(steps))
<1> SUFFICES ASSUME Rows PROVE StepIds(steps) \subseteq Ids /\ IsFiniteSet(StepIds(steps))
  OBVIOUS
<1>1. ASSUME NEW n \in 1..Len(steps) PROVE steps[n].id \in Ids
  <2>1. steps[n] \in PlanSteps
    BY DEF Rows
  <2> QED
    BY <2>1 DEF PlanSteps
<1>2. StepIds(steps) \subseteq Ids
  BY <1>1 DEF StepIds
<1> QED
  BY <1>2, IdsOK, FS_Subset

\* The parts of Work are numbers, of finite sets.
Counted ==
    /\ IsFiniteSet(DOMAIN remaining) /\ IsFiniteSet(Idle) /\ IsFiniteSet(Unsettled)
    /\ IsFiniteSet(Unsaved)
    /\ {ToPlace, ToPass, Phase, ToStart, ToSettle, ToSave} \subseteq Nat

\* The invariant makes them so.
LEMMA PartsCounted == IInv /\ Rows => Counted
<1> SUFFICES ASSUME IInv, Rows PROVE Counted
  OBVIOUS
<1>1. /\ DOMAIN remaining \subseteq StepIds(steps) /\ Idle \subseteq StepIds(steps)
      /\ Unsettled \subseteq StepIds(steps) /\ Unsaved \subseteq StepIds(steps)
  BY DEF IInv, Typed, Peeled, Idle, Unsettled, Unsaved
<1>2. /\ IsFiniteSet(DOMAIN remaining) /\ IsFiniteSet(Idle) /\ IsFiniteSet(Unsettled)
      /\ IsFiniteSet(Unsaved)
  BY <1>1, FiniteIds, FS_Subset
<1>3. Phase \in Nat /\ ToPass \in Nat
  BY DEF IInv, Typed, Phase, ToPass
<1>4. ToPlace \in Nat /\ ToStart \in Nat /\ ToSettle \in Nat /\ ToSave \in Nat
  BY <1>2, FS_CardinalityType DEF ToPlace, ToStart, ToSettle, ToSave
<1> QED
  BY <1>2, <1>3, <1>4 DEF Counted

\* Every step leaves less to do.
LEMMA WorkShrinks ==
  ASSUME IInv, Rows, Counted, Counted', Next
  PROVE  Work' < Work
<1>1. /\ IsFiniteSet(DOMAIN remaining) /\ IsFiniteSet(Idle) /\ IsFiniteSet(Unsettled)
      /\ IsFiniteSet(Unsaved)
  BY DEF Counted
<1>2. /\ ToPlace \in Nat /\ ToPass \in Nat /\ Phase \in Nat
      /\ ToStart \in Nat /\ ToSettle \in Nat /\ ToSave \in Nat
      /\ ToPlace' \in Nat /\ ToPass' \in Nat /\ Phase' \in Nat
      /\ ToStart' \in Nat /\ ToSettle' \in Nat /\ ToSave' \in Nat
  BY DEF Counted
<1>a. Work' = Sum(ToPlace', ToPass', Phase', ToStart', ToSettle', ToSave')
  BY DEF Work
<1>b. Work = Sum(ToPlace, ToPass, Phase, ToStart, ToSettle, ToSave)
  BY DEF Work
<1>3. call \in [StepIds(steps) -> {"idle", "flight", "result", "raised", "cancelled"}]
  BY DEF IInv, Typed
<1>4. CASE NextLevel
  <2>1. DOMAIN remaining' \subseteq DOMAIN remaining /\ DOMAIN remaining' # DOMAIN remaining
    BY <1>4 DEF NextLevel, Pop, Ready
  <2>2. ToPlace' < ToPlace
    BY <1>1, <2>1, Fewer DEF ToPlace
  <2>3. ToPass' = ToPass + 1
    BY <1>4 DEF NextLevel, ToPass, IInv, Typed
  <2>4. UNCHANGED <<Phase, ToStart, ToSettle, ToSave>>
    BY <1>4 DEF NextLevel, Phase, ToStart, ToSettle, ToSave, Idle, Unsettled, Unsaved, StepIds
  <2> QED
    BY <1>2, <1>a, <1>b, <2>2, <2>3, <2>4, Smaller, Zenon
<1>5. CASE RaiseCycle \/ LevelsFound \/ Finish
  <2>1. Phase' < Phase
    BY <1>5 DEF RaiseCycle, LevelsFound, Finish, Phase
  <2>2. UNCHANGED <<ToPlace, ToPass, ToStart, ToSettle, ToSave>>
    BY <1>5 DEF RaiseCycle, LevelsFound, Finish, ToPlace, ToPass, ToStart, ToSettle, ToSave,
         Idle, Unsettled, Unsaved, StepIds
  <2>3. ToSettle' <= ToSettle
    BY <1>2, <2>2
  <2> QED
    BY <1>2, <1>a, <1>b, <2>1, <2>2, <2>3, Smaller, Zenon
<1>6. CASE StartAll \/ \E i \in StepIds(steps) : StartOne(i)
  <2>1. PICK i \in StepIds(steps) : call[i] = "idle" /\ call'[i] = "flight"
    <3>1. CASE StartAll
      <4>1. Level \subseteq StepIds(steps) /\ Level # {}
        BY <3>1 DEF StartAll, Calling, Level, Rows, IInv, Typed
      <4> QED
        BY <1>3, <3>1, <4>1 DEF StartAll
    <3>2. CASE \E i \in StepIds(steps) : StartOne(i)
      BY <1>3, <3>2 DEF StartOne
    <3> QED
      BY <1>6, <3>1, <3>2
  <2>2. \A j \in StepIds(steps) : call'[j] = call[j] \/ (call[j] = "idle" /\ call'[j] = "flight")
    BY <1>3, <1>6 DEF StartAll, StartOne
  <2>3. DOMAIN call' = StepIds(steps)
    BY <1>3, <1>6 DEF StartAll, StartOne
  <2>4. Idle' \subseteq Idle /\ Idle' # Idle /\ Unsettled' = Unsettled
    BY <1>3, <2>1, <2>2, <2>3 DEF Idle, Unsettled
  <2>5. ToStart' < ToStart /\ ToSettle' = ToSettle
    BY <1>1, <2>4, Fewer DEF ToStart, ToSettle
  <2>6. UNCHANGED <<steps, remaining, levels, at, tool_results, node>>
    BY <1>6 DEF StartAll, StartOne
  <2>7. UNCHANGED <<ToPlace, ToPass, Phase, ToSave>>
    BY <2>6 DEF ToPlace, ToPass, Phase, ToSave, Unsaved, StepIds
  <2> QED
    BY <1>2, <1>a, <1>b, <2>5, <2>7, Smaller, Zenon
<1>7. CASE \E i \in StepIds(steps) : Settle(i)
  <2>1. PICK i \in StepIds(steps) : Settle(i)
    BY <1>7
  <2>2. i \in Unsettled /\ i \notin Unsettled' /\ Unsettled' \subseteq Unsettled /\ Idle' = Idle
    BY <1>3, <2>1 DEF Settle, Unsettled, Idle
  <2>3. ToSettle' < ToSettle /\ ToStart' = ToStart
    BY <1>1, <2>2, Fewer DEF ToStart, ToSettle
  <2>4. UNCHANGED <<ToPlace, ToPass, ToSave>> /\ Phase' <= Phase
    BY <2>1 DEF Settle, ToPlace, ToPass, Phase, ToSave, Unsaved, StepIds
  <2> QED
    BY <1>2, <1>a, <1>b, <2>3, <2>4, Smaller, Zenon
<1>8. CASE \E i \in StepIds(steps) : Keep(i)
  <2>1. Unsaved' \subseteq Unsaved /\ Unsaved' # Unsaved
    BY <1>8 DEF Keep, Unsaved, StepIds
  <2>2. ToSave' < ToSave
    BY <1>1, <2>1, Fewer DEF ToSave
  <2>3. UNCHANGED <<ToPlace, ToPass, ToStart, ToSettle>> /\ Phase' <= Phase
    BY <1>8 DEF Keep, Calling, ToPlace, ToPass, Phase, ToStart, ToSettle, Idle, Unsettled
  <2> QED
    BY <1>2, <1>a, <1>b, <2>2, <2>3, Smaller, Zenon
<1>9. CASE NextOfLevels
  <2>1. ToPass = ToPass' + 1
    BY <1>9 DEF NextOfLevels, ToPass, IInv, Typed
  <2>2. UNCHANGED <<ToPlace, Phase, ToStart, ToSettle, ToSave>>
    BY <1>9 DEF NextOfLevels, ToPlace, Phase, ToStart, ToSettle, ToSave, Idle, Unsettled,
         Unsaved, StepIds
  <2> QED
    BY <1>2, <1>a, <1>b, <2>1, <2>2, Smaller, Zenon
<1>10. CASE Cancel
  <2>1. Unsettled' \subseteq Unsettled /\ Idle' = Idle
    BY <1>3, <1>10 DEF Cancel, Unsettled, Idle
  <2>2. ToSettle' <= ToSettle /\ ToStart' = ToStart
    BY <1>1, <2>1, Fewer DEF ToSettle, ToStart
  <2>3. UNCHANGED <<ToPlace, ToPass, ToSave>> /\ Phase' < Phase
    BY <1>10 DEF Cancel, ToPlace, ToPass, Phase, ToSave, Unsaved, StepIds
  <2> QED
    BY <1>2, <1>a, <1>b, <2>2, <2>3, Smaller, Zenon
<1> QED
  BY <1>4, <1>5, <1>6, <1>7, <1>8, <1>9, <1>10 DEF Next, Step

\* A step of the node leaves less to do.
Shrinking == [][Work' < Work]_vars

(* _topo_levels, _execute_level and the loop of _run: every iteration, call  *)
(* and save leaves less of a natural number to do, for every plan, so that   *)
(* none of them goes on for ever.                                            *)
THEOREM NodeGetsOn == Spec => [](Work \in Nat) /\ Shrinking
<1>1. Counted => Work \in Nat
  BY Smaller DEF Counted, Work
<1>2. IInv /\ Rows /\ Counted /\ Counted' /\ [Next]_vars => [Work' < Work]_vars
  BY WorkShrinks
<1> QED
  BY <1>1, <1>2, PartsCounted, TypedInvariance, PTL DEF Spec, Shrinking

(* execute at its start: a node has five times the ids of its plan, and two, *)
(* left to do, which with NodeGetsOn bounds the steps it can take.           *)
THEOREM WorkBound == Init => Work = 5 * Cardinality(StepIds(steps)) + 2
<1> SUFFICES ASSUME Init PROVE Work = 5 * Cardinality(StepIds(steps)) + 2
  OBVIOUS
<1>1. Cardinality(StepIds(steps)) \in Nat
  BY InitRows, FiniteIds, FS_CardinalityType
<1>2. DOMAIN remaining = StepIds(steps) /\ Unsaved = StepIds(steps)
  BY DEF Init, Unsaved
<1>3. Idle = StepIds(steps) /\ Unsettled = StepIds(steps)
  BY DEF Init, Idle, Unsettled
<1>4. ToPass = 0 /\ Phase = 2
  <2>1. Len(levels) = 0 /\ at = 1 /\ node = "levels"
    BY DEF Init
  <2>2. Phase = 2
    BY <2>1 DEF Phase
  <2>3. ToPass = 0
    BY <2>1 DEF ToPass
  <2> QED
    BY <2>2, <2>3
<1>5. /\ ToPlace = Cardinality(StepIds(steps)) /\ ToStart = Cardinality(StepIds(steps))
      /\ ToSettle = Cardinality(StepIds(steps)) /\ ToSave = Cardinality(StepIds(steps))
  BY <1>2, <1>3 DEF ToPlace, ToStart, ToSettle, ToSave
<1> QED
  BY <1>1, <1>4, <1>5 DEF Work, Sum

\* The calls not begun are those of the levels ahead, and of a parallel level all or none.
Apart   == \A m, n \in 1..Len(levels) : m # n => levels[m] \intersect levels[n] = {}
Ahead   == \A n \in (at + 1)..Len(levels) : \A i \in levels[n] : call[i] = "idle"
Started ==
    /\ node = "levels" => \A i \in DOMAIN call : call[i] = "idle"
    /\ node = "calls" =>
          /\ \A i \in DOMAIN call : call[i] \in {"idle", "flight", "result"}
          /\ parallel => \/ \A i \in Level : call[i] = "idle"
                         \/ \A i \in Level : call[i] # "idle"
Orderly == Apart /\ Ahead /\ Started

\* The guards of the steps of the node.
CanStep ==
    \/ node = "levels"
    \/ node = "calls" /\ Exhausted
    \/ Calling /\ parallel /\ \A i \in Level : call[i] = "idle"
    \/ Calling /\ ~parallel /\ InFlight = {} /\ \E i \in Level : call[i] = "idle"
    \/ InFlight # {}
    \/ Calling /\ Settled /\ Level \ tool_results # {}
    \/ Calling /\ Level \subseteq tool_results

\* A node that has not ended can take a step.
NeverStalls == ~Ended => CanStep

\* Every step keeps the calls in order.
LEMMA OrderlyInv ==
  ASSUME IInv, Rows, Orderly, [Next]_vars
  PROVE  Orderly'
<1> USE DEF Orderly
<1>1. /\ call \in [StepIds(steps) -> {"idle", "flight", "result", "raised", "cancelled"}]
      /\ levels \in Seq(SUBSET StepIds(steps)) /\ Len(levels) \in Nat
      /\ at \in Nat /\ at >= 1 /\ at <= Len(levels) + 1
  BY DEF IInv, Typed
<1>2. CASE NextLevel
  <2>1. /\ levels' = Append(levels, Ready) /\ node = "levels" /\ UNCHANGED <<at, call, node>>
    BY <1>2 DEF NextLevel
  <2>2. /\ Len(levels') = Len(levels) + 1 /\ levels'[Len(levels) + 1] = Ready
        /\ \A n \in 1..Len(levels) : levels'[n] = levels[n]
    BY <1>1, <2>1
  <2>3. Ready \subseteq StepIds(steps) /\ \A n \in 1..Len(levels) : Ready \intersect levels[n] = {}
    BY DEF Ready, IInv, Peeled, Placed
  <2>4. Apart'
    BY <1>1, <2>2, <2>3 DEF Apart
  <2>5. \A i \in DOMAIN call : call[i] = "idle"
    BY <2>1 DEF Started
  <2>6. Ahead'
    <3> SUFFICES ASSUME NEW n \in (at' + 1)..Len(levels'), NEW i \in levels'[n]
                 PROVE  call'[i] = "idle"
      BY DEF Ahead
    <3>1. n \in 1..Len(levels) \/ n = Len(levels) + 1
      BY <1>1, <2>1, <2>2
    <3>2. i \in StepIds(steps)
      BY <1>1, <2>2, <2>3, <3>1
    <3> QED
      BY <1>1, <2>1, <2>5, <3>2
  <2>7. Started'
    BY <2>1, <2>5 DEF Started
  <2> QED
    BY <2>4, <2>6, <2>7
<1>3. CASE RaiseCycle \/ LevelsFound \/ Finish \/ UNCHANGED vars
  <2>1. UNCHANGED <<levels, at, call, parallel>>
    BY <1>3 DEF RaiseCycle, LevelsFound, Finish, vars
  <2>2. Apart' /\ Ahead'
    BY <2>1 DEF Apart, Ahead
  <2>3. Level' = Level /\ (at <= Len(levels) => Level \subseteq DOMAIN call)
    BY <1>1, <2>1 DEF Level
  <2>4. Level \subseteq DOMAIN call
    BY <2>3 DEF Level
  <2>5. Started'
    BY <1>3, <2>1, <2>3, <2>4 DEF RaiseCycle, LevelsFound, Finish, vars, Started
  <2> QED
    BY <2>2, <2>5
<1>4. CASE StartAll \/ \E i \in StepIds(steps) : StartOne(i)
  <2>1. UNCHANGED <<levels, at, node, parallel>> /\ Calling /\ node = "calls"
    BY <1>4 DEF StartAll, StartOne, Calling
  <2>2. Apart' /\ Level' = Level /\ at \in 1..Len(levels) /\ Level = levels[at]
    BY <1>1, <2>1 DEF Apart, Level, Calling
  <2>3. \A i \in DOMAIN call : i \notin Level => call'[i] = call[i]
    BY <1>1, <1>4 DEF StartAll, StartOne
  <2>4. Ahead'
    <3> SUFFICES ASSUME NEW n \in (at + 1)..Len(levels), NEW i \in levels[n]
                 PROVE  call'[i] = "idle"
      BY <2>1 DEF Ahead
    <3>1. n \in 1..Len(levels) /\ n # at
      BY <1>1
    <3>2. i \in DOMAIN call /\ i \notin Level
      BY <1>1, <2>2, <3>1 DEF Apart
    <3> QED
      BY <2>3, <3>2 DEF Ahead
  <2>5. Started'
    <3>1. \A i \in DOMAIN call' : call'[i] \in {"idle", "flight", "result"}
      BY <1>1, <1>4, <2>1 DEF Started, StartAll, StartOne
    <3>2. parallel => \A i \in Level : call'[i] # "idle"
      BY <1>1, <1>4, <2>2 DEF StartAll, StartOne
    <3> QED
      BY <2>1, <2>2, <3>1, <3>2 DEF Started
  <2> QED
    BY <2>2, <2>4, <2>5
<1>5. CASE \E i \in StepIds(steps) : Settle(i)
  <2>1. PICK i \in StepIds(steps) : Settle(i)
    BY <1>5
  <2>2. /\ UNCHANGED <<levels, at, parallel>> /\ call[i] = "flight" /\ call'[i] # "idle"
        /\ DOMAIN call' = DOMAIN call /\ i \in DOMAIN call
        /\ \A j \in DOMAIN call : j # i => call'[j] = call[j]
        /\ node' = "calls" => node = "calls" /\ call'[i] = "result"
        /\ node' = "levels" => node = "levels"
    BY <1>1, <2>1 DEF Settle
  <2>3. Apart' /\ Level' = Level /\ \A j \in DOMAIN call : call'[j] = "idle" <=> call[j] = "idle"
    BY <2>2 DEF Apart, Level
  <2>4. /\ \A n \in 1..Len(levels) : levels[n] \subseteq DOMAIN call
        /\ Level \subseteq DOMAIN call
    BY <1>1 DEF Level
  <2>5. Ahead'
    <3> SUFFICES ASSUME NEW n \in (at + 1)..Len(levels), NEW j \in levels[n]
                 PROVE  call'[j] = "idle"
      BY <2>2 DEF Ahead
    <3>1. n \in 1..Len(levels)
      BY <1>1
    <3> QED
      BY <2>3, <2>4, <3>1 DEF Ahead
  <2>6. Started'
    <3>1. node' # "levels"
      BY <2>2 DEF Started
    <3>2. ASSUME node' = "calls"
          PROVE  \A j \in DOMAIN call' : call'[j] \in {"idle", "flight", "result"}
      BY <2>2, <3>2 DEF Started
    <3>3. ASSUME node' = "calls", parallel'
          PROVE  \/ \A j \in Level' : call'[j] = "idle"
                 \/ \A j \in Level' : call'[j] # "idle"
      BY <2>2, <2>3, <2>4, <3>3 DEF Started
    <3> QED
      BY <3>1, <3>2, <3>3 DEF Started
  <2> QED
    BY <2>3, <2>5, <2>6
<1>6. CASE \E i \in StepIds(steps) : Keep(i)
  <2>1. UNCHANGED <<levels, at, call, parallel>> /\ node = "calls" /\ node' # "levels"
    BY <1>6 DEF Keep, Calling
  <2>2. Apart' /\ Ahead' /\ Level' = Level
    BY <2>1 DEF Apart, Ahead, Level
  <2> QED
    BY <2>1, <2>2 DEF Started
<1>7. CASE NextOfLevels
  <2>1. /\ UNCHANGED <<levels, call, parallel, node>> /\ at' = at + 1
        /\ node = "calls" /\ at \in 1..Len(levels)
    BY <1>1, <1>7 DEF NextOfLevels, Calling
  <2>2. Apart'
    BY <2>1 DEF Apart
  <2>3. Ahead'
    BY <1>1, <2>1 DEF Ahead
  <2>4. \A i \in Level' : call'[i] = "idle"
    BY <1>1, <2>1 DEF Ahead, Level
  <2>5. Started'
    BY <2>1, <2>4 DEF Started
  <2> QED
    BY <2>2, <2>3, <2>5
<1>8. CASE Cancel
  <2>1. /\ UNCHANGED <<levels, at, parallel>> /\ node' = "cancelled"
        /\ \A i \in DOMAIN call : call[i] = "idle" => call'[i] = "idle"
    BY <1>8 DEF Cancel
  <2>2. Apart'
    BY <2>1 DEF Apart
  <2>3. Ahead'
    <3> SUFFICES ASSUME NEW n \in (at + 1)..Len(levels), NEW j \in levels[n]
                 PROVE  call'[j] = "idle"
      BY <2>1 DEF Ahead
    <3>1. j \in DOMAIN call
      BY <1>1
    <3> QED
      BY <2>1, <3>1 DEF Ahead
  <2>4. Started'
    BY <2>1 DEF Started
  <2> QED
    BY <2>2, <2>3, <2>4
<1> QED
  BY <1>2, <1>3, <1>4, <1>5, <1>6, <1>7, <1>8 DEF Next, Step

(* _execute_level and the loop of _run: a node that has not ended can go on; *)
(* no level waits for a call that will not be made.                          *)
THEOREM NodeIsNeverStuck == Spec => []NeverStalls
<1>1. Init => Orderly
  BY DEF Init, Orderly, Apart, Ahead, Started
<1>2. ASSUME IInv, Rows, Orderly PROVE NeverStalls
  <2> SUFFICES ASSUME node = "calls", ~Exhausted, InFlight = {} PROVE CanStep
    BY <1>2 DEF NeverStalls, Ended, CanStep, Rows
  <2>1. Calling /\ Level \subseteq DOMAIN call
    BY <1>2 DEF Exhausted, Calling, Level, IInv, Typed
  <2>2. CASE \E i \in Level : call[i] = "idle"
    BY <1>2, <2>1, <2>2 DEF Orderly, Started, CanStep
  <2>3. CASE \A i \in Level : call[i] # "idle"
    <3>1. Settled
      BY <1>2, <2>1, <2>3 DEF Orderly, Started, Settled, InFlight
    <3> QED
      BY <2>1, <3>1 DEF CanStep
  <2> QED
    BY <2>2, <2>3
<1>3. IInv /\ Rows /\ Orderly /\ [Next]_vars => Orderly'
  BY OrderlyInv
<1> QED
  BY <1>1, <1>2, <1>3, TypedInvariance, PTL DEF Spec
=============================================================================
