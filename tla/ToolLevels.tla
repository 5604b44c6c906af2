------------------------------ MODULE ToolLevels ------------------------------
(***************************************************************************)
(* How execute runs the steps of a plan: _topo_levels peels the plan into  *)
(* levels, _execute_level runs one level in parallel or call by call, and  *)
(* the loop of _run appends and saves the results of a level before the    *)
(* next.  An exception (Redis, the database) or the run timeout ends the   *)
(* node in the middle.                                                     *)
(***************************************************************************)
EXTENDS Naturals, Sequences, FiniteSets

CONSTANTS
    Ids,        \* step ids
    Unknown,    \* an id no step has, named in depends_on
    MaxSteps    \* bound: steps of a plan

ASSUME IdsOK == Unknown \notin Ids /\ IsFiniteSet(Ids) /\ MaxSteps \in Nat

PlanSteps == [id: Ids, depends_on: SUBSET (Ids \union {Unknown})]

VARIABLES
    steps,      \* the plan: a sequence of steps; ids may repeat
    parallel,   \* strategy is "parallel" or "mixed"
    remaining,  \* _topo_levels: id -> dependencies not placed in a level yet
    levels,     \* _topo_levels: the levels found so far
    at,         \* the level being executed
    call,       \* id -> what became of its call
    tool_results, \* ids whose result was appended and saved
    node        \* "levels", "calls", or how the node ended
vars == <<steps, parallel, remaining, levels, at, call, tool_results, node>>

StepIds(plan) == {plan[n].id : n \in 1..Len(plan)}

(* by_id and remaining are dicts: of two steps with one id the last counts.  *)
Named(plan, i) ==
    CHOOSE n \in 1..Len(plan) : plan[n].id = i /\ \A m \in (n + 1)..Len(plan) : plan[m].id # i
Deps(i) == steps[Named(steps, i)].depends_on

TypeOK ==
    /\ steps \in Seq(PlanSteps) /\ Len(steps) <= MaxSteps
    /\ parallel \in BOOLEAN
    /\ \E left \in SUBSET Ids : remaining \in [left -> SUBSET (Ids \union {Unknown})]
    /\ levels \in Seq((SUBSET Ids) \ {{}}) /\ at \in 1..(Len(levels) + 1)
    /\ call \in [StepIds(steps) -> {"idle", "flight", "result", "raised", "cancelled"}]
    /\ tool_results \subseteq StepIds(steps)
    /\ node \in {"levels", "calls", "cycle", "failed", "cancelled", "done"}

Init ==
    /\ steps \in UNION {[1..n -> PlanSteps] : n \in 0..MaxSteps}
    /\ parallel \in BOOLEAN
    /\ remaining = [i \in StepIds(steps) |-> Deps(i)]
    /\ levels = <<>> /\ at = 1
    /\ call = [i \in StepIds(steps) |-> "idle"] /\ tool_results = {}
    /\ node = "levels"

-----------------------------------------------------------------------------
(* _topo_levels, one iteration of its loop per step.                         *)

\* Mutant of Ready: a dependency no step has is no obstacle.
ReadyIfUnknown == {i \in DOMAIN remaining : remaining[i] \intersect DOMAIN remaining = {}}
\* Mutant of Ready: steps that wait for one thing at most.
ReadyEarly == {i \in DOMAIN remaining : Cardinality(remaining[i]) <= 1}
Ready == {i \in DOMAIN remaining : remaining[i] = {}}

Pop(ready) == [i \in DOMAIN remaining \ ready |-> remaining[i] \ ready]

NextLevel ==
    /\ node = "levels" /\ DOMAIN remaining # {} /\ Ready # {}
    /\ levels' = Append(levels, Ready)
    /\ remaining' = Pop(Ready)
    /\ UNCHANGED <<steps, parallel, at, call, tool_results, node>>

\* Mutant of RaiseCycle: a cycle is taken to need two steps.
RaiseCycleOfTwo ==
    /\ node = "levels" /\ Cardinality(DOMAIN remaining) > 1 /\ Ready = {}
    /\ node' = "cycle"
    /\ UNCHANGED <<steps, parallel, remaining, levels, at, call, tool_results>>

RaiseCycle ==
    /\ node = "levels" /\ DOMAIN remaining # {} /\ Ready = {}
    /\ node' = "cycle"
    /\ UNCHANGED <<steps, parallel, remaining, levels, at, call, tool_results>>

LevelsFound ==
    /\ node = "levels" /\ DOMAIN remaining = {}
    /\ node' = "calls"
    /\ UNCHANGED <<steps, parallel, remaining, levels, at, call, tool_results>>

-----------------------------------------------------------------------------
(* _execute_level and the loop around it.                                    *)

Level == IF at <= Len(levels) THEN levels[at] ELSE {}
InFlight == {i \in DOMAIN call : call[i] = "flight"}
\* Mutant of Calling: the end of the levels is not looked at.
CallingOn == node = "calls"
Calling  == node = "calls" /\ at <= Len(levels)

\* gather makes a task of every call of the level at once.
StartAll ==
    /\ Calling /\ parallel /\ \A i \in Level : call[i] = "idle"
    /\ call' = [i \in DOMAIN call |-> IF i \in Level THEN "flight" ELSE call[i]]
    /\ UNCHANGED <<steps, parallel, remaining, levels, at, tool_results, node>>

\* Sequentially the next call starts when the one before has its result.
StartOne(i) ==
    /\ Calling /\ ~parallel /\ InFlight = {} /\ i \in Level /\ call[i] = "idle"
    /\ call' = [call EXCEPT ![i] = "flight"]
    /\ UNCHANGED <<steps, parallel, remaining, levels, at, tool_results, node>>

(* A call returns a ToolResult, good or bad, or lets an exception out.  The  *)
(* exception ends the node; gather leaves the other calls of the level       *)
(* running behind it.                                                        *)
Settle(i) ==
    /\ call[i] = "flight"
    /\ \/ call' = [call EXCEPT ![i] = "result"] /\ UNCHANGED node
       \/ /\ call' = [call EXCEPT ![i] = "raised"]
          /\ node' = IF node = "calls" THEN "failed" ELSE node
    /\ UNCHANGED <<steps, parallel, remaining, levels, at, tool_results>>

\* Mutant of Settled: the level goes on with the first result.
OneSettled == \E i \in Level : call[i] = "result"
Settled == \A i \in Level : call[i] = "result"

\* A result is appended and saved, or saving it raises.
Keep(i) ==
    /\ Calling /\ Settled /\ i \in Level \ tool_results
    /\ tool_results' = tool_results \union {i}
    /\ node' \in {"calls", "failed"}
    /\ UNCHANGED <<steps, parallel, remaining, levels, at, call>>

NextOfLevels ==
    /\ Calling /\ Level \subseteq tool_results
    /\ at' = at + 1
    /\ UNCHANGED <<steps, parallel, remaining, levels, call, tool_results, node>>

\* Mutant of Exhausted: the last level is left out.
ExhaustedEarly == at >= Len(levels)
Exhausted == at > Len(levels)

Finish ==
    /\ node = "calls" /\ Exhausted
    /\ node' = "done"
    /\ UNCHANGED <<steps, parallel, remaining, levels, at, call, tool_results>>

\* wait_for cancels the run: gather, or the awaited call, passes it on.
Cancel ==
    /\ node = "calls"
    /\ node' = "cancelled"
    /\ call' = [i \in DOMAIN call |-> IF call[i] = "flight" THEN "cancelled" ELSE call[i]]
    /\ UNCHANGED <<steps, parallel, remaining, levels, at, tool_results>>

Ended == node \in {"cycle", "failed", "cancelled", "done"}

Step ==
    \/ NextLevel \/ RaiseCycle \/ LevelsFound
    \/ StartAll \/ NextOfLevels \/ Finish
    \/ \E i \in StepIds(steps) : StartOne(i) \/ Settle(i) \/ Keep(i)
Next == Step \/ Cancel
Spec == Init /\ [][Next]_vars
\* Tool calls return: the client of a call has its own timeouts.
FairSpec == Spec /\ WF_vars(Step)

-----------------------------------------------------------------------------
(* What cannot be ordered: the largest set of steps each of which waits for  *)
(* one of the set or for a step the plan does not have.                      *)
Waits(i, X) == \E d \in Deps(i) : d \in X \/ d \notin StepIds(steps)
Stuck == UNION {X \in SUBSET StepIds(steps) : \A i \in X : Waits(i, X)}

(* "cycle_in_plan_steps" is raised for exactly the plans that cannot be      *)
(* ordered: cycles, and dependencies no step has.                            *)
CycleIffStuck ==
    /\ node = "cycle" => Stuck # {}
    /\ node \in {"calls", "done"} => Stuck = {}

(* PlanStep.depends_on: "IDs of steps that must complete before this one".   *)
(* No call starts before the results of all it depends on are saved.         *)
DependenciesFirst ==
    [][\A i \in DOMAIN call :
          call[i] = "idle" /\ call'[i] = "flight" => Deps(i) \subseteq tool_results]_vars

(* A node that ends without an error has a saved result of every step id.    *)
DoneIsComplete == node = "done" => tool_results = StepIds(steps)

(* Calls of two levels are never in flight together, and sequential plans    *)
(* have one call in flight: whatever raised, was cancelled or was left       *)
(* running behind a failed gather.                                           *)
OneLevelInFlight ==
    /\ InFlight # {} => \E n \in 1..Len(levels) : InFlight \subseteq levels[n]
    /\ ~parallel => Cardinality(InFlight) <= 1

(* The loop of _topo_levels ends for every plan, and so does the node.       *)
NodeEnds == <>Ended
===============================================================================
