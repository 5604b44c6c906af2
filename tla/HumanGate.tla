----------------------------- MODULE HumanGate -----------------------------
(***************************************************************************)
(* What the engine promises about its tools, with no graph, checkpoint,    *)
(* token, cache or restart: plans are emitted one after the other, some of *)
(* them gated when they are; decisions approve plans; a tool is called for *)
(* a plan that is not gated or that was approved; and the world changes    *)
(* only by such a call, in the words of that call's plan.                  *)
(* WorkflowRun implements this (WorkflowRun!KeepsTheGate).                 *)
(***************************************************************************)
EXTENDS Naturals

CONSTANTS
    MaxPlans,   \* bound: plans emitted
    Calls       \* the steps of a plan

Plans == 1..MaxPlans

VARIABLES
    planned,    \* plans emitted so far
    gated,      \* those that need a human
    wording,    \* per plan: the first plan with the same steps
    approved,   \* plans a human approved
    called,     \* steps whose tool was called: plan, step
    effects     \* what the calls did: wording, step

vars == <<planned, gated, wording, approved, called, effects>>

Init ==
    /\ planned = 0 /\ gated = {} /\ wording = [p \in Plans |-> p]
    /\ approved = {} /\ called = {} /\ effects = {}

(* A plan is gated when it is emitted or never, whatever it repeats.         *)
Emit ==
    /\ planned < MaxPlans
    /\ planned' = planned + 1
    /\ gated' \in {gated, gated \union {planned'}}
    /\ \E w \in {planned'} \union {wording[q] : q \in 1..planned} :
          wording' = [wording EXCEPT ![planned'] = w]
    /\ UNCHANGED <<approved, called, effects>>

Approve(p) ==
    /\ approved' = approved \union {p}
    /\ UNCHANGED <<planned, gated, wording, called, effects>>

Open(p) == p \in gated => p \in approved

(* The call may fail, or succeed and take effect.                            *)
Call(p, c) ==
    /\ Open(p)
    /\ called' = called \union {<<p, c>>}
    /\ effects' \in {effects, effects \union {<<wording[p], c>>}}
    /\ UNCHANGED <<planned, gated, wording, approved>>

Next ==
    \/ Emit
    \/ \E p \in 1..planned : Approve(p)
    \/ \E p \in 1..planned, c \in Calls : Call(p, c)

Spec == Init /\ [][Next]_vars
=============================================================================
