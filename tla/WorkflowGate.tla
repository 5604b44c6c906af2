---------------------------- MODULE WorkflowGate ----------------------------
(***************************************************************************)
(* No tool of a gated plan is called unless that very plan was approved.   *)
(*                                                                         *)
(* The argument: an invocation's mark plan_approved is only as good as the *)
(* plan it stands next to.  Fit says, of a place in the graph and a state, *)
(* that the mark is down until a plan is there, that a mark that is up     *)
(* belongs to a plan somebody approved, and that past the gate a gated     *)
(* plan is an approved one.  It is kept of every invocation AND of the     *)
(* checkpoint, because a decision handler starts from whatever checkpoint  *)
(* it finds, however many other handlers run on it.                        *)
(***************************************************************************)
EXTENDS WorkflowTypes

\* Places before a plan is there; places where a plan is executed; places past its gate.
Unapproved == {"start", "intake", "retrieve", "plan"}
Pausing == {"mint", "show", "ask"}
Executing(here, k) ==
    here \in {"execute", "tools"} \union Calls \/ (here \in Pausing /\ k # "output")
PastGate(here, k) == here \in {"tools"} \union Calls \/ (here \in Pausing /\ k = "clash")

(* State s fits place here of kind k, for P plans, of which those in G are   *)
(* gated and those in A approved.                                            *)
Fit(here, k, s, P, G, A) ==
    /\ here \in Unapproved => ~s.plan_approved
    /\ Executing(here, k) => s.plan \in 1..P
    /\ s.plan_approved => s.plan \in A
    /\ PastGate(here, k) /\ s.plan \in G => s.plan \in A

\* Every invocation fits where it is, and so does the checkpoint.
InvocationsFit ==
    \A i \in Invocations : Fit(pc[i], kind[i], st[i], planned, gated, approvedFor)
ThreadFits  == Fit(thread.next, "none", thread.st, planned, gated, approvedFor)
\* The gates and calls are of emitted plans, and the calls of gated plans approved.
CallsFit    ==
    /\ gated \subseteq 1..planned
    /\ \A k \in called : k[1] \in 1..planned
    /\ \A k \in called : k[1] \in gated => k[1] \in approvedFor
\* A handler that has started has its decision; a call that returned has its result.
Decided  == \A i \in Submitters : pc[i] # "idle" => tok[i] \in Tokens /\ dec[i] \in Decisions
Answered == \A i \in Invocations, c \in Calls : pc[i] = c => st[i].tool_results[c] # "none"

\* The inductive invariant: the control facts, and the types they are about.
Control == Decided /\ Answered /\ InvocationsFit /\ ThreadFits /\ CallsFit
IInv == LocalType /\ SharedType /\ Control

\* The inductive invariant holds initially.
LEMMA InitInv == Init => IInv
<1> SUFFICES ASSUME Init PROVE IInv
  OBVIOUS
<1>1. LocalType /\ SharedType
  BY InitType, TypeParts
<1>2. Decided /\ Answered
  BY ConstantsOK DEF Init, Decided, Answered, Calls, Invocations
<1>3. InvocationsFit
  BY DEF Init, InvocationsFit, Fit, Executing, PastGate, Pausing, Initial, Unapproved, Calls
<1>4. ThreadFits
  BY DEF Init, ThreadFits, Gone, Fit, Executing, PastGate, Pausing, Initial, Unapproved, Calls
<1>5. CallsFit
  BY DEF Init, CallsFit
<1> QED
  BY <1>1, <1>2, <1>3, <1>4, <1>5 DEF IInv, Control

(* Approvals and plans only accumulate, and a gate is decided when its plan  *)
(* is emitted: what fitted before still fits.                                *)
Grows ==
    /\ planned \in Nat /\ planned' \in Nat /\ planned <= planned'
    /\ approvedFor \subseteq approvedFor'
    /\ \A p \in 1..planned : p \in gated' => p \in gated

\* Who is past the gate is executing a plan.
LEMMA PastGateExecutes ==
  ASSUME NEW here, NEW k, PastGate(here, k) PROVE Executing(here, k)
  BY DEF PastGate, Executing, Pausing

\* What fitted before fits after approvals and plans have been added.
LEMMA FitMonotone ==
  ASSUME Grows, NEW here, NEW k, NEW s \in AgentState,
         Fit(here, k, s, planned, gated, approvedFor)
  PROVE  Fit(here, k, s, planned', gated', approvedFor')
<1>1. \A p \in 1..planned : p \in 1..planned'
  BY DEF Grows
<1>2. PastGate(here, k) => s.plan \in 1..planned
  BY PastGateExecutes DEF Fit
<1> QED
  BY <1>1, <1>2 DEF Fit, Grows

(* One invocation moves and the checkpoint with it or not at all.            *)
Alone(i) == \A j \in Invocations \ {i} : pc'[j] = pc[j] /\ st'[j] = st[j] /\ kind'[j] = kind[j]

\* When one invocation moves and it and the checkpoint fit, all do.
LEMMA FitsMove ==
  ASSUME LocalType, InvocationsFit, ThreadFits, Grows, NEW i \in Invocations, Alone(i),
         Fit(pc'[i], kind'[i], st'[i], planned', gated', approvedFor'),
         \/ Fit(thread'.next, "none", thread'.st, planned', gated', approvedFor')
         \/ thread'.next = thread.next /\ thread'.st = thread.st
  PROVE  InvocationsFit' /\ ThreadFits'
<1>1. ASSUME NEW j \in Invocations \ {i}
      PROVE  Fit(pc'[j], kind'[j], st'[j], planned', gated', approvedFor')
  BY FitMonotone DEF Alone, InvocationsFit, LocalType
<1>2. InvocationsFit'
  BY <1>1 DEF InvocationsFit
<1>3. thread.st \in AgentState
  BY DEF LocalType, Threads
<1>4. ThreadFits'
  BY <1>3, FitMonotone DEF ThreadFits
<1> QED
  BY <1>2, <1>4

\* A step that emits and approves nothing is a case of Grows.
LEMMA QuietGrows ==
  ASSUME SharedType, CallsFit, UNCHANGED <<plans, approvedFor>> PROVE Grows
  BY Bounds DEF SharedType, plans, Grows, CallsFit

\* Nor does it disturb what is known of the calls.
LEMMA QuietCalls ==
  ASSUME CallsFit, UNCHANGED <<plans, approvedFor, called>> PROVE CallsFit'
  BY DEF CallsFit, plans

\* Both together.
LEMMA QuietFits ==
  ASSUME SharedType, CallsFit, UNCHANGED <<plans, approvedFor, called>>
  PROVE  Grows /\ CallsFit'
  BY QuietGrows, QuietCalls

(* A step of an invocation that has started keeps the control invariant if   *)
(* what it does itself fits.                                                 *)
LEMMA Moved ==
  ASSUME IInv, NEW i \in Invocations, Alone(i), pc[i] # "idle", UNCHANGED <<tok, dec>>,
         Grows, CallsFit',
         Fit(pc'[i], kind'[i], st'[i], planned', gated', approvedFor'),
         \/ Fit(thread'.next, "none", thread'.st, planned', gated', approvedFor')
         \/ thread'.next = thread.next /\ thread'.st = thread.st,
         \A c \in Calls : pc'[i] = c => st'[i].tool_results[c] # "none"
  PROVE  Control'
<1>1. InvocationsFit' /\ ThreadFits'
  BY FitsMove DEF IInv, Control
<1>2. Answered'
  BY DEF Answered, Alone, IInv, Control
<1>3. Decided'
  BY DEF Decided, Alone, Invocations, IInv, Control
<1> QED
  BY <1>1, <1>2, <1>3 DEF Control

\* A node that returns a state that fits its next node.
LEMMA Committed ==
  ASSUME IInv, NEW i \in Invocations, NEW s, NEW next \in Nodes \union {"end"},
         Commit(i, s, next), pc[i] # "idle", UNCHANGED <<tok, dec>>, Grows, CallsFit',
         Fit(next, "none", s, planned', gated', approvedFor')
  PROVE  Control'
<1>1. Alone(i) /\ pc'[i] = next /\ st'[i] = s /\ kind'[i] = "none"
  BY DEF Commit, Stay, Alone, IInv, LocalType
<1>2. thread'.next = next /\ thread'.st = s
  BY DEF Commit
<1>3. \A c \in Calls : pc'[i] # c
  BY <1>1 DEF Calls, Nodes
<1> QED
  BY <1>1, <1>2, <1>3, Moved

(* Inside a node, with the checkpoint as it was.                             *)
LEMMA Worked ==
  ASSUME IInv, NEW i \in Invocations, NEW s, NEW here, Work(i, s, here),
         \A j \in Invocations \ {i} : kind'[j] = kind[j],
         pc[i] # "idle", UNCHANGED <<tok, dec>>, Grows, CallsFit',
         Fit(here, kind'[i], s, planned', gated', approvedFor'),
         \A c \in Calls : here = c => s.tool_results[c] # "none"
  PROVE  Control'
<1>1. Alone(i) /\ pc'[i] = here /\ st'[i] = s
  BY DEF Work, Stay, Alone, IInv, LocalType
<1>2. UNCHANGED thread
  BY DEF Work
<1> QED
  BY <1>1, <1>2, Moved

\* At the end of the graph only the approval mark has to fit.
LEMMA ToEnd ==
  ASSUME NEW s, NEW P, NEW G, NEW A, s.plan_approved => s.plan \in A
  PROVE  Fit("end", "none", s, P, G, A)
  BY DEF Fit, Executing, PastGate, Pausing, Unapproved, Calls

\* A node that records its exception goes to the end.
LEMMA FailControl ==
  ASSUME IInv, NEW i \in Invocations, Fail(i), pc[i] # "idle",
         UNCHANGED <<request, called, plans, approvedFor>>
  PROVE  Control'
<1>1. Fit(pc[i], kind[i], st[i], planned, gated, approvedFor) /\ st[i] \in AgentState
  BY DEF IInv, Control, InvocationsFit, LocalType
<1>2. Fit("end", "none", Failing(st[i], "failed"), planned', gated', approvedFor')
  BY <1>1, ToEnd DEF Fit, Failing, AgentState, plans
<1>3. Grows /\ CallsFit'
  BY QuietFits DEF IInv, Control
<1> QED
  BY <1>2, <1>3, Committed DEF Fail, request

\* intake and retrieve keep the plan unapproved.
LEMMA StageControl ==
  ASSUME IInv, NEW i \in Invocations, NEW node \in {"intake", "retrieve"},
         NEW next \in {"retrieve", "plan"}, Stage(i, node, next)
  PROVE  Control'
<1>1. PICK e \in {"none", "failed"} :
         Commit(i, Failing(st[i], e), Onward(Failing(st[i], e), next))
  BY DEF Stage
<1>2. Fit(node, kind[i], st[i], planned, gated, approvedFor) /\ st[i] \in AgentState
  BY DEF IInv, Control, InvocationsFit, LocalType, Stage
<1>3. Fit(Onward(Failing(st[i], e), next), "none", Failing(st[i], e),
          planned', gated', approvedFor')
  BY <1>2 DEF Fit, Failing, AgentState, Unapproved, Executing, PastGate, Pausing, Calls, Onward
<1>4. Grows /\ CallsFit'
  BY QuietFits DEF IInv, Control, Stage, tools, ghosts
<1>5. Onward(Failing(st[i], e), next) \in Nodes \union {"end"}
  BY OnwardType DEF Nodes
<1>6. pc[i] # "idle"
  BY DEF Stage
<1> QED
  BY <1>1, <1>3, <1>4, <1>5, <1>6, Committed DEF Stage, request

\* The run starts with an unapproved plan.
LEMMA StartRunControl == ASSUME IInv, StartRun PROVE Control'
<1>1. Runner \in Invocations /\ "intake" \in Nodes
  BY DEF Invocations, Nodes
<1>2. Fit("start", kind[Runner], st[Runner], planned, gated, approvedFor)
  BY <1>1 DEF IInv, Control, InvocationsFit, StartRun
<1>3. Fit("intake", "none", st[Runner], planned', gated', approvedFor')
  BY <1>2 DEF Fit, Unapproved, Executing, PastGate, Pausing, Calls, StartRun, plans, ghosts
<1>4. Grows /\ CallsFit'
  BY QuietFits DEF IInv, Control, StartRun, tools, ghosts
<1> QED
  BY <1>1, <1>3, <1>4, Committed DEF StartRun, request

\* The planner emits a plan nobody has approved, for a state that claims no approval.
LEMMA PlanControl == ASSUME IInv, NEW i \in Invocations, Plan(i) PROVE Control'
<1>1. Fit("plan", kind[i], st[i], planned, gated, approvedFor) /\ st[i] \in AgentState
  BY DEF IInv, Control, InvocationsFit, LocalType, Plan
<1>2. CASE Emit(i)
  <2> DEFINE s == [st[i] EXCEPT !.plan = planned', !.slot = 0, !.verdict = "none"]
  <2>1. planned \in Nat /\ planned' = planned + 1 /\ UNCHANGED approvedFor
    BY <1>2, Bounds DEF Emit, Plan, IInv, SharedType, ghosts
  <2>2. s.plan = planned' /\ ~s.plan_approved
    BY <1>1 DEF AgentState, Fit, Unapproved
  <2> HIDE DEF s
  <2>3. gated \subseteq 1..planned /\ gated' \subseteq gated \union {planned'}
    BY <1>2 DEF Emit, IInv, Control, CallsFit
  <2>4. Grows
    BY <2>1, <2>3 DEF Grows
  <2>5. CallsFit'
    BY <2>1, <2>3 DEF Plan, tools, CallsFit, IInv, Control
  <2>6. Fit("execute", "none", s, planned', gated', approvedFor')
    BY <2>1, <2>2 DEF Fit, Unapproved, Executing, PastGate, Pausing, Calls
  <2> QED
    BY <1>2, <2>4, <2>5, <2>6, Committed DEF Plan, Emit, request, Nodes, s
<1>3. CASE Fail(i) /\ UNCHANGED plans
  BY <1>3, FailControl DEF Plan, tools, ghosts
<1> QED
  BY <1>2, <1>3 DEF Plan

\* The invariant, read off for one invocation.
LEMMA FitHere ==
  ASSUME IInv, NEW i \in Invocations
  PROVE  st[i] \in AgentState /\ Fit(pc[i], kind[i], st[i], planned, gated, approvedFor)
  BY DEF IInv, Control, InvocationsFit, LocalType

\* A pause keeps the plan and its approval mark.
LEMMA PauseControl ==
  ASSUME IInv, NEW i \in Invocations, NEW k \in {"plan", "clash", "output"}, NEW s,
         NEW card, Pause(i, k, s, card), s \in AgentState, pc[i] # "idle",
         Fit("mint", k, s, planned, gated, approvedFor)
  PROVE  Control'
<1> DEFINE paused == [s EXCEPT !.requires_approval = TRUE,
                               !.draft = IF s.draft = "none" THEN card ELSE s.draft]
<1>1. paused.plan = s.plan /\ paused.plan_approved = s.plan_approved
  BY DEF AgentState
<1>2. Work(i, paused, "mint") /\ kind' = [kind EXCEPT ![i] = k]
  BY DEF Pause
<1> HIDE DEF paused
<1>3. kind'[i] = k /\ \A j \in Invocations \ {i} : kind'[j] = kind[j]
  BY <1>2 DEF IInv, LocalType
<1>4. Fit("mint", kind'[i], paused, planned', gated', approvedFor')
  BY <1>1, <1>3 DEF Fit, Pause, plans, ghosts
<1>5. Grows /\ CallsFit'
  BY QuietFits DEF IInv, Control, Pause, tools, ghosts
<1> QED
  BY <1>2, <1>3, <1>4, <1>5, Worked DEF Pause, request, Calls

\* The gate: who goes on to the tools has an ungated or an approved plan.
LEMMA ExecuteControl == ASSUME IInv, NEW i \in Invocations, Execute(i) PROVE Control'
<1>1. st[i] \in AgentState /\ Fit("execute", kind[i], st[i], planned, gated, approvedFor)
  BY FitHere DEF Execute
<1>2. CASE Pause(i, "plan", st[i], "card")
  <2>1. Fit("mint", "plan", st[i], planned, gated, approvedFor)
    BY <1>1 DEF Fit, Executing, PastGate, Pausing, Unapproved, Calls
  <2> QED
    BY <1>1, <1>2, <2>1, PauseControl DEF Execute
<1>3. CASE /\ ~NeedsApproval(st[i])
           /\ Work(i, st[i], "tools")
           /\ UNCHANGED <<kind, request, tools, plans, ghosts>>
  <2>1. Fit("tools", kind'[i], st[i], planned', gated', approvedFor')
    BY <1>1, <1>3 DEF Fit, Executing, Pausing, Unapproved, Calls, NeedsApproval, plans, ghosts
  <2>2. Grows /\ CallsFit'
    BY <1>3, QuietFits DEF IInv, Control, tools, ghosts
  <2> QED
    BY <1>3, <2>1, <2>2, Worked DEF Execute, request, Calls
<1> QED
  BY <1>2, <1>3 DEF Execute

\* Minting the token and showing it keep the plan and its approval mark.
LEMMA MintControl == ASSUME IInv, NEW i \in Invocations, Mint(i) \/ Show(i) PROVE Control'
<1>1. st[i] \in AgentState /\ Fit(pc[i], kind[i], st[i], planned, gated, approvedFor)
  BY FitHere
<1>2. UNCHANGED <<kind, tok, dec, called, plans, approvedFor>>
  BY DEF Mint, Show, request, tools, ghosts
<1>3. Grows /\ CallsFit'
  BY <1>2, QuietFits DEF IInv, Control
<1>4. ASSUME NEW s, NEW here \in {"show", "ask"}, Work(i, s, here), pc[i] \in {"mint", "show"},
             s.plan = st[i].plan, s.plan_approved = st[i].plan_approved
      PROVE  Control'
  <2>1. Fit(here, kind'[i], s, planned', gated', approvedFor')
    BY <1>1, <1>2, <1>4 DEF Fit, Executing, PastGate, Pausing, Unapproved, Calls, plans
  <2> QED
    BY <1>2, <1>3, <1>4, <2>1, Worked DEF Calls
<1>5. CASE Mint(i)
  <2>1. PICK t \in Tokens : Work(i, [st[i] EXCEPT !.approval_token = t], "show")
    BY <1>5 DEF Mint
  <2>2. /\ [st[i] EXCEPT !.approval_token = t].plan = st[i].plan
        /\ [st[i] EXCEPT !.approval_token = t].plan_approved = st[i].plan_approved
    BY <1>1 DEF AgentState
  <2> QED
    BY <1>4, <1>5, <2>1, <2>2 DEF Mint
<1>6. CASE Show(i)
  BY <1>4, <1>6 DEF Show
<1> QED
  BY <1>5, <1>6

\* The answer: only an approval of this very plan sets the mark, and it is recorded.
LEMMA AskControl == ASSUME IInv, NEW i \in Invocations, Ask(i) PROVE Control'
<1> DEFINE s == st[i]
<1>1. \/ ~HasAnswer(i) /\ Interrupted(i)
      \/ HasAnswer(i) /\ Refuses(Answer(i)) /\ Reject(i, s)
      \/ kind[i] = "plan" /\ Approve(i, s)
      \/ kind[i] = "clash" /\ Rebook(i, s)
      \/ kind[i] = "output" /\ Release(i, s)
  BY DEF Ask
<1>2. s \in AgentState
  BY FitHere
<1>4. Fit("ask", kind[i], s, planned, gated, approvedFor) /\ pc[i] # "idle" /\ s = st[i]
  BY FitHere DEF Ask
<1> HIDE DEF s
<1>5. UNCHANGED <<tok, dec, called, plans>>
  BY DEF Ask, request, tools
<1>6. CASE Interrupted(i)
  <2>1. Alone(i) /\ pc'[i] = "interrupted" /\ st'[i] = s
    BY <1>4, <1>6 DEF Interrupted, Stay, Alone, IInv, LocalType
  <2>2. Fit(pc'[i], kind'[i], st'[i], planned', gated', approvedFor')
    BY <1>4, <1>5, <1>6, <2>1
       DEF Fit, Executing, PastGate, Pausing, Unapproved, Calls, plans, Interrupted
  <2>3. thread'.next = thread.next /\ thread'.st = thread.st
    BY <1>6 DEF Interrupted, IInv, LocalType, Threads
  <2>4. Grows /\ CallsFit'
    BY <1>5, <1>6, QuietFits DEF IInv, Control, Interrupted
  <2> QED
    BY <1>4, <1>5, <2>1, <2>2, <2>3, <2>4, Moved DEF Calls
<1>7. CASE Reject(i, s)
  <2>1. Fit("end", "none", Rejected(s), planned', gated', approvedFor')
    BY <1>2, <1>4, <1>5, <1>7, ToEnd DEF Fit, Rejected, Reject, AgentState, plans
  <2>2. Grows /\ CallsFit'
    BY <1>5, <1>7, QuietFits DEF IInv, Control, Reject
  <2> QED
    BY <1>4, <1>5, <1>7, <2>1, <2>2, Committed DEF Reject
<1>8. ASSUME NEW r, NEW here \in {"tools", "score"}, Proceed(i, r, here), Grows, CallsFit',
             Fit(here, "none", r, planned', gated', approvedFor')
      PROVE  Control'
  <2>1. /\ Alone(i) /\ pc'[i] = here /\ st'[i] = r /\ kind'[i] = "none"
        /\ UNCHANGED thread
    BY <1>8 DEF Proceed, Stay, Alone, IInv, LocalType
  <2>2. \A c \in Calls : pc'[i] # c
    BY <2>1 DEF Calls
  <2> QED
    BY <1>4, <1>5, <1>8, <2>1, <2>2, Moved
<1>9. CASE kind[i] = "plan" /\ Approve(i, s)
  <2> DEFINE r == PlanAnswered(s, Answer(i))
  <2>1. r.plan = s.plan /\ Proceed(i, r, "tools") /\ approvedFor' = approvedFor \union {s.plan}
    BY <1>2, <1>9 DEF PlanAnswered, AgentState, Approve
  <2> HIDE DEF r
  <2>2. s.plan \in 1..planned
    BY <1>4, <1>9 DEF Fit, Executing, Pausing
  <2>3. Grows
    BY <1>5, <2>1, Bounds DEF Grows, plans, IInv, SharedType
  <2>4. CallsFit'
    BY <1>5, <2>1 DEF CallsFit, plans, IInv, Control
  <2>5. Fit("tools", "none", r, planned', gated', approvedFor')
    BY <1>5, <2>1, <2>2 DEF Fit, Unapproved, Calls, plans
  <2> QED
    BY <1>8, <2>1, <2>3, <2>4, <2>5
<1>10. CASE kind[i] = "clash" /\ Rebook(i, s)
  <2> DEFINE r == Rebooked(s)
  <2>1. /\ r.plan = s.plan /\ r.plan_approved = s.plan_approved
        /\ Proceed(i, r, "tools") /\ UNCHANGED approvedFor
    BY <1>2, <1>10 DEF Rebooked, AgentState, Rebook
  <2> HIDE DEF r
  <2>2. Fit("tools", "none", r, planned', gated', approvedFor')
    BY <1>4, <1>5, <1>10, <2>1 DEF Fit, Executing, PastGate, Pausing, Unapproved, Calls, plans
  <2> QED
    BY <1>5, <1>8, <2>1, <2>2, QuietFits DEF IInv, Control
<1>11. CASE kind[i] = "output" /\ Release(i, s)
  <2> DEFINE r == OutputAnswered(s, Answer(i))
  <2>1. /\ r.plan = s.plan /\ r.plan_approved = s.plan_approved
        /\ Proceed(i, r, "score") /\ UNCHANGED approvedFor
    BY <1>2, <1>11 DEF OutputAnswered, AgentState, Release
  <2> HIDE DEF r
  <2>2. Fit("score", "none", r, planned', gated', approvedFor')
    BY <1>4, <1>5, <2>1 DEF Fit, Executing, PastGate, Pausing, Unapproved, Calls, plans
  <2> QED
    BY <1>5, <1>8, <2>1, <2>2, QuietFits DEF IInv, Control
<1> QED
  BY <1>1, <1>6, <1>7, <1>9, <1>10, <1>11 DEF s

\* A tool call reaches the server only past the gate.
LEMMA CallToolControl == ASSUME IInv, NEW i \in Invocations, CallTool(i) PROVE Control'
<1>1. st[i] \in AgentState /\ Fit("tools", kind[i], st[i], planned, gated, approvedFor)
      /\ pc[i] # "idle"
  BY FitHere DEF CallTool
<1>2. UNCHANGED <<kind, request, plans, ghosts>>
  BY DEF CallTool
<1>3. PICK c \in Calls, r \in Outcomes, here \in {"tools"} \union Calls :
        /\ here = "tools" \/ here = c
        /\ Work(i, HasResult(st[i], c, r), here)
        /\ called' \subseteq called \union {<<st[i].plan, c, Slot(st[i], c)>>}
  <2>1. PICK c \in Steps(st[i]) :
        \/ \E h \in Cached(Key(st[i], c)) :
               Work(i, HasResult(st[i], c, h.result), "tools") /\ UNCHANGED tools
        \/ Work(i, HasResult(st[i], c, "failed"), "tools") /\ UNCHANGED tools
        \/ /\ \E r \in Results(st[i], c) : Work(i, HasResult(st[i], c, r), c)
           /\ called' = called \union {<<st[i].plan, c, Slot(st[i], c)>>}
    BY DEF CallTool
  <2>2. c \in Calls
    BY DEF Steps, Calls
  <2>3. ASSUME NEW h \in Cached(Key(st[i], c)) PROVE h.result \in Outcomes
    BY <2>3 DEF Cached, IInv, SharedType
  <2> QED
    BY <2>1, <2>2, <2>3 DEF tools, Results, Outcomes
<1> DEFINE s == HasResult(st[i], c, r)
<1>4. s.plan = st[i].plan /\ s.plan_approved = st[i].plan_approved /\ s.tool_results[c] # "none"
  BY <1>1 DEF HasResult, AgentState, Outcomes
<1> HIDE DEF s
<1>5. st[i].plan \in 1..planned /\ (st[i].plan \in gated => st[i].plan \in approvedFor)
  BY <1>1 DEF Fit, Executing, PastGate, Pausing
<1>6. Fit(here, kind'[i], s, planned', gated', approvedFor')
  BY <1>1, <1>2, <1>4, <1>5 DEF Fit, Unapproved, Calls, plans, ghosts
<1>7. Grows
  BY <1>2, QuietGrows DEF IInv, Control, ghosts
<1>8. CallsFit'
  BY <1>2, <1>3, <1>5 DEF CallsFit, IInv, Control, plans, ghosts
<1>9. \A d \in Calls : here = d => s.tool_results[d] # "none"
  BY <1>3, <1>4 DEF Calls
<1> QED
  BY <1>1, <1>2, <1>3, <1>6, <1>7, <1>8, <1>9, Worked DEF request, s

\* Storing a result keeps the invocation past the gate.
LEMMA CacheResultControl == ASSUME IInv, NEW i \in Invocations, CacheResult(i) PROVE Control'
<1>1. /\ st[i] \in AgentState /\ Fit(pc[i], kind[i], st[i], planned, gated, approvedFor)
      /\ pc[i] \in Calls /\ pc[i] # "idle"
  BY FitHere DEF CacheResult, Calls
<1>2. Fit("tools", kind'[i], st[i], planned', gated', approvedFor')
  BY <1>1 DEF Fit, Executing, PastGate, Pausing, Unapproved, Calls, plans, ghosts, CacheResult
<1>3. Grows /\ CallsFit'
  BY QuietFits DEF IInv, Control, CacheResult, ghosts
<1> QED
  BY <1>1, <1>2, <1>3, Worked DEF CacheResult, request, Calls

\* A clash pauses past the gate; anything else leaves the node.
LEMMA FinishToolsControl == ASSUME IInv, NEW i \in Invocations, FinishTools(i) PROVE Control'
<1>1. /\ st[i] \in AgentState /\ Fit("tools", kind[i], st[i], planned, gated, approvedFor)
      /\ pc[i] # "idle"
  BY FitHere DEF FinishTools
<1>2. CASE Pause(i, "clash", st[i], "clash_card")
  <2>1. Fit("mint", "clash", st[i], planned, gated, approvedFor)
    BY <1>1 DEF Fit, Executing, PastGate, Pausing, Unapproved
  <2> QED
    BY <1>1, <1>2, <2>1, PauseControl
<1>3. ASSUME NEW s, s.plan_approved = st[i].plan_approved, s.plan = st[i].plan,
             Commit(i, s, "compose"), UNCHANGED <<request, tools, plans, ghosts>>
      PROVE  Control'
  <2>1. Fit("compose", "none", s, planned', gated', approvedFor')
    BY <1>1, <1>3 DEF Fit, Executing, PastGate, Pausing, Unapproved, Calls, plans, ghosts
  <2>2. Grows /\ CallsFit'
    BY <1>3, QuietFits DEF IInv, Control, tools, ghosts
  <2> QED
    BY <1>1, <1>3, <2>1, <2>2, Committed DEF request, Nodes
<1>4. [st[i] EXCEPT !.draft = "no_slot"].plan = st[i].plan
      /\ [st[i] EXCEPT !.draft = "no_slot"].plan_approved = st[i].plan_approved
      /\ DropCard(st[i]).plan = st[i].plan /\ DropCard(st[i]).plan_approved = st[i].plan_approved
  BY <1>1 DEF DropCard, AgentState
<1> QED
  BY <1>2, <1>3, <1>4 DEF FinishTools

\* A failure in execute ends the run.
LEMMA ExecuteFailsControl == ASSUME IInv, NEW i \in Invocations, ExecuteFails(i) PROVE Control'
  BY FailControl DEF ExecuteFails, PauseMayFail, Calls, tools

(* Compose, guard and respond: past the calls, nothing is approved.          *)
LEMMA LateCommit ==
  ASSUME IInv, NEW i \in Invocations, NEW s, NEW next \in {"guard", "respond", "end"},
         s.plan_approved = st[i].plan_approved, s.plan = st[i].plan,
         Commit(i, s, next), pc[i] # "idle", UNCHANGED <<request, tools, plans, ghosts>>
  PROVE  Control'
<1>1. Fit(next, "none", s, planned', gated', approvedFor')
  BY FitHere DEF Fit, Executing, PastGate, Pausing, Unapproved, Calls, plans, ghosts
<1>2. Grows /\ CallsFit'
  BY QuietFits DEF IInv, Control, tools, ghosts
<1> QED
  BY <1>1, <1>2, Committed DEF request, Nodes

\* Changing the draft keeps the plan and its approval mark.
LEMMA DraftKeeps ==
  ASSUME NEW s \in AgentState, NEW d
  PROVE  /\ [s EXCEPT !.draft = d].plan = s.plan
         /\ [s EXCEPT !.draft = d].plan_approved = s.plan_approved
  BY DEF AgentState

\* The compose node.
LEMMA ComposeControl == ASSUME IInv, NEW i \in Invocations, Compose(i) PROVE Control'
<1>1. st[i] \in AgentState /\ pc[i] # "idle"
  BY FitHere DEF Compose
<1>2. CASE \E d \in Composed(st[i]) : Commit(i, [st[i] EXCEPT !.draft = d], "guard")
  BY <1>1, <1>2, DraftKeeps, LateCommit DEF Compose
<1>3. CASE Fail(i)
  BY <1>1, <1>3, FailControl DEF Compose, tools, ghosts
<1>4. CASE Commit(i, st[i], "guard")
  BY <1>1, <1>4, LateCommit DEF Compose
<1> QED
  BY <1>2, <1>3, <1>4 DEF Compose

\* The guard up to the score.
LEMMA GuardControl == ASSUME IInv, NEW i \in Invocations, Guard(i) PROVE Control'
<1>1. /\ st[i] \in AgentState /\ Fit("guard", kind[i], st[i], planned, gated, approvedFor)
      /\ pc[i] # "idle"
  BY FitHere DEF Guard
<1>2. CASE \E s \in {[st[i] EXCEPT !.error = "pii_detected", !.requires_approval = TRUE],
                     Failing(st[i], "missing_integration"), Failing(st[i], "guardrail_output")} :
              /\ Commit(i, s, "end")
              /\ UNCHANGED <<request, row, approvals, expired, tools, plans, crashes, ghosts>>
  <2>1. PICK s \in {[st[i] EXCEPT !.error = "pii_detected", !.requires_approval = TRUE],
                    Failing(st[i], "missing_integration"), Failing(st[i], "guardrail_output")} :
              /\ Commit(i, s, "end")
              /\ UNCHANGED <<request, row, approvals, expired, tools, plans, crashes, ghosts>>
    BY <1>2
  <2>2. s.plan_approved = st[i].plan_approved /\ s.plan = st[i].plan
    BY <1>1, <2>1 DEF AgentState, Failing
  <2> QED
    BY <1>1, <2>1, <2>2, LateCommit
<1>3. CASE \E d \in {st[i].draft} \union Composed(st[i]) :
             \/ Pause(i, "output", [st[i] EXCEPT !.draft = d], "none")
             \/ /\ Work(i, [st[i] EXCEPT !.draft = d], "score")
                /\ UNCHANGED <<kind, request, tools, plans, ghosts>>
  <2>1. PICK d \in {st[i].draft} \union Composed(st[i]) :
             \/ Pause(i, "output", [st[i] EXCEPT !.draft = d], "none")
             \/ /\ Work(i, [st[i] EXCEPT !.draft = d], "score")
                /\ UNCHANGED <<kind, request, tools, plans, ghosts>>
    BY <1>3
  <2> DEFINE s == [st[i] EXCEPT !.draft = d]
  <2>2. s.plan_approved = st[i].plan_approved /\ s.plan = st[i].plan
    BY <1>1, DraftKeeps
  <2>3. s \in AgentState
    BY <1>1, DraftOf, DraftType
  <2> HIDE DEF s
  <2>4. CASE Pause(i, "output", s, "none")
    <3>1. Fit("mint", "output", s, planned, gated, approvedFor)
      BY <1>1, <2>2 DEF Fit, Executing, PastGate, Pausing, Unapproved, Calls
    <3> QED
      BY <1>1, <2>3, <2>4, <3>1, PauseControl
  <2>5. CASE Work(i, s, "score") /\ UNCHANGED <<kind, request, tools, plans, ghosts>>
    <3>1. Fit("score", kind'[i], s, planned', gated', approvedFor')
      BY <1>1, <2>2, <2>5 DEF Fit, Executing, PastGate, Pausing, Unapproved, Calls, plans, ghosts
    <3>2. Grows /\ CallsFit'
      BY <2>5, QuietFits DEF IInv, Control, tools, ghosts
    <3> QED
      BY <1>1, <2>5, <3>1, <3>2, Worked DEF request, Calls
  <2> QED
    BY <2>1, <2>4, <2>5 DEF s
<1> QED
  BY <1>2, <1>3 DEF Guard

\* The verdict: a replan takes the approval mark away with the plan.
LEMMA ScoreControl == ASSUME IInv, NEW i \in Invocations, Score(i) PROVE Control'
<1>1. PICK x \in Confidences(st[i]) :
         Commit(i, Decide(st[i], x), AfterGuard(Decide(st[i], x)))
  BY DEF Score
<1>2. /\ st[i] \in AgentState /\ Fit("score", kind[i], st[i], planned, gated, approvedFor)
      /\ pc[i] # "idle"
  BY FitHere DEF Score
<1> DEFINE s == Decide(st[i], x)
<1>3. \/ s.plan = st[i].plan /\ s.plan_approved = st[i].plan_approved /\ s.verdict # "replan"
      \/ ~s.plan_approved
  BY <1>2 DEF Decide, Replanned, AgentState
<1> HIDE DEF s
<1>4. Fit(AfterGuard(s), "none", s, planned', gated', approvedFor')
  BY <1>2, <1>3
     DEF AfterGuard, Score, Fit, Executing, PastGate, Pausing, Unapproved, Calls, plans, ghosts
<1>5. Grows /\ CallsFit'
  BY QuietFits DEF IInv, Control, Score, tools, ghosts
<1> QED
  BY <1>1, <1>2, <1>4, <1>5, AfterGuardType, Committed DEF Score, request, s

\* The respond node.
LEMMA RespondControl == ASSUME IInv, NEW i \in Invocations, Respond(i) PROVE Control'
<1>1. pc[i] # "idle"
  BY DEF Respond
<1>2. CASE Commit(i, st[i], "end")
  BY <1>1, <1>2, LateCommit DEF Respond
<1>3. CASE Fail(i)
  BY <1>1, <1>3, FailControl DEF Respond, tools, ghosts
<1> QED
  BY <1>2, <1>3 DEF Respond

(* Steps around the graph: what is left behind asks for nothing.             *)
LEMMA Aside ==
  ASSUME IInv, NEW i \in Invocations, Alone(i), pc[i] # "idle", UNCHANGED <<tok, dec, called>>,
         UNCHANGED <<plans, approvedFor>>,
         pc'[i] \in {"raised", "interrupted", "parked", "save", "status", "discard", "done"},
         st'[i].plan_approved => st'[i].plan \in approvedFor,
         \/ thread'.next = thread.next /\ thread'.st = thread.st
         \/ thread' = Gone
  PROVE  Control'
<1>1. Fit(pc'[i], kind'[i], st'[i], planned', gated', approvedFor')
  BY DEF Fit, Executing, PastGate, Pausing, Unapproved, Calls, plans
<1>2. Grows /\ CallsFit'
  BY QuietFits DEF IInv, Control
<1>3. \A c \in Calls : pc'[i] # c
  BY DEF Calls
<1>4. Fit(Gone.next, "none", Gone.st, planned', gated', approvedFor')
  BY DEF Gone, Initial, Fit, Executing, PastGate, Pausing, Unapproved, Calls
<1> QED
  BY <1>1, <1>2, <1>3, <1>4, Moved

\* Such a step that keeps the state of the invocation.
LEMMA StayAside ==
  ASSUME IInv, NEW i \in Invocations, NEW here, Stay(i, here), pc[i] # "idle",
         here \in {"raised", "save", "status", "discard"},
         UNCHANGED <<st, kind, thread, tok, dec, called, plans, approvedFor>>
  PROVE  Control'
<1>1. Alone(i) /\ pc'[i] = here
  BY DEF Stay, Alone, IInv, LocalType
<1>2. st'[i].plan_approved => st'[i].plan \in approvedFor
  BY FitHere DEF Fit
<1> QED
  BY <1>1, <1>2, Aside

\* Such a step that ends it.
LEMMA ReturnAside ==
  ASSUME IInv, NEW i \in Invocations, NEW how \in {"parked", "done"}, Return(i, how),
         pc[i] # "idle", UNCHANGED <<tok, dec, called, plans, approvedFor>>,
         thread' = thread \/ thread' = Gone
  PROVE  Control'
<1>1. Alone(i) /\ pc'[i] = how /\ st'[i] = Initial(FALSE)
  BY DEF Return, Stay, Alone, IInv, LocalType
<1>2. ~st'[i].plan_approved
  BY <1>1 DEF Initial
<1> QED
  BY <1>1, <1>2, Aside

\* The steps of the runner and of the handlers around the graph.
LEMMA AroundControl ==
  ASSUME IInv, NEW i \in Invocations,
         \/ Raise(i) \/ Save(i) \/ SaveFails(i) \/ Discard(i)
         \/ i = Runner /\ (Park \/ EndOfRun)
         \/ i \in Submitters /\ (Resumed(i) \/ Record(i))
  PROVE  Control'
<1>1. CASE Raise(i)
  BY <1>1, StayAside DEF Raise, PauseMayFail, request, tools
<1>2. CASE Save(i)
  BY <1>2, StayAside DEF Save, inGraph, request, tools, ghosts
<1>3. CASE Discard(i)
  BY <1>3, ReturnAside DEF Discard, DiscardThread, request, tools
<1>4. CASE i = Runner /\ Park
  BY <1>4, ReturnAside DEF Park, request, tools, ghosts
<1>5. CASE i = Runner /\ EndOfRun
  <2>1. pc[i] # "idle"
    BY <1>5 DEF EndOfRun, Inside, Nodes, Calls
  <2> QED
    BY <1>5, <2>1, StayAside DEF EndOfRun, inGraph, request, tools, ghosts
<1>6. CASE Resumed(i)
  BY <1>6, StayAside, ReturnAside DEF Resumed, inGraph, request, tools, ghosts
<1>7. CASE Record(i)
  BY <1>7, StayAside DEF Record, inGraph, request, tools, ghosts
<1>8. CASE SaveFails(i)
  BY <1>8, StayAside, ReturnAside DEF SaveFails, inGraph, request, tools
<1> QED
  BY <1>1, <1>2, <1>3, <1>4, <1>5, <1>6, <1>7, <1>8

\* An accepted decision names a token and is one of the three.
LEMMA SubmitControl == ASSUME IInv, NEW i \in Submitters, Submit(i) PROVE Control'
<1>1. i \in Invocations
  BY DEF Invocations
<1>2. Alone(i) /\ pc'[i] = "resume" /\ st' = st
  BY <1>1 DEF Submit, Stay, Alone, IInv, LocalType, inGraph
<1>3. Grows /\ CallsFit'
  BY QuietFits DEF IInv, Control, Submit, tools
<1>4. Fit(pc'[i], kind'[i], st'[i], planned', gated', approvedFor')
  BY <1>1, <1>2, FitHere DEF Fit, Executing, PastGate, Pausing, Unapproved, Calls, Submit, plans
<1>5. InvocationsFit' /\ ThreadFits'
  BY <1>1, <1>2, <1>3, <1>4, FitsMove DEF IInv, Control, Submit
<1>6. Answered'
  BY <1>2 DEF Answered, Alone, Calls, IInv, Control
<1>7. Decided'
  <2>1. PICK t \in Tokens, d \in Choices :
           tok' = [tok EXCEPT ![i] = t] /\ dec' = [dec EXCEPT ![i] = d]
    BY DEF Submit
  <2>2. d \in Decisions
    BY ConstantsOK DEF Decisions
  <2>3. tok \in [Submitters -> 0..MaxTokens] /\ dec \in [Submitters -> Decisions \union {"none"}]
    BY DEF IInv, SharedType
  <2> QED
    BY <1>2, <2>1, <2>2, <2>3 DEF Decided, Alone, Invocations, IInv, Control
<1> QED
  BY <1>3, <1>5, <1>6, <1>7 DEF Control

\* A handler that resumes is where the checkpoint is, and fits as the checkpoint did.
LEMMA ResumeControl == ASSUME IInv, NEW i \in Submitters, Resume(i) PROVE Control'
<1>1. i \in Invocations /\ pc[i] # "idle"
  BY DEF Invocations, Resume
<1>2. CASE thread.next = "gone"
  BY <1>1, <1>2, StayAside DEF Resume, inGraph, request, tools, ghosts
<1>3. CASE thread.next # "gone"
  <2>1. Alone(i) /\ pc'[i] = thread.next /\ st'[i] = thread.st /\ UNCHANGED kind
    BY <1>1, <1>3 DEF Resume, Stay, Alone, IInv, LocalType
  <2>2. thread.next \in Nodes \union {"end"}
    BY <1>3 DEF IInv, LocalType, Threads
  <2>3. Fit(thread.next, kind[i], thread.st, planned, gated, approvedFor)
    BY <2>2 DEF Fit, IInv, Control, ThreadFits, Executing, PastGate, Pausing, Nodes, Calls
  <2>4. Fit(pc'[i], kind'[i], st'[i], planned', gated', approvedFor')
    BY <2>1, <2>3 DEF Resume, plans, ghosts
  <2>5. Grows /\ CallsFit'
    BY QuietFits DEF IInv, Control, Resume, tools, ghosts
  <2>6. \A c \in Calls : pc'[i] # c
    BY <2>1, <2>2 DEF Calls, Nodes
  <2> QED
    BY <1>1, <2>1, <2>4, <2>5, <2>6, Moved DEF Resume, request
<1> QED
  BY <1>2, <1>3

\* Time deletes checkpoints and cached results only.
LEMMA ClockControl == ASSUME IInv, ClockStep PROVE Control'
<1>1. UNCHANGED <<pc, st, kind, tok, dec, called, plans, approvedFor>>
  BY DEF ClockStep, CacheExpiry, Expire, AutoReject, FreeThread, local, request, tools, ghosts
<1>2. thread' = thread \/ thread' = Gone
  BY DEF ClockStep, CacheExpiry, Expire, AutoReject, FreeThread, DiscardThread
<1>3. Fit(Gone.next, "none", Gone.st, planned', gated', approvedFor')
  BY DEF Gone, Initial, Fit, Executing, PastGate, Pausing, Unapproved, Calls
<1>4. ThreadFits'
  BY <1>1, <1>2, <1>3 DEF ThreadFits, IInv, Control, plans
<1>5. InvocationsFit' /\ Answered' /\ Decided' /\ CallsFit'
  BY <1>1 DEF InvocationsFit, Answered, Decided, CallsFit, IInv, Control, plans
<1> QED
  BY <1>4, <1>5 DEF Control

\* A restart stops every invocation and forgets its state.
LEMMA CrashControl == ASSUME IInv, Crash PROVE Control'
<1>1. UNCHANGED <<tok, dec, called, plans, approvedFor>> /\ (thread' = thread \/ thread' = Gone)
  BY DEF Crash, request, tools, ghosts
<1>2. Fit(Gone.next, "none", Gone.st, planned', gated', approvedFor')
  BY DEF Gone, Initial, Fit, Executing, PastGate, Pausing, Unapproved, Calls
<1>3. ThreadFits'
  BY <1>1, <1>2 DEF ThreadFits, IInv, Control, plans
<1>4. \A i \in Invocations : /\ pc'[i] \in {"idle", "parked", "done"}
                             /\ pc'[i] = "idle" \/ pc[i] # "idle"
                             /\ st'[i] = Initial(FALSE)
  BY DEF Crash, Busy
<1>5. InvocationsFit'
  BY <1>1, <1>4 DEF InvocationsFit, Initial, Fit, Executing, PastGate, Pausing, Unapproved, Calls
<1>6. Answered' /\ Decided'
  BY <1>1, <1>4 DEF Answered, Decided, Calls, Invocations, IInv, Control
<1>7. CallsFit'
  BY <1>1, QuietCalls DEF IInv, Control
<1> QED
  BY <1>3, <1>5, <1>6, <1>7 DEF Control

-----------------------------------------------------------------------------

\* Every step of the graph keeps the inductive invariant.
LEMMA GraphStepInv == ASSUME IInv, NEW i \in Invocations, GraphStep(i) PROVE IInv'
<1>1. LocalType /\ SharedType /\ Control
  BY DEF IInv
<1>2. CASE Stage(i, "intake", "retrieve") \/ Stage(i, "retrieve", "plan")
  <2>1. "retrieve" \in Nodes /\ "plan" \in Nodes
    BY DEF Nodes
  <2> QED
    BY <1>1, <1>2, <2>1, StageType, StageControl DEF IInv
<1>3. CASE Plan(i)
  BY <1>1, <1>3, PlanType, PlanControl DEF IInv
<1>4. CASE Execute(i)
  BY <1>1, <1>4, ExecuteType, ExecuteControl DEF IInv
<1>5. \A p \in 1..planned : p \in Plans
  BY <1>1, Bounds DEF SharedType, Plans
<1>6. CASE Mint(i) \/ Show(i)
  BY <1>1, <1>6, MintType, ShowType, MintControl DEF IInv
<1>16. CASE Ask(i)
  <2>1. kind[i] # "output" => st[i].plan \in Plans
    BY <1>5, <1>16, FitHere DEF Ask, Fit, Executing, Pausing
  <2> QED
    BY <1>1, <1>16, <2>1, AskType, AskControl DEF IInv
<1>7. CASE CallTool(i)
  <2>1. st[i].plan \in Plans
    BY <1>5, <1>7, FitHere DEF CallTool, Fit, Executing, Pausing
  <2> QED
    BY <1>1, <1>7, <2>1, CallToolType, CallToolControl DEF IInv
<1>8. CASE CacheResult(i)
  <2>1. st[i].plan \in Plans
    BY <1>5, <1>8, FitHere DEF CacheResult, Fit, Executing, Pausing
  <2>2. \A c \in Calls : pc[i] = c => st[i].tool_results[c] # "none"
    BY <1>1 DEF Control, Answered
  <2> QED
    BY <1>1, <1>8, <2>1, <2>2, CacheResultType, CacheResultControl DEF IInv
<1>9. CASE FinishTools(i)
  BY <1>1, <1>9, FinishToolsType, FinishToolsControl DEF IInv
<1>10. CASE ExecuteFails(i)
  BY <1>1, <1>10, ExecuteFailsType, ExecuteFailsControl DEF IInv
<1>11. CASE Compose(i)
  BY <1>1, <1>11, ComposeType, ComposeControl DEF IInv
<1>12. CASE Guard(i)
  BY <1>1, <1>12, GuardType, GuardControl DEF IInv
<1>13. CASE Score(i)
  BY <1>1, <1>13, ScoreStepType, ScoreControl DEF IInv
<1>14. CASE Respond(i)
  BY <1>1, <1>14, RespondType, RespondControl DEF IInv
<1>15. CASE Raise(i)
  BY <1>1, <1>15, RaiseType, AroundControl DEF IInv
<1> QED
  BY <1>2, <1>3, <1>4, <1>6, <1>7, <1>8, <1>9, <1>10, <1>11, <1>12, <1>13, <1>14, <1>15,
     <1>16 DEF GraphStep

\* So does every step of the runner,
LEMMA RunnerStepInv == ASSUME IInv, RunnerStep PROVE IInv'
<1>1. LocalType /\ SharedType /\ Runner \in Invocations
  BY DEF IInv, Invocations
<1>2. CASE StartRun
  BY <1>1, <1>2, StartRunType, StartRunControl DEF IInv
<1>3. CASE GraphStep(Runner)
  BY <1>1, <1>3, GraphStepInv
<1>4. CASE Park \/ EndOfRun
  BY <1>1, <1>4, ParkType, EndOfRunType, AroundControl DEF IInv
<1>5. CASE Save(Runner)
  BY <1>1, <1>5, SaveType, AroundControl DEF IInv
<1>6. CASE SaveFails(Runner) \/ Discard(Runner)
  BY <1>1, <1>6, SaveFailsType, DiscardType, AroundControl DEF IInv
<1> QED
  BY <1>2, <1>3, <1>4, <1>5, <1>6 DEF RunnerStep

\* every step of a decision handler,
LEMMA SubmitterStepInv ==
  ASSUME IInv, NEW i \in Submitters, Submit(i) \/ SubmitterStep(i) PROVE IInv'
<1>1. LocalType /\ SharedType /\ i \in Invocations /\ Control
  BY DEF IInv, Invocations
<1>2. CASE Submit(i)
  BY <1>1, <1>2, SubmitType, SubmitControl DEF IInv
<1>3. CASE Resume(i)
  <2>1. dec[i] \in Decisions
    BY <1>1, <1>3 DEF Resume, Control, Decided
  <2> QED
    BY <1>1, <1>3, <2>1, ResumeType, ResumeControl DEF IInv
<1>4. CASE GraphStep(i)
  BY <1>1, <1>4, GraphStepInv
<1>5. CASE Resumed(i)
  BY <1>1, <1>5, ResumedType, AroundControl DEF IInv
<1>6. CASE Save(i)
  BY <1>1, <1>6, SaveType, AroundControl DEF IInv
<1>7. CASE Record(i)
  <2>1. tok[i] \in Tokens /\ dec[i] \in Decisions
    BY <1>1, <1>7 DEF Record, Control, Decided
  <2> QED
    BY <1>1, <1>7, <2>1, RecordType, AroundControl DEF IInv
<1>8. CASE SaveFails(i) \/ Discard(i)
  BY <1>1, <1>8, SaveFailsType, DiscardType, AroundControl DEF IInv
<1> QED
  BY <1>2, <1>3, <1>4, <1>5, <1>6, <1>7, <1>8 DEF SubmitterStep

\* and a stuttering step.
LEMMA StutterInv == ASSUME IInv, UNCHANGED vars PROVE IInv'
<1>1. LocalType' /\ SharedType'
  BY DEF IInv, LocalType, SharedType, vars, local, request, tools, plans, ghosts
<1>2. Control'
  BY DEF IInv, Control, Decided, Answered, InvocationsFit, ThreadFits, CallsFit,
         vars, local, request, tools, plans, ghosts
<1> QED
  BY <1>1, <1>2 DEF IInv

\* The inductive step.
LEMMA NextInv == IInv /\ [Next]_vars => IInv'
<1> SUFFICES ASSUME IInv, [Next]_vars PROVE IInv'
  OBVIOUS
<1>1. CASE RunnerStep
  BY <1>1, RunnerStepInv
<1>2. CASE \E i \in Submitters : Submit(i) \/ SubmitterStep(i)
  BY <1>2, SubmitterStepInv
<1>3. CASE ClockStep
  BY <1>3, ClockType, ClockControl DEF IInv
<1>4. CASE Crash
  BY <1>4, CrashType, CrashControl DEF IInv
<1>5. CASE UNCHANGED vars
  BY <1>5, StutterInv
<1> QED
  BY <1>1, <1>2, <1>3, <1>4, <1>5 DEF Next

\* The inductive invariant holds throughout.
LEMMA Invariance == Spec => []IInv
  BY InitInv, NextInv, PTL DEF Spec

(* In every reachable state, for every number of decision handlers, retries, *)
(* tokens, slots and restarts, the run's state has its type: counters stay   *)
(* in range and every handler acts on a decision and a token it was given.   *)
THEOREM TypeCorrect == Spec => []TypeOK
<1>1. IInv => TypeOK
  BY TypeParts DEF IInv
<1> QED
  BY <1>1, Invariance, PTL

(* policy.yaml's gated actions: no tool of a gated plan is ever called unless *)
(* a human approved that very plan, with any number of concurrent decision    *)
(* handlers, replans, replays of the node, restarts and cache expiries.       *)
THEOREM ApprovalGate == Spec => []GatedOnlyIfApproved
<1>1. IInv => GatedOnlyIfApproved
  BY DEF IInv, Control, CallsFit, GatedOnlyIfApproved
<1> QED
  BY <1>1, Invariance, PTL

-----------------------------------------------------------------------------
(* WorkflowRun implements HumanGate: every step of the graph, of a handler,  *)
(* of the clock, and every crash emits one plan, approves one, calls one     *)
(* tool, or does nothing HumanGate can see.  Three actions touch what        *)
(* HumanGate sees; that a call is of an open plan is what Fit says of a      *)
(* place past the gate; all other actions leave the six variables of the     *)
(* mapping alone.                                                            *)

\* What the mapping to HumanGate is a function of.
mapped == <<planned, gated, wording, approvedFor, called, landed>>

\* The initial states map to the initial state.
LEMMA InitMaps == Init => Gate!Init
  BY DEF Init, Gate!Init, Of, Plans, Gate!Plans

\* A step that leaves those alone is a stutter.
LEMMA Quiet == ASSUME UNCHANGED mapped PROVE UNCHANGED Gate!vars
  BY DEF mapped, Gate!vars, Of

\* One key more is one step more.
LEMMA OfOneMore == ASSUME NEW S, NEW k PROVE Of(S \union {k}) = Of(S) \union {<<k[1], k[2]>>}
  BY DEF Of

\* The planner emits a plan, or fails.
LEMMA PlanMaps == ASSUME NEW i \in Invocations, Plan(i) PROVE [Gate!Next]_Gate!vars
<1>1. CASE Emit(i)
  <2>1. UNCHANGED <<approvedFor, called, landed>>
    BY DEF Plan, tools, ghosts
  <2>2. Gate!Emit
    BY <1>1, <2>1 DEF Emit, Gate!Emit, Of
  <2> QED
    BY <2>2 DEF Gate!Next
<1>2. CASE UNCHANGED plans
  BY <1>2, Quiet DEF Plan, plans, tools, ghosts, mapped
<1> QED
  BY <1>1, <1>2 DEF Plan

\* The answer of a pause approves the plan in hand, or nothing.
LEMMA AskMaps == ASSUME IInv, NEW i \in Invocations, Ask(i) PROVE [Gate!Next]_Gate!vars
<1>1. \/ UNCHANGED approvedFor
      \/ kind[i] = "plan" /\ approvedFor' = approvedFor \union {st[i].plan}
  BY DEF Ask, Interrupted, Reject, Approve, Rebook, Release
<1>3. UNCHANGED <<planned, gated, wording, called, landed>>
  BY DEF Ask, plans, tools
<1>4. CASE UNCHANGED approvedFor
  BY <1>3, <1>4, Quiet DEF mapped
<1>5. CASE kind[i] = "plan" /\ approvedFor' = approvedFor \union {st[i].plan}
  <2>1. st[i].plan \in 1..planned
    BY <1>5, FitHere DEF Ask, Fit, Executing, Pausing
  <2>2. Gate!Approve(st[i].plan)
    BY <1>3, <1>5 DEF Gate!Approve, Of
  <2> QED
    BY <2>1, <2>2 DEF Gate!Next
<1> QED
  BY <1>1, <1>4, <1>5

\* A call that reaches its tool server is a call of an open plan.
LEMMA CallToolMaps == ASSUME IInv, NEW i \in Invocations, CallTool(i) PROVE [Gate!Next]_Gate!vars
<1>1. UNCHANGED <<planned, gated, wording, approvedFor>>
  BY DEF CallTool, plans, ghosts
<1>2. PICK c \in Steps(st[i]) :
        LET k == Key(st[i], c) IN
        \/ UNCHANGED tools
        \/ /\ called' = called \union {<<st[i].plan, c, Slot(st[i], c)>>}
           /\ landed' = landed \/ landed' = landed \union {k}
  BY DEF CallTool
<1>3. c \in Calls
  BY DEF Steps, Calls
<1>4. CASE UNCHANGED tools
  BY <1>1, <1>4, Quiet DEF tools, mapped
<1> DEFINE p == st[i].plan
<1>5. CASE /\ called' = called \union {<<p, c, Slot(st[i], c)>>}
           /\ landed' = landed \/ landed' = landed \union {Key(st[i], c)}
  <2>1. p \in 1..planned /\ (p \in gated => p \in approvedFor)
    BY FitHere DEF CallTool, Fit, Executing, PastGate, Pausing
  <2> DEFINE k == <<p, c, Slot(st[i], c)>>
             l == <<wording[p], c, Slot(st[i], c)>>
  <2>2. k[1] = p /\ k[2] = c /\ l[1] = wording[p] /\ l[2] = c
    OBVIOUS
  <2>3. called' = called \union {k} /\ (landed' = landed \/ landed' = landed \union {l})
    BY <1>5 DEF Key
  <2> HIDE DEF k, l
  <2>4. Of(called') = Of(called) \union {<<p, c>>}
    BY <2>2, <2>3, OfOneMore
  <2>5. Of(landed') \in {Of(landed), Of(landed) \union {<<wording[p], c>>}}
    BY <2>2, <2>3, OfOneMore
  <2>6. Gate!Call(p, c)
    BY <1>1, <2>1, <2>4, <2>5 DEF Gate!Call, Gate!Open
  <2> QED
    BY <1>3, <2>1, <2>6 DEF Gate!Next
<1> QED
  BY <1>2, <1>4, <1>5

\* Every other step of an invocation is a stutter.
LEMMA OtherSteps ==
  ASSUME NEW i \in Invocations,
         \/ StartRun \/ Stage(i, "intake", "retrieve") \/ Stage(i, "retrieve", "plan")
         \/ Execute(i) \/ Mint(i) \/ Show(i) \/ CacheResult(i) \/ FinishTools(i) \/ ExecuteFails(i)
         \/ Compose(i) \/ Guard(i) \/ Score(i) \/ Respond(i) \/ Raise(i)
         \/ Park \/ EndOfRun \/ Save(i) \/ SaveFails(i) \/ Discard(i)
         \/ Submit(i) \/ Resume(i) \/ Resumed(i) \/ Record(i)
  PROVE  UNCHANGED Gate!vars
<1>1. CASE StartRun \/ Stage(i, "intake", "retrieve") \/ Stage(i, "retrieve", "plan")
  BY <1>1, Quiet DEF StartRun, Stage, mapped, tools, plans, ghosts
<1>2. CASE Execute(i) \/ Mint(i) \/ Show(i) \/ FinishTools(i) \/ Guard(i)
  BY <1>2, Quiet
     DEF Execute, Mint, Show, FinishTools, Guard, Pause, mapped, tools, plans, ghosts
<1>3. CASE CacheResult(i) \/ ExecuteFails(i) \/ Compose(i) \/ Score(i) \/ Respond(i) \/ Raise(i)
  BY <1>3, Quiet
     DEF CacheResult, ExecuteFails, Compose, Score, Respond, Raise, mapped, tools, plans, ghosts
<1>4. CASE Park \/ EndOfRun \/ Save(i) \/ SaveFails(i) \/ Discard(i)
  BY <1>4, Quiet DEF Park, EndOfRun, Save, SaveFails, Discard, mapped, tools, plans, ghosts
<1>5. CASE Submit(i) \/ Resume(i) \/ Resumed(i) \/ Record(i)
  BY <1>5, Quiet DEF Submit, Resume, Resumed, Record, mapped, tools, plans, ghosts
<1> QED
  BY <1>1, <1>2, <1>3, <1>4, <1>5

\* Every step maps to a step or a stutter.
LEMMA StepMaps == IInv /\ [Next]_vars => [Gate!Next]_Gate!vars
<1> SUFFICES ASSUME IInv, [Next]_vars PROVE [Gate!Next]_Gate!vars
  OBVIOUS
<1>1. ASSUME NEW i \in Invocations, GraphStep(i) PROVE [Gate!Next]_Gate!vars
  BY <1>1, PlanMaps, AskMaps, CallToolMaps, OtherSteps DEF GraphStep
<1>2. CASE RunnerStep
  <2>1. Runner \in Invocations
    BY DEF Invocations
  <2> QED
    BY <1>1, <1>2, <2>1, OtherSteps DEF RunnerStep
<1>3. CASE \E i \in Submitters : Submit(i) \/ SubmitterStep(i)
  <2>1. Submitters \subseteq Invocations
    BY DEF Invocations
  <2> QED
    BY <1>1, <1>3, <2>1, OtherSteps DEF SubmitterStep
<1>4. CASE ClockStep \/ Crash
  BY <1>4, Quiet
     DEF ClockStep, CacheExpiry, Expire, AutoReject, FreeThread, Crash, mapped, tools, plans, ghosts
<1>5. CASE UNCHANGED vars
  BY <1>5, Quiet DEF vars, mapped, tools, plans, ghosts
<1> QED
  BY <1>2, <1>3, <1>4, <1>5 DEF Next

(* The engine implements HumanGate, whatever the number of plans, handlers,  *)
(* tokens, slots and restarts: execute.py's gate is all a tool call meets.   *)
THEOREM GateRefinement == Spec => KeepsTheGate
<1>1. Gate!Init /\ [][Gate!Next]_Gate!vars => KeepsTheGate
  BY DEF KeepsTheGate, Gate!Spec
<1> QED
  BY <1>1, InitMaps, StepMaps, Invariance, PTL DEF Spec
=============================================================================
