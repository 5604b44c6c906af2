--------------------------- MODULE WorkflowTypes ---------------------------
(***************************************************************************)
(* Type correctness of WorkflowRun, action by action: LocalType is the     *)
(* part of TypeOK about the invocations and the checkpoint, SharedType the *)
(* part about the stores and the observations.  Three actions need more    *)
(* than TypeOK (a decision that has been made, an emitted plan, a result   *)
(* to store); WorkflowGate has the invariant that supplies it.             *)
(***************************************************************************)
EXTENDS WorkflowRun, TLAPS

\* The bounds are natural numbers.
LEMMA Bounds ==
  /\ MaxRetries \in Nat /\ MaxPlans \in Nat /\ MaxTokens \in Nat
  /\ MaxSlot \in Nat /\ MaxCrashes \in Nat
  BY ConstantsOK

\* The state AgentState starts from is one, whether or not approval was requested.
LEMMA InitialType == \A b \in BOOLEAN : Initial(b) \in AgentState
  BY Bounds DEF Initial, AgentState, NoResults, Calls

\* A deleted checkpoint is a thread.
LEMMA GoneType == Gone \in Threads
<1>1. <<>> \in Seq(Decisions)
  OBVIOUS
<1> QED BY InitialType, <1>1 DEF Gone, Threads

\* The initial states are well typed.
LEMMA InitType == Init => TypeOK
<1> SUFFICES ASSUME Init PROVE TypeOK
  OBVIOUS
<1>1. st \in [Invocations -> AgentState] /\ row \in AgentState
  BY InitialType DEF Init
<1>2. pc \in [Invocations -> Places]
  BY DEF Init, Places, Around
<1>3. answers \in [Invocations -> Seq(Decisions)]
  BY DEF Init
<1>4. thread \in Threads
  BY GoneType DEF Init
<1>5. wording \in [Plans -> Plans]
  BY DEF Init
<1> QED
  BY <1>1, <1>2, <1>3, <1>4, <1>5, Bounds
     DEF Init, TypeOK, Invocations, Keys, Plans, Tokens, Decisions

\* The invocations and the checkpoint.
LocalType ==
    /\ pc \in [Invocations -> Places]
    /\ st \in [Invocations -> AgentState] /\ held \in [Invocations -> AgentState]
    /\ resume \in [Invocations -> Decisions \union {"none"}]
    /\ answers \in [Invocations -> Seq(Decisions)]
    /\ calls \in [Invocations -> Nat]
    /\ kind \in [Invocations -> {"none", "plan", "clash", "output"}]
    /\ found \in [Invocations -> 0..MaxTokens]
    /\ thread \in Threads

\* A node that returns leaves the invocations and the checkpoint well typed.
LEMMA CommitType ==
  ASSUME LocalType, NEW i \in Invocations, NEW s \in AgentState,
         NEW next \in Nodes \union {"end"}, Commit(i, s, next)
  PROVE  LocalType'
  BY Bounds DEF LocalType, Commit, Stay, Places, Inside, Around, Threads

\* So does a step inside a node.
LEMMA WorkType ==
  ASSUME LocalType, NEW i \in Invocations, NEW s \in AgentState, NEW here \in Inside,
         Work(i, s, here),
         kind' \in [Invocations -> {"none", "plan", "clash", "output"}],
         found' \in [Invocations -> 0..MaxTokens]
  PROVE  LocalType'
  BY DEF LocalType, Work, Stay, Places

\* So does an invocation that ends.
LEMMA ReturnType ==
  ASSUME LocalType, NEW i \in Invocations, NEW how \in {"parked", "done"}, Return(i, how),
         thread' \in Threads
  PROVE  LocalType'
<1>1. Initial(FALSE) \in AgentState
  BY InitialType
<1>2. pc' \in [Invocations -> Places]
  BY DEF LocalType, Return, Stay, Places, Around
<1>3. st' \in [Invocations -> AgentState] /\ held' \in [Invocations -> AgentState]
  BY <1>1 DEF LocalType, Return
<1>4. resume' \in [Invocations -> Decisions \union {"none"}] /\ calls' \in [Invocations -> Nat]
  BY DEF LocalType, Return
<1>5. answers' \in [Invocations -> Seq(Decisions)]
  BY DEF LocalType, Return
<1>6. found' \in [Invocations -> 0..MaxTokens]
  BY Bounds DEF LocalType, Return
<1>7. kind' \in [Invocations -> {"none", "plan", "clash", "output"}]
  BY DEF LocalType, Return
<1> QED
  BY <1>2, <1>3, <1>4, <1>5, <1>6, <1>7 DEF LocalType

\* _apply_rebook yields an AgentState.
LEMMA RebookedType == ASSUME NEW s \in AgentState PROVE Rebooked(s) \in AgentState
<1> DEFINE a == [s EXCEPT !.requires_approval = FALSE]
           b == [a EXCEPT !.slot = s.slot + 1]
           c == [b EXCEPT !.tool_results = NoResults]
           d == [c EXCEPT !.draft = "none"]
<1>1. a \in AgentState /\ a.slot = s.slot
  BY DEF AgentState
<1> HIDE DEF a
<1>2. b \in AgentState
  BY <1>1 DEF AgentState
<1> HIDE DEF b
<1>3. c \in AgentState
  BY <1>2 DEF AgentState, NoResults
<1> HIDE DEF c
<1>4. d \in AgentState
  BY <1>3 DEF AgentState
<1>5. Rebooked(s) = d
  BY DEF Rebooked, a, b, c, d
<1> QED BY <1>4, <1>5

\* A replan yields an AgentState while a retry is left: the counter keeps its range.
LEMMA ReplannedType ==
  ASSUME NEW s \in AgentState, s.retry_count < MaxRetries PROVE Replanned(s) \in AgentState
<1> DEFINE a == [s EXCEPT !.verdict = "replan", !.retry_count = s.retry_count + 1]
           b == [a EXCEPT !.plan = 0, !.plan_approved = FALSE]
           c == [b EXCEPT !.tool_results = NoResults]
           d == [c EXCEPT !.draft = "none"]
<1>0. s.retry_count + 1 \in 0..MaxRetries /\ 0 \in 0..MaxPlans
  BY Bounds DEF AgentState
<1>1. a \in AgentState
  BY <1>0 DEF AgentState
<1> HIDE DEF a
<1>2. b \in AgentState
  BY <1>0, <1>1 DEF AgentState
<1> HIDE DEF b
<1>3. c \in AgentState
  BY <1>2 DEF AgentState, NoResults
<1> HIDE DEF c
<1>4. d \in AgentState
  BY <1>3 DEF AgentState
<1>5. Replanned(s) = d
  BY DEF Replanned, a, b, c, d
<1> QED BY <1>4, <1>5

\* So do the answers to a pause, dropping the card and recording a result.
LEMMA UpdateTypes ==
  ASSUME NEW s \in AgentState
  PROVE  /\ Rejected(s) \in AgentState
         /\ Rebooked(s) \in AgentState
         /\ DropCard(s) \in AgentState
         /\ \A d : PlanAnswered(s, d) \in AgentState
         /\ \A d : OutputAnswered(s, d) \in AgentState
         /\ \A c \in Calls, r \in Outcomes : HasResult(s, c, r) \in AgentState
<1>1. Rejected(s) \in AgentState
  BY DEF Rejected, AgentState
<1>2. Rebooked(s) \in AgentState
  BY RebookedType
<1>3. DropCard(s) \in AgentState
  BY DEF DropCard, AgentState
<1>4. ASSUME NEW d PROVE PlanAnswered(s, d) \in AgentState
  <2>1. (IF d = "edit" THEN "edited" ELSE s.draft) \in {"none", "card", "clash_card", "no_slot", "plain", "flagged", "edited"}
    BY DEF AgentState
  <2> QED BY <2>1 DEF PlanAnswered, AgentState
<1>5. ASSUME NEW d PROVE OutputAnswered(s, d) \in AgentState
  <2>1. (IF d = "edit" THEN "edited" ELSE s.draft) \in {"none", "card", "clash_card", "no_slot", "plain", "flagged", "edited"}
    BY DEF AgentState
  <2> QED BY <2>1 DEF OutputAnswered, AgentState
<1>6. ASSUME NEW c \in Calls, NEW r \in Outcomes PROVE HasResult(s, c, r) \in AgentState
  BY DEF HasResult, AgentState
<1> QED BY <1>1, <1>2, <1>3, <1>4, <1>5, <1>6

\* decide_verdict yields an AgentState: it replans only below MAX_RETRIES.
LEMMA ScoreType ==
  ASSUME NEW s \in AgentState, NEW x
  PROVE Decide(s, x) \in AgentState
<1>1. s.retry_count < MaxRetries => Replanned(s) \in AgentState
  BY ReplannedType
<1>2. [s EXCEPT !.verdict = "finalize"] \in AgentState
  BY DEF AgentState
<1>3. [s EXCEPT !.verdict = "block", !.error = "low_confidence_blocked"] \in AgentState
  BY DEF AgentState
<1> QED BY <1>1, <1>2, <1>3 DEF Decide

\* The rest of the state.
SharedType ==
    /\ tok \in [Submitters -> 0..MaxTokens] /\ dec \in [Submitters -> Decisions \union {"none"}]
    /\ seen \in [Submitters -> 0..MaxPlans]
    /\ row \in AgentState
    /\ approvals \in [Tokens -> {"unminted", "pending", "approve", "edit", "rejected"}]
    /\ expired \subseteq Tokens /\ freeing \subseteq Tokens
    /\ cache \subseteq [key: Keys, result: Outcomes]
    /\ gated \subseteq Plans /\ booking \subseteq Plans /\ wording \in [Plans -> Plans]
    /\ approvedFor \subseteq Plans /\ blind \subseteq Plans
    /\ refused \subseteq 0..MaxPlans /\ failures \subseteq {"pause", "handler", "discard"}
    /\ planned \in 0..MaxPlans /\ crashes \in 0..MaxCrashes /\ requested \in BOOLEAN
    /\ called \subseteq Keys /\ landed \subseteq Keys /\ repeated \subseteq Keys

\* TypeOK is the type of the invocations and the checkpoint, and that of the rest.
LEMMA TypeParts == TypeOK <=> LocalType /\ SharedType
  BY DEF TypeOK, LocalType, SharedType

\* A step that leaves all shared state alone leaves it well typed.
LEMMA QuietType ==
  ASSUME SharedType,
         UNCHANGED <<request, row, approvals, expired, tools, plans, crashes, ghosts>>
  PROVE  SharedType'
  BY DEF SharedType, request, tools, plans, ghosts

\* So does one that only saves the plans row.
LEMMA RowType ==
  ASSUME SharedType, row' \in AgentState,
         UNCHANGED <<request, approvals, expired, tools, plans, crashes, ghosts>>
  PROVE  SharedType'
  BY DEF SharedType, request, tools, plans, ghosts

\* So does one that only notes a failure, and one of the handler of GET /v1/approvals.
LEMMA FailureType ==
  ASSUME SharedType, failures' \subseteq {"pause", "handler", "discard"},
         freeing' \subseteq Tokens,
         UNCHANGED <<tok, dec, seen, row, approvals, expired, tools, plans, crashes, requested,
                     approvedFor, refused, blind>>
  PROVE  SharedType'
  BY DEF SharedType, tools, plans

\* Recording an error yields an AgentState.
LEMMA FailingType ==
  ASSUME NEW s \in AgentState,
         NEW e \in {"none", "failed", "rejected_by_user", "run_timeout", "pii_detected",
                    "missing_integration", "guardrail_output", "low_confidence_blocked"}
  PROVE  Failing(s, e) \in AgentState
  BY DEF AgentState, Failing

\* The routers name a node or END.
LEMMA OnwardType ==
  ASSUME NEW s, NEW next \in Nodes PROVE Onward(s, next) \in Nodes \union {"end"}
  BY DEF Onward

\* A node that records its exception.
LEMMA FailType == ASSUME LocalType, NEW i \in Invocations, Fail(i) PROVE LocalType'
<1>1. Failing(st[i], "failed") \in AgentState
  BY FailingType DEF LocalType
<1> QED
  BY <1>1, CommitType DEF Fail

\* The background task enters the graph.
LEMMA StartRunType == ASSUME LocalType, SharedType, StartRun PROVE LocalType' /\ SharedType'
<1>1. Runner \in Invocations /\ st[Runner] \in AgentState /\ "intake" \in Nodes
  BY DEF Invocations, LocalType, Nodes
<1> QED
  BY <1>1, CommitType, QuietType DEF StartRun

\* intake and retrieve.
LEMMA StageType ==
  ASSUME LocalType, SharedType, NEW i \in Invocations, NEW node, NEW next \in Nodes,
         Stage(i, node, next)
  PROVE  LocalType' /\ SharedType'
<1>1. PICK e \in {"none", "failed"} :
         Commit(i, Failing(st[i], e), Onward(Failing(st[i], e), next))
  BY DEF Stage
<1>2. Failing(st[i], e) \in AgentState
  BY FailingType DEF LocalType
<1>3. LocalType'
  BY <1>1, <1>2, OnwardType, CommitType
<1> QED
  BY <1>3, QuietType DEF Stage

\* The planner: the new plan is within the bound, so gate, booking and wording are typed.
LEMMA PlanType ==
  ASSUME LocalType, SharedType, NEW i \in Invocations, Plan(i)
  PROVE  LocalType' /\ SharedType'
<1>1. CASE Emit(i)
  <2>1. planned' \in Plans /\ planned' \in 0..MaxPlans
    BY <1>1, Bounds DEF Emit, SharedType, Plans
  <2>2. gated' \subseteq Plans /\ booking' \subseteq Plans
    BY <1>1, <2>1 DEF Emit, SharedType
  <2>3. wording' \in [Plans -> Plans]
    <3>1. \A q \in 1..planned : wording[q] \in Plans
      BY Bounds DEF SharedType, Plans
    <3>2. PICK w \in {planned'} \union {wording[q] : q \in 1..planned} :
            wording' = [wording EXCEPT ![planned'] = w]
      BY <1>1 DEF Emit
    <3> QED
      BY <2>1, <3>1, <3>2 DEF SharedType
  <2>4. [st[i] EXCEPT !.plan = planned', !.slot = 0, !.verdict = "none"] \in AgentState
    <3>1. st[i] \in AgentState /\ 0 \in Nat
      BY DEF LocalType
    <3> QED
      BY <2>1, <3>1 DEF AgentState
  <2>5. LocalType'
    BY <1>1, <2>4, CommitType DEF Emit, Nodes
  <2> QED
    BY <2>1, <2>2, <2>3, <2>5 DEF SharedType, Plan, request, tools, ghosts
<1>2. CASE Fail(i) /\ UNCHANGED plans
  BY <1>2, FailType, QuietType DEF Plan
<1> QED
  BY <1>1, <1>2 DEF Plan

\* _pause_for_approval yields an AgentState.
LEMMA PausedType ==
  ASSUME NEW s \in AgentState, NEW card \in {"none", "card", "clash_card"}
  PROVE  [s EXCEPT !.requires_approval = TRUE,
                   !.draft = IF s.draft = "none" THEN card ELSE s.draft] \in AgentState
<1>1. (IF s.draft = "none" THEN card ELSE s.draft)
        \in {"none", "card", "clash_card", "no_slot", "plain", "flagged", "edited"}
  BY DEF AgentState
<1> QED
  BY <1>1 DEF AgentState

\* The first half of a pause; the lookup returns a token or none.
LEMMA PauseType ==
  ASSUME LocalType, SharedType, NEW i \in Invocations, NEW k \in {"plan", "clash", "output"},
         NEW s \in AgentState, NEW card \in {"none", "card", "clash_card"},
         Pause(i, k, s, card)
  PROVE  LocalType' /\ SharedType'
<1>1. PICK paused \in AgentState : Work(i, paused, "mint") /\ row' = paused
  BY PausedType DEF Pause
<1>2. found' \in [Invocations -> 0..MaxTokens]
  BY Bounds DEF Pause, Found, Undecided, Tokens, LocalType
<1>3. kind' \in [Invocations -> {"none", "plan", "clash", "output"}]
  BY DEF Pause, LocalType
<1>4. LocalType'
  BY <1>1, <1>2, <1>3, WorkType DEF Inside
<1>5. SharedType'
  BY <1>1, RowType DEF Pause
<1> QED
  BY <1>4, <1>5

\* The gate of execute.
LEMMA ExecuteType ==
  ASSUME LocalType, SharedType, NEW i \in Invocations, Execute(i)
  PROVE  LocalType' /\ SharedType'
<1>1. st[i] \in AgentState
  BY DEF LocalType
<1>2. CASE Pause(i, "plan", st[i], "card")
  BY <1>1, <1>2, PauseType
<1>3. CASE Work(i, st[i], "tools") /\ row' = st[i] /\ UNCHANGED <<kind, found, request, approvals, expired, tools, plans, crashes, ghosts>>
  <2>1. LocalType'
    BY <1>1, <1>3, WorkType DEF LocalType, Inside
  <2> QED
    BY <1>1, <1>3, <2>1, RowType
<1> QED
  BY <1>2, <1>3 DEF Execute

\* What interrupt() returns is a decision.
LEMMA AnswerType ==
  ASSUME LocalType, NEW i \in Invocations, HasAnswer(i) PROVE Answer(i) \in Decisions
<1>1. CASE Replaying(i)
  <2>1. answers[i] \in Seq(Decisions) /\ calls[i] \in Nat /\ calls[i] < Len(answers[i])
    BY <1>1 DEF LocalType, Replaying
  <2>2. calls[i] + 1 \in 1..Len(answers[i])
    BY <2>1
  <2> QED
    BY <1>1, <2>1, <2>2 DEF Answer
<1>2. CASE ~Replaying(i)
  BY <1>2 DEF HasAnswer, Answer, LocalType
<1> QED
  BY <1>1, <1>2

\* An interrupt() that returned: the answer taken joins the recorded ones.
LEMMA ProceedType ==
  ASSUME LocalType, NEW i \in Invocations, NEW s \in AgentState, NEW here \in Inside,
         HasAnswer(i), Proceed(i, s, here)
  PROVE  LocalType'
<1>1. pc' \in [Invocations -> Places] /\ st' \in [Invocations -> AgentState]
  BY DEF LocalType, Proceed, Stay, Places
<1>2. calls' \in [Invocations -> Nat] /\ kind' \in [Invocations -> {"none", "plan", "clash", "output"}]
  BY DEF LocalType, Proceed
<1>3. found' \in [Invocations -> 0..MaxTokens]
  BY Bounds DEF LocalType, Proceed
<1>4. answers' \in [Invocations -> Seq(Decisions)] /\ resume' \in [Invocations -> Decisions \union {"none"}]
  <2>1. CASE Replaying(i)
    BY <2>1 DEF LocalType, Proceed
  <2>2. CASE ~Replaying(i)
    <3>1. resume[i] \in Decisions
      BY <2>2, AnswerType DEF Answer
    <3>2. Append(answers[i], resume[i]) \in Seq(Decisions)
      BY <3>1 DEF LocalType
    <3> QED
      BY <2>2, <3>2, ZenonT(30) DEF LocalType, Proceed
  <2> QED
    BY <2>1, <2>2
<1> QED
  BY <1>1, <1>2, <1>3, <1>4 DEF Proceed, LocalType

\* An interrupt() that stopped the invocation.
LEMMA InterruptedType ==
  ASSUME LocalType, NEW i \in Invocations, Interrupted(i)
  PROVE  LocalType'
<1>1. pc' \in [Invocations -> Places]
  BY DEF LocalType, Interrupted, Stay, Places, Around
<1>2. thread' \in Threads
  BY DEF LocalType, Interrupted, Threads
<1> QED
  BY <1>1, <1>2 DEF Interrupted, LocalType

\* The token is known.
LEMMA MintType ==
  ASSUME LocalType, SharedType, NEW i \in Invocations, Mint(i)
  PROVE  LocalType' /\ SharedType'
<1>1. PICK t \in Tokens :
        GetToken(i, t) /\ Work(i, [st[i] EXCEPT !.approval_token = t], "show")
  BY DEF Mint
<1>2. [st[i] EXCEPT !.approval_token = t] \in AgentState
  <2>1. st[i] \in AgentState /\ t \in 0..MaxTokens
    BY Bounds DEF LocalType, Tokens
  <2> QED
    BY <2>1 DEF AgentState
<1>3. kind' \in [Invocations -> {"none", "plan", "clash", "output"}]
      /\ found' \in [Invocations -> 0..MaxTokens]
  BY DEF Mint, LocalType
<1>4. LocalType'
  BY <1>1, <1>2, <1>3, WorkType DEF Inside
<1>5. approvals' \in [Tokens -> {"unminted", "pending", "approve", "edit", "rejected"}]
  BY <1>1 DEF GetToken, SharedType
<1> QED
  BY <1>4, <1>5 DEF Mint, SharedType, request, tools, plans, ghosts

\* The second save.
LEMMA ShowType ==
  ASSUME LocalType, SharedType, NEW i \in Invocations, Show(i)
  PROVE  LocalType' /\ SharedType'
<1>1. st[i] \in AgentState
  BY DEF LocalType
<1>2. LocalType'
  BY <1>1, WorkType DEF Show, LocalType, Inside
<1> QED
  BY <1>1, <1>2, RowType DEF Show

\* The end of a pause, on a plan the planner emitted.
LEMMA AskType ==
  ASSUME LocalType, SharedType, NEW i \in Invocations, Ask(i),
         kind[i] # "output" => st[i].plan \in Plans
  PROVE  LocalType' /\ SharedType'
<1> DEFINE s == st[i]
<1>2. s \in AgentState
  BY DEF LocalType
<1>5. UNCHANGED <<request, approvals, expired, tools, plans, crashes, requested, refused, failures>>
  BY DEF Ask
<1>6. ASSUME LocalType', row' \in AgentState, approvedFor' \subseteq Plans, blind' \subseteq Plans
      PROVE  LocalType' /\ SharedType'
  BY <1>5, <1>6 DEF SharedType, request, tools, plans
<1> HIDE DEF s
<1>7. CASE Interrupted(i)
  BY <1>6, <1>7, InterruptedType DEF Interrupted, SharedType
<1>8. CASE Reject(i, s)
  BY <1>2, <1>6, <1>8, CommitType, UpdateTypes DEF Reject, SharedType
<1>9. CASE HasAnswer(i) /\ kind[i] = "plan" /\ Approve(i, s)
  <2>1. PlanAnswered(s, Answer(i)) \in AgentState
    BY <1>2, UpdateTypes
  <2>2. LocalType' /\ row' \in AgentState
    BY <1>9, <2>1, ProceedType DEF Approve, Inside
  <2>3. approvedFor' \subseteq Plans /\ blind' \subseteq Plans
    BY <1>9 DEF Approve, SharedType, s
  <2> QED
    BY <1>6, <2>2, <2>3
<1>10. CASE HasAnswer(i) /\ Rebook(i, s)
  BY <1>2, <1>6, <1>10, ProceedType, UpdateTypes DEF Rebook, Inside, SharedType
<1>11. CASE HasAnswer(i) /\ Release(i, s)
  BY <1>2, <1>6, <1>11, ProceedType, UpdateTypes DEF Release, Inside, SharedType
<1> QED
  BY <1>7, <1>8, <1>9, <1>10, <1>11 DEF s, Ask

\* The idempotency key of a step of an emitted plan is one of Keys.
LEMMA KeyType ==
  ASSUME LocalType, SharedType, NEW i \in Invocations, NEW c \in Calls, st[i].plan \in Plans
  PROVE  /\ Key(st[i], c) \in Keys
         /\ <<st[i].plan, c, Slot(st[i], c)>> \in Keys
<1>1. Slot(st[i], c) \in Nat
  BY DEF Slot, LocalType, AgentState
<1>2. wording[st[i].plan] \in Plans
  BY DEF SharedType
<1> QED
  BY <1>1, <1>2 DEF Key, Keys

\* A call of the MCP client for a step of an emitted plan.
LEMMA CallToolType ==
  ASSUME LocalType, SharedType, NEW i \in Invocations, CallTool(i), st[i].plan \in Plans
  PROVE  LocalType' /\ SharedType'
<1>1. UNCHANGED <<kind, found, request, row, approvals, expired, plans, crashes, ghosts>>
  BY DEF CallTool
<1>2. PICK c \in Steps(st[i]) :
        \/ \E h \in Cached(Key(st[i], c)) :
               Work(i, HasResult(st[i], c, h.result), "tools") /\ UNCHANGED tools
        \/ Work(i, HasResult(st[i], c, "failed"), "tools") /\ UNCHANGED tools
        \/ /\ \E r \in Results(st[i], c) :
                 /\ Work(i, HasResult(st[i], c, r), c)
                 /\ landed' = IF r = "ok" THEN landed \union {Key(st[i], c)} ELSE landed
                 /\ repeated' = IF r = "ok" /\ Key(st[i], c) \in landed
                                THEN repeated \union {Key(st[i], c)} ELSE repeated
           /\ called' = called \union {<<st[i].plan, c, Slot(st[i], c)>>}
           /\ UNCHANGED cache
  BY DEF CallTool
<1>3. c \in Calls
  BY DEF Steps, Calls
<1>4. ASSUME NEW r \in Outcomes, NEW here \in Inside, Work(i, HasResult(st[i], c, r), here)
      PROVE  LocalType'
  <2>1. HasResult(st[i], c, r) \in AgentState
    BY <1>3, UpdateTypes DEF LocalType
  <2> QED
    BY <1>1, <1>4, <2>1, WorkType DEF LocalType
<1>5. CASE \E h \in Cached(Key(st[i], c)) :
             Work(i, HasResult(st[i], c, h.result), "tools") /\ UNCHANGED tools
  <2>1. PICK h \in Cached(Key(st[i], c)) :
             Work(i, HasResult(st[i], c, h.result), "tools") /\ UNCHANGED tools
    BY <1>5
  <2>2. h.result \in Outcomes
    BY DEF Cached, SharedType
  <2> QED
    BY <1>1, <1>4, <2>1, <2>2, QuietType DEF Inside
<1>6. CASE Work(i, HasResult(st[i], c, "failed"), "tools") /\ UNCHANGED tools
  BY <1>1, <1>4, <1>6, QuietType DEF Inside, Outcomes
<1>7. CASE /\ \E r \in Results(st[i], c) :
                 /\ Work(i, HasResult(st[i], c, r), c)
                 /\ landed' = IF r = "ok" THEN landed \union {Key(st[i], c)} ELSE landed
                 /\ repeated' = IF r = "ok" /\ Key(st[i], c) \in landed
                                THEN repeated \union {Key(st[i], c)} ELSE repeated
           /\ called' = called \union {<<st[i].plan, c, Slot(st[i], c)>>}
           /\ UNCHANGED cache
  <2>1. LocalType'
    BY <1>3, <1>4, <1>7 DEF Results, Inside
  <2>2. called' \subseteq Keys /\ landed' \subseteq Keys /\ repeated' \subseteq Keys
    BY <1>3, <1>7, KeyType DEF SharedType
  <2> QED
    BY <1>1, <1>7, <2>1, <2>2 DEF SharedType, request, plans, ghosts
<1> QED
  BY <1>2, <1>5, <1>6, <1>7

\* Storing a result: a call that returned has one.
LEMMA CacheResultType ==
  ASSUME LocalType, SharedType, NEW i \in Invocations, CacheResult(i), st[i].plan \in Plans,
         \A c \in Calls : pc[i] = c => st[i].tool_results[c] # "none"
  PROVE  LocalType' /\ SharedType'
<1>1. st[i] \in AgentState /\ pc[i] \in Calls /\ Work(i, st[i], "tools") /\ UNCHANGED <<kind, found>>
  BY DEF LocalType, CacheResult
<1>2. LocalType'
  BY <1>1, WorkType DEF Inside, LocalType
<1>3. st[i].tool_results[pc[i]] \in Outcomes
  BY <1>1 DEF AgentState
<1>4. cache' \subseteq [key: Keys, result: Outcomes]
  <2> DEFINE k == Key(st[i], pc[i])
             h == [key |-> k, result |-> st[i].tool_results[pc[i]]]
  <2>1. k \in Keys
    BY <1>1, KeyType
  <2> HIDE DEF k
  <2>2. h \in [key: Keys, result: Outcomes]
    BY <1>3, <2>1
  <2>3. cache' = (cache \ Cached(k)) \union {h}
    BY DEF CacheResult, k
  <2> HIDE DEF h
  <2> QED
    BY <2>2, <2>3 DEF SharedType
<1> QED
  BY <1>2, <1>4 DEF CacheResult, SharedType, request, plans, ghosts

\* The drafts of an AgentState.
Drafts == {"none", "card", "clash_card", "no_slot", "plain", "flagged", "edited"}

\* Replacing the draft yields an AgentState.
LEMMA DraftType ==
  ASSUME NEW s \in AgentState, NEW d \in Drafts PROVE [s EXCEPT !.draft = d] \in AgentState
  BY DEF AgentState, Drafts

\* The drafts there are and those the composer writes.
LEMMA DraftOf ==
  ASSUME NEW s \in AgentState PROVE s.draft \in Drafts /\ Composed(s) \subseteq Drafts
  BY DEF AgentState, Drafts, Composed

\* The end of the tool calls.
LEMMA FinishToolsType ==
  ASSUME LocalType, SharedType, NEW i \in Invocations, FinishTools(i)
  PROVE  LocalType' /\ SharedType'
<1>1. st[i] \in AgentState /\ "compose" \in Nodes
  BY DEF LocalType, Nodes
<1>2. CASE Pause(i, "clash", st[i], "clash_card")
  BY <1>1, <1>2, PauseType
<1>3. CASE /\ row' = [st[i] EXCEPT !.draft = "no_slot"]
           /\ Commit(i, [st[i] EXCEPT !.draft = "no_slot"], "compose")
           /\ UNCHANGED <<request, approvals, expired, tools, plans, crashes, ghosts>>
  <2>1. [st[i] EXCEPT !.draft = "no_slot"] \in AgentState
    BY <1>1, DraftType DEF Drafts
  <2> QED
    BY <1>1, <1>3, <2>1, CommitType, RowType
<1>4. CASE /\ Commit(i, DropCard(st[i]), "compose")
           /\ UNCHANGED <<request, row, approvals, expired, tools, plans, crashes, ghosts>>
  <2>1. DropCard(st[i]) \in AgentState
    BY <1>1, UpdateTypes
  <2> QED
    BY <1>1, <1>4, <2>1, CommitType, QuietType
<1> QED
  BY <1>2, <1>3, <1>4 DEF FinishTools

\* execute_node turning an exception into an error.
LEMMA ExecuteFailsType ==
  ASSUME LocalType, SharedType, NEW i \in Invocations, ExecuteFails(i)
  PROVE  LocalType' /\ SharedType'
<1>1. failures' \subseteq {"pause", "handler", "discard"}
  BY DEF ExecuteFails, PauseFailure, SharedType
<1> QED
  BY <1>1, FailType, FailureType DEF ExecuteFails, request, SharedType

\* The compose node.
LEMMA ComposeType ==
  ASSUME LocalType, SharedType, NEW i \in Invocations, Compose(i)
  PROVE  LocalType' /\ SharedType'
<1>1. st[i] \in AgentState /\ "guard" \in Nodes
  BY DEF LocalType, Nodes
<1>2. UNCHANGED <<request, approvals, expired, tools, plans, crashes, ghosts>>
  BY DEF Compose
<1>3. CASE \E d \in Composed(st[i]) :
             /\ row' = [st[i] EXCEPT !.draft = d]
             /\ Commit(i, [st[i] EXCEPT !.draft = d], "guard")
  <2>1. PICK d \in Composed(st[i]) :
             /\ row' = [st[i] EXCEPT !.draft = d]
             /\ Commit(i, [st[i] EXCEPT !.draft = d], "guard")
    BY <1>3
  <2>2. [st[i] EXCEPT !.draft = d] \in AgentState
    BY <1>1, DraftOf, DraftType
  <2> QED
    BY <1>1, <1>2, <2>1, <2>2, CommitType, RowType
<1>4. CASE Fail(i) /\ UNCHANGED row
  BY <1>2, <1>4, FailType, QuietType
<1>5. CASE Commit(i, st[i], "guard") /\ UNCHANGED row
  BY <1>1, <1>2, <1>5, CommitType, QuietType
<1> QED
  BY <1>3, <1>4, <1>5 DEF Compose

\* The guard node up to the score.
LEMMA GuardType ==
  ASSUME LocalType, SharedType, NEW i \in Invocations, Guard(i)
  PROVE  LocalType' /\ SharedType'
<1>1. st[i] \in AgentState
  BY DEF LocalType
<1>2. CASE \E s \in {[st[i] EXCEPT !.error = "pii_detected", !.requires_approval = TRUE],
                     Failing(st[i], "missing_integration"), Failing(st[i], "guardrail_output")} :
              /\ Commit(i, s, "end")
              /\ UNCHANGED <<request, row, approvals, expired, tools, plans, crashes, ghosts>>
  <2>1. PICK s \in {[st[i] EXCEPT !.error = "pii_detected", !.requires_approval = TRUE],
                    Failing(st[i], "missing_integration"), Failing(st[i], "guardrail_output")} :
              /\ Commit(i, s, "end")
              /\ UNCHANGED <<request, row, approvals, expired, tools, plans, crashes, ghosts>>
    BY <1>2
  <2>2. [st[i] EXCEPT !.error = "pii_detected", !.requires_approval = TRUE] \in AgentState
    BY <1>1 DEF AgentState
  <2>3. s \in AgentState
    BY <1>1, <2>1, <2>2, FailingType
  <2> QED
    BY <2>1, <2>3, CommitType, QuietType
<1>3. CASE \E d \in {st[i].draft} \union Composed(st[i]) :
             \/ Pause(i, "output", [st[i] EXCEPT !.draft = d], "none")
             \/ /\ Work(i, [st[i] EXCEPT !.draft = d], "score")
                /\ UNCHANGED <<kind, found, request, row, approvals, expired, tools, plans,
                               crashes, ghosts>>
  <2>1. PICK d \in {st[i].draft} \union Composed(st[i]) :
             \/ Pause(i, "output", [st[i] EXCEPT !.draft = d], "none")
             \/ /\ Work(i, [st[i] EXCEPT !.draft = d], "score")
                /\ UNCHANGED <<kind, found, request, row, approvals, expired, tools, plans,
                               crashes, ghosts>>
    BY <1>3
  <2>2. [st[i] EXCEPT !.draft = d] \in AgentState
    BY <1>1, DraftOf, DraftType
  <2>3. CASE Pause(i, "output", [st[i] EXCEPT !.draft = d], "none")
    BY <2>2, <2>3, PauseType
  <2>4. CASE /\ Work(i, [st[i] EXCEPT !.draft = d], "score")
             /\ UNCHANGED <<kind, found, request, row, approvals, expired, tools, plans,
                            crashes, ghosts>>
    BY <2>2, <2>4, WorkType, QuietType DEF LocalType, Inside
  <2> QED
    BY <2>1, <2>3, <2>4
<1> QED
  BY <1>2, <1>3 DEF Guard

\* The router after the guard names a node or END.
LEMMA AfterGuardType ==
  ASSUME NEW s PROVE AfterGuard(s) \in Nodes \union {"end"}
  BY DEF AfterGuard, Nodes

\* The verdict of the guard.
LEMMA ScoreStepType ==
  ASSUME LocalType, SharedType, NEW i \in Invocations, Score(i)
  PROVE  LocalType' /\ SharedType'
<1>1. PICK x \in Confidences(st[i]) :
         Commit(i, Decide(st[i], x), AfterGuard(Decide(st[i], x)))
  BY DEF Score
<1>2. Decide(st[i], x) \in AgentState
  BY ScoreType DEF LocalType
<1>3. AfterGuard(Decide(st[i], x)) \in Nodes \union {"end"}
  BY AfterGuardType
<1>4. LocalType'
  BY <1>1, <1>2, <1>3, CommitType
<1> QED
  BY <1>4, QuietType DEF Score

\* The respond node.
LEMMA RespondType ==
  ASSUME LocalType, SharedType, NEW i \in Invocations, Respond(i)
  PROVE  LocalType' /\ SharedType'
<1>1. st[i] \in AgentState
  BY DEF LocalType
<1>2. CASE row' = st[i] /\ Commit(i, st[i], "end")
  BY <1>1, <1>2, CommitType, RowType DEF Respond
<1>3. CASE Fail(i) /\ UNCHANGED row
  BY <1>3, FailType, QuietType DEF Respond
<1> QED
  BY <1>2, <1>3 DEF Respond

\* An exception that leaves the graph.
LEMMA RaiseType ==
  ASSUME LocalType, SharedType, NEW i \in Invocations, Raise(i)
  PROVE  LocalType' /\ SharedType'
<1>1. failures' \subseteq {"pause", "handler", "discard"}
  BY DEF Raise, PauseFailure, SharedType
<1>2. SharedType'
  BY <1>1, FailureType DEF Raise, request, SharedType
<1> QED
  BY <1>2 DEF Raise, LocalType, Stay, Places, Around

\* The runner stops at a pause.
LEMMA ParkType == ASSUME LocalType, SharedType, Park PROVE LocalType' /\ SharedType'
<1>1. Runner \in Invocations /\ "parked" \in {"parked", "done"}
  BY DEF Invocations
<1>2. thread' \in Threads
  BY DEF Park, LocalType
<1> QED
  BY <1>1, <1>2, ReturnType, QuietType DEF Park

\* The runner finishes, fails or times out.
LEMMA EndOfRunType == ASSUME LocalType, SharedType, EndOfRun PROVE LocalType' /\ SharedType'
<1>1. Runner \in Invocations
  BY DEF Invocations
<1>2. PICK e \in {"none", "failed", "run_timeout"} :
         held' = IF held[Runner].error # "none" THEN held
                 ELSE [held EXCEPT ![Runner].error = e]
  BY DEF EndOfRun
<1>3. Failing(held[Runner], e) \in AgentState
  BY <1>1, FailingType DEF LocalType
<1>4. held' \in [Invocations -> AgentState]
  BY <1>1, <1>2, <1>3 DEF LocalType, Failing
<1>5. LocalType'
  BY <1>1, <1>4 DEF EndOfRun, inGraph, LocalType, Stay, Places, Around
<1> QED
  BY <1>5, QuietType DEF EndOfRun

\* submit_approval accepts a decision.
LEMMA SubmitType ==
  ASSUME LocalType, SharedType, NEW i \in Submitters, Submit(i)
  PROVE  LocalType' /\ SharedType'
<1>1. i \in Invocations
  BY DEF Invocations
<1>2. PICK t \in Tokens \ expired, d \in Choices :
         /\ tok' = [tok EXCEPT ![i] = t] /\ dec' = [dec EXCEPT ![i] = d]
         /\ refused' = IF d = "reject" THEN refused \union {row.plan} ELSE refused \ {row.plan}
  BY DEF Submit
<1>3. t \in 0..MaxTokens /\ d \in Decisions
  BY ConstantsOK, Bounds DEF Tokens, Decisions
<1>4. row.plan \in 0..MaxPlans
  BY DEF SharedType, AgentState
<1>5. LocalType'
  BY <1>1 DEF Submit, inGraph, LocalType, Stay, Places, Around
<1>6. UNCHANGED <<row, approvals, expired, tools, plans, crashes, freeing, requested,
                  approvedFor, blind, failures>>
  BY DEF Submit
<1>7. seen' \in [Submitters -> 0..MaxPlans]
  BY <1>4 DEF Submit, SharedType
<1> QED
  BY <1>2, <1>3, <1>4, <1>5, <1>6, <1>7 DEF SharedType, tools, plans

\* The handler loads the checkpoint; its decision is one.
LEMMA ResumeType ==
  ASSUME LocalType, SharedType, NEW i \in Submitters, Resume(i), dec[i] \in Decisions
  PROVE  LocalType' /\ SharedType'
<1>1. i \in Invocations
  BY DEF Invocations
<1>2. CASE thread.next = "gone"
  BY <1>1, <1>2, QuietType DEF Resume, inGraph, LocalType, Stay, Places, Around
<1>3. CASE thread.next # "gone"
  <2>1. thread.next \in Places /\ thread.st \in AgentState /\ thread.answers \in Seq(Decisions)
    BY <1>3 DEF LocalType, Threads, Places, Inside, Around
  <2>2. pc' \in [Invocations -> Places]
    BY <1>1, <1>3, <2>1, ZenonT(30) DEF Resume, LocalType, Stay
  <2>3. st' \in [Invocations -> AgentState] /\ held' \in [Invocations -> AgentState]
    BY <1>1, <1>3, <2>1 DEF Resume, LocalType
  <2>4. resume' = [resume EXCEPT ![i] = dec[i]] /\ calls' = [calls EXCEPT ![i] = 0]
    BY <1>3 DEF Resume
  <2>5. answers' \in [Invocations -> Seq(Decisions)]
    BY <1>1, <1>3, <2>1 DEF Resume, LocalType
  <2>6. LocalType'
    BY <1>1, <1>3, <2>2, <2>3, <2>4, <2>5 DEF Resume, LocalType
  <2> QED
    BY <2>6, QuietType DEF Resume
<1> QED
  BY <1>2, <1>3

\* ainvoke returned or raised.
LEMMA ResumedType ==
  ASSUME LocalType, SharedType, NEW i \in Submitters, Resumed(i)
  PROVE  LocalType' /\ SharedType'
<1>1. i \in Invocations /\ "done" \in {"parked", "done"}
  BY DEF Invocations
<1>2. SharedType' /\ thread' \in Threads
  BY QuietType DEF Resumed, LocalType
<1>3. CASE Stay(i, "save") /\ UNCHANGED <<inGraph, held>>
  BY <1>1, <1>2, <1>3 DEF inGraph, LocalType, Stay, Places, Around
<1>4. CASE Return(i, "done")
  BY <1>1, <1>2, <1>4, ReturnType
<1> QED
  BY <1>2, <1>3, <1>4 DEF Resumed

\* The row is saved from the committed state.
LEMMA SaveType ==
  ASSUME LocalType, SharedType, NEW i \in Invocations, Save(i)
  PROVE  LocalType' /\ SharedType'
<1>1. LocalType'
  BY DEF Save, inGraph, LocalType, Stay, Places, Around
<1>2. row' \in AgentState
  BY DEF Save, LocalType
<1> QED
  BY <1>1, <1>2, RowType DEF Save

\* The decision is recorded on the token it named.
LEMMA RecordType ==
  ASSUME LocalType, SharedType, NEW i \in Submitters, Record(i),
         tok[i] \in Tokens, dec[i] \in Decisions
  PROVE  LocalType' /\ SharedType'
<1>1. i \in Invocations
  BY DEF Invocations
<1>2. LocalType'
  BY <1>1 DEF Record, inGraph, LocalType, Stay, Places, Around
<1>3. (IF dec[i] = "reject" THEN "rejected" ELSE dec[i]) \in {"approve", "edit", "rejected"}
  BY DEF Decisions
<1>4. approvals' \in [Tokens -> {"unminted", "pending", "approve", "edit", "rejected"}]
  BY <1>3 DEF Record, SharedType
<1> QED
  BY <1>2, <1>4 DEF Record, SharedType, request, tools, plans, ghosts

\* A save that fails.
LEMMA SaveFailsType ==
  ASSUME LocalType, SharedType, NEW i \in Invocations, SaveFails(i)
  PROVE  LocalType' /\ SharedType'
<1>1. thread' \in Threads /\ "done" \in {"parked", "done"}
  BY DEF SaveFails, LocalType
<1>2. failures' \subseteq {"pause", "handler", "discard"}
  BY DEF SaveFails, SharedType
<1>3. SharedType'
  BY <1>2, FailureType DEF SaveFails, request, SharedType
<1>4. CASE Return(i, "done")
  BY <1>1, <1>3, <1>4, ReturnType
<1>5. CASE Stay(i, "discard") /\ UNCHANGED <<inGraph, held>>
  BY <1>1, <1>3, <1>5 DEF inGraph, LocalType, Stay, Places, Around
<1> QED
  BY <1>4, <1>5 DEF SaveFails

\* The checkpoint is deleted, or left.
LEMMA DiscardThreadType ==
  ASSUME LocalType, SharedType, DiscardThread
  PROVE  thread' \in Threads /\ failures' \subseteq {"pause", "handler", "discard"}
  BY GoneType DEF DiscardThread, LocalType, SharedType
LEMMA DiscardType ==
  ASSUME LocalType, SharedType, NEW i \in Invocations, Discard(i)
  PROVE  LocalType' /\ SharedType'
<1>1. thread' \in Threads /\ failures' \subseteq {"pause", "handler", "discard"}
  BY DiscardThreadType DEF Discard
<1>2. SharedType'
  BY <1>1, FailureType DEF Discard, request, SharedType
<1>3. "done" \in {"parked", "done"}
  OBVIOUS
<1> QED
  BY <1>1, <1>2, <1>3, ReturnType DEF Discard

\* Expiry, the auto-reject of list_approvals and the end of the cache.
LEMMA ClockType ==
  ASSUME LocalType, SharedType, ClockStep
  PROVE  LocalType' /\ SharedType'
<1>1. ASSUME NEW t \in Tokens, Expire(t) PROVE LocalType' /\ SharedType'
  BY <1>1 DEF Expire, LocalType, SharedType, local, request, tools, plans, ghosts
<1>2. ASSUME NEW t \in Tokens, AutoReject(t) PROVE LocalType' /\ SharedType'
  <2>1. LocalType'
    BY <1>2 DEF AutoReject, LocalType, local
  <2>2. approvals' \in [Tokens -> {"unminted", "pending", "approve", "edit", "rejected"}]
    BY <1>2 DEF AutoReject, SharedType
  <2>3. freeing' \subseteq Tokens
    BY <1>2 DEF AutoReject, SharedType
  <2> QED
    BY <1>2, <2>1, <2>2, <2>3 DEF AutoReject, SharedType, tools, plans, ghosts
<1>4. ASSUME NEW t \in Tokens, FreeThread(t) PROVE LocalType' /\ SharedType'
  <2>1. thread' \in Threads /\ failures' \subseteq {"pause", "handler", "discard"}
    BY <1>4, DiscardThreadType DEF FreeThread
  <2>2. LocalType'
    BY <1>4, <2>1 DEF FreeThread, LocalType, local
  <2>3. freeing' \subseteq Tokens
    BY <1>4 DEF FreeThread, SharedType
  <2> QED
    BY <1>4, <2>1, <2>2, <2>3, FailureType DEF FreeThread
<1>3. ASSUME CacheExpiry PROVE LocalType' /\ SharedType'
  BY <1>3 DEF CacheExpiry, LocalType, SharedType, local, request, plans, ghosts
<1> QED
  BY <1>1, <1>2, <1>3, <1>4 DEF ClockStep

\* A restart.
LEMMA CrashType == ASSUME LocalType, SharedType, Crash PROVE LocalType' /\ SharedType'
<1>1. Initial(FALSE) \in AgentState
  BY InitialType
<1>2. thread' \in Threads
  BY GoneType DEF Crash, LocalType
<1>3. st' \in [Invocations -> AgentState] /\ held' \in [Invocations -> AgentState]
  BY <1>1 DEF Crash
<1>4. pc' \in [Invocations -> Places]
  BY DEF Crash, LocalType, Places, Around
<1>5. answers' \in [Invocations -> Seq(Decisions)] /\ calls' \in [Invocations -> Nat]
  BY DEF Crash
<1>6. resume' \in [Invocations -> Decisions \union {"none"}]
      /\ found' \in [Invocations -> 0..MaxTokens]
      /\ kind' \in [Invocations -> {"none", "plan", "clash", "output"}]
  BY Bounds DEF Crash
<1>7. LocalType'
  BY <1>2, <1>3, <1>4, <1>5, <1>6 DEF LocalType
<1>8. crashes' \in 0..MaxCrashes
  BY Bounds DEF Crash, SharedType
<1> QED
  BY <1>7, <1>8 DEF Crash, SharedType, tools, plans, ghosts
=============================================================================
