---------------------------- MODULE WorkflowRun ----------------------------
(***************************************************************************)
(* One run of the engine: the LangGraph workflow of app/orchestration, the *)
(* background task of app/api/invoke.py that drives it, and the approval   *)
(* handlers of app/api/approvals.py that resume it.                        *)
(*                                                                         *)
(* An invocation of the graph is the runner (astream in the background     *)
(* task) or one POST /v1/approvals/{token} handler (ainvoke with           *)
(* Command(resume=...)).  Each holds its own copy of AgentState; they      *)
(* share the checkpoint thread, the plans row, the approvals rows and the  *)
(* Redis idempotency cache.  A node's changes reach the checkpoint only    *)
(* when the node returns: an interrupted node is replayed from its input.  *)
(***************************************************************************)
EXTENDS Naturals, Sequences, FiniteSets

CONSTANTS
    Runner,        \* the background task of one POST /v1/invoke
    Submitters,    \* the POST /v1/approvals/{token} calls
    MaxRetries,    \* guard.MAX_RETRIES
    MaxPlans,      \* bound: plans the planner emits
    MaxTokens,     \* bound: approval rows
    MaxSlot,       \* bound: free slots suggested one after the other
    MaxCrashes,    \* bound: process restarts
    OneAtATime,    \* TRUE: decisions are submitted one after the other
    Timeouts,      \* TRUE: the 120 s run timeout may fire
    CacheExpires,  \* TRUE: a pause may outlive the 15 min idempotency cache
    Expires,       \* TRUE: an approval may outlive its 24 hours
    Choices,       \* bound: the decisions users submit
    Durable        \* CHECKPOINTER_BACKEND: TRUE postgres, FALSE memory

ASSUME ConstantsOK ==
    /\ Runner \notin Submitters
    /\ {MaxRetries, MaxPlans, MaxTokens, MaxSlot, MaxCrashes} \subseteq Nat
    /\ {OneAtATime, Timeouts, CacheExpires, Expires, Durable} \subseteq BOOLEAN
    /\ Choices \subseteq {"approve", "edit", "reject"}

Invocations == Submitters \union {Runner}
Plans       == 1..MaxPlans
Tokens      == 1..MaxTokens
Decisions   == {"approve", "edit", "reject"}
Calls       == {"write", "event"}      \* an ordinary step; a calendar create_event
Outcomes    == {"ok", "failed", "clash", "full"}
Nodes       == {"intake", "retrieve", "plan", "execute", "compose", "guard", "respond"}
\* Where an invocation may be inside a node: at the three last calls of a pause, between
\* tool calls, with the result of a call it has not cached yet, scoring.
Inside      == Nodes \union {"mint", "show", "ask", "tools", "score"} \union Calls
\* Around the graph: before it, where it stopped, and the handler's own steps.
Around      == {"start", "idle", "resume", "end", "interrupted", "raised", "parked",
                "save", "status", "discard", "done"}
Places      == Inside \union Around

\* _idempotency_key: the steps of a plan (by their wording), the step, its arguments.
Keys == Plans \X Calls \X Nat

NoResults == [c \in Calls |-> "none"]

(* AgentState, with the fields the control depends on.  draft: "card" is the *)
(* plan approval card, "clash_card" the rebooking card, "no_slot" the        *)
(* conflict report that is itself the answer; a composed draft is "plain" or *)
(* "flagged": the output guardrails ask for an approval of it.               *)
AgentState ==
    [plan: 0..MaxPlans, slot: Nat,
     tool_results: [Calls -> Outcomes \union {"none"}],
     draft: {"none", "card", "clash_card", "no_slot", "plain", "flagged", "edited"},
     requires_approval: BOOLEAN, approval_token: 0..MaxTokens,
     plan_approved: BOOLEAN, retry_count: 0..MaxRetries,
     error: {"none", "failed", "rejected_by_user", "run_timeout", "pii_detected",
             "missing_integration", "guardrail_output", "low_confidence_blocked"},
     verdict: {"none", "finalize", "replan", "block"}]

Initial(asked) ==
    [plan |-> 0, slot |-> 0, tool_results |-> NoResults, draft |-> "none",
     requires_approval |-> asked, approval_token |-> 0, plan_approved |-> FALSE,
     retry_count |-> 0, error |-> "none", verdict |-> "none"]

Threads == [next: Nodes \union {"end", "gone"}, st: AgentState, answers: Seq(Decisions)]
Gone == [next |-> "gone", st |-> Initial(FALSE), answers |-> <<>>]

VARIABLES
    pc,         \* per invocation: the node, or the step of the handler around the graph
    st,         \* per invocation: the AgentState its current node is working on
    held,       \* per invocation: the state the graph last committed and streamed to it
    resume,     \* per invocation: the Command(resume) value no interrupt() has taken yet
    answers,    \* per invocation: resume values recorded for the node it replays
    calls,      \* per invocation: interrupt() calls the node has made so far
    kind,       \* per invocation: what the pause is about
    found,      \* per invocation: the undecided token the lookup returned, or 0
    tok, dec,   \* per submitter: the token and the decision of the request
    freeing,    \* GET /v1/approvals: tokens it has rejected and not yet freed the thread of
    thread,     \* the checkpoint thread
    row,        \* the plans row (from the first save on; approvals reference it)
    approvals,  \* the approvals rows
    expired,    \* tokens older than 24 hours
    cache,      \* Redis: idempotency key -> result of the call
    planned,    \* plans emitted so far
    gated,      \* plans with a step that needs approval
    booking,    \* plans with a calendar create_event step
    wording,    \* per plan: the first plan with the same step ids and arguments
    crashes,    \* restarts so far
    \* observations, read by the properties only
    requested,  \* the request asked for approval (require_approval)
    approvedFor,\* plans a plan-stage decision approved
    refused,    \* plans on show when the user last decided, with "reject"
    seen,       \* per submitter: the plan on show when the decision was submitted
    blind,      \* plans approved by a decision submitted while another plan was on show
    failures,   \* calls to a store that failed: "pause", "handler", "discard"
    called,     \* calls that reached a tool server: plan, step, slot
    landed,     \* idempotency keys whose call took effect there
    repeated    \* keys whose call took effect there again

local  == <<pc, st, held, resume, answers, calls, kind, found>>
request == <<tok, dec, seen, freeing>>
tools  == <<cache, called, landed, repeated>>
plans  == <<planned, gated, booking, wording>>
ghosts == <<requested, approvedFor, refused, blind, failures>>
vars   == <<local, request, thread, row, approvals, expired, tools, plans, crashes, ghosts>>

TypeOK ==
    /\ pc \in [Invocations -> Places]
    /\ st \in [Invocations -> AgentState] /\ held \in [Invocations -> AgentState]
    /\ resume \in [Invocations -> Decisions \union {"none"}]
    /\ answers \in [Invocations -> Seq(Decisions)]
    /\ calls \in [Invocations -> Nat]
    /\ kind \in [Invocations -> {"none", "plan", "clash", "output"}]
    /\ found \in [Invocations -> 0..MaxTokens]
    /\ tok \in [Submitters -> 0..MaxTokens] /\ dec \in [Submitters -> Decisions \union {"none"}]
    /\ seen \in [Submitters -> 0..MaxPlans]
    /\ thread \in Threads
    /\ row \in AgentState
    /\ approvals \in [Tokens -> {"unminted", "pending", "approve", "edit", "rejected"}]
    /\ expired \subseteq Tokens /\ freeing \subseteq Tokens
    /\ cache \subseteq [key: Keys, result: Outcomes]
    /\ gated \subseteq Plans /\ booking \subseteq Plans /\ wording \in [Plans -> Plans]
    /\ approvedFor \subseteq Plans /\ blind \subseteq Plans
    /\ refused \subseteq 0..MaxPlans /\ failures \subseteq {"pause", "handler", "discard"}
    /\ planned \in 0..MaxPlans /\ crashes \in 0..MaxCrashes /\ requested \in BOOLEAN
    /\ called \subseteq Keys /\ landed \subseteq Keys /\ repeated \subseteq Keys

Init ==
    /\ requested \in BOOLEAN
    /\ pc = [i \in Invocations |-> IF i = Runner THEN "start" ELSE "idle"]
    /\ st = [i \in Invocations |-> Initial(i = Runner /\ requested)] /\ held = st
    /\ resume = [i \in Invocations |-> "none"] /\ answers = [i \in Invocations |-> <<>>]
    /\ calls = [i \in Invocations |-> 0] /\ found = [i \in Invocations |-> 0]
    /\ kind = [i \in Invocations |-> "none"]
    /\ tok = [i \in Submitters |-> 0] /\ dec = [i \in Submitters |-> "none"]
    /\ seen = [i \in Submitters |-> 0] /\ freeing = {}
    /\ thread = Gone /\ row = Initial(requested)
    /\ approvals = [t \in Tokens |-> "unminted"] /\ expired = {}
    /\ cache = {} /\ called = {} /\ landed = {} /\ repeated = {}
    /\ planned = 0 /\ gated = {} /\ booking = {} /\ wording = [p \in Plans |-> p]
    /\ crashes = 0
    /\ approvedFor = {} /\ refused = {} /\ blind = {} /\ failures = {}

-----------------------------------------------------------------------------
(* The graph's machinery: commit a node's result and go on.                  *)

\* Every router sends a state with an error to END (graph.py).
Onward(s, next) == IF s.error # "none" THEN "end" ELSE next

Stay(i, here) == pc' = [pc EXCEPT ![i] = here]

\* Mutant of Commit: a resume value left over is kept for the next interrupt().
CommitKeepsResume(i, s, next) ==
    /\ Stay(i, next)
    /\ st' = [st EXCEPT ![i] = s] /\ held' = [held EXCEPT ![i] = s]
    /\ answers' = [answers EXCEPT ![i] = <<>>] /\ calls' = [calls EXCEPT ![i] = 0]
    /\ kind' = [kind EXCEPT ![i] = "none"] /\ found' = [found EXCEPT ![i] = 0]
    /\ thread' = [next |-> next, st |-> s, answers |-> <<>>]
    /\ UNCHANGED resume

(* The node of invocation i returned s: the checkpoint now holds s and the   *)
(* next node, the stream yields s, and a resume value left over is dropped.  *)
Commit(i, s, next) ==
    /\ Stay(i, next)
    /\ st' = [st EXCEPT ![i] = s] /\ held' = [held EXCEPT ![i] = s]
    /\ resume' = [resume EXCEPT ![i] = "none"] /\ answers' = [answers EXCEPT ![i] = <<>>]
    /\ calls' = [calls EXCEPT ![i] = 0]
    /\ kind' = [kind EXCEPT ![i] = "none"] /\ found' = [found EXCEPT ![i] = 0]
    /\ thread' = [next |-> next, st |-> s, answers |-> <<>>]

\* Still inside the node: only its working copy moves.
Work(i, s, here) ==
    /\ Stay(i, here) /\ st' = [st EXCEPT ![i] = s]
    /\ UNCHANGED <<held, resume, answers, calls, thread>>

\* A node that records its own exception sends the run to END.
Failing(s, e) == [s EXCEPT !.error = e]
Fail(i) == Commit(i, Failing(st[i], "failed"), "end")

StartRun ==
    /\ pc[Runner] = "start"
    /\ Commit(Runner, st[Runner], "intake")
    /\ UNCHANGED <<request, row, approvals, expired, tools, plans, crashes, ghosts>>

\* intake and retrieve either do their reading or record "<node>_failed".
Stage(i, node, next) ==
    /\ pc[i] = node
    /\ \E e \in {"none", "failed"} :
          LET s == Failing(st[i], e) IN Commit(i, s, Onward(s, next))
    /\ UNCHANGED <<request, row, approvals, expired, tools, plans, crashes, ghosts>>

(* The planner commits a plan and clears the verdict.  A replan may ask for  *)
(* the very steps of an earlier plan, though with another confidence and so  *)
(* another gate.                                                             *)
Emit(i) ==
    /\ planned < MaxPlans
    /\ planned' = planned + 1
    /\ gated' \in {gated, gated \union {planned'}}
    /\ booking' \in {booking, booking \union {planned'}}
    /\ \E w \in {planned'} \union {wording[q] : q \in 1..planned} :
          /\ wording' = [wording EXCEPT ![planned'] = w]
          /\ (w \in booking') <=> (planned' \in booking')
    /\ Commit(i, [st[i] EXCEPT !.plan = planned', !.slot = 0, !.verdict = "none"], "execute")

Plan(i) ==
    /\ pc[i] = "plan"
    /\ Emit(i) \/ (Fail(i) /\ UNCHANGED plans)
    /\ UNCHANGED <<request, row, approvals, expired, tools, crashes, ghosts>>

-----------------------------------------------------------------------------
(* Pauses: _pause_for_approval and the output pause of the guard.            *)

\* The undecided approvals of the run, and what get_or_create_approval finds of them.
Undecided == {t \in Tokens : approvals[t] = "pending"}
\* Mutant of Found: every pause mints a token.
FoundNothing == {0}
Found == IF Undecided = {} THEN {0} ELSE Undecided

(* requires_approval is set, an empty draft becomes the pause's card, the    *)
(* row is saved, and get_or_create_approval looks for an undecided token.    *)
Pause(i, k, s, card) ==
    LET paused == [s EXCEPT !.requires_approval = TRUE,
                            !.draft = IF s.draft = "none" THEN card ELSE s.draft]
    IN  /\ Work(i, paused, "mint")
        /\ row' = paused
        /\ kind' = [kind EXCEPT ![i] = k]
        /\ \E t \in Found : found' = [found EXCEPT ![i] = t]
        /\ UNCHANGED <<request, approvals, expired, tools, plans, crashes, ghosts>>

\* Mutant of Refuses: the decision compared with the word the database uses.
RefusesPastTense(d) == d = "rejected"
Refuses(d) == d = "reject"
Rejected(s) == [s EXCEPT !.error = "rejected_by_user", !.requires_approval = FALSE]

\* The plan-stage gate after the answer.
PlanAnswered(s, d) ==
    [s EXCEPT !.requires_approval = FALSE, !.plan_approved = TRUE,
              !.draft = IF d = "edit" THEN "edited" ELSE s.draft]

\* _apply_rebook: the event step takes the suggested slot, results and draft go.
Rebooked(s) ==
    [s EXCEPT !.requires_approval = FALSE, !.slot = s.slot + 1,
              !.tool_results = NoResults, !.draft = "none"]

OutputAnswered(s, d) ==
    [s EXCEPT !.requires_approval = FALSE,
              !.draft = IF d = "edit" THEN "edited" ELSE s.draft]

(* interrupt(): its n-th call in a node takes the n-th answer recorded for    *)
(* the replayed node, and after those the resume value of this invocation.   *)
Replaying(i) == calls[i] < Len(answers[i])
HasAnswer(i) == Replaying(i) \/ resume[i] # "none"
Answer(i)    == IF Replaying(i) THEN answers[i][calls[i] + 1] ELSE resume[i]

\* interrupt() returned: the node goes on with s, and the answer is recorded.
Proceed(i, s, here) ==
    /\ Stay(i, here) /\ st' = [st EXCEPT ![i] = s]
    /\ calls' = [calls EXCEPT ![i] = @ + 1]
    /\ IF Replaying(i) THEN UNCHANGED <<answers, resume>>
       ELSE /\ answers' = [answers EXCEPT ![i] = Append(@, resume[i])]
            /\ resume' = [resume EXCEPT ![i] = "none"]
    /\ kind' = [kind EXCEPT ![i] = "none"] /\ found' = [found EXCEPT ![i] = 0]
    /\ UNCHANGED <<held, thread>>

Approve(i, s) ==
    /\ Proceed(i, PlanAnswered(s, Answer(i)), "tools")
    /\ row' = PlanAnswered(s, Answer(i))
    /\ approvedFor' = approvedFor \union {s.plan}
    /\ blind' = IF ~Replaying(i) /\ seen[i] # s.plan THEN blind \union {s.plan} ELSE blind

\* The loop of _run starts over with the suggested slot; the guard goes on to score.
Rebook(i, s)  ==
    Proceed(i, Rebooked(s), "tools") /\ UNCHANGED <<row, approvedFor, blind>>
Release(i, s) ==
    Proceed(i, OutputAnswered(s, Answer(i)), "score") /\ UNCHANGED <<row, approvedFor, blind>>

\* A rejection sets the error, saves the row and returns: the run is over.
Reject(i, s) ==
    /\ row' = Rejected(s)
    /\ Commit(i, Rejected(s), "end")
    /\ UNCHANGED <<approvedFor, blind>>

(* The interrupt has no answer: GraphInterrupt ends the invocation.  The     *)
(* checkpoint still holds the node's input, with the answers taken so far.   *)
Interrupted(i) ==
    /\ Stay(i, "interrupted")
    /\ thread' = IF thread.next \in {"execute", "guard"} /\ thread.st = held[i]
                 THEN [thread EXCEPT !.answers = answers[i]] ELSE thread
    /\ UNCHANGED <<st, held, resume, answers, calls, kind, found, row, approvedFor, blind>>

\* create_approval, a transaction of its own, unless the lookup found an undecided token.
GetToken(i, t) ==
    IF found[i] # 0 THEN t = found[i] /\ UNCHANGED approvals
    ELSE /\ \A u \in Tokens : (approvals[u] = "unminted") <=> (u >= t)
         /\ approvals' = [approvals EXCEPT ![t] = "pending"]
Mint(i) ==
    /\ pc[i] = "mint"
    /\ \E t \in Tokens :
          GetToken(i, t) /\ Work(i, [st[i] EXCEPT !.approval_token = t], "show")
    /\ UNCHANGED <<kind, found, request, row, expired, tools, plans, crashes, ghosts>>

\* Mutant of Show: the second save_plan is forgotten.
ShowForgets(i) ==
    /\ pc[i] = "show"
    /\ Work(i, st[i], "ask")
    /\ UNCHANGED <<kind, found, request, row, approvals, expired, tools, plans, crashes, ghosts>>
\* The row is saved again, with the token.
Show(i) ==
    /\ pc[i] = "show"
    /\ row' = st[i] /\ Work(i, st[i], "ask")
    /\ UNCHANGED <<kind, found, request, approvals, expired, tools, plans, crashes, ghosts>>

\* interrupt() returns the decision or stops the invocation.
Ask(i) ==
    /\ pc[i] = "ask"
    /\ \/ ~HasAnswer(i) /\ Interrupted(i)
       \/ HasAnswer(i) /\ Refuses(Answer(i)) /\ Reject(i, st[i])
       \/ /\ HasAnswer(i) /\ ~Refuses(Answer(i))
          /\ \/ kind[i] = "plan" /\ Approve(i, st[i])
             \/ kind[i] = "clash" /\ Rebook(i, st[i])
             \/ kind[i] = "output" /\ Release(i, st[i])
    /\ UNCHANGED <<request, approvals, expired, tools, plans, crashes, requested, refused,
                   failures>>

(* A call of the pause raises: the lookup or create_approval, the second     *)
(* save, or what follows the answer.  What they have committed stays, and a  *)
(* run whose first pause fails at the second save leaves its approval behind. *)
PauseMayFail(i) == pc[i] \in {"mint", "show"} \/ (pc[i] = "ask" /\ HasAnswer(i))
PauseFailure(i) ==
    failures' = IF i = Runner /\ pc[i] = "show" THEN failures \union {"pause"} ELSE failures

-----------------------------------------------------------------------------
(* execute: the gate, then the tool calls, then the calendar clash.          *)

\* Mutant of NeedsApproval: only a request or a paused run is asked about.
NeedsApprovalOnRequest(s) == s.requires_approval /\ ~s.plan_approved
\* The plan-stage gate: policy, low confidence or an explicit request.
NeedsApproval(s) == (s.plan \in gated \/ s.requires_approval) /\ ~s.plan_approved

Execute(i) ==
    /\ pc[i] = "execute"
    /\ \/ NeedsApproval(st[i]) /\ Pause(i, "plan", st[i], "card")
       \/ /\ ~NeedsApproval(st[i])
          /\ Work(i, st[i], "tools")
          /\ row' = st[i]
          /\ UNCHANGED <<kind, found, request, approvals, expired, tools, plans,
                         crashes, ghosts>>

Steps(s)  == IF s.plan \in booking THEN Calls ELSE {"write"}
Slot(s, c) == IF c = "event" THEN s.slot ELSE 0
Key(s, c) == <<wording[s.plan], c, Slot(s, c)>>

\* A taken slot is reported with a free one ("clash") or without ("full").
Results(s, c) ==
    {r \in Outcomes : /\ r \in {"clash", "full"} => c = "event"
                      /\ r = "clash" => s.slot < MaxSlot}

HasResult(s, c, r) == [s EXCEPT !.tool_results[c] = r]
\* Mutant of Cached: no lookup before the call.
NeverCached(k) == {}
Cached(k) == {h \in cache : h.key = k}

(* A call of the MCP client.  A cached result is returned as it is; an       *)
(* unknown server or tool is a failure that is not cached; anything else     *)
(* reaches the tool server.                                                  *)
CallTool(i) ==
    /\ pc[i] = "tools"
    /\ \E c \in Steps(st[i]) :
          LET k == Key(st[i], c) IN
          /\ st[i].tool_results[c] = "none"
          /\ \/ \E h \in Cached(k) :
                   Work(i, HasResult(st[i], c, h.result), "tools") /\ UNCHANGED tools
             \/ /\ Cached(k) = {}
                /\ Work(i, HasResult(st[i], c, "failed"), "tools") /\ UNCHANGED tools
             \/ /\ Cached(k) = {}
                /\ \E r \in Results(st[i], c) :
                      /\ Work(i, HasResult(st[i], c, r), c)
                      /\ landed' = IF r = "ok" THEN landed \union {k} ELSE landed
                      /\ repeated' = IF r = "ok" /\ k \in landed THEN repeated \union {k}
                                     ELSE repeated
                /\ called' = called \union {<<st[i].plan, c, Slot(st[i], c)>>}
                /\ UNCHANGED cache
    /\ UNCHANGED <<kind, found, request, row, approvals, expired, plans, crashes, ghosts>>

\* The server has answered; its result, good or bad, replaces what Redis had.
CacheResult(i) ==
    /\ pc[i] \in Calls
    /\ LET k == Key(st[i], pc[i])
       IN  cache' = (cache \ Cached(k))
                    \union {[key |-> k, result |-> st[i].tool_results[pc[i]]]}
    /\ Work(i, st[i], "tools")
    /\ UNCHANGED <<called, landed, repeated, kind, found, request, row, approvals, expired,
                   plans, crashes, ghosts>>

\* Mutant of DropCard: the card is left.
KeepCard(s) == s
\* The leftover approval card must not pass for the answer.
DropCard(s) == [s EXCEPT !.draft = "none"]

\* Every step has its result: a clash pauses, a full calendar is the answer,
\* and otherwise the leftover approval card is dropped before compose.
FinishTools(i) ==
    /\ pc[i] = "tools"
    /\ \A c \in Steps(st[i]) : st[i].tool_results[c] # "none"
    /\ \/ st[i].tool_results["event"] = "clash" /\ Pause(i, "clash", st[i], "clash_card")
       \/ /\ st[i].tool_results["event"] = "full"
          /\ LET s == [st[i] EXCEPT !.draft = "no_slot"] IN row' = s /\ Commit(i, s, "compose")
          /\ UNCHANGED <<request, approvals, expired, tools, plans, crashes, ghosts>>
       \/ /\ st[i].tool_results["event"] \notin {"clash", "full"}
          /\ Commit(i, DropCard(st[i]), "compose")
          /\ UNCHANGED <<request, row, approvals, expired, tools, plans, crashes, ghosts>>

\* execute_node turns any exception but GraphInterrupt into an error.
ExecuteFails(i) ==
    /\ \/ pc[i] \in {"execute", "tools"} \union Calls
       \/ PauseMayFail(i) /\ kind[i] # "output"
    /\ Fail(i) /\ PauseFailure(i)
    /\ UNCHANGED <<request, row, approvals, expired, tools, plans, crashes, requested,
                   approvedFor, refused, blind>>

\* What the composer writes: only a plan that has written nothing yet may be flagged,
\* for citing a source that was not retrieved (evaluate_output, executed_write).
Composed(s) == IF s.plan \in booking THEN {"plain"} ELSE {"plain", "flagged"}

Compose(i) ==
    /\ pc[i] = "compose"
    /\ \/ /\ st[i].draft = "none"
          /\ \E d \in Composed(st[i]) :
                LET s == [st[i] EXCEPT !.draft = d] IN row' = s /\ Commit(i, s, "guard")
       \/ st[i].draft = "none" /\ Fail(i) /\ UNCHANGED row
       \/ st[i].draft # "none" /\ Commit(i, st[i], "guard") /\ UNCHANGED row
    /\ UNCHANGED <<request, approvals, expired, tools, plans, crashes, ghosts>>

-----------------------------------------------------------------------------
(* guard and respond.                                                        *)

\* A run that has paused once has a token, and is not asked about its output any more.
AsksForApproval(s) == s.draft = "flagged" /\ s.approval_token = 0

(* Deterministic checks, the judge (which may have the draft composed again) *)
(* and the output guardrails, up to the confidence score.                    *)
Guard(i) ==
    /\ pc[i] = "guard"
    /\ \/ /\ \E s \in {[st[i] EXCEPT !.error = "pii_detected", !.requires_approval = TRUE],
                       Failing(st[i], "missing_integration"), Failing(st[i], "guardrail_output")} :
                Commit(i, s, "end")
          /\ UNCHANGED <<request, row, approvals, expired, tools, plans, crashes, ghosts>>
       \/ \E d \in {st[i].draft} \union Composed(st[i]) :
             LET s == [st[i] EXCEPT !.draft = d] IN
             \/ AsksForApproval(s) /\ Pause(i, "output", s, "none")
             \/ /\ ~AsksForApproval(s)
                /\ Work(i, s, "score")
                /\ UNCHANGED <<kind, found, request, row, approvals, expired, tools, plans,
                               crashes, ghosts>>

(* Confidence is 0.8 * the share of successful calls plus at most 0.2: low   *)
(* for certain when all failed, never when none did, the judge's otherwise.  *)
Confidences(s) ==
    {x \in {"low", "enough"} : \E c \in Steps(s) : (s.tool_results[c] = "failed") <=> (x = "low")}

\* Mutant of Replanned: the approval of the old plan is kept.
ReplannedKeepsApproval(s) ==
    [s EXCEPT !.verdict = "replan", !.retry_count = s.retry_count + 1, !.plan = 0,
              !.tool_results = NoResults, !.draft = "none"]
\* decide_verdict: a replan starts over with an unapproved plan to come.
Replanned(s) ==
    [s EXCEPT !.verdict = "replan", !.retry_count = s.retry_count + 1, !.plan = 0,
              !.plan_approved = FALSE, !.tool_results = NoResults, !.draft = "none"]
\* Mutant of Decide: one replan too many.
DecideOnceMore(s, confidence) ==
    IF confidence = "enough" THEN [s EXCEPT !.verdict = "finalize"]
    ELSE IF s.retry_count <= MaxRetries THEN Replanned(s)
    ELSE [s EXCEPT !.verdict = "block", !.error = "low_confidence_blocked"]
Decide(s, confidence) ==
    IF confidence = "enough" THEN [s EXCEPT !.verdict = "finalize"]
    ELSE IF s.retry_count < MaxRetries THEN Replanned(s)
    ELSE [s EXCEPT !.verdict = "block", !.error = "low_confidence_blocked"]
AfterGuard(s) ==
    IF s.error # "none" THEN "end"
    ELSE IF s.verdict = "finalize" THEN "respond"
    ELSE IF s.verdict = "replan" THEN "plan" ELSE "end"

Score(i) ==
    /\ pc[i] = "score"
    /\ \E x \in Confidences(st[i]) :
          LET s == Decide(st[i], x) IN Commit(i, s, AfterGuard(s))
    /\ UNCHANGED <<request, row, approvals, expired, tools, plans, crashes, ghosts>>

Respond(i) ==
    /\ pc[i] = "respond"
    /\ \/ row' = st[i] /\ Commit(i, st[i], "end")
       \/ Fail(i) /\ UNCHANGED row
    /\ UNCHANGED <<request, approvals, expired, tools, plans, crashes, ghosts>>

\* The planner and the guard let unexpected exceptions out of the graph.
Raise(i) ==
    /\ pc[i] \in {"plan", "guard"} \/ (PauseMayFail(i) /\ kind[i] = "output")
    /\ Stay(i, "raised") /\ PauseFailure(i)
    /\ UNCHANGED <<st, held, resume, answers, calls, kind, found, thread, request, row,
                   approvals, expired, tools, plans, crashes, requested, approvedFor,
                   refused, blind>>

GraphStep(i) ==
    \/ Stage(i, "intake", "retrieve") \/ Stage(i, "retrieve", "plan") \/ Plan(i)
    \/ Execute(i) \/ Mint(i) \/ Show(i) \/ Ask(i)
    \/ CallTool(i) \/ CacheResult(i) \/ FinishTools(i) \/ ExecuteFails(i)
    \/ Compose(i) \/ Guard(i) \/ Score(i) \/ Respond(i) \/ Raise(i)

-----------------------------------------------------------------------------
(* _run_workflow_with_phase: what the runner does around the graph.          *)

inGraph == <<st, resume, answers, calls, kind, found>>

\* The task or the handler is over, and its copies of the state with it.
Return(i, how) ==
    /\ Stay(i, how)
    /\ st' = [st EXCEPT ![i] = Initial(FALSE)] /\ held' = [held EXCEPT ![i] = Initial(FALSE)]
    /\ resume' = [resume EXCEPT ![i] = "none"] /\ answers' = [answers EXCEPT ![i] = <<>>]
    /\ calls' = [calls EXCEPT ![i] = 0]
    /\ kind' = [kind EXCEPT ![i] = "none"] /\ found' = [found EXCEPT ![i] = 0]

\* Mutant of Park: the paused run is saved and discarded like a finished one.
ParkSaves ==
    /\ pc[Runner] = "interrupted"
    /\ Stay(Runner, "save")
    /\ UNCHANGED <<inGraph, held, thread, request, row, approvals, expired, tools, plans,
                   crashes, ghosts>>

\* The stream yielded __interrupt__: keep the checkpoint, save nothing.
Park ==
    /\ pc[Runner] = "interrupted"
    /\ Return(Runner, "parked")
    /\ UNCHANGED <<thread, request, row, approvals, expired, tools, plans,
                   crashes, ghosts>>

\* Mutant of EndOfRun: only the timeout is handled.
EndOfRunWithoutFailures ==
    /\ pc[Runner] = "end"
    /\ Stay(Runner, "save")
    /\ UNCHANGED <<inGraph, held, thread, request, row, approvals, expired, tools, plans,
                   crashes, ghosts>>

\* The stream ended or raised, or wait_for cancelled it; the first error stays.
EndOfRun ==
    /\ \E e \in {"none", "failed", "run_timeout"} :
          /\ \/ e = "none" /\ pc[Runner] = "end"
             \/ e = "failed" /\ pc[Runner] = "raised"
             \/ e = "run_timeout" /\ Timeouts /\ pc[Runner] \in Inside \union {"interrupted"}
          /\ held' = IF held[Runner].error # "none" THEN held
                     ELSE [held EXCEPT ![Runner].error = e]
    /\ Stay(Runner, "save")
    /\ UNCHANGED <<inGraph, thread, request, row, approvals, expired, tools, plans,
                   crashes, ghosts>>

-----------------------------------------------------------------------------
(* submit_approval.                                                          *)

Busy(i) == pc[i] \notin {"idle", "parked", "done"}
\* No invocation is under way, and no GET /v1/approvals.
AllQuiet == (\A i \in Invocations : ~Busy(i)) /\ freeing = {}

(* The checks before the graph is resumed.  A refusal (404, 410, 409) changes *)
(* nothing and is not a step.  Nothing looks at the recorded decision.        *)
Submit(i) ==
    /\ pc[i] = "idle"
    /\ OneAtATime => AllQuiet
    /\ \E t \in Tokens \ expired, d \in Choices :
          /\ approvals[t] # "unminted"
          /\ thread.next \notin {"gone", "end"}
          /\ tok' = [tok EXCEPT ![i] = t] /\ dec' = [dec EXCEPT ![i] = d]
          /\ refused' = IF d = "reject" THEN refused \union {row.plan} ELSE refused \ {row.plan}
    /\ seen' = [seen EXCEPT ![i] = row.plan]
    /\ Stay(i, "resume")
    /\ UNCHANGED <<inGraph, held, thread, row, approvals, expired, tools, plans,
                   crashes, freeing, requested, approvedFor, blind, failures>>

\* ainvoke(Command(resume=...)): load the checkpoint and replay its next node.
Resume(i) ==
    /\ pc[i] = "resume"
    /\ IF thread.next = "gone"
       THEN Stay(i, "raised") /\ UNCHANGED <<inGraph, held>>
       ELSE /\ Stay(i, thread.next)
            /\ st' = [st EXCEPT ![i] = thread.st] /\ held' = [held EXCEPT ![i] = thread.st]
            /\ answers' = [answers EXCEPT ![i] = thread.answers]
            /\ resume' = [resume EXCEPT ![i] = dec[i]]
            /\ calls' = [calls EXCEPT ![i] = 0]
            /\ UNCHANGED <<kind, found>>
    /\ UNCHANGED <<thread, request, row, approvals, expired, tools, plans, crashes,
                   ghosts>>

\* Mutant of Resumed: the handler waits for a run that paused again to end.
ResumedOnlyAtEnd(i) ==
    /\ i \in Submitters
    /\ \/ pc[i] = "end" /\ Stay(i, "save") /\ UNCHANGED <<inGraph, held>>
       \/ pc[i] = "raised" /\ Return(i, "done")
    /\ UNCHANGED <<thread, request, row, approvals, expired, tools, plans, crashes, ghosts>>

\* ainvoke returned, whether the run ended or paused again; or it raised: HTTP 500.
Resumed(i) ==
    /\ i \in Submitters
    /\ \/ pc[i] \in {"end", "interrupted"} /\ Stay(i, "save") /\ UNCHANGED <<inGraph, held>>
       \/ pc[i] = "raised" /\ Return(i, "done")
    /\ UNCHANGED <<thread, request, row, approvals, expired, tools, plans,
                   crashes, ghosts>>

Save(i) ==
    /\ pc[i] = "save"
    /\ row' = held[i]
    /\ Stay(i, IF i = Runner THEN "discard" ELSE "status")
    /\ UNCHANGED <<inGraph, held, thread, request, approvals, expired, tools, plans,
                   crashes, ghosts>>

Record(i) ==
    /\ pc[i] = "status"
    /\ approvals' = [approvals EXCEPT ![tok[i]] = IF dec[i] = "reject" THEN "rejected" ELSE dec[i]]
    /\ Stay(i, "discard")
    /\ UNCHANGED <<inGraph, held, thread, request, row, expired, tools, plans, crashes,
                   ghosts>>

(* A failing save of the background task is logged and it goes on; in the    *)
(* handler the failing save or update is an HTTP 500, and it stops there.    *)
SaveFails(i) ==
    /\ \/ i = Runner /\ pc[i] = "save" /\ Stay(i, "discard")
          /\ UNCHANGED <<inGraph, held, failures>>
       \/ i # Runner /\ pc[i] \in {"save", "status"} /\ Return(i, "done")
          /\ failures' = failures \union {"handler"}
    /\ UNCHANGED <<thread, request, row, approvals, expired, tools, plans, crashes, requested,
                   approvedFor, refused, blind>>

\* Mutant of DiscardThread: the checkpoint is left behind.
DiscardForgets == UNCHANGED <<thread, failures>>
\* discard_thread: "Best-effort: a failure here must never fail the run".
DiscardThread ==
    \/ thread' = Gone /\ UNCHANGED failures
    \/ failures' = failures \union {"discard"} /\ UNCHANGED thread

Discard(i) ==
    /\ pc[i] = "discard"
    /\ DiscardThread /\ Return(i, "done")
    /\ UNCHANGED <<request, row, approvals, expired, tools, plans, crashes, requested,
                   approvedFor, refused, blind>>

-----------------------------------------------------------------------------
(* Time, restarts and list_approvals.                                        *)

\* 24 hours pass over an undecided approval.
Expire(t) ==
    /\ Expires /\ approvals[t] = "pending" /\ t \notin expired
    /\ OneAtATime => AllQuiet
    /\ expired' = expired \union {t}
    /\ UNCHANGED <<local, thread, request, row, approvals, tools, plans, crashes, ghosts>>

\* GET /v1/approvals finds it: auto-reject, and then free the checkpoint.
AutoReject(t) ==
    /\ approvals[t] = "pending" /\ t \in expired
    /\ approvals' = [approvals EXCEPT ![t] = "rejected"]
    /\ freeing' = freeing \union {t}
    /\ UNCHANGED <<local, tok, dec, seen, thread, row, expired, tools, plans, crashes, ghosts>>
FreeThread(t) ==
    /\ t \in freeing
    /\ freeing' = freeing \ {t} /\ DiscardThread
    /\ UNCHANGED <<local, tok, dec, seen, row, approvals, expired, tools, plans, crashes,
                   requested, approvedFor, refused, blind>>

\* 15 minutes pass while nothing runs: the idempotency keys are gone.
CacheExpiry ==
    /\ CacheExpires /\ cache # {}
    /\ \A i \in Invocations : ~Busy(i)
    /\ cache' = {}
    /\ UNCHANGED <<local, thread, request, row, approvals, expired, called, landed, repeated,
                   plans, crashes, ghosts>>

\* The process dies and comes back: invocations are lost, the stores are not.
Crash ==
    /\ crashes < MaxCrashes
    /\ ~Durable \/ ~AllQuiet
    /\ crashes' = crashes + 1
    /\ pc' = [i \in Invocations |-> IF Busy(i) THEN "done" ELSE pc[i]]
    /\ st' = [i \in Invocations |-> Initial(FALSE)] /\ held' = st'
    /\ resume' = [i \in Invocations |-> "none"] /\ answers' = [i \in Invocations |-> <<>>]
    /\ calls' = [i \in Invocations |-> 0] /\ found' = [i \in Invocations |-> 0]
    /\ kind' = [i \in Invocations |-> "none"]
    /\ freeing' = {}
    /\ thread' = IF Durable THEN thread ELSE Gone
    /\ UNCHANGED <<tok, dec, seen, row, approvals, expired, tools, plans, ghosts>>

RunnerStep ==
    \/ StartRun \/ GraphStep(Runner) \/ Park \/ EndOfRun
    \/ Save(Runner) \/ SaveFails(Runner) \/ Discard(Runner)
SubmitterStep(i) ==
    \/ Resume(i) \/ GraphStep(i) \/ Resumed(i)
    \/ Save(i) \/ Record(i) \/ SaveFails(i) \/ Discard(i)
ClockStep == CacheExpiry \/ \E t \in Tokens : Expire(t) \/ AutoReject(t) \/ FreeThread(t)

Next ==
    \/ RunnerStep
    \/ \E i \in Submitters : Submit(i) \/ SubmitterStep(i)
    \/ ClockStep
    \/ Crash

Spec == Init /\ [][Next]_vars
\* The event loop keeps scheduling what it has started; nobody owes a decision.
FairSpec ==
    Spec /\ WF_vars(RunnerStep) /\ \A i \in Submitters : WF_vars(SubmitterStep(i))

-----------------------------------------------------------------------------
(* Properties.                                                               *)

(* policy.yaml: gated actions "ALWAYS require human approval before they     *)
(* run".  No tool of a gated plan is called unless a human approved that     *)
(* very plan, over replans, replays, concurrent decisions and restarts.      *)
GatedOnlyIfApproved == \A k \in called : k[1] \in gated => k[1] \in approvedFor

(* A graph that ends without an error has been through the guard: it carries *)
(* a composed, edited or no-slot answer, never the card of a pause, and asks *)
(* for nothing any more.                                                     *)
AnswerIsDelivered ==
    \A i \in Invocations : pc[i] = "end" /\ held[i].error = "none" =>
        /\ held[i].verdict = "finalize"
        /\ held[i].draft \in {"plain", "flagged", "edited", "no_slot"}
        /\ ~held[i].requires_approval

(* execute.py: "side effects must be - and are - idempotent".  Over replays  *)
(* and repeated decisions no call takes effect twice.                        *)
ReplayNeverRepeats == repeated = {}

(* After "reject" the rejected booking is not attempted again, and a plan     *)
(* that had called nothing never will.  (The replay that carries a rejection *)
(* past a clash may still call an earlier step whose result was not cached.) *)
RefusalIsRespected ==
    [][\A i \in Invocations :
          failures = {} /\ pc[i] = "tools" /\ pc'[i] \in Calls /\ st[i].plan \in refused =>
              pc'[i] # "event" /\ \E k \in called : k[1] = st[i].plan]_vars

(* get_or_create_approval: a run never has two undecided approvals.          *)
OneUndecidedToken == Cardinality(Undecided) <= 1

(* Until the first decision, and wherever the process died, an undecided     *)
(* approval has a checkpoint to resume and a row that shows its card; once   *)
(* the run is parked the row shows the token too.  (A run whose second save   *)
(* failed has ended with an error, and discarded the checkpoint.)            *)
FirstPauseKept ==
    ~Busy(Runner) /\ (\A i \in Submitters : pc[i] = "idle") /\ "pause" \notin failures =>
        \A t \in Undecided \ expired :
            /\ thread.next \in {"execute", "guard"}
            /\ row.requires_approval /\ row.draft # "none"
            /\ pc[Runner] = "parked" => row.approval_token = t

\* decide_verdict: at most MAX_RETRIES replans, so one plan more than that.
ReplansBounded == planned <= MaxRetries + 1

(* When nothing runs and nobody is to decide, no checkpoint is left behind,  *)
(* unless discarding one has failed: discard_thread swallows that.           *)
NoThreadLeft ==
    AllQuiet /\ Undecided = {} /\ "discard" \notin failures => thread.next = "gone"

(* The runner always reaches a pause or a terminal state, and every accepted *)
(* decision is carried through.                                              *)
RunnerFinishes == <>(pc[Runner] \in {"parked", "done"})
DecisionsFinish == \A i \in Submitters : pc[i] = "resume" ~> pc[i] = "done"

(* An undecided, unexpired approval can be resumed when nothing is running,   *)
(* unless a call failed between create_approval and the end of a pause or of *)
(* the handler of a decision.                                                *)
PendingIsResumable ==
    AllQuiet /\ failures = {} /\ Undecided \ expired # {} => thread.next \in Nodes

(* graph.py, discard_thread: "callers must only discard after a run truly    *)
(* finishes - never while it is paused awaiting approval".                   *)
DiscardsOnlyFinishedRuns ==
    [][\A i \in Invocations :
          pc[i] = "discard" /\ thread' # thread /\ crashes' = crashes =>
              thread.next \notin Nodes \/ held[i].error # "none"]_vars

(* guard.py: "A replanned plan is a NEW set of steps, so it must pass the    *)
(* pre-execution gate again" - also when the request asked for approval.     *)
RequestCoversEveryPlan == requested => \A k \in called : k[1] \in approvedFor

(* execute.py: "so the user sees exactly what they are approving before any  *)
(* tool runs".                                                               *)
SeenBeforeApproved == blind = {}

\* A step of a plan, whatever slot it asks for.
Of(keys) == {<<k[1], k[2]>> : k \in keys}
Gate == INSTANCE HumanGate WITH
          approved <- approvedFor, called <- Of(called), effects <- Of(landed)

(* Seen from outside, the graph, its replays, handlers, cache and restarts   *)
(* are only the emitting, approving and calling of HumanGate.  execute.py:   *)
(* "Plan-stage gate: pause BEFORE any tool runs".                            *)
KeepsTheGate == Gate!Spec
=============================================================================
