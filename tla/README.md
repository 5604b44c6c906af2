# TLA+ models of the agentic workflow engine

A request to the engine becomes a plan of tool calls, written by a language
model, checked by a guard, paused for a human where policy asks for one and
executed against MCP tool servers. This directory models the parts of the engine
where order, interruption and failure decide what happens: the LangGraph
workflow with its human-approval pauses and the handlers that drive it, the order
and the fate of tool calls, the calendar and the tokens behind them, the names a
plan uses and who looks them up, and the way from a prompt to the reply shown.

## The system

| Part | State it keeps | Operations | Hard because |
|---|---|---|---|
| graph (`orchestration/graph.py`, `nodes/*`) | `AgentState`; checkpoint per `trace_id` | intake, retrieve, plan, execute, compose, guard, respond; pauses by `interrupt()` | a resumed node is replayed from its input; the guard sends a run back to the planner |
| background run (`api/invoke.py`, `core/background.py`) | the last streamed state, the phase key in Redis | stream the graph, pause, time out, save, discard | stream, timeout and pause race; the streamed state is older than the pause |
| approvals API (`api/approvals.py`) | `approvals` rows | list and expire, submit | resumes the graph inside the request; nothing looks at an earlier decision |
| rows (`data/repositories.py`) | `plans`, `approvals`, `tool_calls`, users, sessions, messages, tokens, feedback | upserts, lookups | one transaction per call: every pair of calls may be interrupted |
| MCP client (`mcp/client.py`) | Redis idempotency cache (900 s) | resolve names, look up, call (three attempts), cache | effect and cached result are two steps; the cache is shorter-lived than a pause; a conflict is an ok result |
| tool servers (`mcp/servers/*`) | third-party systems | one function per tool | look and write are two requests to Google; partial updates; lost answers; PyGithub repeats requests itself |
| integration tokens (`_shared.py`, `api/integrations.py`) | `integration_tokens` rows | connect, disconnect, read, refresh | no unique constraint, no lock; a refresh lies between reading and saving |
| guardrails (`guardrails/*`) | hourly and per-minute counters | input and output decisions | counters count replays; failing Redis lets requests pass |
| retrieval (`rag/*`), LLM (`llm/*`, `prompts.py`, `agents/*`) | Qdrant collections, route cache | search, grade, compose, judge | answers are not repeatable; collections change meanwhile |
| front door (`main.py`, `api/invoke.py`) | rate-limit windows, Idempotency-Key entries | middleware, invoke | INCR/EXPIRE, look-then-store |
| clients (`streamlit_app/`, `web/`) | the page's session state | submit, poll, fetch, decide | a script that any touch restarts; repeated requests |
| accounts, sessions, feedback, health | rows | CRUD | not hard |

How they interact: `POST /v1/invoke` passes the limiter and the guardrails on the
text, sets the phase key and spawns `_run_workflow_with_phase`, which streams the
graph under a 120 s timeout. The graph retrieves examples, asks the planner for a
plan, and executes it through the MCP client; the servers behind the client
resolve the user's token for every call. A node that needs a human saves the row,
finds or creates an approval, and calls `interrupt()`; the task stops there and
keeps the checkpoint. `POST /v1/approvals/{token}` resumes the checkpoint with the
decision inside its own request; the interrupted node runs again from the top and
finds its answer. `GET /v1/invoke/result` and the SSE stream read the row and the
phase key; the Streamlit page polls them.

What makes each part correct: no gated tool runs unapproved; a call takes effect
once; no two meetings in one slot; a connection is the user's last one; a pause can
be resumed with what the user saw; a rejection stops what it rejected; a run ends
and cleans up; the result told is the run's result, and the reply shown is that of
the run asked about; tools run in dependency order; a tool that does not exist is
not called; only successful runs teach. `PROJECT.json` lists the places where this
could fail (`hazards`) and the properties that watch them.

## Modules

| Module | Models | State and actions |
|---|---|---|
| `HumanGate` | what the engine promises about its tools, with no graph, token, cache or restart | plans emitted, gated, approved, called |
| `WorkflowRun` | one run: graph, background task, any number of approval handlers, rows, cache, clock, restarts; implements `HumanGate` | below |
| `ToolLevels` | `_topo_levels`, `_execute_level` and the loop of `_run` over one plan | `remaining`, `levels`: the locals of `_topo_levels`; `call`: what became of each call; one action per loop iteration, call start, call end, saved result |
| `Tokens` | the `integration_tokens` rows of one connection under concurrent requests and tool calls | `rows`; per process `at`, `bundle`, `target`: where it is and what it is about to save |
| `ToolCalls` (extends `Tokens`) | `call_tool` and what its calls do at the servers | `caller`: the client; `job`, `answer`, `found`, `clashing`: the server's handlers; `events`, `landed`: the calendar and the effects; `cache` |
| `Planning` | from a request to the calls of its plan: retrieval, planner, gate, name resolution, output guard | `run`: one record per run; `routes`, `points`, `docs`: Redis and Qdrant; `emails` |
| `RunResult` | the plans row, the phase key and `_load_result`, written by task and handlers | `at`, `worker`, `state`: who works where on what; `row` and `phase`: the two things read; saves may fail, keys expire, the process may die |
| `FrontDoor` | `POST /v1/invoke` behind the limiters, with its Idempotency-Key | `post`: per request; `idem`, `count`, `lasting`: Redis |
| `Console` (extends `RunResult`, `FrontDoor`) | the Streamlit page in front of both | `place`, `current`, `waiting`, `offered`, `shown`: the script and its session state |
| `MCWorkflow`, `MCToolCalls`, `MCPlanning`, `MCConsole` | instances for TLC | sets, symmetry, constraints |
| `WorkflowTypes`, `WorkflowGate`, `WorkflowTurns`, `ToolLevelsProofs`, `TokenProofs`, `CallProofs`, `PlanningProofs`, `ConsoleProofs` | - | theorems and their proofs |

### WorkflowRun

An *invocation* of the graph is the runner (`astream` in the background task) or
one `POST /v1/approvals/{token}` handler (`ainvoke(Command(resume=...))`). Each
has its own place `pc[i]`, its copy of `AgentState` (`st[i]`), the state the
graph last committed to it (`held[i]`), and the bookkeeping of `interrupt()`:
`resume[i]` (the decision not taken yet), `answers[i]` (decisions recorded for
the node it replays) and `calls[i]` (how many `interrupt()` calls the node has
made). They share the checkpoint (`thread`), the row, the approvals, the cache.

* A node's changes reach the checkpoint when the node returns (`Commit`). A node
  with awaits between which others can act is several actions: `Execute`
  (gate), the rest of a pause, `CallTool`, `CacheResult`, `FinishTools`; and
  `Guard`, a pause, `Score`.
* A pause is four steps: `Pause` (first save, and the lookup of an undecided
  token), `Mint` (`create_approval`, committed by itself), `Show` (second save) and
  `Ask` (`interrupt()`, and what follows its answer). The process may die between
  any two of them, and each may raise: the node then ends with an error
  (`ExecuteFails`) or lets it out (`Raise`), and the run ends although its approval
  waits.
* `interrupt()` is external code, modelled from how `execute.py` and `guard.py`
  rely on it: the n-th call in a replayed node takes the n-th recorded answer,
  the next takes the resume value, a further one raises `GraphInterrupt`; a
  value nobody took is dropped when the node returns.
* `Submit`, `Resume`, `Resumed`, `Save`, `Record`, `Discard` are the steps of
  `submit_approval`; `Park`, `EndOfRun`, `Save` and `Discard` those of the background
  task; `AutoReject` and `FreeThread` the two calls of `list_approvals`, between which
  the token is in `freeing`. `SaveFails` is a save or update that raises: the task
  logs it and goes on, the handler stops. `DiscardThread` may fail and is then
  forgotten, as `discard_thread` does it.
  Refused requests (401 to 410) change nothing and are not steps.
* Data: a plan is a number with three marks (`gated`, `booking`, `wording`),
  chosen when it is emitted. `gated` stands for `_steps_needing_approval` not
  being empty, `booking` for a calendar `create_event` step, `wording` for the
  step ids and arguments that make up the idempotency key. A plan has an
  ordinary step and, when booking, an event; a draft is one of seven kinds.
  Confidence is the share of successful calls as `compute_confidence` weighs it:
  certainly low when all failed, certainly enough when none did.
* `requested`, `approvedFor`, `refused`, `seen`, `blind`, `called`, `landed`,
  `repeated`, `failures` are observations: no action reads them. `failures` says
  whether a pause of the background task failed at its second save, a handler while
  it saved or recorded, or a discard; three properties are about runs without one.

`KeepsTheGate` is `HumanGate!Spec` under the mapping that reads `planned`, `gated`,
`wording`, `approvedFor`, `called` and `landed`; a call of `WorkflowRun` is one of
`HumanGate` whatever has been replayed, replanned, decided twice or lost before it.

### ToolLevels

A plan is a sequence of steps whose ids may repeat and whose `depends_on` may
name steps that do not exist. `Named` says what the two dict comprehensions of
`_topo_levels` make of a repeated id. `Settle` lets a call return or raise; a
raising call ends the node, and `gather` leaves its siblings running behind it.
The order of the steps inside a sequential level is any order.

### Tokens and ToolCalls

A *caller* is one `call_tool` in an engine process, a *handler* one tool function
in the server process; HTTP joins them. A caller may lose the answer of a handler
that goes on working, and call again: the two run side by side, as they do in the
system. `CallTool`, `Invoke`, `Receive`, `LoseAnswer` and `StoreResult` are the
lookup, the attempts of tenacity, and the caching of `call_tool`; the handler's actions are the requests
to Google it makes, one action each, so that another handler, or the user, gets in
between look and write.

A call is its operation, the event's id or the slot it is described by, and the two
sides of the time asked for, either of which an update may leave out. An event is an
interval of slots, and two of them clash when they have a slot in common.
`ResolveEvent` reads the event by its id, or as the only one of its window that fits
the description; `ClashOrNone` checks the window of the event *as it was read*;
`UpdateEvent` patches the sides that were given on the event *as it is now*. `by` is
the call that last wrote an event, and `surprised` marks what was written by something
that was no longer so. An answer is `"success"`, `"conflict"` or `"failed"`: the first
two are both `ToolResult(ok=True)`, and `execute.py` tells them apart by the payload.
Reddit answers a refusal with 200 and `json.errors`, which no code reads
(`SubmitRefused`), and PyGithub repeats a POST inside one tool function
(`RetryComment`).

`NextFreeSlot` is `_next_free_slot`: slots are working time, `PerDay` of them a day,
`Walk` is its loop over the busy intervals of a day with the cursor, `FreeOnDay` a day
with the gap before its close, and the search takes the first day that has a gap.
`landed` counts the effects of a key, `excused` names the keys with a fault on the way
(a lost answer or cache entry, a crash, a repeat of PyGithub's, the same call made
twice at once): both are observations.

Every handler begins in `Tokens`, where it reads the row and perhaps refreshes it,
against the requests of `integrations.py`. `save_token` is a look (`Look`) and a
write (`Write`), as its query and its commit are. A bundle is the connection it
came from, its age by `expires_at`, and whether it has a refresh token.

### Planning

`WorkflowRun` says when nodes run; `Planning` says what they make of the *names* in
a plan. A step names a tool and an action. The catalogue check
(`find_invalid_plan_steps`), the gate (`_steps_needing_approval`), the client
(`_resolve`) and the output guard look the names up each in its own way, and the
module keeps these ways apart (`Emitted`, `Resolve`, `Names`). Runs share the route
cache, the indexed plans and the catalogue, which the indexing script deletes
before it fills it again. Every text is a model value; whether a rule on a text
fires, what a search ranks first and what a model answers are choices.

### RunResult, FrontDoor and Console

`RunResult` is the graph of `WorkflowRun` reduced to the three signals
`_load_result` looks for (draft, error, verdict). Here the saves may raise, since
the result depends on which of them went through. A replay that meets its first
pause again and goes on is part of the node's step (`worker = "answering"`).
`FrontDoor` counts each request in its window by an INCR and an EXPIRE that may
fail apart, looks the Idempotency-Key up at the beginning and stores it at the
end. `Console` joins them: the first run that is spawned is `RunResult`'s, of any
later one the page is told anything. `Interact` ends the script of the page at any
point, as Streamlit does when the user touches a widget.

## Runs

| Run | Module | Checks | States |
|---|---|---|---|
| `workflow_sequential` | `MCWorkflow` | type, gate, answer, replay, rejection, replan bound, clean-up, resumability; implements `HumanGate` | 1.1 M |
| `workflow_restart` | `MCWorkflow` | gate, one undecided token, first pause kept - with a restart and an expiring cache | 0.9 M |
| `workflow_progress` | `MCWorkflow` | liveness of the task and of the decisions, with timeouts | 0.4 M |
| `tool_levels` | `ToolLevels` | order, cycles, completeness, levels apart, termination | 0.6 M |
| `tool_calls` | `MCToolCalls` | effects, repeats, double bookings, clashes, suggestions; rows and renewals of tokens | 0.4 M |
| `planning` | `MCPlanning` | unknown tools, unasked actions, what teaches, what is held | 0.1 M |
| `run_result` | `MCConsole` | the done label, never pending for ever, keys, limits, the reply shown | 0.7 M |

A few of these by name: the replay is `ReplayNeverRepeats` (a tool once run takes no
second effect for the same key), the rejection `RefusalIsRespected`, the first pause
`FirstPauseKept`; the order of tools is `DependenciesFirst`, cycles `CycleIffStuck`,
completeness `DoneIsComplete`, levels apart `OneLevelInFlight`; the renewals are
`RenewalKept`, the effects `ResultTellsEffect`; unknown tools are `UnknownNeedsBlindPlan`,
what teaches is `TaughtBySuccess`; the done label is `DoneLabelTells`, the limits
`LimitedIsBusy`. Each is stated in words above its definition.

Five runs end in a counterexample, each a statement of a comment or of the
README that the code does not keep (`findings` in `PROJECT.json`):

| Run | Statement | What the trace shows |
|---|---|---|
| `repause_discards` (`DiscardsOnlyFinishedRuns`) | the checkpoint is discarded "never while it is paused" | plan approved, the calendar clashes, the handler records the token and discards the checkpoint of the new pause |
| `replan_unasked` (`RequestCoversEveryPlan`) | a replanned plan "must pass the pre-execution gate again" | `require_approval` is spent by the first approval; the second plan runs unasked |
| `replay_after_cache` (`ReplayNeverRepeats`) | idempotency keys "make any replayed step safe" | keys live 15 minutes, pauses 24 hours: a step takes effect twice |
| `result_failed_alive` (`FailedMeansGone`) | no signal and no phase key means the worker "is gone" | the phase key of a long pause has expired while the handler works |
| `result_done_early` (`DoneIsReliable`) | a draft is "a reliable terminal signal" | the draft is saved before the guard scores it |

Some properties say what holds where a comment promises more, and name the gap:

* `AskedUnlessMisnamed`: policy.yaml lists actions that ALWAYS require approval.
  The gate looks up the name as the plan writes it, the client un-swaps tool and
  action afterwards and finds a retired server's tool by its bare name: a step
  named so runs unasked.
* `RowIsCurrent`: a refresh that began before the user disconnected, or connected
  again, writes the older connection back; two first saves leave two rows, and
  every read raises from then on.
* `RepeatNeedsFault`, `ClashIsWithAnother`: a `create_event` whose answer was lost
  is called again and meets its own event, which it reports as a clash. A POST to
  GitHub that failed, or seemed to, is repeated by PyGithub.
* `ResultTellsEffect`: a success of reddit's may be a refusal, and a conflict reported
  after a lost answer may be with the call's own event.
* `DoubleBookingNeedsRace`: between the clash check and the write nothing holds the
  slot; and an update of one side is checked with the other side as it was read, and
  written beside the other side as it is by then.
* `FirstPauseKept`, `PendingIsResumable`: `create_approval` commits by itself, so when
  the second save of a pause raises, the run ends with an error, its checkpoint is
  discarded, and the approval waits for nothing.
* `NoThreadLeft`: `discard_thread` swallows its failure, and then the checkpoint stays.
* `RefusalIsRespected`: a handler whose save fails when its replay has replanned and
  paused at a clash of the new plan leaves that pause to the next decision. If that
  is a rejection, its replay may first make a call the new plan had not got through.
* `KeyRunsOnce`: equal requests that overlap, and one whose entry could not be
  stored (a 500, and the run goes on), start a run each. A different text under an
  old key gets the old run.
* `HeldOnlyIfPointful`: `denied_tool_actions` and the argument caps are looked at
  after the tools ran, though policy.yaml says "block it before it reaches
  Calendar"; the property is about the carve-outs.
* `ReplyIsOfItsRun`: after a decision the page fetches `current_trace_id`, not the
  run decided on; they differ once another prompt was accepted (`overtaken`).

Met while modelling and not a property of a run: the guard asks the token store for
every step's tool, and `integrations.py` refuses finnhub, so a finnhub plan ends
with `missing_integration:finnhub` after its tools ran; the page pops `pending_run`
before it polls, so an interrupted poll never shows its reply, and `_fetch_result`
takes only "done" for an answer, so a failed run polls to the end; the page's polls
alone exceed `rate_limit_per_min`; a rejected clash is only rejected if the replay
meets the clash again, so when its cached result has expired and the slot is free by
then, the replay books the event and drops the rejection (`RefusalIsRespected` is
violated once `CacheExpires` is TRUE).

### Bounds, and why they are enough

* Workflow: `MaxRetries` is the code's `MAX_RETRIES` (2), set to 1 or 0: the second
  replan takes the path of the first, and in `workflow_sequential`
  `MaxPlans = MaxRetries + 2` leaves room for the one plan too many that
  `ReplansBounded` excludes. Two submitters are two decisions of one run: approve
  and rebook, or approve twice. `MaxTokens = 2` lets a second approval be minted.
  `MaxSlot = 1` lets a booking clash once and then find the calendar full or free.
  In `workflow_sequential` the stores fail while the run is at its first plan
  (`FailuresEarly`); the proofs have no such bound. `workflow_restart` leaves "edit"
  out, which takes the path of "approve" but for the draft. One crash is enough for a
  restart between any two steps; what two restarts do to the approval gate is proved.
* `ToolLevels` has three ids: a cycle of each length up to three, with duplicates
  and unknown ids.
* `tool_calls`: two calls at once, two faults, two attempts (the third repeats the
  second), two events, two working days of two slots; a create and an update of the
  start alone that both want slot 1, an update that takes an event to slot 3, a
  delete. `Calling` and `Connecting` start the two halves of the question: calls race
  and fail while the connection lasts, or the connection changes under two reads while
  no call fails. The constraint `OneAtATime` keeps the halves apart, and the calls of
  github, reddit and finnhub (`ByThemselves`) from the calendar's, which they share
  nothing with. Where the connection changes, reads are followed to their answer, and
  a row to the skew before its end (`Reads`).
* `planning`: two runs, one step of every kind that the lookups tell apart, plans of
  up to two. `OnePlans` lets both retrieve at once, and one go on when the other
  has not begun or, retrieving, after it is over: from the planner on a run writes
  its own record, and the email count of its user, only.
* `run_result`: three posts, one key, two windows, one restart, one failing save, two
  decisions. Either requests of all kinds meet at the door while the first run
  stands still (`AtTheDoor`), or the page and its run go on with one prompt more
  while Redis counts and the window lasts (`OnThePage`). `NotPendingForever` is
  checked on the behaviours of the second kind; a constraint may hide behaviours
  from it, and it hides none of the run's own steps while no request is handled.

What the constraints keep apart in `tool_calls`, `planning` and `run_result`, the
proofs join again: they have no constraint and no bound.

`OneAtATime = TRUE` makes the decisions of the checked workflow runs follow one
another. With two handlers at work on one checkpoint the state space is beyond an
ordinary run, and several of the properties are not promised by the code: it takes
no lock, so a decision may approve a plan it was not made for
(`SeenBeforeApproved`), two pauses may mint two tokens (`OneUndecidedToken`)
and two replans may exceed the bound (`ReplansBounded`). What does hold with
concurrent decisions is proved for all interleavings: the approval gate, the
refinement of `HumanGate`, the answer of a run that ends (`AnswerIsDelivered`) and
its first pause (`FirstPauseKept`). There "approved" means that some decision was
taken as the approval of the plan.

`CHECK_DEADLOCK FALSE`: a run ends, and a model without pending work stops.

### Fairness

`WorkflowRun!FairSpec` has weak fairness for the runner and for each handler: the
event loop resumes what is ready, and awaited calls end because the HTTP, database
and model clients have timeouts. Nothing is fair that waits for a person:
no decision, no expiry, no crash is owed. `ToolLevels` is fair to the node's
steps, not to cancellation. `ConsoleSpec` is fair to the worker of a spawned run
(`Run`) and to the expiry of the phase key (`Forget`), which Redis guarantees; it
owes nothing to the page, to requests or to decisions.

## Proofs

tlapm checks all proofs from nothing in about ten minutes. What they assume of the
constants are the named assumptions of the modules (`ConstantsOK`, `IdsOK`,
`TokenConstants`, `CallConstants`, `WholeDays`, `PlanningConstants`, `BoundsOK`,
`DoorConstants`): types, finite sets where something is counted, that no name
stands for two things, and that the calendar's slots make up whole working days.
Some theorems of `WorkflowTurns` assume more, and say so.

* `ApprovalGate == Spec => []GatedOnlyIfApproved` and
  `TypeCorrect == Spec => []TypeOK`: any sets of submitters, any bounds, concurrent
  decisions, crashes, both checkpointers. `GatedOnlyIfApproved` speaks about calls
  made and is not inductive. `IInv` adds why: next to every `plan_approved` mark
  stands a plan somebody approved, before a plan is there the mark is down, and
  whoever is past the gate with a gated plan has an approved one (`Fit`). It has to
  hold of each invocation and of the checkpoint, since a handler starts from
  whatever the checkpoint holds, written by any other. The facts about plans are
  monotone (`Grows`), so they survive other invocations' steps. `WorkflowTypes` has
  one typing lemma per action, `WorkflowGate` one preservation lemma per action.
* `GateRefinement == Spec => KeepsTheGate`, in `WorkflowGate`: `WorkflowRun`
  implements `HumanGate`.
  Three actions touch what the mapping reads: `Plan` emits, `Execute` approves,
  `CallTool` calls. That the called plan is open is what `Fit` says of a place past
  the gate; every other action is a stutter.
* `WorkflowTurns` proves the remaining safety properties of `WorkflowRun`; the
  hypotheses and the argument are below.
* `OrderRespected`, `Complete`, `CycleExact`, `LevelsTyped`, `LevelByLevel`: for
  every plan of any size and any interleaving of calls, exceptions and
  cancellation. `IInv` says that `remaining[i]` is what the levels found so far
  leave open of `i`'s dependencies, and that a set of steps that wait for one
  another never enters a level; the latter replaces an induction over the levels.
  `Flying` says that calls in flight are of the level at hand.
* `NodeGetsOn`, `WorkBound`, `NodeIsNeverStuck`: the safety half of `NodeEnds`.
  `Work` counts steps to place, levels to pass, calls to start, to settle and to save;
  every step of the node makes it smaller, and it begins at five times the ids of the
  plan, and two, so there are no more steps than that. A node that has not ended has
  the guard of some step: `Orderly` says that the calls not begun are those of the
  levels ahead and, of a parallel level, all or none. What is left to TLC is that
  the scheduler does take the step, which is a matter of fairness.
* `RenewalIsKept`, `RowStaysCurrent`: any number of calls and requests on one
  connection. `Kept` says that every bundle, in a row or in somebody's hands, can be
  renewed if its connection could; `InTime`, that whoever is about to save a renewal
  holds the current connection unless the row was changed behind it.
* `CallsTyped`, `ResultsAreTrue`, `NoRepeatWithoutFault`, `NoDoubleBookingWithoutRace`,
  `ClashesAreReal`: any number of callers, handlers, keys, attempts and faults. A key
  without a fault is in the hands of one caller and of the handler it waits on
  (`Once`); a result that says success, wherever it is, stands for an effect (`Took`),
  and one that says conflict for none, unless the key has had a fault (`Spared`). A
  handler about to write has its window to itself (`Alone`), and if it gives one side
  only, the event it has read is as it was (`Fresh`), unless it was surprised
  (`Clear`); so what it then writes overlaps nothing.
* `SuggestionsAreEarliest`: any calendar, any length of the day and of the meeting, any
  number of days. Below the cursor of the walk no meeting fits, and the busy slots
  passed are below it (`Walked`); so the first gap it finds is the earliest fit of the
  day, and a day without one has no fit. The walk is a recursive function over a day's
  slots: that it exists (`WalkExists`), and that each step keeps `Walked`, go by the
  least slot for which they would fail (`Climb`), and the least slot exists because
  finite sets are well-founded under inclusion (`Least`).
* `RepeatsAreBounded`: a call takes effect once for each call begun, and once more for
  each fault at the most, a repeat of PyGithub's counted as one; and, but for the calls
  PyGithub repeats, no more often than its tries allow. Every effect, and every one
  still to come of a handler at work, has been paid for (`PaidFor`): by a call begun or
  a fault, less the callers about to send; by `MaxTries` for each call, less the tries
  left. `losses` counts faults from where it starts, and the two bounds are for any
  start.
* `PlanningTyped`, `HallucinationsCaught`, `PolicyAsked`, `ExamplesSucceeded`,
  `HeldInTime`: any catalogue, policy, past and number of runs. A run's steps change
  its own record, so the invariant is one of single records (`Local`), except that
  the examples of a run are records of others, which stay as they ended (`Sound`).
* `ConsoleTyped`, `LabelTells`, `KeysReplay`, `LimitsAreFair`, `RepliesMatch`: any
  number of posts, keys, windows, replans, decisions, failures and restarts. Nothing
  is written between the last save of an undecided run and its label (`Ending`); an
  answered key has its entry until it expires, and a request behind it finds it
  (`Keyed`); no counter has counted more than have come (`Tally`); the run on offer
  is the current one or was overtaken (`Paired`).

### The turns of a run

The theorems of `WorkflowTurns` hold for any submitters, plans, slots, retries and
tokens, any number of restarts where restarts are allowed, and the other constants
as they are. Their hypotheses are about what the environment does:

| Theorem | Property | Decisions in turn | Restart | Stores that fail | Else |
|---|---|---|---|---|---|
| `AnswersDelivered` | `AnswerIsDelivered` | - | any | any | - |
| `PauseIsKept` | `FirstPauseKept` | - | `Durable`, or none | all but the pause's second save | no run timeout |
| `OneToken` | `OneUndecidedToken` | yes | any | any | - |
| `FewReplans` | `ReplansBounded` | yes | any | any | - |
| `NoThreadLeftBehind` | `NoThreadLeft` | yes | in memory, or none | all but a discard | - |
| `PendingCanBeResumed` | `PendingIsResumable` | yes | none | none of `failures` | no run timeout |
| `ApprovedAsSeen` | `SeenBeforeApproved` | yes | in memory, or none | any | - |
| `ReplaysAreIdempotent` | `ReplayNeverRepeats` | yes | in memory, or none | any | keys outlive the pause |
| `RefusalsAreKept` | `RefusalIsRespected` | yes | in memory, or none | none of `failures` | keys outlive the pause |

What the column on stores excludes is said by the property itself (`failures`). The
calls that are not in `failures` may fail in every theorem: those of a node, the first
save and the minting of a pause, what follows its answer, the last save of the task.

The code guarantees none of the hypotheses; they are where its promises end. Each is
needed: with any one of them dropped from a theorem, TLC finds a counterexample
(the one of `OneToken` takes three handlers and was found by simulation).

* *Decisions in turn* (`OneAtATime`): a handler holds no lock on the run, and two of
  them on one checkpoint overwrite each other's progress.
* *Restart*: a checkpoint in Postgres survives a handler that dies before it saves
  the row (which then shows a plan the checkpoint has left), between a call and its
  cached result, or between recording and discarding. A checkpoint in memory dies
  with the handler, and then the approval that waits cannot be resumed.
* *Run timeout* (`Timeouts`): `wait_for` may cancel the task after its node has
  interrupted and before the task has parked; it then discards the checkpoint of the
  pause it has just offered.
* *Stores*: a pause whose second save fails leaves an approval to a run that has ended;
  a discard that fails leaves a checkpoint, and a handler whose save fails a pause of a
  plan the row does not show.
* *Keys* (`CacheExpires`): the idempotency keys live 15 minutes, a pause 24 hours.

The argument is one inductive invariant in parts, each with a lemma for the steps of
the graph and one for the steps around it. `Shapes` says what a state carries at each
place (an answer before `end`, a card at a pause); `FirstPause` that until somebody
decides, checkpoint and row are the runner's. Both hold under any interleaving. The
others begin with `OneBusy`: at most one invocation is at work, so what matters is a
relation between its place, the checkpoint, the open token and the row. `InStep`: the
checkpoint is at its node. `Tok`: the open token is the one it found or answers, and
without one at rest there is no checkpoint. `InBounds`: plans emitted against the
retries of its state. `Shown`: the row shows the plan the checkpoint waits with.
`Landed`: what took effect is cached, in hand, or of a run that is over. Both except
a run that timed out before it minted a token, whose checkpoint could not be
deleted (`Lost`): nobody can be asked about it (`Asking`), so nobody resumes it.

A refusal takes the most. The replay of a rejected plan passes the gate and the calls
before the rejection is taken, so `Obeying` says that whoever works on a refused plan
carries the refusal, has no recorded answer that would be taken before it
(`NoAnswersLeft`), and either meets the gate or has attempted the plan already: its
event is in the cache, and the cached clash is the pause at which the refusal is
taken. That a plan on hold is one or the other (`Waits`) rests on the first run of it:
the first clash of a run ends the runner's part (`FirstClash`). A plan emitted later is
not among the refused (`Known`).

### Only model-checked

Liveness (`RunnerFinishes`, `DecisionsFinish`, `NodeEnds`, `NotPendingForever`), which
is out of the prover's reach; of `NodeEnds`, all but the step from fairness to the end
is proved. Every other property of a passing run is stated by a theorem.

## Not modelled, and limits

* Texts: prompts, drafts, redaction, the regular expressions of the guardrails
  (whether one fires is a choice), what a tool reads.
* Users, sessions, messages, feedback: single-row reads and writes. Health,
  metrics, logging, configuration. The React client, which enters as posts with a
  key and as decisions in any order. The calendar, gmail, slack and notion servers,
  which no configuration calls; `orchestrator.py`, which is commented out; scripts
  other than the indexing of the catalogue; migrations and deployment.
* `_next_free_slot` steps over weekends and begins no earlier than now; here every
  day is a working day and every slot lies ahead.
* Statuses of integrations ("expiring", "revoked") are only shown; `FERNET_KEY` is
  taken as configured, since without it every process makes its own key.
* The cap of runs per minute and per hour are one window.
* The calendar has timed events only: `_overlapping_events` skips the all-day ones,
  and an update of an event without times is not checked. Nobody but the engine's
  handlers writes to it, and no two events overlap at first. A meeting the user enters
  meanwhile is, to the handlers, another handler's.
* PyGithub repeats a POST up to ten times; here each repeat is a fault, of which there
  are `MaxLosses`.
* A plan without steps behaves like one whose only step succeeds, and is not a
  case of its own.

## Plan

1. done: `WorkflowRun` with its runs, the approval gate proved; `ToolLevels` with
   its proofs; `RunResult`.
2. done: `HumanGate` and the refinement; `Tokens` and `ToolCalls`; `Planning`;
   `FrontDoor` and `Console`; their proofs.
3. done: proofs for sequential decisions (`WorkflowTurns`): every safety property of
   `WorkflowRun` that a passing run checks is a theorem.
4. done: the slot search, the bound on repeated effects, and the end of the execute
   node but for fairness: every safety property of every passing run is a theorem.
5. Not begun: the SSE stream as a reader of its own, and the React client's use of it.
