------------------------------ MODULE Planning ------------------------------
(***************************************************************************)
(* From a request to the calls of its plan: retrieval of past plans        *)
(* (app/rag), the planner with its retry and its correction, the gate of   *)
(* execute, the resolution of names in the MCP client, and the policy      *)
(* checks of the output guard (app/guardrails).  WorkflowRun has the graph *)
(* around them; here a run goes through once, and what matters is how a    *)
(* step is NAMED: the catalogue, the gate, the client and the guard each   *)
(* look its names up for themselves.                                       *)
(*                                                                         *)
(* Runs share the route cache in Redis and two collections in Qdrant: the  *)
(* plans of earlier runs and the catalogue of tools.                       *)
(***************************************************************************)
EXTENDS Naturals, FiniteSets

CONSTANTS
    Runs, Users, Texts,  \* runs, their owners, and what they ask (normalized)
    Past,                \* plans indexed before
    Servers,             \* keys of the client's server_config
    Served,              \* <<server, tool>> pairs the servers have
    Retired,             \* pairs an old catalogue may still name
    Steps,               \* the steps a planner may write; big: over a cap of check_tool_args
    MaxSteps,            \* bound: steps of a plan
    Policy,              \* approval_required_actions
    TrustedReads,        \* trusted_read_actions
    Send,                \* email_send_action
    ExecutedWrites,      \* executed_write_actions
    Denied,              \* denied_tool_actions
    Connected,           \* providers the users have a token of
    MinAfterGrade, TopN, \* _MIN_AFTER_GRADE, _TOP_N
    ToolDocLimit,        \* TOOL_DOC_LIMIT
    MaxEmails,           \* max_emails_per_hour
    MaxReindex           \* bound: runs of scripts/index_tool_docs.py

(* No served tool bears the name of a server, so a name is resolved in one   *)
(* way only; the plans of before bear the ids of earlier runs.               *)
ASSUME PlanningConstants ==
    /\ Servers \subseteq STRING /\ Served \subseteq Servers \X STRING
    /\ Retired \subseteq STRING \X STRING
    /\ \A p \in Served : p[2] \notin Servers
    /\ IsFiniteSet(Steps)
    /\ Steps \subseteq [tool: STRING, action: STRING, confidence: {"high", "medium", "low"},
                        big: BOOLEAN]
    /\ IsFiniteSet(Past) /\ Texts # {} /\ Users # {}
    /\ Past \subseteq [id: STRING, user: Users, success: BOOLEAN]
    /\ \A p \in Past : p.id \notin Runs
    /\ {MaxSteps, MinAfterGrade, TopN, ToolDocLimit, MaxEmails, MaxReindex} \subseteq Nat

\* call_planner_llm: what the model may answer.
Plans  == {p \in SUBSET Steps : Cardinality(p) <= MaxSteps}
Points == Past \union [id: Runs, user: Users, success: BOOLEAN]
Pairs  == Served \union Retired

VARIABLES
    run,      \* per run: its AgentState and where it is
    routes,   \* Redis: decisions of the router by text
    points,   \* Qdrant: the plans collection
    docs,     \* Qdrant: the tool_capability_docs collection
    emails,   \* Redis: emails counted this hour, per user
    reindex   \* the indexing script: "idle" or "filling"; and how often it ran
vars == <<run, routes, points, docs, emails, reindex>>

\* approved, called and blind are observations: what the human has approved, what was
\* called, and whether the planner had no catalogue or one naming a retired tool.
Fresh == [at |-> "idle", text |-> CHOOSE t \in Texts : TRUE, user |-> CHOOSE u \in Users : TRUE,
          retrieved |-> {}, specs |-> {}, plan |-> {}, token |-> FALSE, ok |-> TRUE,
          approved |-> FALSE, called |-> {}, blind |-> FALSE]

Init ==
    /\ run = [r \in Runs |-> Fresh]
    /\ routes = {} /\ points = Past
    /\ docs \in {{}, Served, Served \union Retired}
    /\ emails = [u \in Users |-> 0] /\ reindex = [at |-> "idle", times |-> 0]

At(r, place) == run[r].at = place
Becomes(r, new) == run' = [run EXCEPT ![r] = new]
To(r, place) == Becomes(r, [run[r] EXCEPT !.at = place])
\* The run has ended, and nobody looks at its state any more.
Ends(r, how) == Becomes(r, [Fresh EXCEPT !.at = how, !.ok = run[r].ok])

Start(r) ==
    /\ At(r, "idle")
    /\ \E t \in Texts, u \in Users :
          Becomes(r, [Fresh EXCEPT !.at = "route", !.text = t, !.user = u])
    /\ UNCHANGED <<routes, points, docs, emails, reindex>>

-----------------------------------------------------------------------------
(* retrieve.                                                                 *)

\* _router_cache_key: the request, not the user.
RouteKey(text) == text

Routed(r, retrieve) ==
    To(r, IF retrieve THEN "search" ELSE "plan")

(* A cached decision is taken.  Else, or when Redis fails, the LLM decides   *)
(* and its decision is stored if Redis works; when the LLM fails too, past   *)
(* plans are searched and nothing is stored.                                 *)
RouteQuery(r) ==
    /\ At(r, "route")
    /\ LET key == RouteKey(run[r].text)
       IN  \/ \E c \in routes : c.key = key /\ Routed(r, c.retrieve)
              /\ UNCHANGED routes
           \/ \E d \in BOOLEAN :
                 /\ Routed(r, d)
                 /\ routes' \in {routes, {c \in routes : c.key # key}
                                         \union {[key |-> key, retrieve |-> d]}}
           \/ Routed(r, TRUE) /\ UNCHANGED routes
    /\ UNCHANGED <<points, docs, emails, reindex>>

RouteExpires ==
    /\ routes # {} /\ routes' = {}
    /\ UNCHANGED <<run, points, docs, emails, reindex>>

\* Mutant of Found: every user's plans, whatever became of them.
FoundAny(u, all) == {p \in points : all \/ (p.user = u /\ p.success)}
\* _search: successful plans, of the user or of all.
Found(u, all) == {p \in points : p.success /\ (all \/ p.user = u)}

\* The grader keeps what it finds relevant, all if it fails.
Graded(u, all) == SUBSET Found(u, all)
\* Mutant of Kept: all of them.
KeptAll(graded) == {graded}
\* The best TOP_N, by a score that may order them in any way.
Kept(graded) ==
    {k \in SUBSET graded :
        Cardinality(k) = IF Cardinality(graded) < TopN THEN Cardinality(graded) ELSE TopN}
Retrieved(r, kept) == Becomes(r, [run[r] EXCEPT !.at = "plan", !.retrieved = kept])

(* The user's own plans, and when too few of them are relevant everybody's.  *)
Search(r) ==
    /\ At(r, "search")
    /\ \E graded \in Graded(run[r].user, FALSE) :
          IF Cardinality(graded) < MinAfterGrade THEN To(r, "broaden")
          ELSE \E kept \in Kept(graded) : Retrieved(r, kept)
    /\ UNCHANGED <<routes, points, docs, emails, reindex>>

Broaden(r) ==
    /\ At(r, "broaden")
    /\ \E graded \in Graded(run[r].user, TRUE) :
          \E kept \in Kept(graded) : Retrieved(r, kept)
    /\ UNCHANGED <<routes, points, docs, emails, reindex>>

\* Qdrant, or Redis under the embedder, raises, and retrieve_node fails the run.
RetrieveFails(r) ==
    /\ At(r, "search") \/ At(r, "broaden")
    /\ Ends(r, "failed")
    /\ UNCHANGED <<routes, points, docs, emails, reindex>>

-----------------------------------------------------------------------------
(* planner_node.                                                             *)

\* fetch_tool_specs: the nearest of the catalogue; none when the search fails.
FetchToolSpecs(r) ==
    /\ At(r, "plan")
    /\ \E specs \in {s \in SUBSET docs : Cardinality(s) <= ToolDocLimit} :
          Becomes(r, [run[r] EXCEPT !.at = "generate", !.specs = specs,
                                    !.blind = specs = {} \/ ~(specs \subseteq Served)])
    /\ UNCHANGED <<routes, points, docs, emails, reindex>>

Emitted(s) == <<s.tool, s.action>>
Swapped(s) == <<s.action, s.tool>>

\* find_invalid_plan_steps takes either order; without a catalogue every plan is trusted.
Invalid(plan, specs) ==
    IF specs = {} THEN {}
    ELSE {s \in plan : Emitted(s) \notin specs /\ Swapped(s) \notin specs}

\* The plan is committed; catalogue and examples have done their service.
Planned(r, plan) ==
    Becomes(r, [run[r] EXCEPT !.at = "execute", !.plan = plan, !.specs = {}, !.retrieved = {},
                              !.text = Fresh.text])

(* generate_plan_with_retry: output that does not parse is asked for again   *)
(* once; the plan may name unknown tools, and is then corrected.             *)
Generate(r) ==
    /\ At(r, "generate") \/ At(r, "regenerate")
    /\ \/ \E plan \in Plans :
             IF Invalid(plan, run[r].specs) = {} THEN Planned(r, plan) ELSE To(r, "correct")
       \/ To(r, "regenerate") /\ At(r, "generate")
       \/ Ends(r, "failed")
    /\ UNCHANGED <<routes, points, docs, emails, reindex>>

\* Mutant of Acceptable: the corrected plan is not validated again.
AcceptableUnread(plan, specs) == TRUE
Acceptable(plan, specs) == Invalid(plan, specs) = {}

\* validate_and_fix_plan: one correction, which has to be right and to parse.
Correct(r) ==
    /\ At(r, "correct")
    /\ \/ \E plan \in Plans : Acceptable(plan, run[r].specs) /\ Planned(r, plan)
       \/ Ends(r, "failed")
    /\ UNCHANGED <<routes, points, docs, emails, reindex>>

-----------------------------------------------------------------------------
(* execute: the gate and the calls.                                          *)

\* Mutant of NeedingApproval: a sure step needs no approval.
NeedingApprovalIfUnsure(plan) ==
    {s \in plan : s.confidence # "high" /\ Emitted(s) \notin TrustedReads}
\* _steps_needing_approval.
NeedingApproval(plan) ==
    {s \in plan : Emitted(s) \in Policy
                  \/ (s.confidence # "high" /\ Emitted(s) \notin TrustedReads)}

\* A run may be set to require an approval whatever its plan.
Gate(r) ==
    /\ At(r, "execute")
    /\ \E required \in BOOLEAN :
          IF NeedingApproval(run[r].plan) = {} /\ ~required THEN To(r, "tools")
          ELSE Becomes(r, [run[r] EXCEPT !.at = "paused", !.token = TRUE])
    /\ UNCHANGED <<routes, points, docs, emails, reindex>>

Decide(r) ==
    /\ At(r, "paused")
    /\ Ends(r, "failed") \/ Becomes(r, [run[r] EXCEPT !.at = "tools", !.approved = TRUE])
    /\ UNCHANGED <<routes, points, docs, emails, reindex>>

\* MCPClient._resolve: server first, else swapped, else any server with a tool of either name.
Exposing(name) == {p \in Served : p[2] = name}
Resolve(s) ==
    IF s.tool \in Servers THEN Emitted(s)
    ELSE IF s.action \in Servers THEN Swapped(s)
    ELSE IF Exposing(s.tool) # {} THEN CHOOSE p \in Exposing(s.tool) : TRUE
    ELSE IF Exposing(s.action) # {} THEN CHOOSE p \in Exposing(s.action) : TRUE
    ELSE Emitted(s)

(* Every step is called (in the order of ToolLevels); a tool nobody serves   *)
(* is a failed result.                                                       *)
CallTools(r) ==
    /\ At(r, "tools")
    /\ LET pairs == {Resolve(s) : s \in run[r].plan}
       IN  \E ok \in BOOLEAN :
              /\ ok => pairs \subseteq Served
              /\ Becomes(r, [run[r] EXCEPT !.at = "guard", !.called = pairs, !.ok = ok])
    /\ UNCHANGED <<routes, points, docs, emails, reindex>>

-----------------------------------------------------------------------------
(* guard: missing tokens, and evaluate_output.                               *)

Names(plan) == {Emitted(s) : s \in plan}
Trusted(plan) == plan # {} /\ Names(plan) \subseteq TrustedReads
\* Mutant of AlreadyDone: email sends are forgotten.
AlreadyDoneInCalendar(plan) == Names(plan) \intersect ExecutedWrites # {}
\* outbound or executed_write: what a pause could not hold back any more.
AlreadyDone(plan) == Names(plan) \intersect (ExecutedWrites \union {Send}) # {}

(* The rules that look at the plan, by the names it emits; what the text of  *)
(* the draft holds (a secret, an unknown citation) is arbitrary.  Redaction  *)
(* and length change the text only.                                          *)
SecretLeak(plan, secret) == secret /\ ~Trusted(plan)
DeniedTool(plan)         == Names(plan) \intersect Denied # {}
ToolArgs(plan)           == \E s \in plan : s.big
Destructive(plan)        == Names(plan) \intersect Policy # {}
Citation(plan, cites)    == cites /\ ~Trusted(plan) /\ ~AlreadyDone(plan)
MassEmail(counted)       == counted > MaxEmails

\* decide: what blocks is stronger than what is flagged for approval.
Verdict(plan, counted, secret, cites) ==
    IF SecretLeak(plan, secret) \/ DeniedTool(plan) \/ ToolArgs(plan) \/ MassEmail(counted)
    THEN "block"
    ELSE IF Destructive(plan) \/ Citation(plan, cites) THEN "flag_for_approval"
    ELSE "allow"

\* Steps whose tool is no connected provider.
Missing(plan) == {s \in plan : s.tool \notin Connected}

\* _mass_email_hit counts them.
Sends(plan) == Cardinality({s \in plan : Emitted(s) = Send})

(* A step of no connected provider ends the run, though it has been called;  *)
(* then the sends are counted (not at all when Redis fails) and the rules    *)
(* judge: blocked, held for approval unless a token was minted before, or    *)
(* released.  A poor score ends the run as well.                             *)
Guard(r) ==
    /\ At(r, "guard")
    /\ \/ Ends(r, "failed") /\ UNCHANGED emails
       \/ /\ Missing(run[r].plan) = {}
          /\ \E secret, cites, redis \in BOOLEAN :
                LET plan    == run[r].plan
                    user    == run[r].user
                    counted == IF redis /\ Sends(plan) > 0 THEN emails[user] + Sends(plan) ELSE 0
                    verdict == Verdict(plan, counted, secret, cites)
                IN  /\ emails' = IF counted > 0 THEN [emails EXCEPT ![user] = counted] ELSE emails
                    /\ IF verdict = "block" THEN Ends(r, "failed")
                       ELSE IF verdict = "flag_for_approval" /\ ~run[r].token
                       THEN Becomes(r, [run[r] EXCEPT !.at = "held", !.token = TRUE])
                       ELSE To(r, "respond")
    /\ UNCHANGED <<routes, points, docs, reindex>>

\* A rejection ends the run; an approval replays the guard, which has its token now.
Release(r) ==
    /\ At(r, "held")
    /\ Ends(r, "failed") \/ To(r, "respond")
    /\ UNCHANGED <<routes, points, docs, emails, reindex>>

(* index_plan in the background, which may fail: the run becomes an example, *)
(* a successful one if no tool failed.                                       *)
Respond(r) ==
    /\ At(r, "respond")
    /\ \/ /\ Ends(r, "done")
          /\ points' \in {points, points \union
                             {[id |-> r, user |-> run[r].user, success |-> run[r].ok]}}
       \/ Ends(r, "failed") /\ UNCHANGED points
    /\ UNCHANGED <<routes, docs, emails, reindex>>

-----------------------------------------------------------------------------
(* scripts/index_tool_docs.py.                                               *)

ClearDocs ==
    /\ reindex.at = "idle" /\ reindex.times < MaxReindex
    /\ reindex' = [at |-> "filling", times |-> reindex.times + 1]
    /\ docs' = {}
    /\ UNCHANGED <<run, routes, points, emails>>

\* list_tools of the servers that answer.
Listed(reached) == {p \in Served : p[1] \in reached}

\* The script may also die before it has listed any.
FillDocs ==
    /\ reindex.at = "filling"
    /\ reindex' = [reindex EXCEPT !.at = "idle"]
    /\ \E reached \in SUBSET Servers : docs' = Listed(reached)
    /\ UNCHANGED <<run, routes, points, emails>>

RunStep(r) ==
    \/ Start(r) \/ RouteQuery(r) \/ Search(r) \/ Broaden(r) \/ RetrieveFails(r)
    \/ FetchToolSpecs(r) \/ Generate(r) \/ Correct(r)
    \/ Gate(r) \/ Decide(r) \/ CallTools(r) \/ Guard(r) \/ Release(r) \/ Respond(r)
Next == (\E r \in Runs : RunStep(r)) \/ RouteExpires \/ ClearDocs \/ FillDocs
Spec == Init /\ [][Next]_vars

-----------------------------------------------------------------------------
(* Properties.                                                               *)

Places == {"idle", "route", "search", "broaden", "plan", "generate", "regenerate", "correct",
           "execute", "paused", "tools", "guard", "held", "respond", "done", "failed"}
TypeOK ==
    /\ run \in [Runs -> [at: Places, text: Texts, user: Users,
                         retrieved: {k \in SUBSET Points : Cardinality(k) <= TopN},
                         specs: SUBSET Pairs, plan: Plans, token: BOOLEAN, ok: BOOLEAN,
                         approved: BOOLEAN, called: SUBSET (STRING \X STRING), blind: BOOLEAN]]
    /\ routes \subseteq [key: Texts, retrieve: BOOLEAN] /\ points \subseteq Points
    /\ docs \subseteq Pairs /\ emails \in [Users -> Nat]
    /\ reindex \in [at: {"idle", "filling"}, times: 0..MaxReindex]

(* planner.py: hallucinated tool names are caught before execution.  A tool  *)
(* that nobody serves is called only by a plan made without a catalogue, or  *)
(* with one that names a retired tool, while it was being indexed again or   *)
(* not: whatever was retried, corrected or left out of the prompt.           *)
UnknownNeedsBlindPlan ==
    \A r \in Runs : run[r].called \subseteq Served \/ run[r].blind

(* policy.yaml: "Actions that ALWAYS require human approval before they      *)
(* run".  They do if the plan names them as the policy does: a step that     *)
(* names server and tool in the other order, or by the name of a retired     *)
(* server, is resolved by the client after the gate has let it pass.         *)
AskedUnlessMisnamed ==
    \A r \in Runs : \A s \in run[r].plan :
        Resolve(s) \in Policy \intersect run[r].called /\ Resolve(s) = Emitted(s)
            => run[r].approved

(* indexer.py: "a finalized run with a failed step must not be retrieved as  *)
(* a model for future planners", in the broadened search either.             *)
TaughtBySuccess ==
    \A r \in Runs : \A p \in run[r].retrieved :
        p.success /\ (p.id \in Runs => run[p.id].at = "done" /\ run[p.id].ok)

(* policy.yaml: "the write already happened, so a HITL pause is pointless".  *)
(* What the output guard holds back has no email send, calendar write or     *)
(* action of the policy in it: those were carved out, or asked for before.   *)
HeldOnlyIfPointful ==
    \A r \in Runs : run[r].at = "held" =>
        Names(run[r].plan) \intersect (ExecutedWrites \union {Send} \union Policy) = {}
=============================================================================
