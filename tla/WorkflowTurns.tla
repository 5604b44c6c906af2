--------------------------- MODULE WorkflowTurns ---------------------------
(***************************************************************************)
(* WorkflowRun when decisions follow one another (OneAtATime): what is     *)
(* promised of answers, pauses, tokens, plans and calls.                   *)
(*                                                                         *)
(* The argument: at most one invocation is at work (OneBusy), so a step is *)
(* its step, and what is to be known of the run is a relation between four *)
(* things: the place of that invocation, the checkpoint, the token that is *)
(* waiting, and the row.                                                   *)
(*   Shapes     what a state looks like where it is; of every invocation,  *)
(*              and of any interleaving                                    *)
(*   FirstPause until the first decision; of any interleaving              *)
(*   InBounds   the plans emitted, against the retries of a state          *)
(*   InStep     the checkpoint is at the node of whoever is at work, or    *)
(*              deleted                                                    *)
(*   Turn       until deleting a checkpoint fails, who is at work has one  *)
(*              (Present), and a run's token is open until its checkpoint  *)
(*              has moved on (Tok); until any call after create_approval   *)
(*              fails, a run rests at a pause (Resting)                    *)
(*   Resumable  what waits has its checkpoint, until such a call fails     *)
(*   Asking     the runner mints a token, or nobody can be asked: a run    *)
(*              that timed out before that is Lost, whatever its checkpoint *)
(*   Shown      what is on show is what is asked, or the run is lost       *)
(*   Landed     what took effect is cached, in hand, or over, or the run   *)
(*              is lost                                                    *)
(*   Obeying    who works on a refused plan carries the refusal to the     *)
(*              pause that takes it: no answer is recorded before it       *)
(*              (NoAnswersLeft), a plan to come is not refused (Known), a  *)
(*              pause before a plan is the gate's, or a clash that comes   *)
(*              from the cache again (FirstClash, OnHold)                  *)
(* Each is one lemma for the steps of the graph and one for the steps      *)
(* around it: submitting, resuming, recording, discarding, parking.  The   *)
(* variable failures says which calls have failed, and only grows          *)
(* (FailuresStay).                                                         *)
(***************************************************************************)
EXTENDS WorkflowGate, FiniteSetTheorems

-----------------------------------------------------------------------------
(* What a state looks like where it is.                                      *)

\* The drafts that may stand as the answer of a run.
Deliverable == {"plain", "flagged", "edited", "no_slot"}

(* Shape says, of a state at a place of the graph, what the nodes before have *)
(* made of the draft, the verdict and the question of an approval.           *)
Shape(here, k, s) ==
    /\ here = "execute" => ~s.plan_approved
    /\ here \in Pausing \union {"interrupted"} => s.requires_approval /\ s.draft # "none"
    /\ here \in Pausing /\ k = "output" => s.draft = "flagged"
    /\ here \in {"tools", "compose", "guard", "score", "respond"} \union Calls =>
           ~s.requires_approval
    /\ here = "compose" => s.draft \in {"none", "no_slot"}
    /\ here \in {"guard", "score", "respond"} => s.draft \in Deliverable
    /\ here = "respond" => s.verdict = "finalize"
    /\ here = "end" /\ s.error = "none" =>
           s.verdict = "finalize" /\ s.draft \in Deliverable /\ ~s.requires_approval

\* Every invocation and the checkpoint have their shape, and an invocation at the end of
\* the graph has been streamed the state it ended with.
Shapes ==
    /\ \A i \in Invocations : Shape(pc[i], kind[i], st[i])
    /\ Shape(thread.next, "none", thread.st)
    /\ \A i \in Invocations : pc[i] = "end" => held[i] = st[i]

\* The initial states have their shapes.
LEMMA InitShapes == Init => Shapes
  BY DEF Init, Shapes, Shape, Pausing, Gone, Initial, Calls

\* One invocation moves.
AloneHeld(i) == Alone(i) /\ \A j \in Invocations \ {i} : held'[j] = held[j]

\* When one invocation moves and it and the checkpoint keep their shapes, all do.
LEMMA ShapesMove ==
  ASSUME Shapes, NEW i \in Invocations, AloneHeld(i), Shape(pc'[i], kind'[i], st'[i]),
         pc'[i] = "end" => held'[i] = st'[i],
         \/ Shape(thread'.next, "none", thread'.st)
         \/ thread'.next = thread.next /\ thread'.st = thread.st
  PROVE  Shapes'
<1>1. \A j \in Invocations : Shape(pc'[j], kind'[j], st'[j])
  BY DEF Shapes, AloneHeld, Alone
<1>2. Shape(thread'.next, "none", thread'.st)
  BY DEF Shapes
<1>3. \A j \in Invocations : pc'[j] = "end" => held'[j] = st'[j]
  BY DEF Shapes, AloneHeld, Alone
<1> QED
  BY <1>1, <1>2, <1>3 DEF Shapes

\* A node that returns a state with the shape of its next node.
LEMMA CommitShape ==
  ASSUME LocalType, Shapes, NEW i \in Invocations, NEW s, NEW next, Commit(i, s, next),
         Shape(next, "none", s)
  PROVE  Shapes'
<1>1. /\ AloneHeld(i) /\ pc'[i] = next /\ st'[i] = s /\ held'[i] = s /\ kind'[i] = "none"
      /\ thread'.next = next /\ thread'.st = s
  BY DEF Commit, Stay, AloneHeld, Alone, LocalType
<1> QED
  BY <1>1, ShapesMove

\* A step inside a node, to a state with the shape of the new place.
LEMMA WorkShape ==
  ASSUME LocalType, Shapes, NEW i \in Invocations, NEW s, NEW here, Work(i, s, here),
         here # "end", \A j \in Invocations \ {i} : kind'[j] = kind[j],
         Shape(here, kind'[i], s)
  PROVE  Shapes'
<1>1. /\ AloneHeld(i) /\ pc'[i] = here /\ st'[i] = s
      /\ thread'.next = thread.next /\ thread'.st = thread.st
  BY DEF Work, Stay, AloneHeld, Alone, LocalType
<1> QED
  BY <1>1, ShapesMove

\* A state with an error may stand at the end.
LEMMA FailShape ==
  ASSUME LocalType, Shapes, NEW i \in Invocations, Fail(i) PROVE Shapes'
<1>1. Failing(st[i], "failed").error = "failed"
  BY DEF LocalType, AgentState, Failing
<1>2. Shape("end", "none", Failing(st[i], "failed"))
  BY <1>1 DEF Shape, Pausing, Calls
<1> QED
  BY <1>2, CommitShape DEF Fail

\* A pause: the state asks, and shows a draft or a card.
LEMMA PauseShape ==
  ASSUME LocalType, Shapes, NEW i \in Invocations, NEW k, NEW s \in AgentState, NEW card,
         Pause(i, k, s, card), k = "output" => s.draft = "flagged",
         card # "none" \/ s.draft # "none"
  PROVE  Shapes'
<1> DEFINE paused == [s EXCEPT !.requires_approval = TRUE,
                               !.draft = IF s.draft = "none" THEN card ELSE s.draft]
<1>1. paused.requires_approval /\ paused.draft = IF s.draft = "none" THEN card ELSE s.draft
  BY DEF AgentState
<1>2. Work(i, paused, "mint") /\ kind' = [kind EXCEPT ![i] = k]
  BY DEF Pause
<1> HIDE DEF paused
<1>3. kind'[i] = k /\ \A j \in Invocations \ {i} : kind'[j] = kind[j]
  BY <1>2 DEF LocalType
<1>4. Shape("mint", k, paused)
  BY <1>1 DEF Shape, Pausing, Calls
<1> QED
  BY <1>2, <1>3, <1>4, WorkShape

\* Minting the token and showing it leave the draft and the question alone.
LEMMA MintShape ==
  ASSUME IInv, Shapes, NEW i \in Invocations, Mint(i) \/ Show(i) PROVE Shapes'
<1>1. LocalType /\ st[i] \in AgentState /\ UNCHANGED kind
  BY DEF IInv, LocalType, Mint, Show
<1>2. ASSUME NEW s, NEW here \in {"show", "ask"}, Work(i, s, here), pc[i] \in {"mint", "show"},
             s.requires_approval = st[i].requires_approval, s.draft = st[i].draft
      PROVE  Shapes'
  <2>1. Shape(here, kind'[i], s)
    BY <1>1, <1>2 DEF Shapes, Shape, Pausing, Calls
  <2> QED
    BY <1>1, <1>2, <2>1, WorkShape
<1>3. CASE Mint(i)
  <2>1. PICK t \in Tokens : Work(i, [st[i] EXCEPT !.approval_token = t], "show")
    BY <1>3 DEF Mint
  <2>2. /\ [st[i] EXCEPT !.approval_token = t].requires_approval = st[i].requires_approval
        /\ [st[i] EXCEPT !.approval_token = t].draft = st[i].draft
    BY <1>1 DEF AgentState
  <2> QED
    BY <1>2, <1>3, <2>1, <2>2 DEF Mint
<1>4. CASE Show(i)
  BY <1>2, <1>4 DEF Show
<1> QED
  BY <1>3, <1>4

\* The answer to a pause leaves a state that asks for nothing.
LEMMA AskShape == ASSUME IInv, Shapes, NEW i \in Invocations, Ask(i) PROVE Shapes'
<1> DEFINE s == st[i]
<1>1. \/ Interrupted(i)
      \/ Reject(i, s)
      \/ kind[i] = "plan" /\ Approve(i, s)
      \/ kind[i] = "clash" /\ Rebook(i, s)
      \/ kind[i] = "output" /\ Release(i, s)
  BY DEF Ask
<1>2. s \in AgentState
  BY FitHere
<1>4. Shape("ask", kind[i], s) /\ s = st[i]
  BY DEF Ask, Shapes, Shape, Pausing, Calls
<1> HIDE DEF s
<1>5. LocalType
  BY DEF IInv
<1>6. CASE Interrupted(i)
  <2>1. AloneHeld(i) /\ pc'[i] = "interrupted" /\ st'[i] = s
    BY <1>4, <1>5, <1>6 DEF Interrupted, Stay, AloneHeld, Alone, LocalType
  <2>2. thread'.next = thread.next /\ thread'.st = thread.st
    BY <1>5, <1>6 DEF Interrupted, LocalType, Threads
  <2>3. Shape("interrupted", kind'[i], s)
    BY <1>4 DEF Shape, Pausing, Calls
  <2> QED
    BY <2>1, <2>2, <2>3, ShapesMove
<1>7. CASE Reject(i, s)
  <2>1. Rejected(s).error = "rejected_by_user"
    BY <1>2 DEF Rejected, AgentState
  <2>2. Shape("end", "none", Rejected(s))
    BY <2>1 DEF Shape, Pausing, Calls
  <2> QED
    BY <1>5, <1>7, <2>2, CommitShape DEF Reject
<1>8. ASSUME NEW r \in AgentState, NEW here \in {"tools", "score"}, Proceed(i, r, here),
             ~r.requires_approval, here = "score" => r.draft \in Deliverable
      PROVE  Shapes'
  <2>1. /\ AloneHeld(i) /\ pc'[i] = here /\ st'[i] = r
        /\ thread'.next = thread.next /\ thread'.st = thread.st
    BY <1>5, <1>8 DEF Proceed, Stay, AloneHeld, Alone, LocalType
  <2>2. Shape(here, kind'[i], r)
    BY <1>8 DEF Shape, Pausing, Calls
  <2> QED
    BY <2>1, <2>2, ShapesMove
<1>9. CASE kind[i] = "plan" /\ Approve(i, s)
  <2>1. PlanAnswered(s, Answer(i)) \in AgentState
    BY <1>2, UpdateTypes
  <2>2. ~PlanAnswered(s, Answer(i)).requires_approval
    BY <1>2 DEF PlanAnswered, AgentState
  <2> QED
    BY <1>8, <1>9, <2>1, <2>2 DEF Approve
<1>10. CASE kind[i] = "clash" /\ Rebook(i, s)
  <2>1. Rebooked(s) \in AgentState
    BY <1>2, UpdateTypes
  <2>2. ~Rebooked(s).requires_approval
    BY <1>2 DEF Rebooked, AgentState
  <2> QED
    BY <1>8, <1>10, <2>1, <2>2 DEF Rebook
<1>11. CASE kind[i] = "output" /\ Release(i, s)
  <2>1. OutputAnswered(s, Answer(i)) \in AgentState
    BY <1>2, UpdateTypes
  <2>2. /\ ~OutputAnswered(s, Answer(i)).requires_approval
        /\ OutputAnswered(s, Answer(i)).draft \in {"edited", s.draft}
    BY <1>2 DEF OutputAnswered, AgentState
  <2>3. s.draft = "flagged"
    BY <1>4, <1>11 DEF Shape, Pausing
  <2> QED
    BY <1>8, <1>11, <2>1, <2>2, <2>3 DEF Release, Deliverable
<1> QED
  BY <1>1, <1>6, <1>7, <1>9, <1>10, <1>11 DEF s

\* The execute node: who passes its gate asks for nothing.
LEMMA ExecuteShape == ASSUME IInv, Shapes, NEW i \in Invocations, Execute(i) PROVE Shapes'
<1>1. LocalType /\ st[i] \in AgentState /\ Shape("execute", kind[i], st[i])
  BY DEF IInv, LocalType, Execute, Shapes
<1>2. CASE Pause(i, "plan", st[i], "card")
  BY <1>1, <1>2, PauseShape
<1>3. CASE ~NeedsApproval(st[i]) /\ Work(i, st[i], "tools") /\ UNCHANGED kind
  <2>1. ~st[i].requires_approval
    BY <1>1, <1>3 DEF NeedsApproval, Shape, AgentState
  <2>2. Shape("tools", kind'[i], st[i])
    BY <2>1 DEF Shape, Pausing, Calls
  <2> QED
    BY <1>1, <1>3, <2>2, WorkShape
<1> QED
  BY <1>2, <1>3 DEF Execute

\* A result stored beside the draft leaves the draft and the question alone.
LEMMA ToolShape ==
  ASSUME IInv, Shapes, NEW i \in Invocations, CallTool(i) \/ CacheResult(i) PROVE Shapes'
<1>1. LocalType /\ st[i] \in AgentState /\ ~st[i].requires_approval
  BY DEF IInv, LocalType, CallTool, CacheResult, Shapes, Shape, Pausing
<1>2. PICK s, here :
         /\ here \in {"tools"} \union Calls /\ Work(i, s, here)
         /\ (s = st[i] \/ \E c, r : s = HasResult(st[i], c, r))
  <2>1. CASE CacheResult(i)
    BY <2>1 DEF CacheResult
  <2>2. CASE CallTool(i)
    <3>1. PICK c, r, here : /\ c \in Steps(st[i]) /\ here \in {"tools", c}
                            /\ Work(i, HasResult(st[i], c, r), here)
      BY <2>2 DEF CallTool
    <3> QED
      BY <3>1 DEF Steps, Calls
  <2> QED
    BY <2>1, <2>2
<1>3. ~s.requires_approval
  BY <1>1, <1>2 DEF HasResult, AgentState
<1>4. Shape(here, kind'[i], s)
  BY <1>2, <1>3 DEF Shape, Pausing, Calls
<1>5. UNCHANGED kind
  BY DEF CallTool, CacheResult
<1>6. Work(i, s, here) /\ here # "end"
  BY <1>2 DEF Calls
<1> QED
  BY <1>1, <1>4, <1>5, <1>6, WorkShape

\* The execute node's end: a clash asks, and what goes to compose is no card.
LEMMA FinishToolsShape ==
  ASSUME IInv, Shapes, NEW i \in Invocations, FinishTools(i) PROVE Shapes'
<1>1. LocalType /\ st[i] \in AgentState /\ ~st[i].requires_approval
  BY DEF IInv, LocalType, FinishTools, Shapes, Shape, Pausing
<1>2. CASE Pause(i, "clash", st[i], "clash_card")
  BY <1>1, <1>2, PauseShape
<1>3. ASSUME NEW d \in {"none", "no_slot"}, NEW s, s = [st[i] EXCEPT !.draft = d],
             Commit(i, s, "compose")
      PROVE  Shapes'
  <2>1. s.draft = d /\ ~s.requires_approval
    BY <1>1, <1>3 DEF AgentState
  <2>2. Shape("compose", "none", s)
    BY <2>1 DEF Shape, Pausing, Calls
  <2> QED
    BY <1>1, <1>3, <2>2, CommitShape
<1> QED
  BY <1>2, <1>3 DEF FinishTools, DropCard

\* Compose: there is an answer.
LEMMA ComposeShape == ASSUME IInv, Shapes, NEW i \in Invocations, Compose(i) PROVE Shapes'
<1>1. /\ LocalType /\ st[i] \in AgentState /\ ~st[i].requires_approval
      /\ st[i].draft \in {"none", "no_slot"}
  BY DEF IInv, LocalType, Compose, Shapes, Shape, Pausing
<1>2. CASE Fail(i)
  BY <1>1, <1>2, FailShape
<1>3. CASE \E d \in Composed(st[i]) : Commit(i, [st[i] EXCEPT !.draft = d], "guard")
  <2>1. PICK d \in Composed(st[i]) : Commit(i, [st[i] EXCEPT !.draft = d], "guard")
    BY <1>3
  <2> DEFINE s == [st[i] EXCEPT !.draft = d]
  <2>2. s.draft \in Deliverable /\ ~s.requires_approval
    BY <1>1, <2>1 DEF AgentState, Composed, Deliverable
  <2>3. Shape("guard", "none", s)
    BY <2>2 DEF Shape, Pausing, Calls
  <2> QED
    BY <1>1, <2>1, <2>3, CommitShape
<1>4. CASE st[i].draft # "none" /\ Commit(i, st[i], "guard")
  <2>1. Shape("guard", "none", st[i])
    BY <1>1, <1>4 DEF Shape, Pausing, Calls, Deliverable
  <2> QED
    BY <1>1, <1>4, <2>1, CommitShape
<1> QED
  BY <1>2, <1>3, <1>4 DEF Compose

\* The guard keeps or rewrites the answer, asks about it, or records an error.
LEMMA GuardShape == ASSUME IInv, Shapes, NEW i \in Invocations, Guard(i) PROVE Shapes'
<1>1. /\ LocalType /\ st[i] \in AgentState /\ ~st[i].requires_approval
      /\ st[i].draft \in Deliverable
  BY DEF IInv, LocalType, Guard, Shapes, Shape, Pausing
<1>2. ASSUME NEW s, s.error # "none", Commit(i, s, "end") PROVE Shapes'
  <2>1. Shape("end", "none", s)
    BY <1>2 DEF Shape, Pausing, Calls
  <2> QED
    BY <1>1, <1>2, <2>1, CommitShape
<1>3. \A s \in {[st[i] EXCEPT !.error = "pii_detected", !.requires_approval = TRUE],
                Failing(st[i], "missing_integration"), Failing(st[i], "guardrail_output")} :
         s.error # "none"
  BY <1>1 DEF Failing, AgentState
<1>4. ASSUME NEW d \in {st[i].draft} \union Composed(st[i]), NEW s,
             s = [st[i] EXCEPT !.draft = d],
             \/ AsksForApproval(s) /\ Pause(i, "output", s, "none")
             \/ Work(i, s, "score") /\ UNCHANGED kind
      PROVE  Shapes'
  <2>1. s \in AgentState
    BY <1>1, <1>4, DraftOf, DraftType
  <2>2. s.draft \in Deliverable /\ ~s.requires_approval
    BY <1>1, <1>4 DEF AgentState, Composed, Deliverable
  <2>3. Shape("score", kind[i], s)
    BY <2>2 DEF Shape, Pausing, Calls
  <2>4. CASE AsksForApproval(s) /\ Pause(i, "output", s, "none")
    BY <1>1, <2>1, <2>4, PauseShape DEF AsksForApproval
  <2>5. CASE Work(i, s, "score") /\ UNCHANGED kind
    BY <1>1, <2>3, <2>5, WorkShape
  <2> QED
    BY <1>4, <2>4, <2>5
<1> QED
  BY <1>2, <1>3, <1>4 DEF Guard

\* The verdict: who goes on to respond is finalized.
LEMMA ScoreShape == ASSUME IInv, Shapes, NEW i \in Invocations, Score(i) PROVE Shapes'
<1>1. /\ LocalType /\ st[i] \in AgentState /\ ~st[i].requires_approval
      /\ st[i].draft \in Deliverable
  BY DEF IInv, LocalType, Score, Shapes, Shape, Pausing
<1>2. PICK x : Commit(i, Decide(st[i], x), AfterGuard(Decide(st[i], x)))
  BY DEF Score
<1> DEFINE s == Decide(st[i], x)
<1>3. CASE s.verdict = "finalize"
  <2>1. s = [st[i] EXCEPT !.verdict = "finalize"]
    BY <1>1, <1>3 DEF Decide, Replanned, AgentState
  <2>2. s.draft \in Deliverable /\ ~s.requires_approval /\ AfterGuard(s) \in {"respond", "end"}
    BY <1>1, <1>3, <2>1 DEF AgentState, AfterGuard
  <2> HIDE DEF s
  <2>3. Shape(AfterGuard(s), "none", s)
    BY <1>3, <2>2 DEF Shape, Pausing, Calls
  <2> QED
    BY <1>1, <1>2, <2>3, CommitShape DEF s
<1>4. CASE s.verdict # "finalize"
  <2>1. AfterGuard(s) = "plan" \/ (AfterGuard(s) = "end" /\ s.error # "none")
    <3>1. CASE s = Replanned(st[i])
      BY <1>1, <3>1 DEF AfterGuard, Replanned, AgentState
    <3>2. CASE s = [st[i] EXCEPT !.verdict = "block", !.error = "low_confidence_blocked"]
      BY <1>1, <3>2 DEF AfterGuard, AgentState
    <3>3. CASE s = [st[i] EXCEPT !.verdict = "finalize"]
      BY <1>1, <1>4, <3>3 DEF AgentState
    <3> QED
      BY <3>1, <3>2, <3>3 DEF Decide
  <2> HIDE DEF s
  <2>2. Shape(AfterGuard(s), "none", s)
    BY <2>1 DEF Shape, Pausing, Calls
  <2> QED
    BY <1>1, <1>2, <2>2, CommitShape DEF s
<1> QED
  BY <1>3, <1>4

\* The planner's state has no approved plan.
LEMMA PlanShape == ASSUME IInv, Shapes, NEW i \in Invocations, Plan(i) PROVE Shapes'
<1>1. LocalType /\ st[i] \in AgentState /\ ~st[i].plan_approved
  BY FitHere DEF IInv, Plan, Fit, Unapproved
<1>2. CASE Fail(i)
  BY <1>1, <1>2, FailShape
<1>3. CASE Emit(i)
  <2> DEFINE s == [st[i] EXCEPT !.plan = planned', !.slot = 0, !.verdict = "none"]
  <2>1. ~s.plan_approved
    BY <1>1 DEF AgentState
  <2>2. Shape("execute", "none", s)
    BY <2>1 DEF Shape, Pausing, Calls
  <2> QED
    BY <1>1, <1>3, <2>2, CommitShape DEF Emit
<1> QED
  BY <1>2, <1>3 DEF Plan

\* The nodes before the plan and the last one.
LEMMA OuterNodesShape ==
  ASSUME IInv, Shapes, NEW i \in Invocations,
         \/ i = Runner /\ StartRun
         \/ Stage(i, "intake", "retrieve") \/ Stage(i, "retrieve", "plan") \/ Respond(i)
  PROVE  Shapes'
<1>1. LocalType /\ st[i] \in AgentState
  BY DEF IInv, LocalType
<1>2. CASE i = Runner /\ StartRun
  <2>1. Shape("intake", "none", st[i])
    BY DEF Shape, Pausing, Calls
  <2> QED
    BY <1>1, <1>2, <2>1, CommitShape DEF StartRun
<1>3. ASSUME NEW node, NEW next \in {"retrieve", "plan"}, Stage(i, node, next) PROVE Shapes'
  <2>1. PICK e \in {"none", "failed"} :
           Commit(i, Failing(st[i], e), Onward(Failing(st[i], e), next))
    BY <1>3 DEF Stage
  <2> DEFINE s == Failing(st[i], e)
  <2>2. Onward(s, next) = next \/ (Onward(s, next) = "end" /\ s.error # "none")
    BY DEF Onward
  <2> HIDE DEF s
  <2>3. Shape(Onward(s, next), "none", s)
    BY <2>2 DEF Shape, Pausing, Calls
  <2> QED
    BY <1>1, <2>1, <2>3, CommitShape DEF s
<1>4. CASE Respond(i)
  <2>1. Shape("end", "none", st[i])
    BY <1>4 DEF Respond, Shapes, Shape, Pausing, Calls
  <2> QED
    BY <1>1, <1>4, <2>1, CommitShape, FailShape DEF Respond
<1> QED
  BY <1>2, <1>3, <1>4

\* Where the graph makes no statement, and what a deleted checkpoint holds.
LEMMA NoShape ==
  /\ \A here, k, s : here \in {"idle", "resume", "raised", "parked", "save", "status", "discard",
                               "done", "gone", "start", "intake", "retrieve", "plan"}
                       => Shape(here, k, s)
  /\ Shape(Gone.next, "none", Gone.st)
  BY DEF Shape, Pausing, Calls, Gone

\* The steps around the graph leave the states of the graph behind.
LEMMA AroundShape ==
  ASSUME IInv, Shapes, NEW i \in Invocations,
         \/ Raise(i) \/ Save(i) \/ SaveFails(i) \/ Discard(i)
         \/ i = Runner /\ (Park \/ EndOfRun)
         \/ i \in Submitters /\ (Submit(i) \/ Resumed(i) \/ Record(i))
  PROVE  Shapes'
<1>1. LocalType
  BY DEF IInv
<1>2. AloneHeld(i)
  <2>1. CASE Raise(i) \/ Save(i) \/ SaveFails(i) \/ Discard(i)
    BY <1>1, <2>1
       DEF Raise, Save, SaveFails, Discard, DiscardThread, Return, Stay, AloneHeld, Alone,
           LocalType, inGraph
  <2>2. CASE i = Runner /\ (Park \/ EndOfRun)
    BY <1>1, <2>2 DEF Park, EndOfRun, Return, Stay, AloneHeld, Alone, LocalType, inGraph
  <2>3. CASE i \in Submitters /\ (Submit(i) \/ Resumed(i) \/ Record(i))
    BY <1>1, <2>3
       DEF Submit, Resumed, Record, Return, Stay, AloneHeld, Alone, LocalType, inGraph
  <2> QED
    BY <2>1, <2>2, <2>3
<1>3. pc'[i] \in {"resume", "raised", "parked", "save", "status", "discard", "done"}
  BY <1>1 DEF Raise, Save, SaveFails, Discard, DiscardThread, Park, EndOfRun, Submit, Resumed,
       Record, Return, Stay,
      LocalType
<1>4. thread' = thread \/ thread' = Gone
  BY DEF Raise, Save, SaveFails, Discard, DiscardThread, Park, EndOfRun, Submit, Resumed, Record
<1> QED
  BY <1>2, <1>3, <1>4, NoShape, ShapesMove

\* A handler that resumes has the state of the checkpoint.
LEMMA ResumeShape == ASSUME IInv, Shapes, NEW i \in Submitters, Resume(i) PROVE Shapes'
<1>1. LocalType /\ i \in Invocations
  BY DEF IInv, Invocations
<1>2. AloneHeld(i) /\ UNCHANGED thread
  BY <1>1 DEF Resume, Stay, AloneHeld, Alone, LocalType, inGraph
<1>3. CASE thread.next = "gone"
  <2>1. pc'[i] = "raised"
    BY <1>1, <1>3 DEF Resume, Stay, LocalType
  <2> QED
    BY <1>1, <1>2, <2>1, NoShape, ShapesMove
<1>4. CASE thread.next # "gone"
  <2>1. /\ pc'[i] = thread.next /\ st'[i] = thread.st /\ held'[i] = thread.st
        /\ thread.next \notin Pausing \union {"interrupted"}
    BY <1>1, <1>4 DEF Resume, Stay, LocalType, Threads, Nodes, Pausing
  <2>2. Shape(pc'[i], kind'[i], st'[i])
    BY <2>1 DEF Shapes, Shape, Pausing
  <2> QED
    BY <1>1, <1>2, <2>1, <2>2, ShapesMove
<1> QED
  BY <1>3, <1>4

\* Time and restarts delete what there is, or leave it.
LEMMA OutsideShape == ASSUME IInv, Shapes, ClockStep \/ Crash PROVE Shapes'
<1>1. thread' = thread \/ thread' = Gone
  BY DEF ClockStep, CacheExpiry, Expire, AutoReject, FreeThread, DiscardThread, Crash
<1>2. Shape(thread'.next, "none", thread'.st)
  BY <1>1, NoShape DEF Shapes
<1>3. CASE ClockStep
  BY <1>2, <1>3 DEF Shapes, ClockStep, CacheExpiry, Expire, AutoReject, FreeThread, DiscardThread,
       local
<1>4. CASE Crash
  <2>1. \A i \in Invocations : pc'[i] \in {"idle", "parked", "done"}
    BY <1>4 DEF Crash, Busy
  <2> QED
    BY <1>2, <2>1, NoShape DEF Shapes
<1> QED
  BY <1>3, <1>4

\* The shapes are kept.
LEMMA NextShapes == IInv /\ Shapes /\ [Next]_vars => Shapes'
<1> SUFFICES ASSUME IInv, Shapes, [Next]_vars PROVE Shapes'
  OBVIOUS
<1>1. ASSUME NEW i \in Invocations, GraphStep(i) PROVE Shapes'
  BY <1>1, OuterNodesShape, PlanShape, ExecuteShape, MintShape, AskShape, ToolShape,
       FinishToolsShape,
     ComposeShape, GuardShape, ScoreShape, AroundShape, FailShape
     DEF GraphStep, ExecuteFails, IInv
<1>2. CASE RunnerStep
  <2>1. Runner \in Invocations
    BY DEF Invocations
  <2> QED
    BY <1>1, <1>2, <2>1, OuterNodesShape, AroundShape DEF RunnerStep
<1>3. CASE \E i \in Submitters : Submit(i) \/ SubmitterStep(i)
  <2>1. Submitters \subseteq Invocations
    BY DEF Invocations
  <2> QED
    BY <1>1, <1>3, <2>1, AroundShape, ResumeShape DEF SubmitterStep
<1>4. CASE ClockStep \/ Crash
  BY <1>4, OutsideShape
<1>5. CASE UNCHANGED vars
  BY <1>5 DEF vars, local, Shapes
<1> QED
  BY <1>2, <1>3, <1>4, <1>5 DEF Next

\* The states have their shapes throughout.
LEMMA ShapesKept == Spec => []Shapes
  BY InitShapes, NextShapes, Invariance, PTL DEF Spec

(* A graph that ends without an error ends with an answer that went through   *)
(* the guard, whatever was interrupted, replayed, decided at once, or lost in *)
(* a restart before: neither the card of a pause nor an open question is ever *)
(* delivered.                                                                 *)
THEOREM AnswersDelivered == Spec => []AnswerIsDelivered
<1>1. Shapes => AnswerIsDelivered
  BY DEF Shapes, Shape, AnswerIsDelivered, Deliverable
<1> QED
  BY <1>1, ShapesKept, PTL

-----------------------------------------------------------------------------
(* How an invocation moves.                                                  *)

\* The node a place is in, and so what the checkpoint has as the next node there.
NodeAt(here, k) ==
    IF Executing(here, k) THEN "execute"
    ELSE IF here \in Pausing \union {"score"} THEN "guard" ELSE here

\* The node returns; the invocation goes on inside it; interrupt() stops the invocation.
Returns(i) == \E s, next : next \in Nodes \union {"end"} /\ Commit(i, s, next)
GoesOn(i)  ==
    /\ \E here \in Inside : Stay(i, here) /\ NodeAt(here, kind'[i]) = NodeAt(pc[i], kind[i])
    /\ \A j \in Invocations \ {i} : kind'[j] = kind[j]
    /\ UNCHANGED thread
Stops(i)   == ~HasAnswer(i) /\ Interrupted(i)

\* A pause happens inside a node.
LEMMA PauseGoesOn ==
  ASSUME IInv, NEW i \in Invocations, NEW k, NEW s, NEW card, Pause(i, k, s, card),
         NodeAt("mint", k) = NodeAt(pc[i], kind[i])
  PROVE  GoesOn(i)
<1>1. kind'[i] = k /\ \A j \in Invocations \ {i} : kind'[j] = kind[j]
  BY DEF Pause, IInv, LocalType
<1> QED
  BY <1>1 DEF Pause, Work, GoesOn, Inside

\* A step of the graph is one of those, or an exception the node lets out.
LEMMA GraphMoves ==
  ASSUME IInv, NEW i \in Invocations, GraphStep(i)
  PROVE  pc[i] \in Inside /\ (Returns(i) \/ GoesOn(i) \/ (Ask(i) /\ Stops(i)) \/ Raise(i))
<1>1. CASE Stage(i, "intake", "retrieve") \/ Stage(i, "retrieve", "plan")
  <2>1. PICK next \in {"retrieve", "plan"}, e \in {"none", "failed"} :
           Commit(i, Failing(st[i], e), Onward(Failing(st[i], e), next))
    BY <1>1 DEF Stage
  <2>2. Onward(Failing(st[i], e), next) \in Nodes \union {"end"}
    BY OnwardType DEF Nodes
  <2> QED
    BY <1>1, <2>1, <2>2 DEF Stage, Returns, Inside, Nodes
<1>2. CASE Plan(i)
  BY <1>2 DEF Plan, Emit, Fail, Returns, Inside, Nodes
<1>3. CASE Execute(i)
  <2>1. pc[i] = "execute" /\ NodeAt(pc[i], kind[i]) = "execute"
    BY <1>3 DEF Execute, NodeAt, Executing, Pausing
  <2>2. CASE Pause(i, "plan", st[i], "card")
    BY <2>1, <2>2, PauseGoesOn DEF NodeAt, Executing, Pausing, Inside, Nodes
  <2>3. CASE Work(i, st[i], "tools") /\ UNCHANGED kind
    BY <2>1, <2>3 DEF Work, GoesOn, NodeAt, Executing, Pausing, Inside, Nodes
  <2> QED
    BY <1>3, <2>2, <2>3 DEF Execute
<1>4. CASE Mint(i) \/ Show(i)
  <2>1. PICK s, here : here \in {"show", "ask"} /\ Work(i, s, here)
    BY <1>4 DEF Mint, Show
  <2>2. pc[i] \in {"mint", "show"} /\ UNCHANGED kind
    BY <1>4 DEF Mint, Show
  <2> QED
    BY <2>1, <2>2 DEF Work, GoesOn, NodeAt, Executing, Pausing, Inside, Nodes, Calls
<1>13. CASE Ask(i)
  <2>1. pc[i] = "ask" /\ LocalType
    BY <1>13 DEF Ask, IInv
  <2>2. \/ ~HasAnswer(i) /\ Interrupted(i)
        \/ Reject(i, st[i])
        \/ kind[i] = "plan" /\ Approve(i, st[i])
        \/ kind[i] = "clash" /\ Rebook(i, st[i])
        \/ kind[i] = "output" /\ Release(i, st[i])
    BY <1>13 DEF Ask
  <2>3. ASSUME NEW r, NEW here \in {"tools", "score"}, Proceed(i, r, here),
               here = "tools" <=> kind[i] # "output"
        PROVE  GoesOn(i)
    BY <2>1, <2>3 DEF Proceed, GoesOn, NodeAt, Executing, Pausing, Inside, Calls, LocalType
  <2> QED
    BY <1>13, <2>1, <2>2, <2>3
       DEF Reject, Approve, Rebook, Release, Stops, Returns, Inside, Nodes
<1>5. CASE CallTool(i)
  <2>1. PICK s, here : here \in {"tools"} \union Calls /\ Work(i, s, here)
    <3>1. PICK c, s, here : c \in Steps(st[i]) /\ here \in {"tools", c} /\ Work(i, s, here)
      BY <1>5 DEF CallTool
    <3> QED
      BY <3>1 DEF Steps, Calls
  <2>2. pc[i] = "tools" /\ UNCHANGED kind
    BY <1>5 DEF CallTool
  <2> QED
    BY <2>1, <2>2 DEF Work, GoesOn, NodeAt, Executing, Pausing, Inside
<1>6. CASE CacheResult(i)
  BY <1>6 DEF CacheResult, Work, GoesOn, NodeAt, Executing, Pausing, Inside
<1>7. CASE FinishTools(i)
  <2>1. pc[i] = "tools" /\ NodeAt(pc[i], kind[i]) = "execute" /\ NodeAt("mint", "clash") = "execute"
    BY <1>7 DEF FinishTools, NodeAt, Executing, Pausing
  <2>2. CASE Pause(i, "clash", st[i], "clash_card")
    BY <2>1, <2>2, PauseGoesOn DEF Inside
  <2> QED
    BY <1>7, <2>1, <2>2 DEF FinishTools, Returns, Inside, Nodes
<1>8. CASE ExecuteFails(i)
  BY <1>8 DEF ExecuteFails, PauseMayFail, Fail, Returns, Inside, Nodes
<1>9. CASE Compose(i) \/ Respond(i)
  BY <1>9 DEF Compose, Respond, Fail, Returns, Inside, Nodes
<1>10. CASE Guard(i)
  <2>1. /\ pc[i] = "guard" /\ NodeAt(pc[i], kind[i]) = "guard"
        /\ NodeAt("mint", "output") = "guard" /\ NodeAt("score", kind[i]) = "guard"
    BY <1>10 DEF Guard, NodeAt, Executing, Pausing, Calls
  <2>2. ASSUME NEW s, Pause(i, "output", s, "none") PROVE GoesOn(i)
    BY <2>1, <2>2, PauseGoesOn
  <2>3. ASSUME NEW s, Work(i, s, "score"), UNCHANGED kind PROVE GoesOn(i)
    BY <2>1, <2>3 DEF Work, GoesOn, Inside
  <2> QED
    BY <1>10, <2>1, <2>2, <2>3 DEF Guard, Returns, Inside, Nodes
<1>11. CASE Score(i)
  <2>1. PICK s : Commit(i, s, AfterGuard(s))
    BY <1>11 DEF Score
  <2> QED
    BY <1>11, <2>1 DEF Score, AfterGuard, Returns, Inside, Nodes
<1>12. CASE Raise(i)
  BY <1>12 DEF Raise, PauseMayFail, Inside, Nodes
<1> QED
  BY <1>1, <1>2, <1>3, <1>4, <1>5, <1>6, <1>7, <1>8, <1>9, <1>10, <1>11, <1>12,
     <1>13 DEF GraphStep

\* It leads to another place of the graph, or to one of its ends.
LEMMA GraphLeads ==
  ASSUME IInv, NEW i \in Invocations, GraphStep(i)
  PROVE  /\ pc'[i] \in Inside \union {"end", "interrupted", "raised"}
         /\ \A j \in Invocations \ {i} : pc'[j] = pc[j]
<1>1. LocalType
  BY DEF IInv
<1>2. PICK here \in Inside \union {"end", "interrupted", "raised"} : Stay(i, here)
  BY GraphMoves DEF Returns, GoesOn, Stops, Raise, Commit, Interrupted, Inside
<1> QED
  BY <1>1, <1>2 DEF Stay, LocalType

\* Tokens are minted in a pause only.
LEMMA GraphTokens ==
  ASSUME NEW i \in Invocations, GraphStep(i)
  PROVE  /\ UNCHANGED <<expired, tok, dec, seen, freeing, crashes, refused, requested>>
         /\ Mint(i) \/ UNCHANGED approvals
         /\ ExecuteFails(i) \/ Raise(i) \/ UNCHANGED failures
<1>1. CASE Stage(i, "intake", "retrieve") \/ Stage(i, "retrieve", "plan") \/ Plan(i)
  BY <1>1 DEF Stage, Plan, request, ghosts
<1>2. CASE Execute(i) \/ FinishTools(i) \/ Guard(i)
  BY <1>2 DEF Execute, FinishTools, Guard, Pause, request, ghosts
<1>3. CASE Mint(i) \/ Show(i) \/ Ask(i) \/ CallTool(i) \/ CacheResult(i) \/ ExecuteFails(i)
  BY <1>3 DEF Mint, Show, Ask, CallTool, CacheResult, ExecuteFails, request, ghosts
<1>4. CASE Compose(i) \/ Score(i) \/ Respond(i) \/ Raise(i)
  BY <1>4 DEF Compose, Score, Respond, Raise, request, ghosts
<1> QED
  BY <1>1, <1>2, <1>3, <1>4 DEF GraphStep

\* A step of the runner or of a handler it has begun, with its place.
Step(i) ==
    \/ i = Runner /\ RunnerStep
    \/ i \in Submitters /\ SubmitterStep(i)

\* A step of the graph or of a handler is of one invocation that is at work, and leaves it so.
LEMMA StepMoves ==
  ASSUME IInv, NEW i \in Invocations, Step(i)
  PROVE  /\ Busy(i) /\ pc'[i] # "idle" /\ \A j \in Invocations \ {i} : pc'[j] = pc[j]
         /\ pc[i] = "start" => i = Runner
<1>1. LocalType /\ pc \in [Invocations -> Places]
  BY DEF IInv, LocalType
<1>2. CASE GraphStep(i)
  <2>1. pc[i] \in Inside
    BY <1>2, GraphMoves
  <2>2. pc'[i] # "idle" /\ \A j \in Invocations \ {i} : pc'[j] = pc[j]
    BY <1>2, GraphLeads DEF Inside, Nodes, Calls
  <2> QED
    BY <2>1, <2>2 DEF Busy, Inside, Nodes, Calls
<1>3. CASE i = Runner /\ (StartRun \/ Park \/ EndOfRun)
  BY <1>1, <1>3
     DEF StartRun, Park, EndOfRun, Commit, Return, Stay, Busy, Inside, Nodes, Calls
<1>4. CASE Save(i) \/ SaveFails(i) \/ Discard(i)
  BY <1>1, <1>4 DEF Save, SaveFails, Discard, DiscardThread, Return, Stay, Busy
<1>5. CASE i \in Submitters /\ (Resume(i) \/ Resumed(i) \/ Record(i))
  <2>1. thread.next \in Nodes \union {"end", "gone"}
    BY <1>1 DEF LocalType, Threads
  <2> QED
    BY <1>1, <1>5, <2>1 DEF Resume, Resumed, Record, Return, Stay, Busy, Nodes
<1>6. CASE i = Runner /\ RunnerStep
  BY <1>2, <1>3, <1>4, <1>6 DEF RunnerStep
<1>7. CASE i \in Submitters /\ SubmitterStep(i)
  BY <1>2, <1>4, <1>5, <1>7 DEF SubmitterStep
<1> QED
  BY <1>6, <1>7 DEF Step

\* What the system does, by who does it.
LEMMA NextIs ==
  ASSUME [Next]_vars
  PROVE  \/ \E i \in Invocations : Step(i)
         \/ \E i \in Submitters : Submit(i)
         \/ ClockStep \/ Crash \/ UNCHANGED vars
<1>1. Runner \in Invocations /\ Submitters \subseteq Invocations
  BY DEF Invocations
<1>2. CASE RunnerStep
  <2>1. Step(Runner)
    BY <1>2 DEF Step
  <2> QED
    BY <1>1, <2>1
<1>3. CASE \E i \in Submitters : Submit(i) \/ SubmitterStep(i)
  <2>1. ASSUME NEW i \in Submitters, SubmitterStep(i) PROVE Step(i)
    BY <2>1 DEF Step
  <2> QED
    BY <1>1, <1>3, <2>1
<1> QED
  BY <1>2, <1>3 DEF Next

-----------------------------------------------------------------------------
(* The first pause: until somebody decides, only the runner has acted.       *)

Minted == {t \in Tokens : approvals[t] # "unminted"}
Fresh  == \A i \in Submitters : pc[i] = "idle"
\* The runner is never given an answer: it is not the one that is resumed.
RunnerAsks == resume[Runner] = "none" /\ answers[Runner] = <<>>

\* Before the first decision the runner has no answer to find.
LEMMA NoAnswerYet == ASSUME LocalType, RunnerAsks PROVE ~HasAnswer(Runner)
<1>1. calls[Runner] \in Nat /\ Len(answers[Runner]) = 0
  BY DEF LocalType, RunnerAsks, Invocations
<1> QED
  BY <1>1 DEF HasAnswer, Replaying, RunnerAsks

\* What a graph step of i does to the answers: it takes one, drops them all, or nothing.
LEMMA GraphAnswers ==
  ASSUME IInv, NEW i \in Invocations, GraphStep(i)
  PROVE  \/ UNCHANGED <<resume, answers>>
         \/ resume' = [resume EXCEPT ![i] = "none"] /\ answers' = [answers EXCEPT ![i] = <<>>]
         \/ /\ HasAnswer(i)
            /\ \A j \in Invocations \ {i} : resume'[j] = resume[j] /\ answers'[j] = answers[j]
<1>1. CASE Stage(i, "intake", "retrieve") \/ Stage(i, "retrieve", "plan") \/ Plan(i)
  BY <1>1 DEF Stage, Plan, Emit, Fail, Commit
<1>2. CASE Execute(i) \/ FinishTools(i) \/ Guard(i)
  BY <1>2 DEF Execute, FinishTools, Guard, Pause, Work, Commit
<1>3. CASE Mint(i) \/ Show(i) \/ CallTool(i) \/ CacheResult(i) \/ ExecuteFails(i) \/ Raise(i)
  BY <1>3 DEF Mint, Show, CallTool, CacheResult, Work, ExecuteFails, Fail, Commit, Raise
<1>4. CASE Compose(i) \/ Score(i) \/ Respond(i)
  BY <1>4 DEF Compose, Score, Respond, Fail, Commit
<1>5. CASE Ask(i)
  <2>1. \/ Interrupted(i)
        \/ \E s : Commit(i, s, "end")
        \/ HasAnswer(i) /\ \E s, here : Proceed(i, s, here)
    BY <1>5 DEF Ask, Reject, Approve, Rebook, Release
  <2> QED
    BY <2>1 DEF Interrupted, Commit, Proceed, IInv, LocalType
<1> QED
  BY <1>1, <1>2, <1>3, <1>4, <1>5 DEF GraphStep

\* So the runner is never given one.
LEMMA NextAsks == IInv /\ RunnerAsks /\ [Next]_vars => RunnerAsks'
<1> SUFFICES ASSUME IInv, RunnerAsks, [Next]_vars PROVE RunnerAsks'
  OBVIOUS
<1>1. Runner \in Invocations /\ ~HasAnswer(Runner) /\ LocalType
  BY NoAnswerYet DEF Invocations, IInv
<1>2. ASSUME NEW i \in Invocations, GraphStep(i) PROVE RunnerAsks'
  BY <1>1, <1>2, GraphAnswers DEF RunnerAsks, LocalType
<1>3. ASSUME NEW i \in Invocations, Save(i) \/ SaveFails(i) \/ Discard(i) PROVE RunnerAsks'
  BY <1>1, <1>3 DEF Save, SaveFails, Discard, DiscardThread, Return, inGraph, RunnerAsks, LocalType
<1>4. CASE StartRun \/ Park \/ EndOfRun
  BY <1>1, <1>4 DEF StartRun, Commit, Park, Return, EndOfRun, inGraph, RunnerAsks, LocalType
<1>5. ASSUME NEW i \in Submitters, Submit(i) \/ Resume(i) \/ Resumed(i) \/ Record(i)
      PROVE  RunnerAsks'
  <2>1. i # Runner
    BY ConstantsOK
  <2> QED
    BY <1>1, <1>5, <2>1
       DEF Submit, Resume, Resumed, Record, Return, inGraph, RunnerAsks, LocalType
<1>6. CASE ClockStep \/ Crash \/ UNCHANGED vars
  BY <1>1, <1>6
     DEF ClockStep, CacheExpiry, Expire, AutoReject, FreeThread, DiscardThread, Crash, vars,
         local, RunnerAsks
<1>7. CASE RunnerStep
  BY <1>1, <1>2, <1>3, <1>4, <1>7 DEF RunnerStep
<1>8. CASE \E i \in Submitters : Submit(i) \/ SubmitterStep(i)
  BY <1>2, <1>3, <1>5, <1>8 DEF SubmitterStep, Invocations
<1> QED
  BY <1>6, <1>7, <1>8 DEF Next

\* At the start nobody has answered the runner.
LEMMA InitAsks == Init => RunnerAsks
  BY DEF Init, RunnerAsks, Invocations

\* An invocation comes to mint by a pause, which has looked for a token.
LEMMA ToMint ==
  ASSUME IInv, NEW i \in Invocations, GraphStep(i), pc'[i] = "mint"
  PROVE  /\ pc[i] # "mint" /\ found'[i] \in Found
         /\ Execute(i) \/ FinishTools(i) \/ Guard(i)
<1>1. LocalType
  BY DEF IInv
<1>2. ASSUME NEW k, NEW s, NEW card, Pause(i, k, s, card) PROVE found'[i] \in Found
  BY <1>1, <1>2 DEF Pause, LocalType
<1>3. ASSUME NEW s, NEW next \in Nodes \union {"end"}, Commit(i, s, next) PROVE FALSE
  BY <1>1, <1>3 DEF Commit, Stay, LocalType, Nodes
<1>4. ASSUME NEW s, NEW here, Work(i, s, here), here # "mint" PROVE FALSE
  BY <1>1, <1>4 DEF Work, Stay, LocalType
<1>5. CASE Execute(i) \/ FinishTools(i) \/ Guard(i)
  BY <1>2, <1>3, <1>4, <1>5 DEF Execute, FinishTools, Guard, Nodes
<1>6. CASE Mint(i) \/ Show(i) \/ CallTool(i) \/ CacheResult(i)
  <2>1. ASSUME NEW s, NEW here, Work(i, s, here) PROVE here = "mint"
    BY <1>4, <2>1
  <2> QED
    BY <1>6, <2>1 DEF Mint, Show, CallTool, CacheResult, Steps, Calls
<1>7. CASE Ask(i)
  <2>1. \/ Interrupted(i)
        \/ \E s : Commit(i, s, "end")
        \/ \E s, here : here \in {"tools", "score"} /\ Proceed(i, s, here)
    BY <1>7 DEF Ask, Reject, Approve, Rebook, Release
  <2> QED
    BY <1>1, <1>3, <2>1 DEF Interrupted, Proceed, Stay, LocalType
<1>8. CASE Raise(i)
  BY <1>1, <1>8 DEF Raise, Stay, LocalType
<1> QED
  <2>1. ASSUME NEW node, NEW next \in {"retrieve", "plan"}, Stage(i, node, next) PROVE FALSE
    <3>1. PICK s : Commit(i, s, Onward(s, next))
      BY <2>1 DEF Stage
    <3> QED
      BY <1>3, <3>1, OnwardType DEF Nodes
  <2>2. CASE Plan(i) \/ ExecuteFails(i) \/ Compose(i) \/ Respond(i)
    BY <1>3, <2>2 DEF Plan, Emit, Fail, ExecuteFails, Compose, Respond, Nodes
  <2>3. CASE Score(i)
    BY <1>3, <2>3 DEF Score, AfterGuard, Nodes
  <2> QED
    BY <1>5, <1>6, <1>7, <1>8, <2>1, <2>2, <2>3 DEF GraphStep

\* The three calls of a pause follow each other.
LEMMA PauseOrder ==
  ASSUME IInv, NEW i \in Invocations, GraphStep(i), pc'[i] \in {"show", "ask", "interrupted"}
  PROVE  Mint(i) \/ pc[i] \in {"show", "ask"}
<1>1. LocalType
  BY DEF IInv
<1>2. ASSUME NEW s, NEW next \in Nodes \union {"end"}, Commit(i, s, next) PROVE FALSE
  BY <1>1, <1>2 DEF Commit, Stay, LocalType, Nodes
<1>3. ASSUME NEW s, NEW here \in {"mint", "tools", "score"} \union Calls, Work(i, s, here)
      PROVE  FALSE
  BY <1>1, <1>3 DEF Work, Stay, LocalType, Calls
<1>4. CASE Stage(i, "intake", "retrieve") \/ Stage(i, "retrieve", "plan")
  <2>1. ASSUME NEW node, NEW next \in {"retrieve", "plan"}, Stage(i, node, next) PROVE FALSE
    <3>1. PICK s : Commit(i, s, Onward(s, next))
      BY <2>1 DEF Stage
    <3> QED
      BY <1>2, <3>1, OnwardType DEF Nodes
  <2> QED
    BY <1>4, <2>1
<1>5. CASE Plan(i) \/ ExecuteFails(i) \/ Compose(i) \/ Respond(i) \/ Score(i)
  BY <1>2, <1>5 DEF Plan, Emit, Fail, ExecuteFails, Compose, Respond, Score, AfterGuard, Nodes
<1>6. CASE Execute(i) \/ FinishTools(i) \/ Guard(i)
  BY <1>2, <1>3, <1>6 DEF Execute, FinishTools, Guard, Pause, Nodes
<1>7. CASE CallTool(i) \/ CacheResult(i)
  BY <1>3, <1>7 DEF CallTool, CacheResult, Steps, Calls
<1>8. CASE Raise(i)
  BY <1>1, <1>8 DEF Raise, Stay, LocalType
<1> QED
  BY <1>4, <1>5, <1>6, <1>7, <1>8 DEF GraphStep, Show, Ask

\* A store that has failed stays recorded.
LEMMA FailuresStay == ASSUME [Next]_vars PROVE failures \subseteq failures'
<1>1. ASSUME NEW i \in Invocations, GraphStep(i) PROVE failures \subseteq failures'
  BY <1>1, GraphTokens DEF ExecuteFails, Raise, PauseFailure
<1>2. ASSUME NEW i \in Invocations, Save(i) \/ SaveFails(i) \/ Discard(i)
      PROVE  failures \subseteq failures'
  BY <1>2 DEF Save, SaveFails, Discard, DiscardThread, ghosts
<1>3. RunnerStep => failures \subseteq failures'
  BY <1>1, <1>2 DEF RunnerStep, StartRun, Park, EndOfRun, ghosts, Invocations
<1>4. ASSUME NEW i \in Submitters, Submit(i) \/ SubmitterStep(i)
      PROVE  failures \subseteq failures'
  BY <1>1, <1>2, <1>4 DEF SubmitterStep, Submit, Resume, Resumed, Record, ghosts, Invocations
<1>5. CASE ClockStep \/ Crash \/ UNCHANGED vars
  BY <1>5 DEF ClockStep, CacheExpiry, Expire, AutoReject, FreeThread, DiscardThread, Crash,
      vars, ghosts
<1> QED
  BY <1>3, <1>4, <1>5 DEF Next

\* The row asks and shows a draft.
RowAsks == row.requires_approval /\ row.draft # "none"

(* Before the first decision there is a token only where the runner has      *)
(* minted one, and at most one; the row asks from the first save of the       *)
(* pause on and shows the token from the second; while the token is open the  *)
(* checkpoint is at the node of the pause.                                   *)
Untouched ==
    /\ \A t, u \in Minted : t = u
    /\ pc[Runner] \notin {"show", "ask", "interrupted", "parked", "done"} => Minted = {}
    /\ freeing # {} => Minted # {} /\ Undecided = {}
    /\ pc[Runner] \in Inside /\ (Minted = {} \/ Undecided # {}) =>
           thread.next = NodeAt(pc[Runner], kind[Runner])
    /\ pc[Runner] = "mint" => RowAsks
    /\ \A t \in Undecided :
          /\ thread.next \in {"execute", "guard"} /\ RowAsks
          /\ pc[Runner] = "show" => st[Runner].approval_token = t
          /\ pc[Runner] \in {"ask", "interrupted", "parked"} => row.approval_token = t
FirstPause == Fresh /\ "pause" \notin failures => Untouched

\* At the start there is no pause.
LEMMA InitFirstPause == Init => FirstPause
  BY ConstantsOK DEF Init, FirstPause, Untouched, Minted, Undecided, Invocations, Inside,
      Nodes, Calls

\* A token is minted, or the one the lookup found is taken.
LEMMA Minting ==
  ASSUME LocalType, SharedType, NEW i \in Invocations, NEW t \in Tokens, GetToken(i, t)
  PROVE  \/ found[i] = t /\ Minted' = Minted /\ Undecided' = Undecided
         \/ /\ found[i] = 0 /\ t \notin Minted
            /\ Minted' = Minted \union {t} /\ Undecided' = Undecided \union {t}
<1>1. approvals \in [Tokens -> {"unminted", "pending", "approve", "edit", "rejected"}]
  BY DEF SharedType
<1>2. CASE found[i] # 0
  BY <1>2 DEF GetToken, Minted, Undecided
<1>3. CASE found[i] = 0
  <2>1. t >= t
    BY Bounds DEF Tokens
  <2>2. approvals[t] = "unminted" /\ approvals' = [approvals EXCEPT ![t] = "pending"]
    BY <1>3, <2>1 DEF GetToken
  <2> QED
    BY <1>1, <1>3, <2>2 DEF Minted, Undecided
<1> QED
  BY <1>2, <1>3

\* The runner's first save of a pause, or a step inside or out of a node before any pause.
LEMMA NodeUntouched ==
  ASSUME IInv, Shapes, Untouched, GraphStep(Runner), Minted = {}, UNCHANGED approvals,
         ~Ask(Runner)
  PROVE  Untouched'
<1>1. LocalType /\ Runner \in Invocations
  BY DEF IInv, Invocations
<1>2. Minted' = {} /\ Undecided' = {} /\ freeing' = {}
  BY <1>1, GraphTokens DEF Untouched, Minted, Undecided
<1>3. pc'[Runner] = "mint" => RowAsks'
  <2>1. SUFFICES ASSUME pc'[Runner] = "mint" PROVE RowAsks'
    OBVIOUS
  <2>2. ASSUME NEW k, NEW s, NEW card, Pause(Runner, k, s, card) PROVE row' = st'[Runner]
    BY <1>1, <2>2 DEF Pause, Work, LocalType
  <2>3. Execute(Runner) \/ FinishTools(Runner) \/ Guard(Runner)
    BY <1>1, <2>1, ToMint
  <2>4. row' = st'[Runner]
    <3>1. ASSUME NEW s, NEW next \in Nodes \union {"end"}, Commit(Runner, s, next) PROVE FALSE
      BY <1>1, <2>1, <3>1 DEF Commit, Stay, LocalType, Nodes
    <3>2. ASSUME NEW s, NEW here, Work(Runner, s, here), here # "mint" PROVE FALSE
      BY <1>1, <2>1, <3>2 DEF Work, Stay, LocalType
    <3> QED
      BY <2>2, <2>3, <3>1, <3>2 DEF Execute, FinishTools, Guard, Nodes
  <2>5. Shapes'
    BY <1>1, <2>3, ExecuteShape, FinishToolsShape, GuardShape
  <2> QED
    BY <1>1, <2>1, <2>4, <2>5 DEF Shapes, Shape, Pausing, RowAsks
<1>4. pc'[Runner] \in Inside => thread'.next = NodeAt(pc'[Runner], kind'[Runner])
  <2>1. CASE Returns(Runner)
    <3>1. PICK s, next : next \in Nodes \union {"end"} /\ Commit(Runner, s, next)
      BY <2>1 DEF Returns
    <3>2. pc'[Runner] = next /\ thread'.next = next
      BY <1>1, <3>1 DEF Commit, Stay, LocalType
    <3>3. NodeAt(next, kind'[Runner]) = next
      BY <3>1 DEF NodeAt, Executing, Pausing, Nodes, Calls
    <3> QED
      BY <3>2, <3>3
  <2>2. CASE GoesOn(Runner)
    <3>1. /\ pc[Runner] \in Inside /\ UNCHANGED thread
          /\ NodeAt(pc'[Runner], kind'[Runner]) = NodeAt(pc[Runner], kind[Runner])
      BY <1>1, <2>2, GraphMoves DEF GoesOn, Stay, LocalType
    <3> QED
      BY <3>1 DEF Untouched
  <2>3. CASE Raise(Runner)
    BY <1>1, <2>3 DEF Raise, Stay, LocalType, Inside, Nodes, Calls
  <2> QED
    BY <1>1, <2>1, <2>2, <2>3, GraphMoves
<1> QED
  BY <1>2, <1>3, <1>4 DEF Untouched

\* The three last calls of the pause: mint, show, ask.
LEMMA PauseUntouched ==
  ASSUME IInv, Shapes, RunnerAsks, Untouched, Mint(Runner) \/ Show(Runner) \/ Ask(Runner)
  PROVE  Untouched'
<1>1. LocalType /\ SharedType /\ Runner \in Invocations
  BY DEF IInv, Invocations
<1>2. st[Runner] \in AgentState /\ Undecided \subseteq Minted
  BY <1>1 DEF LocalType, Undecided, Minted
<1>3. CASE Mint(Runner)
  <2>1. pc[Runner] = "mint" /\ Minted = {} /\ Undecided = {} /\ freeing = {} /\ RowAsks
    BY <1>2, <1>3 DEF Mint, Untouched
  <2>2. PICK t \in Tokens :
          /\ GetToken(Runner, t)
          /\ Work(Runner, [st[Runner] EXCEPT !.approval_token = t], "show")
    BY <1>3 DEF Mint
  <2>3. [st[Runner] EXCEPT !.approval_token = t].approval_token = t
    BY <1>2 DEF AgentState
  <2>4. Minted' \subseteq {t} /\ Undecided' \subseteq {t}
    BY <1>1, <2>1, <2>2, Minting
  <2>5. /\ pc'[Runner] = "show" /\ st'[Runner].approval_token = t
        /\ UNCHANGED <<row, thread, kind, freeing>>
    BY <1>1, <1>3, <2>2, <2>3 DEF Mint, Work, Stay, LocalType, request
  <2>6. NodeAt("show", kind[Runner]) = NodeAt("mint", kind[Runner])
        /\ NodeAt("mint", kind[Runner]) \in {"execute", "guard"}
    BY DEF NodeAt, Executing, Pausing, Calls
  <2>7. thread.next = NodeAt("mint", kind[Runner])
    BY <2>1 DEF Untouched, Inside
  <2> QED
    BY <2>1, <2>4, <2>5, <2>6, <2>7 DEF Untouched, RowAsks
<1>4. CASE Show(Runner)
  <2>1. /\ pc[Runner] = "show" /\ pc'[Runner] = "ask" /\ row' = st[Runner]
        /\ UNCHANGED <<thread, kind, freeing, approvals>>
    BY <1>1, <1>4 DEF Show, Work, Stay, LocalType, request
  <2>2. row'.requires_approval /\ row'.draft # "none"
    BY <1>1, <2>1 DEF Shapes, Shape, Pausing
  <2>3. NodeAt("show", kind[Runner]) = NodeAt("ask", kind[Runner])
    BY DEF NodeAt, Executing, Pausing, Calls
  <2>4. Minted' = Minted /\ Undecided' = Undecided
    BY <2>1 DEF Minted, Undecided
  <2>5. "show" \in Inside /\ Undecided # {} => thread.next = NodeAt("show", kind[Runner])
    BY <2>1 DEF Untouched
  <2>6. "show" \in Inside
    BY DEF Inside
  <2>7. ASSUME NEW t \in Undecided
        PROVE  thread.next \in {"execute", "guard"} /\ row'.approval_token = t
    BY <2>1, <2>7 DEF Untouched
  <2>8. Minted = {} => Undecided = {}
    BY <1>2
  <2>9. pc'[Runner] \in Inside /\ (Minted = {} \/ Undecided # {}) =>
             thread'.next = NodeAt(pc'[Runner], kind'[Runner])
    BY <2>1, <2>3, <2>6 DEF Untouched
  <2> QED
    BY <2>1, <2>2, <2>4, <2>7, <2>9 DEF Untouched, RowAsks
<1>5. CASE Ask(Runner)
  <2>1. ~HasAnswer(Runner)
    BY <1>1, NoAnswerYet
  <2>2. Interrupted(Runner)
    BY <1>5, <2>1 DEF Ask
  <2>3. /\ pc[Runner] = "ask" /\ pc'[Runner] = "interrupted" /\ thread'.next = thread.next
        /\ UNCHANGED <<row, st, approvals, freeing>>
    BY <1>1, <1>5, <2>2 DEF Ask, Interrupted, Stay, LocalType, Threads, request
  <2>4. Minted' = Minted /\ Undecided' = Undecided
    BY <2>3 DEF Minted, Undecided
  <2> QED
    BY <2>3, <2>4 DEF Untouched, RowAsks, Inside, Nodes, Calls
<1> QED
  BY <1>3, <1>4, <1>5

\* The runner's steps up to its pause, and what it does around the graph.
LEMMA RunnerUntouched ==
  ASSUME IInv, Shapes, RunnerAsks, Untouched, ~Timeouts, Step(Runner),
         "pause" \notin failures'
  PROVE  Untouched'
<1>1. LocalType /\ SharedType /\ Runner \in Invocations /\ ~HasAnswer(Runner)
  BY NoAnswerYet DEF IInv, Invocations
<1>2. RunnerStep
  BY ConstantsOK DEF Step
<1>5. CASE GraphStep(Runner)
  <2>1. CASE Mint(Runner) \/ Show(Runner) \/ Ask(Runner)
    BY <2>1, PauseUntouched
  <2>2. CASE ~(Mint(Runner) \/ Show(Runner) \/ Ask(Runner))
    <3>1. pc[Runner] \notin {"show", "ask"}
      BY <1>1, <1>5, <2>2
         DEF GraphStep, Stage, Plan, Execute, CallTool, CacheResult, FinishTools, ExecuteFails,
             Compose, Guard, Score, Respond, Raise, PauseMayFail, PauseFailure, Calls
    <3>2. Minted = {} /\ UNCHANGED approvals
      BY <1>1, <1>5, <2>2, <3>1, GraphMoves, GraphTokens DEF Untouched, Inside, Nodes, Calls
    <3> QED
      BY <1>5, <2>2, <3>2, NodeUntouched
  <2> QED
    BY <2>1, <2>2
<1>6. CASE StartRun
  <2>1. Minted = {} /\ Undecided = {} /\ freeing = {} /\ UNCHANGED <<approvals, freeing>>
    BY <1>6 DEF StartRun, Untouched, request, Minted, Undecided
  <2>2. pc'[Runner] = "intake" /\ thread'.next = "intake"
    BY <1>1, <1>6 DEF StartRun, Commit, Stay, LocalType
  <2>3. NodeAt("intake", kind'[Runner]) = "intake"
    BY DEF NodeAt, Executing, Pausing, Calls
  <2> QED
    BY <2>1, <2>2, <2>3 DEF Untouched, Minted, Undecided
<1>7. CASE Park
  <2>1. /\ pc[Runner] = "interrupted" /\ pc'[Runner] = "parked"
        /\ UNCHANGED <<thread, row, approvals, freeing>>
    BY <1>1, <1>7 DEF Park, Return, Stay, LocalType, request
  <2>2. Minted' = Minted /\ Undecided' = Undecided
    BY <2>1 DEF Minted, Undecided
  <2> QED
    BY <2>1, <2>2 DEF Untouched, RowAsks, Inside, Nodes, Calls
<1>8. CASE EndOfRun \/ Save(Runner) \/ SaveFails(Runner) \/ Discard(Runner)
  <2>1. pc[Runner] \in {"end", "raised", "save", "discard"}
    BY <1>8, ConstantsOK DEF EndOfRun, Save, SaveFails, Discard
  <2>2. Minted = {} /\ UNCHANGED <<approvals, freeing>> /\ freeing = {}
    BY <1>8, <2>1 DEF Untouched, EndOfRun, Save, SaveFails, Discard, request
  <2>3. pc'[Runner] \in {"save", "discard", "done"}
    BY <1>1, <1>8, ConstantsOK
       DEF EndOfRun, Save, SaveFails, Discard, Return, Stay, LocalType
  <2> QED
    BY <2>2, <2>3 DEF Untouched, Minted, Undecided, Inside, Nodes, Calls
<1> QED
  BY <1>2, <1>5, <1>6, <1>7, <1>8 DEF RunnerStep

\* Time: the token expires, or listing rejects it.  A restart leaves token and checkpoint.
LEMMA OutsideUntouched ==
  ASSUME IInv, Untouched, Durable \/ MaxCrashes = 0, ClockStep \/ Crash PROVE Untouched'
<1>1. SharedType /\ Undecided \subseteq Minted
  BY DEF IInv, Undecided, Minted
<1>2. CASE CacheExpiry \/ \E t \in Tokens : Expire(t)
  BY <1>2 DEF CacheExpiry, Expire, local, request, Untouched, Minted, Undecided, RowAsks
<1>3. ASSUME NEW t \in Tokens, AutoReject(t) PROVE Untouched'
  <2>1. t \in Undecided /\ t \in Minted
    BY <1>3 DEF AutoReject, Undecided, Minted
  <2>2. Minted' = Minted /\ Undecided' = Undecided \ {t}
    BY <1>1, <1>3 DEF AutoReject, Minted, Undecided, SharedType
  <2>4. Minted # {} /\ Undecided' = {}
    BY <1>1, <2>1, <2>2 DEF Untouched
  <2>5. UNCHANGED pc
    BY <1>3 DEF AutoReject, local
  <2>6. pc[Runner] # "mint"
    BY <2>1 DEF Untouched
  <2> QED
    BY <2>2, <2>4, <2>5, <2>6 DEF Untouched
<1>5. ASSUME NEW t \in Tokens, FreeThread(t) PROVE Untouched'
  <2>1. Minted # {} /\ Undecided = {}
    BY <1>5 DEF FreeThread, Untouched
  <2>2. UNCHANGED <<pc, approvals>>
    BY <1>5 DEF FreeThread, local
  <2>3. Minted' = Minted /\ Undecided' = {}
    BY <2>1, <2>2 DEF Minted, Undecided
  <2>4. pc[Runner] # "mint"
    BY <2>1 DEF Untouched
  <2> QED
    BY <2>1, <2>2, <2>3, <2>4 DEF Untouched
<1>4. CASE Crash
  <2>1. Durable
    BY <1>1, <1>4 DEF Crash, SharedType
  <2>2. UNCHANGED <<thread, approvals, row>> /\ freeing' = {}
    BY <1>4, <2>1 DEF Crash
  <2>3. Runner \in Invocations
    BY DEF Invocations
  <2>4. \/ pc'[Runner] = "done"
        \/ pc'[Runner] = pc[Runner] /\ pc[Runner] \in {"idle", "parked", "done"}
    BY <1>4, <2>3 DEF Crash, Busy
  <2>5. Minted' = Minted /\ Undecided' = Undecided
    BY <2>2 DEF Minted, Undecided
  <2> QED
    BY <2>2, <2>4, <2>5 DEF Untouched, RowAsks, Inside, Nodes, Calls
<1> QED
  BY <1>2, <1>3, <1>4, <1>5 DEF ClockStep

\* Nobody decides twice: who has begun does not become idle again.
LEMMA FreshBefore == ASSUME IInv, [Next]_vars, Fresh' PROVE Fresh
<1>1. LocalType
  BY DEF IInv
<1>2. ASSUME NEW i \in Invocations, Step(i) PROVE Fresh
  BY <1>2, StepMoves DEF Fresh, Invocations
<1>3. ASSUME NEW i \in Submitters, Submit(i) PROVE Fresh
  BY <1>1, <1>3 DEF Submit, Stay, LocalType, Fresh, Invocations
<1>4. CASE ClockStep \/ Crash \/ UNCHANGED vars
  BY <1>4 DEF ClockStep, CacheExpiry, Expire, AutoReject, FreeThread, DiscardThread, Crash, vars,
       local, Fresh, Busy,
      Invocations
<1> QED
  BY <1>2, <1>3, <1>4, NextIs

\* Every step keeps the first pause, unless it can time out or its checkpoint can be lost.
LEMMA NextFirstPause ==
  ASSUME ~Timeouts, Durable \/ MaxCrashes = 0
  PROVE  IInv /\ Shapes /\ RunnerAsks /\ FirstPause /\ [Next]_vars => FirstPause'
<1> SUFFICES ASSUME IInv, Shapes, RunnerAsks, FirstPause, [Next]_vars, Fresh',
                    "pause" \notin failures'
             PROVE  Untouched'
  BY DEF FirstPause
<1>1. Fresh /\ Untouched
  BY FreshBefore, FailuresStay DEF FirstPause
<1>2. ASSUME NEW i \in Invocations, Step(i) PROVE Untouched'
  <2>1. i = Runner
    BY <1>1, <1>2, StepMoves DEF Fresh, Busy, Invocations
  <2> QED
    BY <1>1, <1>2, <2>1, RunnerUntouched
<1>3. ASSUME NEW i \in Submitters, Submit(i) PROVE Untouched'
  BY <1>3 DEF Submit, Stay, IInv, LocalType, Fresh, Invocations
<1>4. CASE ClockStep \/ Crash
  BY <1>1, <1>4, OutsideUntouched
<1>5. CASE UNCHANGED vars
  BY <1>1, <1>5 DEF vars, local, request, Untouched, Minted, Undecided, RowAsks
<1> QED
  BY <1>2, <1>3, <1>4, <1>5, NextIs

\* The first pause keeps.
LEMMA FirstPauseHolds ==
  ASSUME ~Timeouts, Durable \/ MaxCrashes = 0 PROVE Spec => []FirstPause
<1>1. IInv /\ Shapes /\ RunnerAsks /\ FirstPause /\ [Next]_vars => FirstPause'
  BY NextFirstPause
<1> QED
  BY <1>1, Invariance, ShapesKept, InitAsks, NextAsks, InitFirstPause, PTL DEF Spec

(* Until somebody decides, an approval that is waiting has its checkpoint and *)
(* a row that asks and shows the card, wherever the process died between the  *)
(* three transactions of the pause (execute.py:220-222); where the run has    *)
(* parked, the row shows the token too.  Provided the run does not time out   *)
(* at its pause, the checkpoint outlives a restart, and the second save has   *)
(* not failed: then the run ends and discards what the approval waits for.    *)
THEOREM PauseIsKept ==
  ASSUME ~Timeouts, Durable \/ MaxCrashes = 0 PROVE Spec => []FirstPauseKept
<1>1. FirstPause => FirstPauseKept
  BY DEF FirstPause, Fresh, Untouched, RowAsks, FirstPauseKept
<1> QED
  BY <1>1, FirstPauseHolds, PTL

-----------------------------------------------------------------------------
(* One decision after the other: at most one invocation is at work.          *)

Idle == \A i \in Invocations : ~Busy(i)
OneBusy ==
    /\ \A i, j \in Invocations : Busy(i) /\ Busy(j) => i = j
    /\ Busy(Runner) => Fresh

\* At the start only the runner is at work.
LEMMA InitOneBusy == Init => OneBusy
  BY ConstantsOK DEF Init, OneBusy, Busy, Fresh, Invocations

\* Who is at work is alone, and stays alone while it works.
LEMMA Alone1 ==
  ASSUME OneBusy, NEW i \in Invocations, Busy(i) PROVE \A j \in Invocations \ {i} : ~Busy(j)
  BY DEF OneBusy

\* Where one is at work, the one that steps is it.
LEMMA StepAlone ==
  ASSUME IInv, OneBusy, NEW i \in Invocations, Step(i)
  PROVE  /\ Busy(i) /\ pc'[i] # "idle"
         /\ \A j \in Invocations \ {i} : pc'[j] = pc[j] /\ ~Busy(j) /\ ~Busy(j)'
  BY StepMoves, Alone1 DEF Busy

\* Decisions that follow one another are submitted when nobody is at work.
LEMMA SubmitAlone ==
  ASSUME OneAtATime, IInv, NEW i \in Submitters, Submit(i)
  PROVE  /\ Idle /\ i # Runner /\ pc'[i] = "resume"
         /\ \A j \in Invocations \ {i} : pc'[j] = pc[j] /\ ~Busy(j) /\ ~Busy(j)'
  BY ConstantsOK DEF Submit, Stay, AllQuiet, Idle, Busy, IInv, LocalType, Invocations

\* A restart ends all.
LEMMA CrashIdle ==
  ASSUME Crash
  PROVE  Idle' /\ \A i \in Invocations : pc'[i] = "done" \/ pc'[i] = pc[i]
  BY DEF Crash, Idle, Busy

\* Every step leaves at most one at work.
LEMMA NextOneBusy == ASSUME OneAtATime PROVE IInv /\ OneBusy /\ [Next]_vars => OneBusy'
<1> SUFFICES ASSUME IInv, OneBusy, [Next]_vars PROVE OneBusy'
  OBVIOUS
<1>1. ASSUME NEW i \in Invocations, Step(i) PROVE OneBusy'
  BY <1>1, StepAlone, ConstantsOK DEF OneBusy, Fresh, Invocations
<1>2. ASSUME NEW i \in Submitters, Submit(i) PROVE OneBusy'
  BY <1>2, SubmitAlone DEF OneBusy, Fresh, Invocations
<1>3. CASE ClockStep \/ UNCHANGED vars
  BY <1>3 DEF ClockStep, CacheExpiry, Expire, AutoReject, FreeThread, DiscardThread, vars, local,
       OneBusy, Busy, Fresh
<1>4. CASE Crash
  BY <1>4, CrashIdle DEF Idle, OneBusy, Fresh, Invocations
<1> QED
  BY <1>1, <1>2, <1>3, <1>4, NextIs

\* At most one invocation is at work throughout.
LEMMA OneBusyKept == ASSUME OneAtATime PROVE Spec => []OneBusy
<1>1. IInv /\ OneBusy /\ [Next]_vars => OneBusy'
  BY NextOneBusy
<1> QED
  BY <1>1, InitOneBusy, Invariance, PTL DEF Spec

-----------------------------------------------------------------------------
(* get_or_create_approval, under that assumption.                            *)

\* One undecided token at most, and none where a lookup found none.
OneOpen ==
    /\ \A t, u \in Undecided : t = u
    /\ \A i \in Invocations : pc[i] = "mint" /\ found[i] = 0 => Undecided = {}

\* At the start nothing is minted.
LEMMA InitOneOpen == Init => OneOpen
  BY DEF Init, OneOpen, Undecided

\* The steps that are not the graph's.
AroundStep(i) ==
    \/ i = Runner /\ (StartRun \/ Park \/ EndOfRun)
    \/ Save(i) \/ SaveFails(i) \/ Discard(i)
    \/ i \in Submitters /\ (Resume(i) \/ Resumed(i) \/ Record(i))

\* A step is one of the graph, or one of the handler or task around it.
LEMMA StepIs == ASSUME NEW i, Step(i) PROVE GraphStep(i) \/ AroundStep(i)
  BY DEF Step, RunnerStep, SubmitterStep, AroundStep

\* Where they lead.
LEMMA AroundMoves ==
  ASSUME IInv, NEW i \in Invocations, AroundStep(i)
  PROVE  /\ pc'[i] \in Nodes \union {"end", "raised", "parked", "save", "status", "discard", "done"}
         /\ UNCHANGED <<expired, tok, dec, seen, freeing, crashes, refused, requested>>
         /\ UNCHANGED <<plans, blind, cache, called, landed, repeated>>
         /\ (i \in Submitters /\ Record(i)) \/ UNCHANGED approvals
<1>1. pc \in [Invocations -> Places] /\ thread.next \in Nodes \union {"end", "gone"}
  BY DEF IInv, LocalType, Threads
<1>2. CASE i = Runner /\ (StartRun \/ Park \/ EndOfRun)
  BY <1>1, <1>2 DEF StartRun, Commit, Park, Return, EndOfRun, Stay, Nodes, request, ghosts,
      tools
<1>3. CASE Save(i) \/ SaveFails(i) \/ Discard(i)
  BY <1>1, <1>3 DEF Save, SaveFails, Discard, DiscardThread, Return, Stay, request, ghosts, tools
<1>4. CASE i \in Submitters /\ (Resume(i) \/ Resumed(i) \/ Record(i))
  BY <1>1, <1>4 DEF Resume, Resumed, Record, Return, Stay, request, ghosts, tools
<1> QED
  BY <1>2, <1>3, <1>4 DEF AroundStep

\* Recording a decision settles its token.
LEMMA Settling ==
  ASSUME IInv, NEW i \in Submitters, Record(i)
  PROVE  Minted' = Minted \union {tok[i]} /\ Undecided' = Undecided \ {tok[i]}
<1>1. /\ tok[i] \in Tokens /\ dec[i] \in Decisions
      /\ approvals \in [Tokens -> {"unminted", "pending", "approve", "edit", "rejected"}]
  BY DEF IInv, Control, Decided, Record, SharedType
<1> QED
  BY <1>1 DEF Record, Minted, Undecided, Decisions

\* So does listing it after it has expired.
LEMMA Rejecting ==
  ASSUME IInv, NEW t \in Tokens, AutoReject(t)
  PROVE  Minted' = Minted /\ Undecided' = Undecided \ {t}
  BY DEF IInv, SharedType, AutoReject, Minted, Undecided

\* Every step leaves at most one token undecided.
LEMMA NextOneOpen ==
  ASSUME OneAtATime PROVE IInv /\ OneBusy /\ OneOpen /\ [Next]_vars => OneOpen'
<1> SUFFICES ASSUME IInv, OneBusy, OneOpen, [Next]_vars PROVE OneOpen'
  OBVIOUS
<1>1. ASSUME NEW i \in Invocations, Step(i) PROVE OneOpen'
  <2>1. \A j \in Invocations \ {i} : pc'[j] # "mint"
    BY <1>1, StepAlone DEF Busy
  <2>2. CASE GraphStep(i)
    <3>1. CASE Mint(i)
      <4>1. pc'[i] # "mint"
        BY <3>1 DEF Mint, Work, Stay, IInv, LocalType
      <4>2. PICK t \in Tokens : GetToken(i, t)
        BY <3>1 DEF Mint
      <4>3. \A u, v \in Undecided' : u = v
        BY <3>1, <4>2, Minting DEF Mint, OneOpen, IInv
      <4> QED
        BY <2>1, <4>1, <4>3 DEF OneOpen
    <3>2. CASE UNCHANGED approvals
      <4>1. Undecided' = Undecided
        BY <3>2 DEF Undecided
      <4>2. pc'[i] = "mint" /\ found'[i] = 0 => Undecided = {}
        <5>1. 0 \notin Undecided
          BY DEF Undecided, Tokens
        <5> QED
          BY <2>2, <5>1, ToMint DEF Found
      <4> QED
        BY <2>1, <4>1, <4>2 DEF OneOpen
    <3> QED
      BY <2>2, <3>1, <3>2, GraphTokens
  <2>3. CASE AroundStep(i)
    <3>1. pc'[i] # "mint"
      BY <2>3, AroundMoves DEF Nodes
    <3>2. Undecided' \subseteq Undecided
      BY <2>3, AroundMoves, Settling DEF Undecided
    <3> QED
      BY <2>1, <3>1, <3>2 DEF OneOpen
  <2> QED
    BY <1>1, <2>2, <2>3, StepIs
<1>2. ASSUME NEW i \in Submitters, Submit(i) PROVE OneOpen'
  <2>1. \A j \in Invocations : pc'[j] # "mint"
    BY <1>2, SubmitAlone DEF Busy, Invocations
  <2> QED
    BY <1>2, <2>1 DEF Submit, OneOpen, Undecided
<1>3. CASE ClockStep
  <2>1. Undecided' \subseteq Undecided
    BY <1>3, Rejecting DEF ClockStep, CacheExpiry, Expire, FreeThread, Undecided
  <2> QED
    BY <1>3, <2>1 DEF ClockStep, CacheExpiry, Expire, AutoReject, FreeThread, DiscardThread,
         local, OneOpen
<1>4. CASE Crash
  BY <1>4, CrashIdle DEF Idle, Busy, Crash, OneOpen, Undecided
<1>5. CASE UNCHANGED vars
  BY <1>5 DEF vars, local, OneOpen, Undecided
<1> QED
  BY <1>1, <1>2, <1>3, <1>4, <1>5, NextIs

\* At most one token is undecided throughout.
LEMMA OneOpenKept == ASSUME OneAtATime PROVE Spec => []OneOpen
<1>1. IInv /\ OneBusy /\ OneOpen /\ [Next]_vars => OneOpen'
  BY NextOneOpen
<1> QED
  BY <1>1, InitOneOpen, OneBusyKept, Invariance, PTL DEF Spec

(* get_or_create_approval never leaves a run with two undecided approvals, as *)
(* long as decisions come one after the other: whatever pauses, replays,      *)
(* expires or restarts, a pause takes up the token that is waiting.           *)
THEOREM OneToken == ASSUME OneAtATime PROVE Spec => []OneUndecidedToken
<1>1. OneOpen => OneUndecidedToken
  <2> SUFFICES ASSUME OneOpen PROVE Cardinality(Undecided) <= 1
    BY DEF OneUndecidedToken
  <2>1. CASE Undecided = {}
    BY <2>1, FS_EmptySet
  <2>2. ASSUME NEW t \in Undecided PROVE Cardinality(Undecided) <= 1
    <3>1. Undecided = {t}
      BY <2>2 DEF OneOpen
    <3> QED
      BY <3>1, FS_Singleton
  <2> QED
    BY <2>1, <2>2
<1> QED
  BY <1>1, OneOpenKept, PTL

-----------------------------------------------------------------------------
(* What a node keeps of its state.                                           *)

\* The same plan, the same step arguments, as many retries.
Same(s, r) == r.plan = s.plan /\ r.slot = s.slot /\ r.retry_count = s.retry_count

\* What the nodes write of a state on their way: errors, drafts, questions, tokens, results.
LEMMA SameStates ==
  ASSUME NEW s \in AgentState
  PROVE  /\ \A e : Same(s, Failing(s, e))
         /\ \A d : Same(s, [s EXCEPT !.draft = d])
         /\ \A d : Same(s, [s EXCEPT !.requires_approval = TRUE, !.draft = d])
         /\ Same(s, [s EXCEPT !.error = "pii_detected", !.requires_approval = TRUE])
         /\ \A t : Same(s, [s EXCEPT !.approval_token = t])
         /\ \A c, r : Same(s, HasResult(s, c, r))
  BY DEF AgentState, Same, Failing, HasResult

\* What an answer makes of a state leaves its plan, or at least the number of it.
LEMMA SameAnswers ==
  ASSUME NEW s \in AgentState, NEW d
  PROVE  /\ Same(s, Rejected(s)) /\ Same(s, PlanAnswered(s, d)) /\ Same(s, OutputAnswered(s, d))
         /\ Rebooked(s).plan = s.plan /\ Rebooked(s).retry_count = s.retry_count
  BY DEF AgentState, Same, Rejected, PlanAnswered, OutputAnswered, Rebooked

\* A step of the graph that neither plans nor replans; an answered clash moves the slot.
Keeps(i) ==
    /\ UNCHANGED plans
    /\ st'[i].plan = st[i].plan /\ st'[i].retry_count = st[i].retry_count
    /\ st'[i].slot = st[i].slot \/ (Ask(i) /\ kind[i] = "clash")
    /\ pc'[i] # "execute" /\ (pc'[i] \in Unapproved => pc[i] \in Unapproved)

\* A node that returns a state with the same plan.
LEMMA CommitKeeps ==
  ASSUME IInv, NEW i \in Invocations, NEW s, NEW next, Commit(i, s, next), Same(st[i], s),
         UNCHANGED plans, next # "execute", next \in Unapproved => pc[i] \in Unapproved
  PROVE  Keeps(i)
  BY DEF Commit, Stay, IInv, LocalType, Same, Keeps

\* A node that goes on with the same plan.
LEMMA WorkKeeps ==
  ASSUME IInv, NEW i \in Invocations, NEW s, NEW here, Work(i, s, here), Same(st[i], s),
         UNCHANGED plans, here \in {"mint", "show", "ask", "tools", "score"} \union Calls
  PROVE  Keeps(i)
  BY DEF Work, Stay, IInv, LocalType, Same, Keeps, Calls, Unapproved

\* A node that pauses with the same plan.
LEMMA PauseKeeps ==
  ASSUME IInv, NEW i \in Invocations, NEW k, NEW s \in AgentState, NEW card,
         Pause(i, k, s, card), Same(st[i], s)
  PROVE  Keeps(i)
<1>1. PICK d : Work(i, [s EXCEPT !.requires_approval = TRUE, !.draft = d], "mint")
  BY DEF Pause
<1>2. Same(st[i], [s EXCEPT !.requires_approval = TRUE, !.draft = d])
  BY SameStates DEF Same
<1> QED
  BY <1>1, <1>2, WorkKeeps DEF Pause

\* Plans and retries change where the planner emits and where the guard sends back, only.
LEMMA GraphKeeps ==
  ASSUME IInv, NEW i \in Invocations, GraphStep(i)
  PROVE  \/ pc[i] = "plan" /\ Emit(i)
         \/ /\ pc[i] = "score" /\ UNCHANGED plans /\ st[i].retry_count < MaxRetries
            /\ \E next \in {"plan", "end"} : Commit(i, Replanned(st[i]), next)
         \/ Keeps(i)
<1>0. LocalType /\ st[i] \in AgentState /\ Same(st[i], st[i])
  BY DEF IInv, LocalType, Same
<1>1. CASE Stage(i, "intake", "retrieve") \/ Stage(i, "retrieve", "plan")
  <2>1. PICK next \in {"retrieve", "plan"}, e \in {"none", "failed"} :
           Commit(i, Failing(st[i], e), Onward(Failing(st[i], e), next))
    BY <1>1 DEF Stage
  <2>2. Onward(Failing(st[i], e), next) \in {"retrieve", "plan", "end"}
    BY DEF Onward
  <2> QED
    BY <1>0, <1>1, <2>1, <2>2, SameStates, CommitKeeps DEF Stage, Unapproved
<1>2. ASSUME Fail(i), UNCHANGED plans PROVE Keeps(i)
  BY <1>0, <1>2, SameStates, CommitKeeps DEF Fail, Unapproved
<1>3. CASE Plan(i)
  BY <1>2, <1>3 DEF Plan
<1>4. CASE Execute(i)
  <2>1. CASE Pause(i, "plan", st[i], "card")
    BY <1>0, <2>1, PauseKeeps
  <2>2. CASE Work(i, st[i], "tools") /\ UNCHANGED plans
    BY <1>0, <2>2, WorkKeeps
  <2> QED
    BY <1>4, <2>1, <2>2 DEF Execute
<1>5. CASE Mint(i) \/ Show(i)
  <2>1. CASE Show(i)
    BY <1>0, <2>1, WorkKeeps DEF Show
  <2>2. ASSUME NEW t \in Tokens, Work(i, [st[i] EXCEPT !.approval_token = t], "show"),
  UNCHANGED plans
        PROVE  Keeps(i)
    BY <1>0, <2>2, SameStates, WorkKeeps
  <2> QED
    BY <1>5, <2>1, <2>2 DEF Mint
<1>15. CASE Ask(i)
  <2>3. UNCHANGED plans /\ pc[i] = "ask"
    BY <1>15 DEF Ask
  <2>4. ASSUME NEW r, NEW here \in {"tools", "score"}, Proceed(i, r, here), Same(st[i], r)
        PROVE  Keeps(i)
    BY <1>0, <2>3, <2>4 DEF Proceed, Stay, LocalType, Same, Keeps, Unapproved
  <2>5. CASE Interrupted(i)
    BY <1>0, <2>3, <2>5 DEF Interrupted, Stay, LocalType, Same, Keeps, Unapproved
  <2>6. CASE Reject(i, st[i])
    BY <1>0, <2>3, <2>6, SameAnswers, CommitKeeps DEF Reject, Unapproved
  <2>7. CASE Approve(i, st[i])
    BY <1>0, <2>4, <2>7, SameAnswers DEF Approve
  <2>8. CASE kind[i] = "clash" /\ Rebook(i, st[i])
    <3>1. Proceed(i, Rebooked(st[i]), "tools")
      BY <2>8 DEF Rebook
    <3> QED
      BY <1>0, <1>15, <2>3, <2>8, <3>1, SameAnswers
         DEF Proceed, Stay, LocalType, Keeps, Unapproved
  <2>9. CASE Release(i, st[i])
    BY <1>0, <2>4, <2>9, SameAnswers DEF Release
  <2> QED
    BY <1>15, <2>5, <2>6, <2>7, <2>8, <2>9 DEF Ask
<1>6. CASE CallTool(i)
  <2>1. PICK c, r, here : /\ c \in Steps(st[i]) /\ here \in {"tools", c}
                          /\ Work(i, HasResult(st[i], c, r), here)
    BY <1>6 DEF CallTool
  <2>2. here \in {"tools"} \union Calls
    BY <2>1 DEF Steps, Calls
  <2> QED
    BY <1>0, <1>6, <2>1, <2>2, SameStates, WorkKeeps DEF CallTool
<1>7. CASE CacheResult(i)
  BY <1>0, <1>7, WorkKeeps DEF CacheResult
<1>8. CASE FinishTools(i)
  <2>1. CASE Pause(i, "clash", st[i], "clash_card")
    BY <1>0, <2>1, PauseKeeps
  <2>2. ASSUME NEW d, Commit(i, [st[i] EXCEPT !.draft = d], "compose"),
  UNCHANGED plans PROVE Keeps(i)
    BY <1>0, <2>2, SameStates, CommitKeeps DEF Unapproved
  <2> QED
    BY <1>8, <2>1, <2>2 DEF FinishTools, DropCard
<1>9. CASE ExecuteFails(i)
  BY <1>2, <1>9 DEF ExecuteFails
<1>10. CASE Compose(i) \/ Respond(i)
  <2>1. ASSUME NEW s, NEW next \in {"guard", "end"}, Commit(i, s, next), Same(st[i], s),
               UNCHANGED plans
        PROVE  Keeps(i)
    BY <2>1, CommitKeeps DEF Unapproved
  <2>2. \A d : Same(st[i], [st[i] EXCEPT !.draft = d])
    BY <1>0, SameStates
  <2> QED
    BY <1>0, <1>2, <1>10, <2>1, <2>2 DEF Compose, Respond
<1>11. CASE Guard(i)
  <2>1. ASSUME NEW s, Same(st[i], s), Commit(i, s, "end"), UNCHANGED plans PROVE Keeps(i)
    BY <2>1, CommitKeeps DEF Unapproved
  <2>2. \A s \in {[st[i] EXCEPT !.error = "pii_detected", !.requires_approval = TRUE],
                  Failing(st[i], "missing_integration"), Failing(st[i], "guardrail_output")} :
           Same(st[i], s)
    BY <1>0, SameStates
  <2>3. ASSUME NEW d \in {st[i].draft} \union Composed(st[i]), NEW s,
               s = [st[i] EXCEPT !.draft = d],
               \/ Pause(i, "output", s, "none")
               \/ Work(i, s, "score") /\ UNCHANGED plans
        PROVE  Keeps(i)
    <3>1. s \in AgentState
      BY <1>0, <2>3, DraftOf, DraftType
    <3>2. Same(st[i], s)
      BY <1>0, <2>3, SameStates
    <3> QED
      BY <2>3, <3>1, <3>2, PauseKeeps, WorkKeeps
  <2> QED
    BY <1>11, <2>1, <2>2, <2>3 DEF Guard
<1>12. CASE Score(i)
  <2>1. PICK x : Commit(i, Decide(st[i], x), AfterGuard(Decide(st[i], x)))
    BY <1>12 DEF Score
  <2>2. CASE st[i].retry_count < MaxRetries /\ Decide(st[i], x) = Replanned(st[i])
    <3>1. AfterGuard(Replanned(st[i])) \in {"plan", "end"}
      BY <1>0 DEF AfterGuard, Replanned, AgentState
    <3> QED
      BY <1>12, <2>1, <2>2, <3>1 DEF Score
  <2>3. ASSUME NEW s, s = Decide(st[i], x), Same(st[i], s), AfterGuard(s) \in {"respond", "end"}
        PROVE  Keeps(i)
    BY <1>12, <2>1, <2>3, CommitKeeps DEF Score, Unapproved
  <2>4. CASE Decide(st[i], x) = [st[i] EXCEPT !.verdict = "finalize"]
    BY <1>0, <2>3, <2>4 DEF AgentState, Same, AfterGuard
  <2>5. CASE Decide(st[i], x) = [st[i] EXCEPT !.verdict = "block",
  !.error = "low_confidence_blocked"]
    BY <1>0, <2>3, <2>5 DEF AgentState, Same, AfterGuard
  <2> QED
    BY <2>2, <2>4, <2>5 DEF Decide
<1>13. CASE Respond(i)
  BY <1>10, <1>13
<1>14. CASE Raise(i)
  BY <1>0, <1>14 DEF Raise, Stay, LocalType, Keeps, Unapproved
<1> QED
  BY <1>1, <1>3, <1>4, <1>5, <1>6, <1>7, <1>8, <1>9, <1>10, <1>11, <1>12, <1>14,
     <1>15 DEF GraphStep

\* The checkpoint is where the invocation is, or where it was.
LEMMA GraphThread ==
  ASSUME IInv, NEW i \in Invocations, GraphStep(i)
  PROVE  \/ thread'.next = pc'[i] /\ thread'.st = st'[i] /\ pc'[i] \in Nodes \union {"end"}
         \/ thread'.next = thread.next /\ thread'.st = thread.st
<1>1. LocalType
  BY DEF IInv
<1>2. CASE Returns(i)
  BY <1>1, <1>2 DEF Returns, Commit, Stay, LocalType
<1>3. CASE Stops(i)
  BY <1>1, <1>3 DEF Stops, Interrupted, LocalType, Threads
<1>4. CASE GoesOn(i) \/ Raise(i)
  BY <1>4 DEF GoesOn, Raise
<1> QED
  BY <1>2, <1>3, <1>4, GraphMoves

-----------------------------------------------------------------------------
(* decide_verdict: the retries count the plans.                              *)

\* One plan more than retries, and none more before the planner has run.
Bounded(P, here, s) ==
    /\ P <= s.retry_count + 1
    /\ here \in Unapproved => P <= s.retry_count

InBounds ==
    /\ \A i \in Invocations : pc[i] \in Inside \union {"start"} => Bounded(planned, pc[i], st[i])
    /\ thread.next \in Nodes => Bounded(planned, thread.next, thread.st)
    /\ planned <= MaxRetries + 1

\* A discarded checkpoint is at no node.
LEMMA GoneNext == Gone.next = "gone"
  BY DEF Gone

\* At the start nothing is planned.
LEMMA InitInBounds == Init => InBounds
  BY ConstantsOK, Bounds
     DEF Init, InBounds, Bounded, Initial, Gone, Invocations, Inside, Nodes, Calls

\* The planner adds a plan, a replan a retry; nothing else counts.
LEMMA GraphInBounds ==
  ASSUME IInv, InBounds, NEW i \in Invocations, GraphStep(i),
         \A j \in Invocations \ {i} : pc'[j] \notin Inside \union {"start"}
  PROVE  InBounds'
<1>1. /\ LocalType /\ pc[i] \in Inside /\ st[i] \in AgentState /\ Bounded(planned, pc[i], st[i])
      /\ st[i].retry_count \in 0..MaxRetries /\ planned \in Nat /\ MaxRetries \in Nat
  <2>1. LocalType /\ st[i] \in AgentState /\ planned \in Nat /\ MaxRetries \in Nat
    BY Bounds DEF IInv, LocalType, SharedType
  <2>2. st[i].retry_count \in 0..MaxRetries
    BY <2>1 DEF AgentState
  <2> QED
    BY <2>1, <2>2, GraphMoves DEF InBounds
<1>2. ASSUME planned' = planned, planned <= MaxRetries + 1,
             pc'[i] \in Nodes \union Inside => Bounded(planned', pc'[i], st'[i])
      PROVE  InBounds'
  <2>1. thread'.next \in Nodes => Bounded(planned', thread'.next, thread'.st)
    BY <1>2, GraphThread DEF InBounds, Bounded, Inside
  <2>2. pc'[i] # "start"
    BY GraphLeads DEF Inside, Nodes, Calls
  <2> QED
    BY <1>2, <2>1, <2>2 DEF InBounds, Bounded
<1>3. CASE Keeps(i)
  <2>1. planned' = planned /\ Bounded(planned', pc'[i], st'[i])
    BY <1>1, <1>3 DEF Keeps, plans, Bounded
  <2> QED
    BY <1>2, <2>1 DEF InBounds
<1>4. CASE pc[i] = "plan" /\ Emit(i)
  <2> DEFINE s == [st[i] EXCEPT !.plan = planned', !.slot = 0, !.verdict = "none"]
  <2>1. s.retry_count = st[i].retry_count
    BY <1>1 DEF AgentState
  <2>2. planned' = planned + 1 /\ Commit(i, s, "execute")
    BY <1>4 DEF Emit
  <2> HIDE DEF s
  <2>3. planned <= st[i].retry_count
    BY <1>1, <1>4 DEF Bounded, Unapproved
  <2>4. Bounded(planned', "execute", s)
    BY <1>1, <2>1, <2>2, <2>3 DEF Bounded, Unapproved
  <2>5. /\ pc'[i] = "execute" /\ st'[i] = s /\ thread'.next = "execute" /\ thread'.st = s
        /\ planned' <= MaxRetries + 1
    BY <1>1, <2>2, <2>3 DEF Commit, Stay, LocalType
  <2> QED
    BY <2>4, <2>5 DEF InBounds, Bounded
<1>5. ASSUME NEW next \in {"plan", "end"}, Commit(i, Replanned(st[i]), next), UNCHANGED plans
      PROVE  InBounds'
  <2>1. Replanned(st[i]).retry_count = st[i].retry_count + 1
    BY <1>1 DEF Replanned, AgentState
  <2>2. pc'[i] = next /\ st'[i] = Replanned(st[i]) /\ planned' = planned
    BY <1>1, <1>5 DEF Commit, Stay, LocalType, plans
  <2>3. Bounded(planned', pc'[i], st'[i])
    BY <1>1, <2>1, <2>2 DEF Bounded
  <2> QED
    BY <1>2, <2>2, <2>3 DEF InBounds
<1> QED
  BY <1>3, <1>4, <1>5, GraphKeeps

\* Every step keeps the plans within the retries.
LEMMA NextInBounds ==
  ASSUME OneAtATime PROVE IInv /\ OneBusy /\ InBounds /\ [Next]_vars => InBounds'
<1> SUFFICES ASSUME IInv, OneBusy, InBounds, [Next]_vars PROVE InBounds'
  OBVIOUS
<1>0. \A here \in Inside \union {"start"} : here \notin {"idle", "parked", "done", "end", "raised",
          "save", "status", "discard", "resume"}
  BY DEF Inside, Nodes, Calls
<1>1. ASSUME NEW i \in Invocations, Step(i) PROVE InBounds'
  <2>1. \A j \in Invocations \ {i} : pc'[j] \notin Inside \union {"start"}
    BY <1>0, <1>1, StepAlone DEF Busy
  <2>2. CASE GraphStep(i)
    BY <2>1, <2>2, GraphInBounds
  <2>3. CASE AroundStep(i)
    <3>1. planned' = planned /\ LocalType
      BY <2>3, AroundMoves DEF plans, IInv
    <3>2. ASSUME pc'[i] \in Inside \union {"start"} => Bounded(planned, pc'[i], st'[i]),
                 thread' \in {thread, Gone} \/ (thread'.next = pc'[i] /\ thread'.st = st'[i])
          PROVE  InBounds'
      <4>1. thread'.next \in Nodes => Bounded(planned, thread'.next, thread'.st)
        <5>1. CASE thread' \in {thread, Gone}
          BY <5>1, GoneNext DEF InBounds, Nodes
        <5>2. CASE thread'.next = pc'[i] /\ thread'.st = st'[i]
          BY <3>2, <5>2 DEF Inside
        <5> QED
          BY <3>2, <5>1, <5>2
      <4> QED
        BY <2>1, <3>1, <3>2, <4>1 DEF InBounds, Bounded
    <3>3. CASE StartRun /\ i = Runner
      <4>1. /\ pc[i] = "start" /\ pc'[i] = "intake" /\ st'[i] = st[i]
            /\ thread'.next = "intake" /\ thread'.st = st[i]
        BY <3>1, <3>3 DEF StartRun, Commit, Stay, LocalType
      <4> QED
        BY <3>2, <4>1 DEF InBounds, Bounded, Unapproved
    <3>4. CASE i \in Submitters /\ Resume(i)
      <4>1. CASE thread.next = "gone"
        BY <1>0, <3>1, <3>2, <3>4, <4>1 DEF Resume, Stay, LocalType
      <4>2. CASE thread.next # "gone"
        <5>1. pc'[i] = thread.next /\ st'[i] = thread.st /\ UNCHANGED thread
          BY <3>1, <3>4, <4>2 DEF Resume, Stay, LocalType
        <5>2. thread.next \in Nodes \union {"end"}
          BY <3>1, <4>2 DEF LocalType, Threads
        <5> QED
          BY <1>0, <3>2, <5>1, <5>2 DEF InBounds
      <4> QED
        BY <4>1, <4>2
    <3>5. CASE ~(StartRun /\ i = Runner) /\ ~(i \in Submitters /\ Resume(i))
      <4>1. pc'[i] \in {"parked", "save", "discard", "done", "status"} /\ thread' \in {thread, Gone}
        BY <2>3, <3>1, <3>5
           DEF AroundStep, Park, EndOfRun, Save, SaveFails, Discard, DiscardThread, Resumed,
               Record, Return, Stay,
               LocalType
      <4> QED
        BY <1>0, <3>2, <4>1
    <3> QED
      BY <3>3, <3>4, <3>5
  <2> QED
    BY <1>1, <2>2, <2>3, StepIs
<1>2. ASSUME NEW i \in Submitters, Submit(i) PROVE InBounds'
  <2>1. \A j \in Invocations : pc'[j] \notin Inside \union {"start"}
    BY <1>0, <1>2, SubmitAlone DEF Busy, Invocations
  <2> QED
    BY <1>2, <2>1 DEF Submit, InBounds, Bounded, plans
<1>3. CASE ClockStep \/ Crash
  <2>1. thread' \in {thread, Gone} /\ planned' = planned
    BY <1>3 DEF ClockStep, CacheExpiry, Expire, AutoReject, FreeThread, DiscardThread, Crash, plans
  <2>2. UNCHANGED <<pc, st>> \/ \A i \in Invocations : pc'[i] \in {"idle", "parked", "done"}
    BY <1>3 DEF ClockStep, CacheExpiry, Expire, AutoReject, FreeThread, DiscardThread, Crash,
         local, Busy
  <2>3. thread'.next \in Nodes => Bounded(planned', thread'.next, thread'.st)
    BY <2>1, GoneNext DEF InBounds, Nodes
  <2> QED
    BY <1>0, <2>1, <2>2, <2>3 DEF InBounds, Bounded
<1>4. CASE UNCHANGED vars
  BY <1>4 DEF vars, local, plans, InBounds, Bounded
<1> QED
  BY <1>1, <1>2, <1>3, <1>4, NextIs

(* decide_verdict: a run plans at most once more than it may retry, also over *)
(* pauses, replays and restarts, as long as decisions come one after the      *)
(* other.                                                                     *)
THEOREM FewReplans == ASSUME OneAtATime PROVE Spec => []ReplansBounded
<1>1. InBounds => ReplansBounded
  BY DEF InBounds, ReplansBounded
<1>2. IInv /\ OneBusy /\ InBounds /\ [Next]_vars => InBounds'
  BY NextInBounds
<1> QED
  BY <1>1, <1>2, InitInBounds, OneBusyKept, Invariance, PTL DEF Spec

-----------------------------------------------------------------------------
(* Where the checkpoint is, and whose token waits for it.                    *)

\* The next node of the checkpoint, by where the invocation at work is.
At(here, k, next) ==
    /\ here \in Inside => next = NodeAt(here, k)
    /\ here = "interrupted" => next \in {"execute", "guard"}
    /\ here = "raised" => next \in {"plan", "guard"}
    /\ here = "end" => next = "end"
InStep == \A i \in Invocations : thread.next = "gone" \/ At(pc[i], kind[i], thread.next)

\* Places the checkpoint does not depend on.
LEMMA AtAside ==
  ASSUME NEW here \in {"start", "idle", "resume", "parked", "save", "status", "discard", "done"},
         NEW k, NEW next
  PROVE  At(here, k, next)
  BY DEF At, Inside, Nodes, Calls

\* At the start there is no checkpoint.
LEMMA InitInStep == Init => InStep
  BY GoneNext DEF Init, InStep

\* The one at work moves.
LEMMA InStepMoves ==
  ASSUME NEW i \in Invocations, \A j \in Invocations \ {i} : ~Busy(j)',
         thread'.next = "gone" \/ At(pc'[i], kind'[i], thread'.next)
  PROVE  InStep'
  BY AtAside DEF InStep, Busy

\* A step of the graph leaves the checkpoint at the node of whoever takes it.
LEMMA GraphInStep ==
  ASSUME IInv, InStep, NEW i \in Invocations, GraphStep(i)
  PROVE  /\ thread'.next = "gone" \/ At(pc'[i], kind'[i], thread'.next)
         /\ pc'[i] \notin {"parked", "done", "idle"}
<1>1. /\ LocalType /\ pc[i] \in Inside
      /\ thread.next = "gone" \/ thread.next = NodeAt(pc[i], kind[i])
  BY GraphMoves DEF IInv, InStep, At
<1>2. CASE Returns(i)
  <2>1. PICK next \in Nodes \union {"end"} : pc'[i] = next /\ thread'.next = next
    BY <1>1, <1>2 DEF Returns, Commit, Stay, LocalType
  <2> QED
    BY <2>1 DEF At, NodeAt, Executing, Pausing, Inside, Nodes, Calls
<1>3. CASE GoesOn(i)
  <2>1. PICK here \in Inside : pc'[i] = here /\ NodeAt(here, kind'[i]) = NodeAt(pc[i], kind[i])
    BY <1>1, <1>3 DEF GoesOn, Stay, LocalType
  <2>2. here \notin {"interrupted", "raised", "end", "parked", "done", "idle"}
    BY DEF Inside, Nodes, Calls
  <2> QED
    BY <1>1, <1>3, <2>1, <2>2 DEF GoesOn, At
<1>4. CASE Ask(i) /\ Stops(i)
  <2>1. pc'[i] = "interrupted" /\ thread'.next = thread.next /\ pc[i] = "ask"
    BY <1>1, <1>4 DEF Ask, Stops, Interrupted, Stay, LocalType, Threads
  <2> QED
    BY <1>1, <2>1 DEF At, NodeAt, Executing, Pausing, Inside, Nodes, Calls
<1>5. CASE Raise(i)
  <2>1. pc'[i] = "raised" /\ thread' = thread /\ thread.next \in {"gone", "plan", "guard"}
    BY <1>1, <1>5 DEF Raise, PauseMayFail, Stay, LocalType, NodeAt, Executing, Pausing, Calls
  <2> QED
    BY <2>1 DEF At, Inside, Nodes, Calls
<1> QED
  BY <1>2, <1>3, <1>4, <1>5, GraphMoves

\* So does a step around the graph.
LEMMA AroundInStep ==
  ASSUME IInv, InStep, NEW i \in Invocations, AroundStep(i)
  PROVE  thread'.next = "gone" \/ At(pc'[i], kind'[i], thread'.next)
<1>1. LocalType
  BY DEF IInv
<1>2. CASE i = Runner /\ StartRun
  <2>1. pc'[i] = "intake" /\ thread'.next = "intake"
    BY <1>1, <1>2 DEF StartRun, Commit, Stay, LocalType
  <2> QED
    BY <2>1 DEF At, NodeAt, Executing, Pausing, Inside, Nodes, Calls
<1>3. CASE (i = Runner /\ (Park \/ EndOfRun)) \/ (i \in Submitters /\ (Resumed(i) \/ Record(i)))
  <2>1. pc'[i] \in {"parked", "save", "done", "discard"}
    BY <1>1, <1>3 DEF Park, Return, EndOfRun, Resumed, Record, Stay, LocalType
  <2> QED
    BY <2>1, AtAside
<1>4. CASE Save(i) \/ SaveFails(i) \/ Discard(i)
  <2>1. pc'[i] \in {"status", "discard", "done"}
    BY <1>1, <1>4 DEF Save, SaveFails, Discard, Return, Stay, LocalType
  <2> QED
    BY <2>1, AtAside
<1>5. CASE i \in Submitters /\ Resume(i)
  <2>1. CASE thread.next = "gone"
    BY <1>5, <2>1 DEF Resume
  <2>2. CASE thread.next # "gone"
    <3>1. pc'[i] = thread.next /\ thread' = thread /\ thread.next \in Nodes \union {"end"}
      BY <1>1, <1>5, <2>2 DEF Resume, Stay, LocalType, Threads
    <3> QED
      BY <3>1 DEF At, NodeAt, Executing, Pausing, Inside, Nodes, Calls
  <2> QED
    BY <2>1, <2>2
<1> QED
  BY <1>2, <1>3, <1>4, <1>5 DEF AroundStep

\* Every step keeps the checkpoint in step, unless it deletes it.
LEMMA NextInStep ==
  ASSUME OneAtATime PROVE IInv /\ OneBusy /\ InStep /\ [Next]_vars => InStep'
<1> SUFFICES ASSUME IInv, OneBusy, InStep, [Next]_vars PROVE InStep'
  OBVIOUS
<1>1. ASSUME NEW i \in Invocations, Step(i) PROVE InStep'
  BY <1>1, StepAlone, StepIs, GraphInStep, AroundInStep, InStepMoves
<1>2. ASSUME NEW i \in Submitters, Submit(i) PROVE InStep'
  BY <1>2, SubmitAlone, AtAside, InStepMoves DEF Invocations
<1>3. CASE ClockStep \/ UNCHANGED vars
  <2>1. UNCHANGED <<pc, kind>> /\ thread' \in {thread, Gone}
    BY <1>3 DEF ClockStep, CacheExpiry, Expire, AutoReject, FreeThread, DiscardThread, vars, local
  <2> QED
    BY <2>1, GoneNext DEF InStep
<1>4. CASE Crash
  BY <1>4, CrashIdle, AtAside DEF Idle, Busy, InStep
<1> QED
  BY <1>1, <1>2, <1>3, <1>4, NextIs

\* The checkpoint is in step throughout.
LEMMA InStepKept == ASSUME OneAtATime PROVE Spec => []InStep
<1>1. IInv /\ OneBusy /\ InStep /\ [Next]_vars => InStep'
  BY NextInStep
<1> QED
  BY <1>1, InitInStep, OneBusyKept, Invariance, PTL DEF Spec

\* Who is at work has a checkpoint, until its own step deletes it.
Present == \A i \in Invocations : Busy(i) /\ pc[i] # "start" => thread.next # "gone"

(* A run mints one token, if any.  While somebody is at work that has not     *)
(* recorded a decision, it is undecided, and it is the handler's own; and      *)
(* whoever leaves a checkpoint behind leaves its token undecided.              *)
Tok ==
    /\ expired \subseteq Minted /\ \A t, u \in Minted : t = u
    /\ \A i \in Invocations : Busy(i) =>
          /\ Undecided \intersect expired = {} /\ freeing = {}
          /\ pc[i] # "discard" => Minted = Undecided
    /\ \A i \in Submitters : Busy(i) /\ pc[i] # "discard" => tok[i] \in Undecided
    /\ pc[Runner] \in {"show", "ask", "interrupted"} => Undecided # {}
    /\ \A i \in Invocations : pc[i] = "mint" =>
          found[i] \in Undecided \/ (found[i] = 0 /\ Undecided = {})
    /\ freeing # {} => Undecided = {}
    /\ AllQuiet /\ thread.next # "gone" => Minted = Undecided /\ Undecided # {}

\* Where a paused or failed run rests, and is resumed.
Pauses == {"plan", "execute", "guard"}
Resting ==
    /\ Idle /\ thread.next # "gone" => thread.next \in Pauses
    /\ \A i \in Submitters : pc[i] = "resume" => thread.next \in Pauses

(* Unless deleting a checkpoint has failed, so the tokens are; and unless any *)
(* of the calls has that are made once a token is minted, so a run rests.     *)
Turn ==
    /\ "discard" \notin failures => Present /\ Tok
    /\ failures = {} => Resting

\* At the start there is no token.
LEMMA InitTurn == Init => Turn
<1> SUFFICES ASSUME Init PROVE Turn
  OBVIOUS
<1>1. Minted = {} /\ Undecided = {} /\ expired = {} /\ freeing = {} /\ thread.next = "gone"
  BY GoneNext DEF Init, Minted, Undecided
<1>2. /\ pc[Runner] = "start" /\ \A i \in Submitters : pc[i] = "idle"
      /\ \A i \in Invocations : pc[i] # "mint" /\ (Busy(i) => pc[i] = "start")
  BY ConstantsOK DEF Init, Invocations, Busy
<1>3. Present
  BY <1>2 DEF Present
<1>4. Tok
  BY <1>1, <1>2 DEF Tok, Busy
<1>5. Resting
  BY <1>1, <1>2 DEF Resting
<1> QED
  BY <1>3, <1>4, <1>5 DEF Turn

\* Who is at work, and the tokens.
LEMMA TokMoves ==
  ASSUME NEW i \in Invocations, \A j \in Invocations \ {i} : ~Busy(j)', pc'[i] # "idle",
         expired' \subseteq Minted', \A t, u \in Minted' : t = u, freeing' = {},
         pc'[i] \notin {"parked", "done"} => Undecided' \intersect expired' = {},
         pc'[i] \notin {"parked", "done", "discard"} => Minted' = Undecided',
         i \in Submitters /\ pc'[i] \notin {"done", "discard"} => tok'[i] \in Undecided',
         i = Runner /\ pc'[i] \in {"show", "ask", "interrupted"} => Undecided' # {},
         pc'[i] = "mint" => found'[i] \in Undecided' \/ (found'[i] = 0 /\ Undecided' = {}),
         pc'[i] \in {"parked", "done"} /\ thread'.next # "gone" =>
             Minted' = Undecided' /\ Undecided' # {}
  PROVE  Tok'
<1>1. Submitters \subseteq Invocations /\ Runner \in Invocations
  BY DEF Invocations
<1>2. \A j \in Invocations \ {i} : pc'[j] \in {"idle", "parked", "done"}
  BY DEF Busy
<1>3. \A j \in Invocations : Busy(j)' => j = i /\ pc'[i] \notin {"idle", "parked", "done"}
  BY DEF Busy
<1>4. AllQuiet' => pc'[i] \in {"parked", "done"}
  BY DEF AllQuiet, Busy
<1> QED
  BY <1>1, <1>2, <1>3, <1>4 DEF Tok

\* A step of the graph mints the run's token once, where it pauses first.
LEMMA GraphTok ==
  ASSUME IInv, OneBusy, Tok, RunnerAsks, NEW i \in Invocations, GraphStep(i) PROVE Tok'
<1>1. /\ \A j \in Invocations \ {i} : ~Busy(j)'
      /\ pc'[i] \notin {"idle", "parked", "done"} /\ Busy(i) /\ pc[i] # "discard" /\ LocalType
  <2>1. pc[i] \in Inside /\ pc'[i] \in Inside \union {"end", "interrupted", "raised"}
    BY GraphMoves, GraphLeads
  <2>2. Step(i)
    BY DEF Step, RunnerStep, SubmitterStep, Invocations
  <2> QED
    BY <2>1, <2>2, StepAlone DEF Busy, Inside, Nodes, Calls, IInv
<1>2. /\ Minted = Undecided /\ Undecided \intersect expired = {} /\ expired \subseteq Minted
      /\ freeing = {} /\ \A t, u \in Minted : t = u
  BY <1>1 DEF Tok
<1>3. i \in Submitters => tok[i] \in Undecided
  BY <1>1 DEF Tok
<1>4. UNCHANGED <<expired, tok, freeing>>
  BY GraphTokens
<1>5. CASE Mint(i)
  <2>1. PICK t \in Tokens : GetToken(i, t)
    BY <1>5 DEF Mint
  <2>2. pc'[i] = "show"
    BY <1>1, <1>5 DEF Mint, Work, Stay, LocalType
  <2>3. SharedType /\ (found[i] \in Undecided \/ (found[i] = 0 /\ Undecided = {}))
    BY <1>5 DEF IInv, Mint, Tok
  <2>4. 0 \notin Undecided
    BY DEF Undecided, Tokens
  <2>5. /\ Minted' = {t} /\ Undecided' = {t} /\ Undecided \subseteq {t}
    <3>1. CASE found[i] \in Undecided
      <4>1. found[i] = t /\ Minted' = Minted /\ Undecided' = Undecided
        BY <1>1, <2>1, <2>3, <2>4, <3>1, Minting
      <4>2. Minted = {t}
        BY <1>2, <3>1, <4>1
      <4> QED
        BY <1>2, <4>1, <4>2
    <3>2. CASE found[i] = 0 /\ Undecided = {}
      BY <1>1, <1>2, <2>1, <2>3, <3>2, Minting, Bounds DEF Tokens
    <3> QED
      BY <2>3, <3>1, <3>2
  <2> QED
    BY <1>1, <1>2, <1>3, <1>4, <2>2, <2>5, TokMoves
<1>6. CASE UNCHANGED approvals /\ ~Mint(i)
  <2>1. Undecided' = Undecided /\ Minted' = Minted
    BY <1>6 DEF Undecided, Minted
  <2>2. pc'[i] = "mint" => found'[i] \in Undecided \/ (found'[i] = 0 /\ Undecided = {})
    BY ToMint DEF Found
  <2>3. pc'[i] \in {"show", "ask", "interrupted"} => pc[i] \in {"show", "ask"}
    BY <1>6, PauseOrder
  <2>4. i = Runner /\ pc'[i] \in {"show", "ask", "interrupted"} => Undecided # {}
    BY <2>3 DEF Tok
  <2> QED
    BY <1>1, <1>2, <1>3, <1>4, <2>1, <2>2, <2>4, TokMoves
<1> QED
  BY <1>5, <1>6, GraphTokens

\* A step around the graph decides the token only after its checkpoint moved on, or is gone.
LEMMA AroundTok ==
  ASSUME IInv, OneBusy, InStep, Tok, "discard" \notin failures', NEW i \in Invocations, Step(i),
         AroundStep(i)
  PROVE  Tok'
<1>1. /\ \A j \in Invocations \ {i} : ~Busy(j)'
      /\ pc'[i] # "idle" /\ Busy(i)
  BY StepAlone
<1>2. /\ UNCHANGED <<expired, tok, freeing>> /\ LocalType /\ freeing = {}
      /\ pc'[i] \in Nodes \union {"end", "raised", "parked", "save", "status", "discard", "done"}
      /\ (i \in Submitters /\ Record(i)) \/ UNCHANGED approvals
  BY <1>1, AroundMoves DEF IInv, Tok
<1>3. pc'[i] \notin {"mint", "show", "ask", "interrupted"}
  BY <1>2 DEF Nodes
<1>4. CASE i \in Submitters /\ Record(i)
  <2>1. pc'[i] = "discard" /\ pc[i] = "status"
    BY <1>2, <1>4 DEF Record, Stay, LocalType
  <2>2. Minted' = Minted /\ Undecided' \subseteq Undecided
    BY <1>1, <1>4, <2>1, Settling DEF Tok
  <2> QED
    BY <1>1, <1>2, <2>1, <2>2, TokMoves DEF Tok
<1>5. CASE UNCHANGED approvals
  <2>1. Undecided' = Undecided /\ Minted' = Minted
    BY <1>5 DEF Undecided, Minted
  <2>2. CASE pc[i] # "discard"
    <3>1. Minted = Undecided
      BY <1>1, <2>2 DEF Tok
    <3>2. pc'[i] \in {"parked", "done"} => Undecided # {}
      <4>1. CASE i = Runner
        <5>1. pc'[i] \in {"parked", "done"} => pc[i] = "interrupted"
          BY <1>2, <2>2, <4>1, ConstantsOK
             DEF AroundStep, StartRun, Commit, Park, EndOfRun, Save, SaveFails, Discard, Return,
                 Stay, LocalType, Nodes
        <5> QED
          BY <4>1, <5>1 DEF Tok
      <4>2. CASE i \in Submitters
        BY <1>1, <2>2, <4>2 DEF Tok
      <4> QED
        BY <4>1, <4>2 DEF Invocations
    <3>3. i \in Submitters => tok[i] \in Undecided
      BY <1>1, <2>2 DEF Tok
    <3>4. /\ Undecided \intersect expired = {} /\ expired \subseteq Minted
          /\ \A t, u \in Minted : t = u
      BY <1>1 DEF Tok
    <3>5. /\ expired' \subseteq Minted' /\ \A t, u \in Minted' : t = u
          /\ Undecided' \intersect expired' = {} /\ Minted' = Undecided'
      BY <1>2, <2>1, <3>1, <3>4
    <3>6. /\ i \in Submitters => tok'[i] \in Undecided'
          /\ pc'[i] \in {"parked", "done"} => Undecided' # {}
      BY <1>2, <2>1, <3>2, <3>3
    <3> QED
      BY <1>1, <1>2, <1>3, <3>5, <3>6, TokMoves
  <2>3. CASE pc[i] = "discard"
    <3>1. Discard(i)
      BY <2>3
         DEF AroundStep, StartRun, Park, EndOfRun, Save, SaveFails, Resume, Resumed, Record,
             Inside, Nodes, Calls
    <3>2. pc'[i] = "done" /\ thread'.next = "gone"
      BY <1>2, <3>1, GoneNext DEF Discard, DiscardThread, Return, Stay, LocalType
    <3>3. expired' \subseteq Minted' /\ \A t, u \in Minted' : t = u
      BY <1>2, <2>1 DEF Tok
    <3> QED
      BY <1>1, <1>2, <1>3, <3>2, <3>3, TokMoves
  <2> QED
    BY <2>2, <2>3
<1> QED
  BY <1>2, <1>4, <1>5

\* The one at work keeps its checkpoint until it discards.
LEMMA StepPresent ==
  ASSUME IInv, OneBusy, Present, NEW i \in Invocations, Step(i) PROVE Present'
<1>1. /\ (\A j \in Invocations \ {i} : ~Busy(j)') /\ LocalType
      /\ pc[i] # "start" => thread.next # "gone"
  BY StepAlone DEF IInv, Present
<1>2. ASSUME thread'.next # "gone" \/ pc'[i] \in {"parked", "done"} PROVE Present'
  BY <1>1, <1>2 DEF Present, Busy
<1>3. CASE GraphStep(i)
  <2>1. pc[i] # "start"
    BY <1>3, GraphMoves DEF Inside, Nodes, Calls
  <2>2. thread'.next # "gone"
    BY <1>1, <1>3, <2>1, GraphThread DEF Nodes
  <2> QED
    BY <1>2, <2>2
<1>4. CASE i = Runner /\ StartRun
  <2>1. thread'.next = "intake"
    BY <1>4 DEF StartRun, Commit
  <2> QED
    BY <1>2, <2>1
<1>5. CASE (i = Runner /\ (Park \/ EndOfRun)) \/ Save(i) \/ SaveFails(i)
           \/ (i \in Submitters /\ (Resume(i) \/ Resumed(i) \/ Record(i)))
  <2>1. pc[i] # "start" /\ thread' = thread
    BY <1>5 DEF Park, EndOfRun, Save, SaveFails, Resume, Resumed, Record, Inside, Nodes, Calls
  <2> QED
    BY <1>1, <1>2, <2>1
<1>6. CASE Discard(i)
  <2>1. pc'[i] = "done"
    BY <1>1, <1>6 DEF Discard, Return, Stay, LocalType
  <2> QED
    BY <1>2, <2>1
<1> QED
  BY <1>3, <1>4, <1>5, <1>6, StepIs DEF AroundStep

\* A run rests where it paused or failed, unless its handler could not go on or delete.
LEMMA StepResting ==
  ASSUME IInv, OneBusy, InStep, Resting, failures' = {}, NEW i \in Invocations, Step(i)
  PROVE  Resting'
<1>1. (\A j \in Invocations \ {i} : ~Busy(j)') /\ pc'[i] # "idle" /\ LocalType
      /\ (thread.next = "gone" \/ At(pc[i], kind[i], thread.next))
  BY StepAlone DEF IInv, InStep
<1>2. pc'[i] # "resume"
  BY StepIs, GraphLeads, AroundMoves DEF Inside, Nodes, Calls
<1>3. ASSUME pc'[i] \in {"parked", "done"} => thread'.next \in Pauses \union {"gone"} PROVE Resting'
  BY <1>1, <1>2, <1>3 DEF Resting, Idle, Busy, Invocations
<1>4. CASE GraphStep(i)
  BY <1>3, <1>4, GraphInStep
<1>5. CASE i = Runner /\ Park
  BY <1>1, <1>3, <1>5 DEF Park, Return, Stay, LocalType, At, Pauses
<1>6. CASE (i = Runner /\ (StartRun \/ EndOfRun)) \/ Save(i)
           \/ (i \in Submitters /\ (Resume(i) \/ Record(i)))
  <2>1. pc'[i] \notin {"parked", "done"}
    BY <1>1, <1>6 DEF StartRun, Commit, EndOfRun, Save, Resume, Record, Stay, LocalType, Threads,
                      Nodes
  <2> QED
    BY <1>3, <2>1
<1>7. CASE SaveFails(i)
  <2>1. pc'[i] = "discard"
    BY <1>1, <1>7 DEF SaveFails, Stay, LocalType
  <2> QED
    BY <1>3, <2>1
<1>8. CASE Discard(i)
  BY <1>3, <1>8, GoneNext DEF Discard, DiscardThread
<1>9. CASE i \in Submitters /\ Resumed(i)
  BY <1>1, <1>3, <1>9 DEF Resumed, Return, Stay, LocalType, At, Pauses
<1> QED
  BY <1>4, <1>5, <1>6, <1>7, <1>8, <1>9, StepIs DEF AroundStep

\* A decision is submitted for the token that waits.
LEMMA SubmitTurn ==
  ASSUME OneAtATime, IInv, NEW i \in Submitters, Submit(i)
  PROVE  /\ Tok => Tok' /\ Present'
         /\ Resting => Resting'
<1>1. /\ Idle /\ AllQuiet /\ i \in Invocations /\ i # Runner /\ pc'[i] = "resume"
      /\ \A j \in Invocations \ {i} : ~Busy(j)'
  BY SubmitAlone DEF Submit, Invocations
<1>2. PICK t \in Tokens \ expired : approvals[t] # "unminted" /\ tok'[i] = t
  BY DEF Submit, IInv, SharedType
<1>3. thread.next # "gone" /\ UNCHANGED <<thread, approvals, expired, freeing>> /\ freeing = {}
  BY <1>1 DEF Submit, AllQuiet
<1>4. Minted' = Minted /\ Undecided' = Undecided
  BY <1>3 DEF Minted, Undecided
<1>5. ASSUME Tok PROVE Tok'
  <2>1. Minted = Undecided /\ t \in Minted /\ Minted = {t} /\ expired \subseteq Minted
    BY <1>1, <1>2, <1>3, <1>5 DEF Tok, Minted
  <2> QED
    BY <1>1, <1>2, <1>3, <1>4, <2>1, TokMoves, ConstantsOK
<1>6. Present'
  BY <1>3 DEF Present
<1>7. Resting => Resting'
  BY <1>1, <1>3 DEF Resting, Idle, Busy, Invocations
<1> QED
  BY <1>5, <1>6, <1>7

(* Time passes over a waiting token only when nobody is at work, and a token  *)
(* that has waited too long is freed before anybody decides again; a restart   *)
(* takes the checkpoint.                                                      *)
LEMMA OutsideTurn ==
  ASSUME OneAtATime, MaxCrashes = 0 \/ ~Durable, IInv, ClockStep \/ Crash,
         Tok, Present, "discard" \notin failures'
  PROVE  Tok' /\ Present' /\ (Resting => Resting')
<1>1. CASE CacheExpiry
  BY <1>1 DEF CacheExpiry, local, request, Present, Resting, Tok, AllQuiet, Idle, Busy, Minted,
              Undecided
<1>2. ASSUME NEW t \in Tokens, Expire(t) PROVE Tok' /\ Present' /\ (Resting => Resting')
  <2>1. /\ AllQuiet /\ UNCHANGED <<pc, kind, found, tok, freeing, thread, approvals>>
        /\ expired' = expired \union {t}
    BY <1>2 DEF Expire, local, request
  <2>2. t \in Minted /\ Minted' = Minted /\ Undecided' = Undecided
    BY <1>2, <2>1 DEF Expire, Minted, Undecided
  <2> QED
    BY <2>1, <2>2, ConstantsOK DEF Present, Resting, Tok, AllQuiet, Idle, Busy, Invocations
<1>3. ASSUME NEW t \in Tokens, AutoReject(t) PROVE Tok' /\ Present' /\ (Resting => Resting')
  <2>1. UNCHANGED <<pc, kind, found, tok, expired, thread>> /\ freeing' # {}
    BY <1>3 DEF AutoReject, local
  <2>2. t \in Undecided /\ t \in expired
    BY <1>3 DEF AutoReject, Undecided
  <2>3. /\ Idle /\ Minted' = Minted /\ Undecided' = Undecided \ {t}
        /\ \A u, v \in Minted : u = v
    BY <1>3, <2>2, Rejecting DEF Idle, Tok
  <2>4. Undecided' = {} /\ Undecided \subseteq Minted
    BY <2>2, <2>3 DEF Undecided, Minted
  <2>5. Tok'
    BY <2>1, <2>3, <2>4, ConstantsOK DEF Tok, AllQuiet, Idle, Busy, Invocations
  <2> QED
    BY <2>1, <2>5 DEF Present, Resting, Idle, Busy
<1>4. ASSUME NEW t \in Tokens, FreeThread(t) PROVE Tok' /\ Present' /\ (Resting => Resting')
  <2>1. /\ UNCHANGED <<pc, kind, found, tok, expired, approvals>> /\ freeing # {}
        /\ freeing' \subseteq freeing /\ thread'.next = "gone"
    BY <1>4, GoneNext DEF FreeThread, DiscardThread, local
  <2>2. Minted' = Minted /\ Undecided' = Undecided
    BY <2>1 DEF Minted, Undecided
  <2>3. Idle
    BY <2>1 DEF Tok, Idle
  <2> QED
    BY <2>1, <2>2, <2>3, ConstantsOK
       DEF Tok, Present, Resting, AllQuiet, Idle, Busy, Invocations
<1>5. CASE Crash
  <2>1. thread'.next = "gone"
    BY <1>5, GoneNext DEF Crash, IInv, SharedType
  <2>2. Idle' /\ UNCHANGED <<approvals, expired, tok>> /\ freeing' = {}
    BY <1>5, CrashIdle DEF Crash
  <2>3. Minted' = Minted /\ Undecided' = Undecided
    BY <2>2 DEF Minted, Undecided
  <2> QED
    BY <2>1, <2>2, <2>3, ConstantsOK
       DEF Present, Resting, Tok, AllQuiet, Idle, Busy, Invocations
<1> QED
  BY <1>1, <1>2, <1>3, <1>4, <1>5 DEF ClockStep

\* Every step keeps the token's turn.
LEMMA NextTurn ==
  ASSUME OneAtATime, MaxCrashes = 0 \/ ~Durable
  PROVE  IInv /\ OneBusy /\ RunnerAsks /\ InStep /\ Turn /\ [Next]_vars => Turn'
<1> SUFFICES ASSUME IInv, OneBusy, RunnerAsks, InStep, Turn, [Next]_vars,
                    "discard" \notin failures'
             PROVE  Tok' /\ Present' /\ (failures' = {} => Resting')
  BY DEF Turn
<1>0. Tok /\ Present /\ (failures' = {} => Resting)
  BY FailuresStay DEF Turn
<1>1. ASSUME NEW i \in Invocations, Step(i) PROVE Tok' /\ Present' /\ (failures' = {} => Resting')
  <2>1. Tok'
    BY <1>0, <1>1, GraphTok, AroundTok, StepIs
  <2>2. Present'
    BY <1>0, <1>1, StepPresent
  <2>3. failures' = {} => Resting'
    BY <1>0, <1>1, StepResting
  <2> QED
    BY <2>1, <2>2, <2>3
<1>2. ASSUME NEW i \in Submitters, Submit(i) PROVE Tok' /\ Present' /\ (failures' = {} => Resting')
  BY <1>0, <1>2, SubmitTurn
<1>3. CASE ClockStep \/ Crash
  BY <1>0, <1>3, OutsideTurn
<1>4. CASE UNCHANGED vars
  BY <1>0, <1>4 DEF vars, local, request, ghosts, Present, Resting, Tok, AllQuiet, Idle, Busy,
                    Minted, Undecided
<1> QED
  BY <1>1, <1>2, <1>3, <1>4, NextIs

\* The token has its turn throughout.
LEMMA TurnKept ==
  ASSUME OneAtATime, MaxCrashes = 0 \/ ~Durable PROVE Spec => []Turn
<1>1. IInv /\ OneBusy /\ RunnerAsks /\ InStep /\ Turn /\ [Next]_vars => Turn'
  BY NextTurn
<1>2. Spec => []RunnerAsks
  BY InitAsks, NextAsks, Invariance, PTL DEF Spec
<1> QED
  BY <1>1, <1>2, InitTurn, InStepKept, OneBusyKept, Invariance, PTL DEF Spec

(* When nothing runs and nobody is to decide, no checkpoint is left behind,   *)
(* unless deleting one has failed: not after timeouts, failed saves and       *)
(* pauses, a token rejected by GET /v1/approvals, nor, with the checkpointer  *)
(* in memory, after a restart; as long as decisions come one after the other. *)
THEOREM NoThreadLeftBehind ==
  ASSUME OneAtATime, MaxCrashes = 0 \/ ~Durable PROVE Spec => []NoThreadLeft
<1>1. Turn => NoThreadLeft
  BY DEF Turn, Tok, NoThreadLeft
<1> QED
  BY <1>1, TurnKept, PTL

-----------------------------------------------------------------------------
(* A token that waits can be resumed.                                        *)

\* Whoever discards has decided the token, or never minted one.
Resumable ==
    failures = {} =>
        /\ Idle /\ Undecided \ expired # {} => thread.next # "gone"
        /\ \A i \in Invocations : pc[i] = "discard" => Undecided = {}

\* At the start nothing waits.
LEMMA InitResumable == Init => Resumable
<1> SUFFICES ASSUME Init PROVE Resumable
  OBVIOUS
<1>1. Undecided = {}
  BY DEF Init, Undecided
<1> QED
  BY <1>1 DEF Resumable

\* A step leaves what waits resumable, unless it is a timeout at a pause.
LEMMA StepResumable ==
  ASSUME ~Timeouts, IInv, OneBusy, Tok, Present, FirstPause, Resumable, failures' = {},
         failures = {}, NEW i \in Invocations, Step(i)
  PROVE  Resumable'
<1>1. LocalType /\ Busy(i) /\ Undecided \subseteq Minted
  BY StepAlone DEF IInv, Undecided, Minted
<1>2. \A j \in Invocations \ {i} : pc'[j] # "discard"
  BY StepAlone DEF Busy
<1>3. ASSUME pc'[i] \notin {"parked", "done", "discard"} PROVE Resumable'
  <2>1. pc'[i] # "idle"
    BY StepAlone
  <2> QED
    BY <1>2, <1>3, <2>1 DEF Resumable, Idle, Busy
<1>4. ASSUME Undecided' = {} PROVE Resumable'
  BY <1>4 DEF Resumable
<1>5. CASE GraphStep(i)
  <2>1. pc'[i] \notin {"parked", "done", "discard"}
    BY <1>5, GraphLeads DEF Inside, Nodes, Calls
  <2> QED
    BY <1>3, <2>1
<1>6. ASSUME pc[i] # "start", thread' = thread, pc'[i] # "discard" PROVE Resumable'
  BY <1>1, <1>2, <1>6 DEF Present, Resumable
<1>7. CASE i = Runner /\ (StartRun \/ EndOfRun)
  <2>1. pc'[i] \in {"intake", "save"}
    BY <1>1, <1>7 DEF StartRun, Commit, EndOfRun, Stay, LocalType
  <2> QED
    BY <1>3, <2>1
<1>8. CASE i = Runner /\ (Save(i) \/ SaveFails(i) \/ Discard(i))
  <2>1. pc[Runner] \in {"save", "discard"} /\ approvals' = approvals
    BY <1>8 DEF Save, SaveFails, Discard
  <2>2. Fresh
    BY <1>1, <1>8 DEF OneBusy
  <2>3. Minted = {}
    BY <2>1, <2>2 DEF FirstPause, Untouched
  <2> QED
    BY <1>1, <1>4, <2>1, <2>3 DEF Undecided
<1>9. CASE i \in Submitters /\ Discard(i)
  <2>1. Undecided = {} /\ approvals' = approvals
    BY <1>9 DEF Discard, Resumable
  <2> QED
    BY <1>4, <2>1 DEF Undecided
<1>10. CASE i \in Submitters /\ Record(i)
  <2>1. tok[i] \in Undecided
    BY <1>10, <1>1 DEF Record, Tok
  <2>2. Undecided = {tok[i]}
    BY <1>1, <2>1 DEF Tok
  <2> QED
    BY <1>4, <1>10, <2>2, Settling
<1>11. CASE (i = Runner /\ Park) \/ (i \in Submitters /\ (Resume(i) \/ Resumed(i) \/ Save(i)))
  <2>1. pc[i] # "start" /\ thread' = thread /\ pc'[i] # "discard"
    BY <1>1, <1>11, ConstantsOK
       DEF Park, Return, Resume, Resumed, Save, Stay, LocalType, Threads, Nodes
  <2> QED
    BY <1>6, <2>1
<1>12. CASE i \in Submitters /\ SaveFails(i)
  <2>1. "handler" \in failures'
    BY <1>12, ConstantsOK DEF SaveFails
  <2> QED
    BY <2>1
<1> QED
  BY <1>5, <1>7, <1>8, <1>9, <1>10, <1>11, <1>12, StepIs DEF AroundStep, Invocations

\* Every step leaves what waits resumable, where nothing times out or restarts.
LEMMA NextResumable ==
  ASSUME OneAtATime, ~Timeouts, MaxCrashes = 0
  PROVE  IInv /\ OneBusy /\ Turn /\ FirstPause /\ Resumable /\ [Next]_vars => Resumable'
<1> SUFFICES ASSUME IInv, OneBusy, Turn, FirstPause, Resumable, [Next]_vars, failures' = {}
             PROVE  Resumable'
  BY DEF Resumable
<1>0. Tok /\ Present /\ failures = {}
  BY FailuresStay DEF Turn
<1>1. ASSUME NEW i \in Invocations, Step(i) PROVE Resumable'
  BY <1>0, <1>1, StepResumable
<1>2. ASSUME NEW i \in Submitters, Submit(i) PROVE Resumable'
  <2>1. \A j \in Invocations : pc'[j] # "discard"
    BY <1>2, SubmitAlone DEF Busy, Invocations
  <2>2. ~Idle'
    BY <1>2, SubmitAlone DEF Idle, Busy, Invocations
  <2> QED
    BY <2>1, <2>2 DEF Resumable
<1>3. CASE CacheExpiry \/ \E t \in Tokens : Expire(t)
  BY <1>0, <1>3 DEF CacheExpiry, Expire, local, Resumable, Idle, Busy, Undecided
<1>4. ASSUME NEW t \in Tokens, AutoReject(t) \/ FreeThread(t) PROVE Resumable'
  <2>1. Undecided' = {}
    <3>1. CASE AutoReject(t)
      <4>1. t \in Undecided /\ Undecided \subseteq Minted
        BY <3>1 DEF AutoReject, Undecided, Minted
      <4> QED
        BY <1>0, <3>1, <4>1, Rejecting DEF Tok
    <3>2. CASE FreeThread(t)
      BY <1>0, <3>2 DEF FreeThread, Tok, Undecided
    <3> QED
      BY <1>4, <3>1, <3>2
  <2> QED
    BY <2>1 DEF Resumable
<1>5. CASE Crash
  BY <1>5 DEF Crash, IInv, SharedType
<1>6. CASE UNCHANGED vars
  BY <1>0, <1>6 DEF vars, local, Resumable, Idle, Busy, Undecided
<1> QED
  BY <1>1, <1>2, <1>3, <1>4, <1>5, <1>6, NextIs DEF ClockStep

(* When nothing runs, an approval that is undecided and has not expired can   *)
(* be resumed: its checkpoint is there, at a node.  This is for a run that    *)
(* neither times out nor is restarted, with decisions one after the other,    *)
(* and while no call after create_approval has failed.                        *)
THEOREM PendingCanBeResumed ==
  ASSUME OneAtATime, ~Timeouts, MaxCrashes = 0 PROVE Spec => []PendingIsResumable
<1>1. Turn /\ Resumable => PendingIsResumable
  BY DEF Turn, Resting, Pauses, Resumable, Idle, AllQuiet, PendingIsResumable, Nodes
<1>2. IInv /\ OneBusy /\ Turn /\ FirstPause /\ Resumable /\ [Next]_vars => Resumable'
  BY NextResumable
<1>3. Spec => []Turn
  BY TurnKept
<1>4. Spec => []FirstPause
  BY FirstPauseHolds
<1> QED
  BY <1>1, <1>2, <1>3, <1>4, InitResumable, OneBusyKept, Invariance, PTL DEF Spec

-----------------------------------------------------------------------------
(* What is on show is what is asked.                                         *)

\* interrupt() takes the resume value or leaves it, and only an answered pause approves.
LEMMA GraphTakes ==
  ASSUME IInv, NEW i \in Invocations, GraphStep(i)
  PROVE  resume'[i] \in {resume[i], "none"} /\ (Ask(i) \/ UNCHANGED <<approvedFor, blind>>)
<1>0. LocalType
  BY DEF IInv
<1>1. CASE Stage(i, "intake", "retrieve") \/ Stage(i, "retrieve", "plan") \/ Plan(i)
  BY <1>0, <1>1 DEF Stage, Plan, Emit, Fail, Commit, ghosts, LocalType
<1>2. CASE Execute(i) \/ FinishTools(i) \/ Guard(i)
  BY <1>0, <1>2 DEF Execute, FinishTools, Guard, Pause, Work, Commit, ghosts, LocalType
<1>3. CASE CallTool(i) \/ CacheResult(i) \/ ExecuteFails(i) \/ Raise(i)
  BY <1>0, <1>3 DEF CallTool, CacheResult, Work, ExecuteFails, Fail, Commit, Raise, ghosts,
      LocalType
<1>4. CASE Compose(i) \/ Score(i) \/ Respond(i) \/ Mint(i) \/ Show(i)
  BY <1>0, <1>4 DEF Compose, Score, Respond, Mint, Show, Work, Fail, Commit, ghosts, LocalType
<1>5. CASE Ask(i)
  <2>1. \/ Interrupted(i)
        \/ \E s : Commit(i, s, "end")
        \/ \E s, here : Proceed(i, s, here)
    BY <1>5 DEF Ask, Reject, Approve, Rebook, Release
  <2> QED
    BY <1>0, <1>5, <2>1 DEF Interrupted, Commit, Proceed, LocalType
<1> QED
  BY <1>1, <1>2, <1>3, <1>4, <1>5 DEF GraphStep

\* What a step of the graph streams, and what it saves.
Streams(i) ==
    /\ \A j \in Invocations \ {i} : st'[j] = st[j] /\ held'[j] = held[j]
    /\ held'[i] = held[i] \/ held'[i] = st'[i]
Saves(i) == row' = row \/ row'.plan = st[i].plan

\* A step of the graph streams what it commits and saves the plan it works on.
LEMMA GraphSaves ==
  ASSUME IInv, NEW i \in Invocations, GraphStep(i)
  PROVE  Streams(i) /\ Saves(i)
<1>0. LocalType /\ st[i] \in AgentState /\ Same(st[i], st[i])
  BY DEF IInv, LocalType, Same
<1>1. ASSUME NEW s, NEW next, Commit(i, s, next) PROVE Streams(i)
  BY <1>0, <1>1 DEF Commit, LocalType, Streams
<1>2. ASSUME NEW s, NEW here, Work(i, s, here) PROVE Streams(i)
  BY <1>0, <1>2 DEF Work, LocalType, Streams
<1>3. ASSUME NEW k, NEW s \in AgentState, NEW card, Pause(i, k, s, card), s.plan = st[i].plan
      PROVE  Streams(i) /\ Saves(i)
  <2>1. PICK d : row' = [s EXCEPT !.requires_approval = TRUE, !.draft = d] /\ Work(i, row', "mint")
    BY <1>3 DEF Pause
  <2>2. row'.plan = s.plan
    BY <2>1, SameStates DEF Same
  <2> QED
    BY <1>2, <1>3, <2>1, <2>2 DEF Saves
<1>4. \A d : [st[i] EXCEPT !.draft = d].plan = st[i].plan
  BY <1>0, SameStates DEF Same
<1>5. CASE Stage(i, "intake", "retrieve") \/ Stage(i, "retrieve", "plan") \/ Plan(i) \/ Score(i)
           \/ ExecuteFails(i)
  BY <1>1, <1>5 DEF Stage, Plan, Emit, Fail, Score, ExecuteFails, Saves
<1>6. CASE Execute(i)
  <2>1. CASE Pause(i, "plan", st[i], "card")
    BY <1>0, <1>3, <2>1
  <2>2. CASE Work(i, st[i], "tools") /\ row' = st[i]
    BY <1>2, <2>2 DEF Saves
  <2> QED
    BY <1>6, <2>1, <2>2 DEF Execute
<1>7. CASE Mint(i) \/ Show(i)
  BY <1>2, <1>7 DEF Mint, Show, Saves
<1>13. CASE Ask(i)
  <2>1. ASSUME NEW r, NEW here, Proceed(i, r, here) PROVE Streams(i)
    BY <1>0, <2>1 DEF Proceed, LocalType, Streams
  <2>2. CASE Interrupted(i)
    BY <1>0, <2>2 DEF Interrupted, LocalType, Streams, Saves
  <2>3. CASE Reject(i, st[i])
    BY <1>0, <1>1, <2>3, SameAnswers DEF Reject, Saves, Same
  <2>4. CASE Approve(i, st[i])
    BY <1>0, <2>1, <2>4, SameAnswers DEF Approve, Saves, Same
  <2>5. CASE Rebook(i, st[i]) \/ Release(i, st[i])
    BY <2>1, <2>5 DEF Rebook, Release, Saves
  <2> QED
    BY <1>13, <2>2, <2>3, <2>4, <2>5 DEF Ask
<1>8. CASE CallTool(i) \/ CacheResult(i)
  <2>1. PICK s, here : Work(i, s, here)
    BY <1>8 DEF CallTool, CacheResult
  <2>2. row' = row
    BY <1>8 DEF CallTool, CacheResult
  <2> QED
    BY <1>2, <2>1, <2>2 DEF Saves
<1>9. CASE FinishTools(i)
  <2>1. CASE Pause(i, "clash", st[i], "clash_card")
    BY <1>0, <1>3, <2>1
  <2>2. ASSUME NEW s, Commit(i, s, "compose"),
               row' = row \/ (row' = s /\ \E d : s = [st[i] EXCEPT !.draft = d])
        PROVE  Streams(i) /\ Saves(i)
    BY <1>1, <1>4, <2>2 DEF Saves
  <2> QED
    BY <1>9, <2>1, <2>2 DEF FinishTools
<1>10. CASE Compose(i) \/ Respond(i)
  BY <1>1, <1>4, <1>10 DEF Compose, Respond, Fail, Saves
<1>11. CASE Guard(i)
  <2>1. ASSUME NEW d \in {st[i].draft} \union Composed(st[i]), NEW s,
               s = [st[i] EXCEPT !.draft = d], Pause(i, "output", s, "none")
        PROVE  Streams(i) /\ Saves(i)
    <3>1. s \in AgentState
      BY <1>0, <2>1, DraftOf, DraftType
    <3> QED
      BY <1>3, <1>4, <2>1, <3>1
  <2> QED
    BY <1>1, <1>2, <1>11, <2>1 DEF Guard, Saves
<1>12. CASE Raise(i)
  BY <1>12 DEF Raise, Streams, Saves
<1> QED
  BY <1>5, <1>6, <1>7, <1>8, <1>9, <1>10, <1>11, <1>12, <1>13 DEF GraphStep

(* Nobody decides before the runner has minted a token, and before it is past *)
(* the lookup of its first pause, it has not.                                 *)
Asking ==
    /\ Minted = {} => Fresh
    /\ pc[Runner] \in {"start"} \union (Inside \ {"show", "ask"}) => Minted = {}

(* A run that timed out, failed or died without a token: its checkpoint may   *)
(* be left behind, but nobody can resume it.                                  *)
Lost == Minted = {} /\ pc[Runner] \in {"save", "discard", "done"}

\* At the start there is no token.
LEMMA InitAsking == Init => Asking
  BY ConstantsOK DEF Init, Asking, Minted, Fresh, Invocations

\* A token once minted is there for good.
LEMMA MintedStays ==
  ASSUME IInv, [Next]_vars
  PROVE  /\ Minted # {} => Minted' # {}
         /\ UNCHANGED approvals => Minted' = Minted
<1>1. approvals \in [Tokens -> {"unminted", "pending", "approve", "edit", "rejected"}]
  BY DEF IInv, SharedType
<1>2. UNCHANGED approvals => Minted' = Minted
  BY DEF Minted
<1>3. ASSUME NEW i \in Invocations, Mint(i), Minted # {} PROVE Minted' # {}
  <2>1. PICK t \in Tokens : GetToken(i, t)
    BY <1>3 DEF Mint
  <2> QED
    BY <1>3, <2>1, Minting DEF IInv
<1>4. ASSUME NEW i \in Submitters, Record(i), Minted # {} PROVE Minted' # {}
  <2>1. tok[i] \in 0..MaxTokens /\ dec[i] \in Decisions \union {"none"}
    BY DEF IInv, SharedType
  <2>2. PICK u \in Tokens : approvals[u] # "unminted"
    BY <1>4 DEF Minted
  <2>3. dec[i] # "unminted"
    BY <2>1 DEF Decisions
  <2>4. approvals'[u] # "unminted"
    BY <1>1, <1>4, <2>2, <2>3 DEF Record
  <2> QED
    BY <2>4 DEF Minted
<1>5. ASSUME NEW t \in Tokens, AutoReject(t) PROVE Minted' # {}
  <2>1. approvals'[t] = "rejected"
    BY <1>1, <1>5 DEF AutoReject
  <2> QED
    BY <2>1 DEF Minted
<1>6. ASSUME NEW i \in Invocations, Step(i), Minted # {} PROVE Minted' # {}
  BY <1>2, <1>3, <1>4, <1>6, StepIs, GraphTokens, AroundMoves
<1>7. ASSUME NEW i \in Submitters, Submit(i) PROVE UNCHANGED approvals
  BY <1>7 DEF Submit
<1>8. CASE ClockStep /\ Minted # {}
  BY <1>2, <1>5, <1>8 DEF ClockStep, CacheExpiry, Expire, FreeThread
<1>9. Crash \/ UNCHANGED vars => UNCHANGED approvals
  BY DEF Crash, vars
<1> QED
  BY <1>2, <1>6, <1>7, <1>8, <1>9, NextIs

\* The runner asks before anybody decides.
LEMMA NextAsking == IInv /\ RunnerAsks /\ Asking /\ [Next]_vars => Asking'
<1> SUFFICES ASSUME IInv, RunnerAsks, Asking, [Next]_vars PROVE Asking'
  OBVIOUS
<1>0. LocalType /\ Runner \in Invocations
  BY DEF IInv, Invocations
<1>1. ASSUME UNCHANGED approvals, Fresh => Fresh',
             \/ pc'[Runner] = pc[Runner]
             \/ pc'[Runner] \notin {"start"} \union (Inside \ {"show", "ask"})
             \/ Minted = {}
      PROVE  Asking'
  BY <1>1, MintedStays DEF Asking
<1>2. ASSUME NEW i \in Submitters, Step(i) PROVE Asking'
  <2>1. i \in Invocations /\ i # Runner
    BY ConstantsOK DEF Invocations
  <2>2. pc[i] # "idle" /\ pc'[Runner] = pc[Runner]
    BY <1>2, <2>1, <1>0, StepMoves DEF Busy
  <2>3. Minted # {}
    BY <2>2 DEF Asking, Fresh
  <2> QED
    BY <2>2, <2>3, MintedStays DEF Asking
<1>3. CASE Step(Runner)
  <2>1. Fresh => Fresh'
    BY <1>0, <1>3, StepMoves, ConstantsOK DEF Fresh, Invocations
  <2>2. CASE Mint(Runner)
    <3>1. pc'[Runner] = "show" /\ pc[Runner] = "mint"
      BY <1>0, <2>2 DEF Mint, Work, Stay, LocalType
    <3>2. Minted = {}
      BY <3>1 DEF Asking, Inside
    <3> QED
      BY <2>1, <3>1, <3>2 DEF Asking
  <2>3. CASE GraphStep(Runner) /\ ~Mint(Runner) /\ pc[Runner] \in {"show", "ask"}
    <3>1. \/ Show(Runner) \/ (Ask(Runner) /\ Interrupted(Runner))
          \/ ExecuteFails(Runner) \/ Raise(Runner)
      BY <1>0, <2>3, NoAnswerYet
         DEF GraphStep, Stage, Plan, Execute, CallTool, CacheResult, FinishTools, Ask,
             Compose, Guard, Score, Respond, Calls
    <3>2. pc'[Runner] \in {"ask", "interrupted", "end", "raised"}
      BY <1>0, <3>1
         DEF Show, Work, Interrupted, ExecuteFails, Fail, Commit, Raise, Stay, LocalType
    <3> QED
      BY <1>0, <1>1, <2>1, <2>3, <3>2, GraphTokens DEF Inside, Nodes, Calls
  <2>4. CASE GraphStep(Runner) /\ ~Mint(Runner) /\ pc[Runner] \notin {"show", "ask"}
    <3>1. Minted = {}
      BY <1>0, <2>4, GraphMoves DEF Asking
    <3> QED
      BY <1>0, <1>1, <2>1, <2>4, <3>1, GraphTokens
  <2>5. CASE AroundStep(Runner)
    <3>1. Runner \notin Submitters
      BY ConstantsOK
    <3>2. UNCHANGED approvals
      BY <1>0, <2>5, <3>1, AroundMoves
    <3>3. CASE StartRun
      BY <1>1, <2>1, <3>2, <3>3 DEF StartRun, Asking
    <3>4. CASE ~StartRun
      <4>1. pc'[Runner] \in {"parked", "save", "discard", "done"}
        BY <1>0, <2>5, <3>1, <3>4
           DEF AroundStep, Park, EndOfRun, Save, SaveFails, Discard, Return, Stay, LocalType
      <4> QED
        BY <1>1, <2>1, <3>2, <4>1 DEF Inside, Nodes, Calls
    <3> QED
      BY <3>3, <3>4
  <2> QED
    BY <1>3, <2>2, <2>3, <2>4, <2>5, StepIs
<1>4. ASSUME NEW i \in Submitters, Submit(i) PROVE Asking'
  <2>1. Minted # {} /\ UNCHANGED approvals
    BY <1>4 DEF Submit, Minted
  <2>2. pc'[Runner] = pc[Runner]
    BY <1>0, <1>4, ConstantsOK DEF Submit, Stay, LocalType
  <2> QED
    BY <2>1, <2>2, MintedStays DEF Asking
<1>5. CASE ClockStep
  <2>1. pc' = pc
    BY <1>5 DEF ClockStep, CacheExpiry, Expire, AutoReject, FreeThread, local
  <2>2. CASE UNCHANGED approvals
    BY <2>1, <2>2, <1>1 DEF Fresh
  <2>3. CASE \E t \in Tokens : AutoReject(t)
    <3>1. Minted # {}
      BY <2>3 DEF AutoReject, Minted
    <3> QED
      BY <2>1, <3>1, MintedStays DEF Asking
  <2> QED
    BY <1>5, <2>2, <2>3 DEF ClockStep, CacheExpiry, Expire, FreeThread
<1>6. CASE Crash
  <2>1. UNCHANGED approvals /\ (Fresh => Fresh')
    BY <1>6 DEF Crash, Fresh, Busy, Invocations
  <2>2. pc'[Runner] = "done" \/ pc'[Runner] = pc[Runner]
    BY <1>0, <1>6, CrashIdle
  <2> QED
    BY <1>1, <2>1, <2>2 DEF Inside, Nodes, Calls
<1>7. CASE UNCHANGED vars
  BY <1>1, <1>7 DEF vars, local, Fresh
<1> QED
  BY <1>2, <1>3, <1>4, <1>5, <1>6, <1>7, NextIs DEF Invocations

\* It stays so.
LEMMA AskingKept == Spec => []Asking
<1>1. Spec => []RunnerAsks
  BY InitAsks, NextAsks, Invariance, PTL DEF Spec
<1> QED
  BY <1>1, NextAsking, InitAsking, Invariance, PTL DEF Spec

\* A lost run stays lost: nobody approves, calls or refuses anything any more.
LEMMA LostStays ==
  ASSUME IInv, Asking, Lost, [Next]_vars
  PROVE  Lost' /\ UNCHANGED <<blind, repeated>>
<1>0. LocalType /\ Runner \in Invocations /\ Fresh
  BY DEF IInv, Invocations, Asking, Lost
<1>1. ASSUME NEW i \in Invocations, Step(i) PROVE Lost' /\ UNCHANGED <<blind, repeated>>
  <2>1. i = Runner /\ pc[Runner] \in {"save", "discard"}
    BY <1>0, <1>1, StepMoves DEF Fresh, Busy, Invocations, Lost
  <2>2. AroundStep(Runner)
    BY <1>1, <2>1, StepIs, GraphMoves DEF Inside, Nodes, Calls
  <2>3. UNCHANGED <<blind, repeated, approvals>>
    BY <1>0, <2>2, AroundMoves, ConstantsOK
  <2>4. pc'[Runner] \in {"discard", "done"}
    BY <1>0, <2>1, <2>2, ConstantsOK
       DEF AroundStep, StartRun, Park, EndOfRun, Save, SaveFails, Discard, Return, Stay,
           LocalType, Inside, Nodes, Calls
  <2> QED
    BY <2>3, <2>4, MintedStays DEF Lost
<1>2. ASSUME NEW i \in Submitters, Submit(i) PROVE FALSE
  BY <1>2 DEF Submit, Lost, Minted
<1>3. CASE ClockStep
  <2>1. ASSUME NEW t \in Tokens PROVE approvals[t] # "pending"
    BY DEF Lost, Minted
  <2> QED
    BY <1>3, <2>1, MintedStays
       DEF ClockStep, CacheExpiry, Expire, AutoReject, FreeThread, local, tools, ghosts, Lost
<1>4. CASE Crash
  <2>1. UNCHANGED <<blind, repeated, approvals>>
    BY <1>4 DEF Crash, tools, ghosts
  <2> QED
    BY <1>0, <1>4, <2>1, CrashIdle, MintedStays DEF Lost
<1>5. CASE UNCHANGED vars
  BY <1>5 DEF vars, local, tools, ghosts, Lost, Minted
<1> QED
  BY <1>1, <1>2, <1>3, <1>4, <1>5, NextIs

(* Of invocation i: the row shows the plan of its pause; while it executes,   *)
(* and when it stops at its plan, the checkpoint has its plan, as the state   *)
(* it was streamed; and a decision it has not taken yet was submitted on it.  *)
ShowsAt(i) ==
    /\ pc[i] \in Pausing => row.plan = st[i].plan
    /\ thread.next = "execute" =>
          /\ Executing(pc[i], kind[i]) =>
                st[i].plan = thread.st.plan /\ held[i].plan = thread.st.plan
          /\ pc[i] \in {"interrupted", "save", "status", "discard"} =>
                row.plan = thread.st.plan /\ held[i].plan = thread.st.plan
          /\ i # Runner /\ pc[i] = "resume" => seen[i] = thread.st.plan
    /\ i # Runner /\ Executing(pc[i], kind[i]) /\ resume[i] # "none" => seen[i] = st[i].plan

\* While a run waits at its plan, its row shows the plan of the checkpoint.
Showing ==
    /\ Idle /\ thread.next = "execute" => row.plan = thread.st.plan
    /\ \A i \in Invocations : ShowsAt(i)
Shown == (Showing \/ Lost) /\ SeenBeforeApproved

\* Who is around the graph executes nothing, and is at no pause.
LEMMA NotExecuting ==
  ASSUME NEW here \in {"start", "intake", "retrieve", "plan", "compose", "guard", "score",
                       "respond", "idle", "resume", "end", "interrupted", "raised", "parked",
                       "save", "status", "discard", "done"}, NEW k
  PROVE  ~Executing(here, k) /\ here \notin Pausing
  BY DEF Executing, Pausing, Calls

\* At the start nothing is on show.
LEMMA InitShown == Init => Shown
<1> SUFFICES ASSUME Init PROVE Showing /\ SeenBeforeApproved
  BY DEF Shown
<1>1. \A i \in Invocations : pc[i] \in {"start", "idle"}
  BY DEF Init
<1>2. thread.next = "gone"
  BY GoneNext DEF Init
<1> QED
  BY <1>1, <1>2, NotExecuting DEF Init, Showing, ShowsAt, SeenBeforeApproved

\* When the one at work moves, it is enough to look at it, the row and the checkpoint.
LEMMA ShownMoves ==
  ASSUME NEW i \in Invocations, \A j \in Invocations \ {i} : ~Busy(j)', pc'[i] # "idle",
         pc'[i] \in {"parked", "done"} /\ thread'.next = "execute" => row'.plan = thread'.st.plan,
         ShowsAt(i)'
  PROVE  Showing'
<1>1. ASSUME NEW j \in Invocations, j # i PROVE ShowsAt(j)'
  <2>1. pc'[j] \in {"idle", "parked", "done"}
    BY <1>1 DEF Busy
  <2> QED
    BY <2>1, NotExecuting DEF ShowsAt
<1>2. Idle' => pc'[i] \in {"parked", "done"}
  BY DEF Idle, Busy
<1> QED
  BY <1>1, <1>2 DEF Showing

\* A pause saves the plan it asks about.
LEMMA PauseShows ==
  ASSUME IInv, NEW i \in Invocations, GraphStep(i), ShowsAt(i), pc'[i] \in Pausing
  PROVE  row'.plan = st'[i].plan
<1>1. LocalType /\ st[i] \in AgentState
  BY DEF IInv, LocalType
<1>2. CASE pc'[i] = "mint"
  <2>1. ASSUME NEW k, NEW s, NEW card, Pause(i, k, s, card) PROVE row' = st'[i]
    BY <1>1, <2>1 DEF Pause, Work, LocalType
  <2>2. ASSUME NEW s, NEW next \in Nodes, Commit(i, s, next) PROVE FALSE
    BY <1>1, <1>2, <2>2 DEF Commit, Stay, LocalType, Nodes
  <2>3. ASSUME NEW s, Commit(i, s, "end") PROVE FALSE
    BY <1>1, <1>2, <2>3 DEF Commit, Stay, LocalType
  <2>4. ASSUME NEW s, NEW here \in {"tools", "score"}, Work(i, s, here) PROVE FALSE
    BY <1>1, <1>2, <2>4 DEF Work, Stay, LocalType
  <2> QED
    BY <1>2, <2>1, <2>2, <2>3, <2>4, ToMint DEF Execute, FinishTools, Guard, Nodes
<1>3. CASE pc'[i] \in {"show", "ask"}
  <2>1. CASE Mint(i)
    <3>1. PICK t : st'[i] = [st[i] EXCEPT !.approval_token = t]
      BY <1>1, <2>1 DEF Mint, Work, LocalType
    <3> QED
      BY <1>1, <2>1, <3>1 DEF Mint, ShowsAt, Pausing, AgentState
  <2>2. CASE Show(i)
    BY <1>1, <2>2 DEF Show, Work, LocalType
  <2>3. ASSUME pc[i] \in {"show", "ask"} PROVE Show(i)
    <3>1. CASE Ask(i)
      <4>1. \/ Interrupted(i)
            \/ \E s : Commit(i, s, "end")
            \/ \E s, here : here \in {"tools", "score"} /\ Proceed(i, s, here)
        BY <3>1 DEF Ask, Reject, Approve, Rebook, Release
      <4> QED
        BY <1>1, <1>3, <4>1 DEF Interrupted, Commit, Proceed, Stay, LocalType
    <3>2. CASE ExecuteFails(i) \/ Raise(i)
      BY <1>1, <1>3, <3>2 DEF ExecuteFails, Fail, Commit, Raise, Stay, LocalType
    <3> QED
      BY <2>3, <3>1, <3>2
         DEF GraphStep, Stage, Plan, Execute, Mint, CallTool, CacheResult, FinishTools, Compose,
             Guard, Score, Respond, Calls
  <2> QED
    BY <1>3, <2>1, <2>2, <2>3, PauseOrder
<1> QED
  BY <1>2, <1>3 DEF Pausing

\* A step of the graph keeps what is on show.
LEMMA GraphShown ==
  ASSUME IInv, OneBusy, InStep, RunnerAsks, Showing, NEW i \in Invocations, GraphStep(i)
  PROVE  Showing'
<1>1. /\ \A j \in Invocations \ {i} : ~Busy(j)'
      /\ pc'[i] \notin {"idle", "parked", "done"} /\ LocalType /\ st[i] \in AgentState
      /\ UNCHANGED seen /\ ShowsAt(i)
  <2>1. Step(i)
    BY DEF Step, RunnerStep, SubmitterStep, Invocations
  <2> QED
    BY <2>1, StepAlone, GraphInStep, GraphTokens DEF IInv, LocalType, Showing
<1>2. pc'[i] \notin {"resume", "save", "status", "discard"}
  BY GraphLeads DEF Inside, Nodes, Calls
<1>3. pc'[i] \in Pausing => row'.plan = st'[i].plan
  BY <1>1, PauseShows
<1>4. ASSUME ShowsAt(i)' PROVE Showing'
  BY <1>1, <1>4, ShownMoves
<1>5. CASE pc[i] = "plan" /\ Emit(i)
  <2>1. PICK s : Commit(i, s, "execute")
    BY <1>5 DEF Emit
  <2>2. /\ pc'[i] = "execute" /\ st'[i] = s /\ held'[i] = s /\ thread'.st = s
        /\ resume'[i] = "none"
    BY <1>1, <2>1 DEF Commit, Stay, LocalType
  <2> QED
    BY <1>2, <1>3, <1>4, <2>2 DEF ShowsAt
<1>6. ASSUME NEW s, NEW next \in (Nodes \ {"execute"}) \union {"end"}, Commit(i, s, next)
      PROVE  Showing'
  <2>1. pc'[i] = next /\ thread'.next = next
    BY <1>1, <1>6 DEF Commit, Stay, LocalType
  <2>2. ~Executing(pc'[i], kind'[i])
    BY <2>1, NotExecuting DEF Nodes
  <2> QED
    BY <1>3, <1>4, <2>1, <2>2 DEF ShowsAt
<1>7. CASE Keeps(i)
  <2>1. CASE Returns(i)
    <3>1. PICK s, next : next \in Nodes \union {"end"} /\ Commit(i, s, next)
      BY <2>1 DEF Returns
    <3>2. next # "execute"
      BY <1>1, <1>7, <3>1 DEF Keeps, Commit, Stay, LocalType
    <3> QED
      BY <1>6, <3>1, <3>2
  <2>2. CASE GoesOn(i)
    <3>1. /\ UNCHANGED thread /\ st'[i].plan = st[i].plan /\ pc'[i] # "interrupted"
          /\ NodeAt(pc'[i], kind'[i]) = NodeAt(pc[i], kind[i])
      BY <1>1, <1>7, <2>2 DEF GoesOn, Keeps, Stay, LocalType, Inside, Nodes, Calls
    <3>2. Executing(pc'[i], kind'[i]) => Executing(pc[i], kind[i])
      BY <3>1 DEF NodeAt, Executing, Pausing
    <3>3. resume'[i] \in {resume[i], "none"}
      BY GraphTakes
    <3>4. held'[i] = held[i] \/ held'[i] = st'[i]
      BY GraphSaves DEF Streams
    <3> QED
      BY <1>1, <1>2, <1>3, <1>4, <3>1, <3>2, <3>3, <3>4 DEF ShowsAt
  <2>3. CASE Ask(i) /\ Stops(i)
    <3>1. /\ pc[i] = "ask" /\ pc'[i] = "interrupted" /\ UNCHANGED <<row, st, held>>
          /\ thread'.next = thread.next /\ thread'.st = thread.st
      BY <1>1, <2>3 DEF Ask, Stops, Interrupted, Stay, LocalType, Threads
    <3>2. thread.next = "execute" => Executing(pc[i], kind[i])
      BY <1>1, <3>1 DEF InStep, At, NodeAt, Inside, Pausing, Executing
    <3> QED
      BY <1>1, <1>2, <1>3, <1>4, <3>1, <3>2, NotExecuting DEF ShowsAt, Pausing
  <2>4. CASE Raise(i)
    <3>1. pc'[i] = "raised"
      BY <1>1, <2>4 DEF Raise, Stay, LocalType
    <3> QED
      BY <1>1, <1>2, <1>3, <1>4, <3>1, NotExecuting DEF ShowsAt
  <2> QED
    BY <2>1, <2>2, <2>3, <2>4, GraphMoves
<1> QED
  BY <1>5, <1>6, <1>7, GraphKeeps DEF Nodes

\* A step of the graph approves only what was seen.
LEMMA GraphSeen ==
  ASSUME IInv, RunnerAsks, NEW i \in Invocations, ShowsAt(i), blind = {}, GraphStep(i)
  PROVE  blind' = {}
<1>1. CASE HasAnswer(i) /\ kind[i] = "plan" /\ Ask(i) /\ Approve(i, st[i])
  <2>1. i # Runner
    BY <1>1, NoAnswerYet DEF IInv
  <2>2. Executing(pc[i], kind[i])
    BY <1>1 DEF Ask, Executing, Pausing
  <2>3. ~Replaying(i) => seen[i] = st[i].plan
    BY <1>1, <2>1, <2>2 DEF HasAnswer, ShowsAt
  <2> QED
    BY <1>1, <2>3 DEF Approve
<1>2. CASE UNCHANGED blind
  BY <1>2
<1> QED
  BY <1>1, <1>2, GraphTakes DEF Ask, Interrupted, Reject, Rebook, Release

\* A step around the graph keeps what is on show: a run is saved before it is offered, and
\* one that times out in its node has shown its plan, or is lost.
LEMMA AroundShown ==
  ASSUME IInv, OneBusy, InStep, Asking, Showing, NEW i \in Invocations, Step(i), AroundStep(i)
  PROVE  Showing' \/ Lost'
<1>1. /\ \A j \in Invocations \ {i} : ~Busy(j)'
      /\ pc'[i] # "idle" /\ LocalType /\ UNCHANGED seen /\ ShowsAt(i)
      /\ thread.next = "gone" \/ At(pc[i], kind[i], thread.next)
  BY StepAlone, AroundMoves DEF IInv, Showing, InStep
<1>2. ASSUME pc'[i] \in {"intake", "raised", "end"} PROVE Showing'
  <2>1. ~Executing(pc'[i], kind'[i]) /\ pc'[i] \notin Pausing
    BY <1>2, NotExecuting
  <2> QED
    BY <1>1, <1>2, <2>1, ShownMoves DEF ShowsAt
<1>3. ASSUME pc'[i] \in {"parked", "done"}, thread'.next = "execute" => row'.plan = thread'.st.plan
      PROVE  Showing'
  <2>1. ~Executing(pc'[i], kind'[i]) /\ pc'[i] \notin Pausing
    BY <1>3, NotExecuting
  <2> QED
    BY <1>1, <1>3, <2>1, ShownMoves DEF ShowsAt
<1>4. ASSUME pc'[i] \in {"save", "status", "discard"},
             thread'.next = "execute" =>
                 row'.plan = thread'.st.plan /\ held'[i].plan = thread'.st.plan
      PROVE  Showing'
  <2>1. ~Executing(pc'[i], kind'[i]) /\ pc'[i] \notin Pausing
    BY <1>4, NotExecuting
  <2> QED
    BY <1>1, <1>4, <2>1, ShownMoves DEF ShowsAt
<1>5. CASE i = Runner /\ StartRun
  BY <1>1, <1>2, <1>5 DEF StartRun, Commit, Stay, LocalType
<1>6. CASE i = Runner /\ Park
  BY <1>1, <1>3, <1>6 DEF Park, Return, Stay, LocalType, ShowsAt
<1>7. CASE i = Runner /\ EndOfRun
  <2>1. /\ pc'[i] = "save" /\ UNCHANGED <<thread, row, approvals>>
        /\ held'[i].plan = held[i].plan
    <3>1. held[i] \in AgentState /\ held \in [Invocations -> AgentState]
      BY <1>1 DEF LocalType
    <3>2. ASSUME NEW e, held' = [held EXCEPT ![i].error = e] PROVE held'[i].plan = held[i].plan
      BY <3>1, <3>2 DEF AgentState
    <3>3. held' = held \/ \E e : held' = [held EXCEPT ![i].error = e]
      BY <1>7 DEF EndOfRun
    <3>4. held'[i].plan = held[i].plan
      BY <3>2, <3>3
    <3> QED
      BY <1>1, <1>7, <3>4 DEF EndOfRun, Stay, LocalType
  <2>2. pc[i] \in {"end", "raised", "interrupted"} \union Inside
    BY <1>7 DEF EndOfRun
  <2>3. CASE thread.next # "execute"
    BY <1>4, <2>1, <2>3
  <2>4. CASE thread.next = "execute" /\ pc[i] \in Inside \ Pausing
    <3>1. Minted = {}
      BY <1>7, <2>4 DEF Asking, Pausing
    <3>2. Minted' = {}
      BY <2>1, <3>1 DEF Minted
    <3> QED
      BY <1>7, <2>1, <3>2 DEF Lost
  <2>5. CASE thread.next = "execute" /\ pc[i] \in Pausing
    <3>1. Executing(pc[i], kind[i])
      BY <1>1, <2>5 DEF At, NodeAt, Inside, Pausing, Executing
    <3> QED
      BY <1>1, <1>4, <2>1, <2>5, <3>1 DEF ShowsAt
  <2>6. CASE thread.next = "execute" /\ pc[i] = "interrupted"
    BY <1>1, <1>4, <2>1, <2>6 DEF ShowsAt
  <2>7. pc[i] \in {"end", "raised"} => thread.next # "execute"
    BY <1>1 DEF At
  <2> QED
    BY <2>2, <2>3, <2>4, <2>5, <2>6, <2>7
<1>8. CASE i = Runner /\ (Save(i) \/ SaveFails(i))
  <2>1. /\ pc[i] = "save" /\ pc'[i] = "discard" /\ thread' = thread /\ held' = held
        /\ row' \in {row, held[i]}
    BY <1>1, <1>8 DEF Save, SaveFails, Stay, LocalType
  <2> QED
    BY <1>1, <1>4, <1>8, <2>1 DEF ShowsAt
<1>9. CASE i # Runner /\ (Save(i) \/ Record(i) \/ SaveFails(i))
  <2>1. /\ pc[i] \in {"save", "status"} /\ thread' = thread /\ row' \in {row, held[i]}
        /\ \/ pc'[i] \in {"status", "discard"} /\ held' = held
           \/ pc'[i] = "done"
    BY <1>1, <1>9 DEF Save, Record, SaveFails, Return, Stay, LocalType
  <2> QED
    BY <1>1, <1>3, <1>4, <1>9, <2>1 DEF ShowsAt
<1>10. CASE Discard(i)
  <2>1. /\ pc[i] = "discard" /\ pc'[i] = "done" /\ row' = row
        /\ thread' = thread \/ thread'.next = "gone"
    BY <1>1, <1>10, GoneNext DEF Discard, DiscardThread, Return, Stay, LocalType
  <2>2. thread'.next = "execute" => row'.plan = thread'.st.plan
    BY <1>1, <2>1 DEF ShowsAt
  <2> QED
    BY <1>3, <2>1, <2>2
<1>11. CASE i \in Submitters /\ Resumed(i)
  <2>1. i # Runner /\ thread' = thread /\ row' = row
    BY <1>11, ConstantsOK DEF Resumed
  <2>2. CASE pc[i] = "raised"
    BY <1>1, <1>3, <1>11, <2>1, <2>2 DEF Resumed, Return, Stay, LocalType, At
  <2>3. CASE pc[i] \in {"end", "interrupted"}
    <3>1. pc'[i] = "save" /\ held' = held
      BY <1>1, <1>11, <2>3 DEF Resumed, Stay, LocalType
    <3>2. pc[i] = "end" => thread.next # "execute"
      BY <1>1 DEF At
    <3> QED
      BY <1>1, <1>4, <2>1, <2>3, <3>1, <3>2 DEF ShowsAt
  <2> QED
    BY <1>11, <2>2, <2>3 DEF Resumed
<1>12. CASE i \in Submitters /\ Resume(i)
  <2>1. pc[i] = "resume" /\ thread' = thread /\ i # Runner
    BY <1>12, ConstantsOK DEF Resume
  <2>2. CASE thread.next = "gone"
    BY <1>1, <1>2, <1>12, <2>2 DEF Resume, Stay, LocalType
  <2>3. CASE thread.next # "gone"
    <3>1. /\ pc'[i] = thread.next /\ st'[i] = thread.st /\ held'[i] = thread.st
          /\ thread.next \in Nodes \union {"end"}
      BY <1>1, <1>12, <2>3 DEF Resume, Stay, LocalType, Threads
    <3>2. /\ pc'[i] \notin Pausing \union {"interrupted", "save", "status", "discard", "resume",
                                          "parked", "done"}
          /\ thread.next # "execute" => ~Executing(pc'[i], kind'[i])
      BY <3>1, NotExecuting DEF Nodes, Pausing
    <3>3. thread.next = "execute" => seen'[i] = thread.st.plan
      BY <1>1, <2>1 DEF ShowsAt
    <3>4. ShowsAt(i)'
      BY <2>1, <3>1, <3>2, <3>3 DEF ShowsAt
    <3> QED
      BY <1>1, <3>2, <3>4, ShownMoves
  <2> QED
    BY <2>2, <2>3
<1> QED
  BY <1>5, <1>6, <1>7, <1>8, <1>9, <1>10, <1>11, <1>12, ConstantsOK DEF AroundStep

\* Every step keeps what is on show, and approves only what was seen.
LEMMA NextShown ==
  ASSUME OneAtATime, MaxCrashes = 0 \/ ~Durable
  PROVE  IInv /\ OneBusy /\ InStep /\ RunnerAsks /\ Asking /\ Shown /\ [Next]_vars => Shown'
<1> SUFFICES ASSUME IInv, OneBusy, InStep, RunnerAsks, Asking, Shown, [Next]_vars, ~Lost
             PROVE  (Showing' \/ Lost') /\ blind' = {}
  BY LostStays DEF Shown, SeenBeforeApproved
<1>0. Showing /\ blind = {}
  BY DEF Shown, SeenBeforeApproved
<1>1. ASSUME NEW i \in Invocations, Step(i) PROVE (Showing' \/ Lost') /\ blind' = {}
  <2>1. CASE GraphStep(i)
    BY <1>0, <2>1, GraphShown, GraphSeen DEF Showing
  <2>2. CASE AroundStep(i)
    BY <1>0, <1>1, <2>2, AroundShown, AroundMoves
  <2> QED
    BY <1>1, <2>1, <2>2, StepIs
<1>2. ASSUME NEW i \in Submitters, Submit(i) PROVE Showing' /\ blind' = {}
  <2>1. /\ Idle /\ i \in Invocations /\ i # Runner /\ pc'[i] = "resume"
        /\ \A j \in Invocations \ {i} : ~Busy(j)'
    BY <1>2, SubmitAlone DEF Invocations
  <2>2. seen'[i] = row.plan /\ UNCHANGED <<thread, blind>>
    BY <1>2 DEF Submit, IInv, SharedType
  <2>3. Showing'
    BY <1>0, <2>1, <2>2, NotExecuting, ShownMoves DEF Showing, ShowsAt
  <2> QED
    BY <1>0, <2>2, <2>3
<1>3. CASE ClockStep \/ UNCHANGED vars
  <2>1. /\ UNCHANGED <<local, seen, row, blind>> /\ thread' \in {thread, Gone}
    BY <1>3 DEF ClockStep, CacheExpiry, Expire, AutoReject, FreeThread, DiscardThread, vars,
                request, ghosts
  <2> QED
    BY <1>0, <2>1, GoneNext DEF Showing, ShowsAt, local, Idle, Busy
<1>4. CASE Crash
  <2>1. Idle' /\ thread'.next = "gone" /\ blind' = blind
    BY <1>4, CrashIdle, GoneNext DEF Crash, IInv, SharedType, ghosts
  <2>2. \A i \in Invocations : ~Executing(pc'[i], kind'[i]) /\ pc'[i] \notin Pausing
    BY <2>1, NotExecuting DEF Idle, Busy
  <2> QED
    BY <1>0, <2>1, <2>2 DEF Showing, ShowsAt
<1> QED
  BY <1>1, <1>2, <1>3, <1>4, NextIs

\* What is on show stays the plan that is asked about, and no approval is blind.
LEMMA ShownKept ==
  ASSUME OneAtATime, MaxCrashes = 0 \/ ~Durable PROVE Spec => []Shown
<1>1. IInv /\ OneBusy /\ InStep /\ RunnerAsks /\ Asking /\ Shown /\ [Next]_vars => Shown'
  BY NextShown
<1>2. Spec => []RunnerAsks
  BY InitAsks, NextAsks, Invariance, PTL DEF Spec
<1> QED
  BY <1>1, <1>2, InitShown, AskingKept, InStepKept, OneBusyKept, Invariance, PTL DEF Spec

(* A plan is approved by who saw it: the decision was submitted while that    *)
(* very plan was on show, however often the run was interrupted, replanned,   *)
(* resumed or timed out, or a pause, save or discard failed; with decisions   *)
(* one after the other, and no checkpoint that survives a restart half way.   *)
THEOREM ApprovedAsSeen ==
  ASSUME OneAtATime, MaxCrashes = 0 \/ ~Durable PROVE Spec => []SeenBeforeApproved
<1>1. Shown => SeenBeforeApproved
  BY DEF Shown
<1> QED
  BY <1>1, ShownKept, PTL

-----------------------------------------------------------------------------
(* A call that took effect is remembered, or will not be made again.         *)

\* The run is over: nobody is in the graph, nor can anybody resume it.
Over ==
    /\ \A i \in Invocations : Busy(i) => pc[i] \in {"end", "save", "status", "discard"}
    /\ thread.next \notin Nodes

\* The call of key k has returned to its node, which has not cached the result yet.
InHand(k) == \E i \in Invocations : pc[i] \in Calls /\ k = Key(st[i], pc[i])
Kept   == \A k \in landed : Cached(k) # {} \/ InHand(k) \/ Over
Landed == (Kept \/ Lost) /\ ReplayNeverRepeats

\* At the start nothing was called.
LEMMA InitLanded == Init => Landed
  BY DEF Init, Landed, Kept, ReplayNeverRepeats

\* The steps around the graph keep the run over, and lose it when they take its call away.
LEMMA OverStays ==
  ASSUME IInv, OneBusy, Asking, NEW i \in Invocations, Step(i), AroundStep(i),
         Over \/ pc[i] \in Calls
  PROVE  Over' \/ Lost'
<1>1. (\A j \in Invocations \ {i} : ~Busy(j)' /\ pc'[j] = pc[j]) /\ Busy(i) /\ LocalType
  BY StepAlone DEF IInv
<1>2. pc[i] \in {"end", "save", "status", "discard"} \union Calls
  BY <1>1 DEF Over
<1>3. ASSUME Over, pc'[i] \in {"save", "status", "discard", "done"}, thread' \in {thread, Gone}
      PROVE  Over'
  BY <1>1, <1>3, GoneNext DEF Over, Busy, Nodes
<1>4. CASE i = Runner /\ EndOfRun
  <2>1. pc'[i] = "save" /\ UNCHANGED <<thread, approvals>>
    BY <1>1, <1>4 DEF EndOfRun, Stay, LocalType
  <2>2. CASE pc[i] \in Calls
    <3>1. Minted = {}
      BY <1>4, <2>2 DEF Asking, Inside, Calls
    <3> QED
      BY <1>4, <2>1, <3>1 DEF Lost, Minted
  <2> QED
    BY <1>3, <2>1, <2>2
<1>5. CASE ~(i = Runner /\ EndOfRun)
  <2>1. /\ pc[i] \notin Calls /\ thread' \in {thread, Gone}
        /\ pc'[i] \in {"save", "status", "discard", "done"}
    BY <1>1, <1>2, <1>5
       DEF AroundStep, StartRun, Park, Resume, Resumed, Save, SaveFails, Record, Discard,
           DiscardThread, Return, Stay, LocalType, Calls
  <2> QED
    BY <1>3, <2>1
<1> QED
  BY <1>4, <1>5

\* The steps around the graph make no call.
LEMMA AroundTools == ASSUME NEW i, AroundStep(i) PROVE UNCHANGED tools
  BY DEF AroundStep, StartRun, Park, EndOfRun, Save, SaveFails, Discard, Resume, Resumed, Record

\* Within the graph nobody is over, and what is in hand is in hand of who is at work.
LEMMA Inhand1 ==
  ASSUME IInv, OneBusy, NEW i \in Invocations, GraphStep(i)
  PROVE  /\ \A j \in Invocations \ {i} : ~Busy(j)'
         /\ pc'[i] \notin {"idle", "parked", "done"} /\ LocalType /\ ~Over
         /\ \A k : InHand(k) => pc[i] \in Calls /\ k = Key(st[i], pc[i])
<1>1. pc[i] \in Inside /\ Step(i)
  BY GraphMoves DEF Step, RunnerStep, SubmitterStep, Invocations
<1>2. Busy(i) /\ pc[i] \notin {"end", "save", "status", "discard"}
  BY <1>1 DEF Busy, Inside, Nodes, Calls
<1>3. \A j \in Invocations \ {i} : pc[j] \notin Calls
  BY <1>2, Alone1 DEF Busy, Calls
<1>4. pc'[i] \notin {"idle", "parked", "done"}
  BY GraphLeads DEF Inside, Nodes, Calls
<1> QED
  BY <1>1, <1>2, <1>3, <1>4, StepAlone DEF InHand, Over, IInv

\* A call takes effect once: the result of an earlier one is found in the cache.
LEMMA CallLanded ==
  ASSUME IInv, OneBusy, Kept, NEW i \in Invocations, CallTool(i)
  PROVE  Kept' /\ UNCHANGED repeated
<1>1. /\ LocalType /\ st[i] \in AgentState /\ ~Over /\ UNCHANGED <<cache, wording>>
      /\ pc[i] = "tools"
  <2>1. GraphStep(i)
    BY DEF GraphStep
  <2>2. UNCHANGED <<cache, wording>>
    BY DEF CallTool, tools, plans
  <2> QED
    BY <2>1, <2>2, Inhand1 DEF CallTool, IInv, LocalType
<1>2. \A k \in landed : Cached(k) # {}
  <2>1. \A k : ~InHand(k)
    BY <1>1, Inhand1 DEF Calls, GraphStep
  <2> QED
    BY <1>1, <2>1 DEF Kept
<1>3. \A k : Cached(k)' = Cached(k)
  BY <1>1 DEF Cached
<1>4. CASE UNCHANGED tools
  BY <1>2, <1>3, <1>4 DEF tools, Kept
<1>5. ASSUME NEW c \in Steps(st[i]), NEW r,
             Cached(Key(st[i], c)) = {},
             Work(i, HasResult(st[i], c, r), c),
             landed' = IF r = "ok" THEN landed \union {Key(st[i], c)} ELSE landed,
             repeated' = IF r = "ok" /\ Key(st[i], c) \in landed
                         THEN repeated \union {Key(st[i], c)} ELSE repeated
      PROVE  Kept' /\ UNCHANGED repeated
  <2>1. Key(st[i], c) \notin landed
    BY <1>2, <1>5
  <2>2. c \in Calls /\ pc'[i] = c /\ st'[i] = HasResult(st[i], c, r)
    BY <1>1, <1>5 DEF Work, Stay, LocalType, Steps, Calls
  <2>3. Same(st[i], st'[i])
    <3>1. Same(st[i], HasResult(st[i], c, r))
      BY <1>1, SameStates
    <3> QED
      BY <2>2, <3>1
  <2>4. ASSUME NEW k, k = Key(st[i], c) PROVE InHand(k)'
    <3>1. Key(st[i], c) = <<wording'[st'[i].plan], c, Slot(st'[i], c)>>
      BY <1>1, <2>3 DEF Key, Slot, Same
    <3>2. pc'[i] \in Calls /\ k = Key(st[i], pc[i])'
      BY <2>2, <2>4, <3>1 DEF Key, Slot
    <3> QED
      BY <3>2 DEF InHand
  <2>5. landed' \subseteq landed \union {Key(st[i], c)}
    BY <1>5
  <2> QED
    BY <1>2, <1>3, <1>5, <2>1, <2>4, <2>5 DEF Kept
<1> QED
  BY <1>4, <1>5 DEF CallTool

\* Caching the result ends the time it is in hand.
LEMMA CacheLanded ==
  ASSUME IInv, OneBusy, Kept, NEW i \in Invocations, CacheResult(i)
  PROVE  Kept' /\ UNCHANGED repeated
<1>1. /\ ~Over /\ pc[i] \in Calls /\ UNCHANGED <<landed, repeated>>
      /\ \A k : InHand(k) => k = Key(st[i], pc[i])
  <2>1. GraphStep(i)
    BY DEF GraphStep
  <2> QED
    BY <2>1, Inhand1 DEF CacheResult
<1> DEFINE K == Key(st[i], pc[i])
           R == [key |-> K, result |-> st[i].tool_results[pc[i]]]
<1>2. cache' = (cache \ {h \in cache : h.key = K}) \union {R}
  BY DEF CacheResult, Cached
<1>3. R.key = K
  OBVIOUS
<1> HIDE DEF K, R
<1>4. ASSUME NEW k \in landed PROVE Cached(k)' # {}
  <2>1. CASE k = K
    BY <1>2, <1>3, <2>1 DEF Cached
  <2>2. CASE k # K
    <3>1. PICK h \in cache : h.key = k
      BY <1>1, <2>2 DEF Kept, Cached, K
    <3>2. h \in cache'
      BY <1>2, <2>2, <3>1
    <3> QED
      BY <3>1, <3>2 DEF Cached
  <2> QED
    BY <2>1, <2>2
<1> QED
  BY <1>1, <1>4 DEF Kept

\* The other steps of the graph: a call in hand is lost only when its node fails.
LEMMA GraphCalls ==
  ASSUME NEW i \in Invocations, GraphStep(i), ~CallTool(i), ~CacheResult(i)
  PROVE  /\ UNCHANGED tools
         /\ pc[i] \in Calls => Fail(i)
<1>1. CASE Stage(i, "intake", "retrieve") \/ Stage(i, "retrieve", "plan") \/ Plan(i)
  BY <1>1 DEF Stage, Plan, Calls
<1>2. CASE Execute(i) \/ FinishTools(i) \/ Guard(i)
  BY <1>2 DEF Execute, FinishTools, Guard, Pause, Calls
<1>3. CASE Mint(i) \/ Show(i) \/ Ask(i) \/ ExecuteFails(i)
  BY <1>3 DEF Mint, Show, Ask, ExecuteFails, PauseMayFail, Calls
<1>4. CASE Compose(i) \/ Score(i) \/ Respond(i) \/ Raise(i)
  BY <1>4 DEF Compose, Score, Respond, Raise, PauseMayFail, Calls
<1> QED
  BY <1>1, <1>2, <1>3, <1>4 DEF GraphStep

\* Steps of the graph other than these two make no call.
LEMMA GraphLanded ==
  ASSUME IInv, OneBusy, Kept, NEW i \in Invocations, GraphStep(i)
  PROVE  Kept' /\ UNCHANGED repeated
<1>1. CASE ~CallTool(i) /\ ~CacheResult(i)
  <2>1. UNCHANGED <<cache, landed, repeated>> /\ (pc[i] \in Calls => Fail(i))
    BY <1>1, GraphCalls DEF tools
  <2>2. /\ \A j \in Invocations \ {i} : ~Busy(j)'
        /\ LocalType /\ ~Over /\ \A k : InHand(k) => pc[i] \in Calls
    BY Inhand1
  <2>3. CASE pc[i] \in Calls
    <3>1. pc'[i] = "end" /\ thread'.next = "end"
      BY <2>1, <2>2, <2>3 DEF Fail, Commit, Stay, LocalType
    <3>3. Over'
      BY <2>2, <3>1 DEF Over, Nodes
    <3> QED
      BY <2>1, <3>3 DEF Kept
  <2>4. CASE pc[i] \notin Calls
    BY <2>1, <2>2, <2>4 DEF Kept, Cached
  <2> QED
    BY <2>1, <2>3, <2>4
<1> QED
  BY <1>1, CallLanded, CacheLanded

\* Every step keeps what took effect remembered, while keys do not expire.
LEMMA NextLanded ==
  ASSUME OneAtATime, MaxCrashes = 0 \/ ~Durable, ~CacheExpires
  PROVE  IInv /\ OneBusy /\ Asking /\ Landed /\ [Next]_vars => Landed'
<1> SUFFICES ASSUME IInv, OneBusy, Asking, Landed, [Next]_vars, ~Lost
             PROVE  (Kept' \/ Lost') /\ repeated' = {}
  BY LostStays DEF Landed, ReplayNeverRepeats
<1>0. Kept /\ repeated = {}
  BY DEF Landed, ReplayNeverRepeats
<1>1. ASSUME UNCHANGED tools, Over' \/ (~Over /\ \A k : ~InHand(k)) PROVE Kept' /\ repeated' = {}
  BY <1>0, <1>1 DEF Kept, Cached, tools
<1>2. ASSUME NEW i \in Invocations, Step(i) PROVE (Kept' \/ Lost') /\ repeated' = {}
  <2>1. CASE GraphStep(i)
    BY <1>0, <2>1, GraphLanded
  <2>2. CASE AroundStep(i)
    <3>1. UNCHANGED tools
      BY <2>2, AroundTools
    <3>2. CASE Over \/ pc[i] \in Calls
      BY <1>0, <1>1, <1>2, <2>2, <3>1, <3>2, OverStays DEF tools
    <3>3. CASE ~Over /\ pc[i] \notin Calls
      <4>1. \A j \in Invocations : pc[j] \notin Calls
        BY <1>2, <3>3, StepAlone DEF Busy, Calls
      <4> QED
        BY <1>1, <3>1, <3>3, <4>1 DEF InHand
    <3> QED
      BY <3>2, <3>3
  <2> QED
    BY <1>2, <2>1, <2>2, StepIs
<1>3. ASSUME NEW i \in Submitters, Submit(i) PROVE Kept' /\ repeated' = {}
  <2>1. Idle /\ UNCHANGED tools /\ Runner \in Invocations
    BY <1>3, SubmitAlone DEF Submit, Invocations
  <2>2. thread.next \in Nodes
    BY <1>3 DEF Submit, IInv, LocalType, SharedType, Threads
  <2>3. ~Over /\ \A k : ~InHand(k)
    BY <2>1, <2>2 DEF Over, InHand, Idle, Busy, Calls
  <2> QED
    BY <1>1, <2>1, <2>3
<1>4. ASSUME NEW t \in Tokens, Expire(t) \/ AutoReject(t) \/ FreeThread(t)
      PROVE  Kept' /\ repeated' = {}
  <2>1. /\ UNCHANGED <<pc, st, cache, landed, repeated, wording>>
        /\ thread' = thread \/ thread'.next = "gone"
    BY <1>4, GoneNext DEF Expire, AutoReject, FreeThread, DiscardThread, local, tools, plans
  <2>2. Over => Over'
    BY <2>1 DEF Over, Busy, Nodes
  <2> QED
    BY <1>0, <2>1, <2>2 DEF Kept, Cached, InHand, Key, Slot
<1>5. CASE Crash
  <2>1. Idle' /\ thread'.next = "gone" /\ UNCHANGED tools
    BY <1>5, CrashIdle, GoneNext DEF Crash, IInv, SharedType
  <2>2. Over'
    BY <2>1 DEF Over, Idle, Nodes
  <2> QED
    BY <1>1, <2>1, <2>2
<1>6. CASE UNCHANGED vars
  BY <1>0, <1>6 DEF vars, local, tools, plans, Kept, Cached, InHand, Over, Busy, Key, Slot
<1> QED
  BY <1>2, <1>3, <1>4, <1>5, <1>6, NextIs DEF ClockStep, CacheExpiry

(* No call takes effect twice, over pauses, replays, timeouts and failing     *)
(* nodes, saves and discards, with decisions one after the other, while the   *)
(* idempotency keys are kept, if no checkpoint survives a restart that lost a *)
(* result.                                                                    *)
THEOREM ReplaysAreIdempotent ==
  ASSUME OneAtATime, MaxCrashes = 0 \/ ~Durable, ~CacheExpires
  PROVE  Spec => []ReplayNeverRepeats
<1>1. IInv /\ OneBusy /\ Asking /\ Landed /\ [Next]_vars => Landed'
  BY NextLanded
<1>2. Landed => ReplayNeverRepeats
  BY DEF Landed
<1> QED
  BY <1>1, <1>2, InitLanded, AskingKept, OneBusyKept, Invariance, PTL DEF Spec

-----------------------------------------------------------------------------
(* What a refusal meets: the answers recorded, and the plans there are.      *)

(* Answers are recorded in the checkpoint only where a handler has paused     *)
(* again, and such a handler deletes the checkpoint, unless a store fails it. *)
Leaving == {"interrupted", "save", "status", "discard"}
NoAnswersLeft ==
    failures = {} => thread.answers = <<>> \/ \E i \in Submitters : pc[i] \in Leaving

\* Initially there is no checkpoint.
LEMMA InitAnswersLeft == Init => NoAnswersLeft
  BY DEF Init, NoAnswersLeft, Gone

\* What the checkpoint records: nothing, what it had, or the answers of a pause.
LEMMA GraphRecords ==
  ASSUME IInv, RunnerAsks, NEW i \in Invocations, GraphStep(i)
  PROVE  /\ pc[i] \in Inside
         /\ \/ thread'.answers \in {<<>>, thread.answers}
            \/ i \in Submitters /\ pc'[i] = "interrupted"
<1>1. LocalType
  BY DEF IInv
<1>2. CASE Returns(i)
  <2>1. PICK r, next : Commit(i, r, next)
    BY <1>2 DEF Returns
  <2> QED
    BY <2>1, GraphMoves DEF Commit
<1>3. CASE Ask(i) /\ Stops(i)
  <2>1. pc'[i] = "interrupted" /\ thread'.answers \in {thread.answers, answers[i]}
    BY <1>1, <1>3 DEF Stops, Interrupted, Stay, LocalType, Threads
  <2>2. i \in Submitters \/ answers[i] = <<>>
    BY DEF RunnerAsks, Invocations
  <2>3. pc[i] \in Inside
    BY GraphMoves
  <2> QED
    BY <2>1, <2>2, <2>3
<1>4. CASE GoesOn(i) \/ Raise(i)
  BY <1>4, GraphMoves DEF GoesOn, Raise
<1> QED
  BY <1>2, <1>3, <1>4, GraphMoves

\* Who has paused again saves, records and deletes.
LEMMA NextAnswersLeft ==
  ASSUME MaxCrashes = 0 \/ ~Durable
  PROVE  IInv /\ RunnerAsks /\ NoAnswersLeft /\ [Next]_vars => NoAnswersLeft'
<1> SUFFICES ASSUME IInv, RunnerAsks, NoAnswersLeft, [Next]_vars, failures' = {}
             PROVE  NoAnswersLeft'
  BY DEF NoAnswersLeft
<1>0. failures = {}
  BY FailuresStay
<1>1. ASSUME thread'.answers = <<>> PROVE NoAnswersLeft'
  BY <1>1 DEF NoAnswersLeft
<1>2. ASSUME NEW i \in Submitters, pc'[i] \in Leaving PROVE NoAnswersLeft'
  BY <1>2 DEF NoAnswersLeft
<1>3. Gone.answers = <<>> /\ Submitters \subseteq Invocations
  BY DEF Gone, Invocations
<1>4. ASSUME NEW i \in Invocations, thread' = thread \/ thread'.answers = thread.answers,
             \A j \in Invocations \ {i} : pc'[j] = pc[j],
             i \in Submitters /\ pc[i] \in Leaving => pc'[i] \in Leaving
      PROVE  NoAnswersLeft'
  BY <1>0, <1>1, <1>2, <1>3, <1>4 DEF NoAnswersLeft
<1>5. ASSUME NEW i \in Invocations, Step(i) PROVE NoAnswersLeft'
  <2>1. LocalType /\ \A j \in Invocations \ {i} : pc'[j] = pc[j]
    BY <1>5, StepMoves DEF IInv
  <2>2. CASE GraphStep(i)
    <3>1. pc[i] \notin Leaving
      BY <2>2, GraphRecords DEF Leaving, Inside, Nodes, Calls
    <3>2. i \in Submitters /\ pc'[i] = "interrupted" => NoAnswersLeft'
      BY <1>2 DEF Leaving
    <3> QED
      BY <1>1, <1>4, <2>1, <2>2, <3>1, <3>2, GraphRecords
  <2>3. CASE i = Runner /\ StartRun
    BY <1>1, <2>3 DEF StartRun, Commit
  <2>4. CASE Discard(i)
    BY <1>1, <1>3, <2>4 DEF Discard, DiscardThread
  <2>5. CASE i = Runner /\ (Park \/ EndOfRun \/ Save(Runner) \/ SaveFails(Runner))
    <3>1. i \notin Submitters /\ thread' = thread
      BY <2>5, ConstantsOK DEF Park, EndOfRun, Save, SaveFails
    <3> QED
      BY <1>4, <2>1, <3>1
  <2>6. CASE i \in Submitters /\ (Resume(i) \/ Resumed(i) \/ Record(i) \/ Save(i))
    <3>1. thread' = thread /\ (pc[i] \in Leaving => pc'[i] \in Leaving)
      BY <2>1, <2>6, ConstantsOK DEF Resume, Resumed, Record, Save, Stay, LocalType, Leaving
    <3> QED
      BY <1>4, <2>1, <3>1
  <2>7. ~(i \in Submitters /\ SaveFails(i))
    BY ConstantsOK DEF SaveFails
  <2> QED
    BY <1>5, <2>2, <2>3, <2>4, <2>5, <2>6, <2>7, StepIs DEF AroundStep, Invocations
<1>6. ASSUME NEW i \in Submitters, Submit(i) PROVE NoAnswersLeft'
  <2>1. LocalType
    BY DEF IInv
  <2>2. /\ thread' = thread /\ pc[i] \notin Leaving
        /\ \A j \in Invocations \ {i} : pc'[j] = pc[j]
    BY <1>6, <2>1 DEF Submit, Stay, LocalType, Leaving
  <2> QED
    BY <1>3, <1>4, <2>2
<1>7. CASE ClockStep
  <2>1. UNCHANGED pc /\ thread' \in {thread, Gone}
    BY <1>7 DEF ClockStep, CacheExpiry, Expire, AutoReject, FreeThread, DiscardThread, local
  <2> QED
    BY <1>0, <1>1, <1>3, <2>1 DEF NoAnswersLeft
<1>8. CASE Crash
  BY <1>1, <1>3, <1>8 DEF Crash, IInv, SharedType
<1>9. CASE UNCHANGED vars
  BY <1>0, <1>9 DEF vars, local, NoAnswersLeft
<1> QED
  BY <1>5, <1>6, <1>7, <1>8, <1>9, NextIs

\* Every state is of a plan there is, and so is what was refused.
Known ==
    /\ \A i \in Invocations : st[i].plan <= planned /\ held[i].plan <= planned
    /\ thread.st.plan <= planned /\ row.plan <= planned
    /\ \A p \in refused : p <= planned

\* Initially there is no plan.
LEMMA InitKnown == Init => Known
  BY DEF Init, Known, Gone, Initial

\* A step of the graph makes no plan unknown, and leaves alone what was refused.
LEMMA GraphKnown ==
  ASSUME IInv, Known, NEW i \in Invocations, GraphStep(i)
  PROVE  Known'
<1>0. MaxPlans \in Nat /\ \A s \in AgentState : s.plan \in Nat
  BY Bounds DEF AgentState
<1>1. /\ LocalType /\ planned \in Nat /\ row.plan \in Nat
      /\ \A j \in Invocations : st[j].plan \in Nat /\ held[j].plan \in Nat
  BY <1>0 DEF IInv, LocalType, SharedType
<1>2. refused' = refused
  BY GraphTokens
<1>3. planned' \in {planned, planned + 1} /\ st'[i].plan <= planned'
  <2>1. CASE Emit(i)
    <3>1. PICK w : Commit(i, [st[i] EXCEPT !.plan = planned', !.slot = 0, !.verdict = "none"], w)
      BY <2>1 DEF Emit
    <3>2. st'[i] = [st[i] EXCEPT !.plan = planned', !.slot = 0, !.verdict = "none"]
      BY <1>1, <3>1 DEF Commit, LocalType
    <3>3. st[i] \in AgentState
      BY <1>1 DEF LocalType
    <3>4. st'[i].plan = planned' /\ planned' = planned + 1
      BY <2>1, <3>2, <3>3 DEF Emit, AgentState
    <3> QED
      BY <1>1, <3>4
  <2>2. CASE UNCHANGED plans /\ \E next : Commit(i, Replanned(st[i]), next)
    <3>1. st'[i] = Replanned(st[i]) /\ st[i] \in AgentState
      BY <1>1, <2>2 DEF Commit, LocalType
    <3>2. st'[i].plan = 0
      BY <3>1 DEF Replanned, AgentState
    <3> QED
      BY <1>1, <2>2, <3>2 DEF plans
  <2>3. CASE Keeps(i)
    BY <1>1, <2>3 DEF Keeps, Known, plans
  <2> QED
    BY <2>1, <2>2, <2>3, GraphKeeps
<1>4. thread'.st \in {thread.st, st'[i]}
  <2>1. CASE Returns(i)
    BY <1>1, <2>1 DEF Returns, Commit, LocalType
  <2>2. CASE Ask(i) /\ Stops(i)
    BY <1>1, <2>2 DEF Stops, Interrupted, LocalType, Threads
  <2>3. CASE GoesOn(i) \/ Raise(i)
    BY <2>3 DEF GoesOn, Raise
  <2> QED
    BY <2>1, <2>2, <2>3, GraphMoves
<1>5. thread.st.plan \in Nat /\ \A p \in refused : p \in Nat
  BY <1>1, Bounds DEF IInv, LocalType, SharedType, Threads, AgentState
<1>6. /\ \A j \in Invocations \ {i} : st'[j] = st[j] /\ held'[j] = held[j]
      /\ held'[i] \in {held[i], st'[i]} /\ (row' = row \/ row'.plan = st[i].plan)
  BY GraphSaves DEF Streams, Saves
<1>7. \A j \in Invocations : st'[j].plan <= planned' /\ held'[j].plan <= planned'
  BY <1>1, <1>3, <1>6 DEF Known
<1>8. thread'.st.plan <= planned'
  BY <1>1, <1>3, <1>4, <1>5 DEF Known
<1>9. row'.plan <= planned'
  BY <1>1, <1>3, <1>6 DEF Known
<1>10. \A p \in refused' : p <= planned'
  BY <1>1, <1>2, <1>3, <1>5 DEF Known
<1> QED
  BY <1>7, <1>8, <1>9, <1>10 DEF Known

\* Every step knows the plans.
LEMMA NextKnown == IInv /\ Known /\ [Next]_vars => Known'
<1> SUFFICES ASSUME IInv, Known, [Next]_vars PROVE Known'
  OBVIOUS
<1>1. /\ LocalType /\ planned \in Nat
      /\ Gone.st.plan = 0 /\ Initial(FALSE).plan = 0
  BY Bounds DEF IInv, SharedType, Gone, Initial
<1>2. ASSUME NEW i \in Invocations, AroundStep(i) PROVE Known'
  <2>1. UNCHANGED <<planned, refused>>
    BY <1>2, AroundMoves DEF plans
  <2>2. \A j \in Invocations \ {i} : st'[j] = st[j] /\ held'[j] = held[j]
    <3>1. CASE i = Runner /\ (StartRun \/ Park \/ EndOfRun)
      BY <1>1, <3>1 DEF StartRun, Commit, Park, EndOfRun, Return, inGraph, LocalType
    <3>2. CASE Save(i) \/ SaveFails(i) \/ Discard(i)
      BY <1>1, <3>2 DEF Save, SaveFails, Discard, DiscardThread, Return, inGraph, LocalType
    <3>3. CASE i \in Submitters /\ (Resume(i) \/ Resumed(i) \/ Record(i))
      BY <1>1, <3>3 DEF Resume, Resumed, Record, Return, inGraph, LocalType
    <3> QED
      BY <1>2, <3>1, <3>2, <3>3 DEF AroundStep
  <2>3. /\ st'[i].plan \in {st[i].plan, thread.st.plan, 0}
        /\ held'[i].plan \in {held[i].plan, st[i].plan, thread.st.plan, 0}
    <3>1. CASE i = Runner /\ EndOfRun
      <4>1. PICK e : held' = held \/ held' = [held EXCEPT ![Runner].error = e]
        BY <3>1 DEF EndOfRun
      <4>2. held'[i].plan = held[i].plan
        BY <1>1, <3>1, <4>1 DEF LocalType, AgentState
      <4> QED
        BY <3>1, <4>2 DEF EndOfRun, inGraph
    <3>2. CASE i = Runner /\ StartRun
      BY <1>1, <3>2 DEF StartRun, Commit, LocalType
    <3>3. CASE Save(i) \/ SaveFails(i) \/ Discard(i) \/ (i = Runner /\ Park)
      BY <1>1, <3>3 DEF Save, SaveFails, Discard, DiscardThread, Park, Return, inGraph, LocalType
    <3>4. CASE i \in Submitters /\ (Resume(i) \/ Resumed(i) \/ Record(i))
      BY <1>1, <3>4 DEF Resume, Resumed, Record, Return, inGraph, LocalType
    <3> QED
      BY <1>2, <3>1, <3>2, <3>3, <3>4 DEF AroundStep
  <2>4. thread'.st.plan \in {thread.st.plan, st[i].plan, 0} /\ row' \in {row, held[i]}
    BY <1>1, <1>2
       DEF AroundStep, StartRun, Commit, Park, EndOfRun, Save, SaveFails, Discard, DiscardThread,
           Resume, Resumed, Record
  <2>5. 0 <= planned
    BY <1>1
  <2>6. \A j \in Invocations : st'[j].plan <= planned /\ held'[j].plan <= planned
    BY <2>2, <2>3, <2>5 DEF Known
  <2>7. thread'.st.plan <= planned /\ row'.plan <= planned
    BY <2>4, <2>5 DEF Known
  <2> QED
    BY <2>1, <2>6, <2>7 DEF Known
<1>3. ASSUME NEW i \in Submitters, Submit(i) PROVE Known'
  <2>1. UNCHANGED <<planned, st, held, thread, row>> /\ refused' \subseteq refused \union {row.plan}
    BY <1>3 DEF Submit, inGraph, plans
  <2> QED
    BY <2>1 DEF Known
<1>4. CASE ClockStep
  <2>1. UNCHANGED <<planned, st, held, row, refused>> /\ thread' \in {thread, Gone}
    BY <1>4 DEF ClockStep, CacheExpiry, Expire, AutoReject, FreeThread, DiscardThread, local,
         plans, ghosts
  <2> QED
    BY <1>1, <2>1 DEF Known
<1>5. CASE Crash
  <2>1. /\ UNCHANGED <<planned, row, refused>> /\ thread' \in {thread, Gone}
        /\ \A i \in Invocations : st'[i] = Initial(FALSE) /\ held'[i] = Initial(FALSE)
    BY <1>5 DEF Crash, plans, ghosts
  <2>2. 0 <= planned /\ thread'.st.plan <= planned
    BY <1>1, <2>1 DEF Known
  <2>3. \A i \in Invocations : st'[i].plan <= planned /\ held'[i].plan <= planned
    BY <1>1, <2>1, <2>2
  <2> QED
    BY <2>1, <2>2, <2>3 DEF Known
<1>6. CASE UNCHANGED vars
  BY <1>6 DEF vars, local, plans, ghosts, Known
<1> QED
  BY <1>2, <1>3, <1>4, <1>5, <1>6, NextIs, GraphKnown, StepIs

-----------------------------------------------------------------------------
(* The first clash of a run, up to the first decision.                       *)

\* A result says the calendar clashed.
Clashing(s) == s.tool_results["event"] = "clash"
NoClash     == \A h \in cache : h.result # "clash"
\* Some step of the plan was called; its event, if there is one, is remembered.
HasCalled(s) == \E k \in called : k[1] = s.plan
Attempted(s) == HasCalled(s) /\ (s.plan \in booking => Cached(Key(s, "event")) # {})

\* Places on the way to the tools, and after them.
Ahead(here, k)  ==
    here \in Unapproved \union {"execute"} \/ (here \in Pausing /\ k \notin {"clash", "output"})
Behind(here, k) ==
    here \in {"compose", "guard", "score", "respond"} \/ (here \in Pausing /\ k = "output")

(* Of an invocation nobody has answered: the first clash stops it, so a clash *)
(* in the cache is one of the plan it is at, and that plan has been called.   *)
Clash(i) ==
    /\ Ahead(pc[i], kind[i]) => NoClash /\ ~Clashing(st[i])
    /\ Behind(pc[i], kind[i]) => NoClash
    /\ PastGate(pc[i], kind[i]) =>
          /\ NoClash \/ Clashing(st[i])
          /\ Clashing(st[i]) => /\ HasCalled(st[i])
                                /\ pc[i] = "event" \/ Cached(Key(st[i], "event")) # {}
    /\ pc[i] \in Pausing /\ kind[i] = "clash" => Clashing(st[i])
    /\ pc[i] = "write" => st[i].tool_results["write"] # "clash"

FirstClash == Fresh => Clash(Runner)

\* At the start nothing was called.
LEMMA InitFirstClash == Init => FirstClash
  BY DEF Init, FirstClash, Clash, NoClash, Clashing, Initial, NoResults, Ahead, Behind,
         PastGate, Pausing, Calls, Invocations

\* Around the graph nothing is claimed.
LEMMA ClashAway ==
  ASSUME NEW i, pc'[i] \notin Inside \union {"start"} PROVE Clash(i)'
  BY DEF Clash, Ahead, Behind, PastGate, Pausing, Unapproved, Inside, Nodes, Calls

\* On the way to the tools, and at them, without a clash.
LEMMA ClashAhead ==
  ASSUME NEW i, NoClash', ~Clashing(st'[i]), Ahead(pc'[i], kind'[i]) \/ pc'[i] = "tools"
  PROVE  Clash(i)'
  BY DEF Clash, Clashing, Ahead, Behind, PastGate, Pausing, Unapproved, Calls

\* After the tools.
LEMMA ClashBehind ==
  ASSUME NEW i, NoClash', Behind(pc'[i], kind'[i])
  PROVE  Clash(i)'
  BY DEF Clash, Ahead, Behind, PastGate, Pausing, Unapproved, Calls

\* A call: its result is new, or was found; of the event there was none before.
LEMMA CallClash ==
  ASSUME IInv, NEW i \in Invocations, Clash(i), CallTool(i)
  PROVE  Clash(i)'
<1>0. LocalType /\ st[i] \in AgentState /\ pc[i] = "tools"
  BY DEF IInv, LocalType, CallTool
<1>1. /\ NoClash \/ Clashing(st[i])
      /\ Clashing(st[i]) => HasCalled(st[i]) /\ Cached(Key(st[i], "event")) # {}
  BY <1>0 DEF Clash, PastGate
<1> DEFINE Made(c, r, here) ==
             /\ c \in Steps(st[i]) /\ st[i].tool_results[c] = "none"
             /\ Work(i, HasResult(st[i], c, r), here)
             /\ \/ here = "tools" /\ (r = "failed" \/ \E h \in cache : r = h.result)
                \/ /\ here = c /\ r \in Results(st[i], c)
                   /\ <<st[i].plan, c, Slot(st[i], c)>> \in called'
             /\ called \subseteq called' /\ cache' = cache
<1>2. \E c, r, here : Made(c, r, here)
  <2>1. PICK c \in Steps(st[i]) :
          /\ st[i].tool_results[c] = "none"
          /\ \/ \E h \in Cached(Key(st[i], c)) :
                   Work(i, HasResult(st[i], c, h.result), "tools") /\ UNCHANGED tools
             \/ Work(i, HasResult(st[i], c, "failed"), "tools") /\ UNCHANGED tools
             \/ /\ \E r \in Results(st[i], c) : Work(i, HasResult(st[i], c, r), c)
                /\ called' = called \union {<<st[i].plan, c, Slot(st[i], c)>>}
                /\ UNCHANGED cache
    BY DEF CallTool
  <2>2. ASSUME NEW h \in Cached(Key(st[i], c)), Work(i, HasResult(st[i], c, h.result), "tools"),
               UNCHANGED tools
        PROVE  Made(c, h.result, "tools")
    BY <2>1, <2>2 DEF tools, Cached
  <2>3. ASSUME Work(i, HasResult(st[i], c, "failed"), "tools"), UNCHANGED tools
        PROVE  Made(c, "failed", "tools")
    BY <2>1, <2>3 DEF tools
  <2>4. ASSUME NEW r \in Results(st[i], c), Work(i, HasResult(st[i], c, r), c), UNCHANGED cache,
               called' = called \union {<<st[i].plan, c, Slot(st[i], c)>>}
        PROVE  Made(c, r, c)
    BY <2>1, <2>4
  <2> HIDE DEF Made
  <2> QED
    BY <2>1, <2>2, <2>3, <2>4
<1>2b. PICK c, r, here : Made(c, r, here)
  BY <1>2
<1>3. /\ pc'[i] = here /\ st'[i] = HasResult(st[i], c, r) /\ c \in Calls
      /\ wording' = wording /\ cache' = cache
  BY <1>0, <1>2b DEF Work, Stay, LocalType, CallTool, plans, Steps, Calls
<1>4. /\ st'[i].plan = st[i].plan /\ st'[i].slot = st[i].slot
      /\ st'[i].tool_results[c] = r
      /\ \A d \in Calls \ {c} : st'[i].tool_results[d] = st[i].tool_results[d]
  BY <1>0, <1>3 DEF HasResult, AgentState
<1>5. NoClash' <=> NoClash
  BY <1>3 DEF NoClash
<1>6. /\ HasCalled(st[i]) => HasCalled(st[i])'
      /\ Cached(Key(st[i], "event")) # {} => (Cached(Key(st[i], "event")) # {})'
  BY <1>2b, <1>3, <1>4 DEF HasCalled, Cached, Key, Slot
<1>7. CASE c = "event"
  <2>1. ~Clashing(st[i]) /\ NoClash
    BY <1>1, <1>2b, <1>7 DEF Clashing
  <2>2. CASE r = "clash"
    <3>1. here = "event"
      BY <1>2b, <1>7, <2>1, <2>2 DEF NoClash, Results
    <3>2. HasCalled(st[i])' /\ Clashing(st[i])'
      BY <1>2b, <1>4, <1>7, <2>2, <3>1 DEF HasCalled, Clashing
    <3> QED
      BY <1>3, <3>1, <3>2 DEF Clash, Ahead, Behind, PastGate, Pausing, Unapproved, Calls
  <2>3. CASE r # "clash"
    <3>1. ~Clashing(st'[i]) /\ NoClash'
      BY <1>4, <1>5, <1>7, <2>1, <2>3 DEF Clashing
    <3> QED
      BY <1>2b, <1>3, <1>7, <3>1
         DEF Clash, Clashing, Ahead, Behind, PastGate, Pausing, Unapproved, Calls
  <2> QED
    BY <2>2, <2>3
<1>8. CASE c = "write"
  <2>1. Clashing(st[i])' <=> Clashing(st[i])
    BY <1>4, <1>8 DEF Clashing, Calls
  <2>2. here = "write" => st'[i].tool_results["write"] # "clash"
    BY <1>2b, <1>4, <1>8 DEF Results
  <2>3. here \in {"tools", "write"}
    BY <1>2b, <1>8
  <2> QED
    BY <1>1, <1>3, <1>5, <1>6, <2>1, <2>2, <2>3
       DEF Clash, Ahead, Behind, PastGate, Pausing, Unapproved, Calls
<1> QED
  BY <1>3, <1>7, <1>8 DEF Calls

\* The result of a call is cached: a clash only where there is one.
LEMMA CacheClash ==
  ASSUME IInv, NEW i \in Invocations, Clash(i), CacheResult(i)
  PROVE  Clash(i)'
<1>0. LocalType /\ pc[i] \in Calls
  BY DEF IInv, CacheResult
<1>1. /\ NoClash \/ Clashing(st[i])
      /\ Clashing(st[i]) =>
            HasCalled(st[i]) /\ (pc[i] = "event" \/ Cached(Key(st[i], "event")) # {})
      /\ pc[i] = "write" => st[i].tool_results["write"] # "clash"
  BY <1>0 DEF Clash, PastGate
<1>2. pc'[i] = "tools" /\ st'[i] = st[i] /\ UNCHANGED <<called, wording>>
  BY <1>0 DEF CacheResult, Work, Stay, LocalType, plans
<1> DEFINE h == [key |-> Key(st[i], pc[i]), result |-> st[i].tool_results[pc[i]]]
<1>3. cache' = (cache \ Cached(Key(st[i], pc[i]))) \union {h}
  BY DEF CacheResult
<1>4. HasCalled(st[i])' <=> HasCalled(st[i])
  BY <1>2 DEF HasCalled
<1>5. h.key = Key(st[i], pc[i]) /\ h.result = st[i].tool_results[pc[i]]
  OBVIOUS
<1> HIDE DEF h
<1>6. CASE pc[i] = "event"
  <2>1. (Cached(Key(st[i], "event")) # {})'
    BY <1>2, <1>3, <1>5, <1>6 DEF Cached, Key, Slot
  <2>2. NoClash' \/ Clashing(st[i])'
    BY <1>1, <1>2, <1>3, <1>5, <1>6 DEF NoClash, Clashing
  <2> QED
    BY <1>1, <1>2, <1>4, <2>1, <2>2
       DEF Clash, Clashing, Ahead, Behind, PastGate, Pausing, Unapproved, Calls
<1>7. CASE pc[i] = "write"
  <2>1. NoClash => NoClash'
    BY <1>1, <1>3, <1>5, <1>7 DEF NoClash
  <2>2. Cached(Key(st[i], "event")) # {} => (Cached(Key(st[i], "event")) # {})'
    <3>1. Key(st[i], "event") # Key(st[i], "write") /\ Key(st[i], "event")' = Key(st[i], "event")
      BY <1>2 DEF Key, Slot
    <3> QED
      BY <1>3, <1>7, <3>1 DEF Cached
  <2> QED
    BY <1>1, <1>2, <1>4, <1>7, <2>1, <2>2
       DEF Clash, Clashing, Ahead, Behind, PastGate, Pausing, Unapproved, Calls
<1> QED
  BY <1>0, <1>6, <1>7 DEF Calls

\* Minting and showing a token go on in the pause, with the same plan and results.
LEMMA PauseSame ==
  ASSUME IInv, NEW i \in Invocations, Mint(i) \/ Show(i)
  PROVE  /\ pc[i] \in Pausing /\ pc'[i] \in {"show", "ask"}
         /\ UNCHANGED <<kind, cache, called, thread>> /\ UNCHANGED plans
         /\ st'[i].plan = st[i].plan /\ st'[i].slot = st[i].slot
         /\ st'[i].tool_results = st[i].tool_results
<1>1. LocalType /\ st[i] \in AgentState
  BY DEF IInv, LocalType
<1>2. \E t : Work(i, [st[i] EXCEPT !.approval_token = t], pc'[i]) \/ Work(i, st[i], pc'[i])
  BY <1>1 DEF Mint, Show, Work, Stay, LocalType
<1>3. PICK t : st'[i] \in {st[i], [st[i] EXCEPT !.approval_token = t]}
  BY <1>1, <1>2 DEF Work, LocalType
<1>4. /\ st'[i].plan = st[i].plan /\ st'[i].slot = st[i].slot
      /\ st'[i].tool_results = st[i].tool_results
  BY <1>1, <1>3 DEF AgentState
<1>5. /\ pc[i] \in Pausing /\ pc'[i] \in {"show", "ask"}
      /\ UNCHANGED <<kind, cache, called, thread>> /\ UNCHANGED plans
  BY <1>1 DEF Mint, Show, Work, Stay, LocalType, Pausing, tools
<1> QED
  BY <1>4, <1>5

\* So they leave the clash of the pause.
LEMMA PauseClash ==
  ASSUME IInv, NEW i \in Invocations, Clash(i), Mint(i) \/ Show(i) PROVE Clash(i)'
<1>1. /\ Clashing(st[i])' <=> Clashing(st[i])
      /\ NoClash' <=> NoClash
      /\ HasCalled(st[i])' <=> HasCalled(st[i])
      /\ Cached(Key(st[i], "event"))' = Cached(Key(st[i], "event"))
  BY PauseSame DEF Clashing, NoClash, HasCalled, Cached, Key, Slot, plans
<1>2. pc[i] \in Pausing /\ pc'[i] \in {"show", "ask"} /\ kind'[i] = kind[i]
  BY PauseSame
<1> QED
  BY <1>1, <1>2 DEF Clash, Ahead, Behind, PastGate, Pausing, Unapproved, Calls

\* The other steps of the graph leave the cache, and come to the tools without a clash.
LEMMA GraphClash ==
  ASSUME IInv, NEW i \in Invocations, ~HasAnswer(i), Clash(i), GraphStep(i)
  PROVE  Clash(i)'
<1>0. LocalType /\ st[i] \in AgentState
  BY DEF IInv, LocalType
<1>1. ASSUME NEW s, NEW next, Commit(i, s, next)
      PROVE  pc'[i] = next /\ st'[i] = s /\ kind'[i] = "none"
  BY <1>0, <1>1 DEF Commit, Stay, LocalType
<1>2. ASSUME NEW s, NEW here, Work(i, s, here) PROVE pc'[i] = here /\ st'[i] = s
  BY <1>0, <1>2 DEF Work, Stay, LocalType
<1>3. ASSUME UNCHANGED cache PROVE NoClash' <=> NoClash
  BY <1>3 DEF NoClash
<1>4. "end" \notin Inside \union {"start"}
  BY DEF Inside, Nodes, Calls
<1>5. ASSUME Fail(i) PROVE Clash(i)'
  BY <1>1, <1>4, <1>5, ClashAway DEF Fail
<1>6. ASSUME NEW k, NEW s, NEW card, Pause(i, k, s, card)
      PROVE  /\ pc'[i] = "mint" /\ kind'[i] = k /\ UNCHANGED <<cache, called, wording>>
             /\ s \in AgentState => /\ st'[i].tool_results = s.tool_results
                                    /\ st'[i].plan = s.plan /\ st'[i].slot = s.slot
  <2>1. PICK d : Work(i, [s EXCEPT !.requires_approval = TRUE, !.draft = d], "mint")
    BY <1>6 DEF Pause
  <2>2. /\ pc'[i] = "mint" /\ kind'[i] = k /\ UNCHANGED <<cache, called, wording>>
        /\ st'[i] = [s EXCEPT !.requires_approval = TRUE, !.draft = d]
    BY <1>0, <1>2, <1>6, <2>1 DEF Pause, tools, plans, LocalType
  <2> QED
    BY <2>2 DEF AgentState
<1>7. CASE Stage(i, "intake", "retrieve") \/ Stage(i, "retrieve", "plan")
  <2>1. PICK e, next : /\ Commit(i, Failing(st[i], e), next) /\ next \in {"retrieve", "plan", "end"}
                       /\ UNCHANGED cache /\ pc[i] \in {"intake", "retrieve"}
    BY <1>7 DEF Stage, Onward, tools
  <2>2. Failing(st[i], e).tool_results = st[i].tool_results
    BY <1>0 DEF Failing, AgentState
  <2>3. NoClash /\ ~Clashing(st[i])
    BY <2>1 DEF Clash, Ahead, Unapproved
  <2>4. NoClash' /\ ~Clashing(st'[i]) /\ pc'[i] = next
    BY <1>1, <1>3, <2>1, <2>2, <2>3 DEF Clashing
  <2> QED
    BY <1>4, <2>1, <2>4, ClashAhead, ClashAway DEF Ahead, Unapproved
<1>8. CASE Plan(i)
  <2>1. CASE Emit(i)
    <3>1. PICK p : Commit(i, [st[i] EXCEPT !.plan = p, !.slot = 0, !.verdict = "none"], "execute")
      BY <2>1 DEF Emit
    <3>2. NoClash /\ ~Clashing(st[i]) /\ UNCHANGED cache
      BY <1>8 DEF Plan, tools, Clash, Ahead, Unapproved
    <3>3. /\ pc'[i] = "execute"
          /\ st'[i] = [st[i] EXCEPT !.plan = p, !.slot = 0, !.verdict = "none"]
      BY <1>1, <3>1
    <3>4. st'[i].tool_results = st[i].tool_results
      BY <1>0, <3>3 DEF AgentState
    <3> QED
      BY <1>3, <3>2, <3>3, <3>4, ClashAhead DEF Ahead, Clashing
  <2> QED
    BY <1>5, <1>8, <2>1 DEF Plan
<1>9. CASE Execute(i)
  <2>1. NoClash /\ ~Clashing(st[i])
    BY <1>9 DEF Execute, Clash, Ahead
  <2>2. CASE Pause(i, "plan", st[i], "card")
    <3>1. NoClash' /\ ~Clashing(st'[i]) /\ Ahead(pc'[i], kind'[i])
      BY <1>0, <1>3, <1>6, <2>1, <2>2 DEF Clashing, Ahead, Pausing
    <3> QED
      BY <3>1, ClashAhead
  <2>3. CASE Work(i, st[i], "tools") /\ UNCHANGED tools
    <3>1. NoClash' /\ ~Clashing(st'[i]) /\ pc'[i] = "tools"
      BY <1>2, <1>3, <2>1, <2>3 DEF Clashing, tools
    <3> QED
      BY <3>1, ClashAhead
  <2> QED
    BY <1>9, <2>2, <2>3 DEF Execute
<1>10. CASE Mint(i) \/ Show(i)
  BY <1>10, PauseClash
<1>17. CASE Ask(i)
  <2>1. pc'[i] = "interrupted"
    BY <1>0, <1>17 DEF Ask, Interrupted, Stay, LocalType
  <2> QED
    BY <2>1, ClashAway DEF Inside, Nodes, Calls
<1>11. CASE FinishTools(i)
  <2>1. /\ NoClash \/ Clashing(st[i])
        /\ Clashing(st[i]) => HasCalled(st[i]) /\ Cached(Key(st[i], "event")) # {}
    BY <1>11 DEF FinishTools, Clash, PastGate
  <2>2. CASE Clashing(st[i]) /\ Pause(i, "clash", st[i], "clash_card")
    <3>1. /\ pc'[i] = "mint" /\ kind'[i] = "clash" /\ UNCHANGED <<cache, called, wording>>
          /\ st'[i].tool_results = st[i].tool_results
          /\ st'[i].plan = st[i].plan /\ st'[i].slot = st[i].slot
      BY <1>0, <1>6, <2>2
    <3>2. /\ HasCalled(st[i])' <=> HasCalled(st[i])
          /\ Cached(Key(st[i], "event"))' = Cached(Key(st[i], "event"))
          /\ Clashing(st[i])'
      BY <2>2, <3>1 DEF HasCalled, Cached, Key, Slot, Clashing
    <3> QED
      BY <2>1, <2>2, <3>1, <3>2 DEF Clash, Ahead, Behind, PastGate, Pausing, Unapproved, Calls
  <2>3. CASE ~Clashing(st[i]) /\ UNCHANGED cache /\ \E s : Commit(i, s, "compose")
    <3>1. NoClash' /\ pc'[i] = "compose"
      BY <1>1, <1>3, <2>1, <2>3
    <3> QED
      BY <3>1, ClashBehind DEF Behind
  <2> QED
    BY <1>11, <2>2, <2>3 DEF FinishTools, Clashing, tools
<1>12. CASE ExecuteFails(i)
  BY <1>5, <1>12 DEF ExecuteFails
<1>13. CASE Compose(i) \/ Respond(i)
  <2>1. NoClash /\ UNCHANGED cache
    BY <1>13 DEF Compose, Respond, Clash, Behind, tools
  <2>2. PICK s, next : Commit(i, s, next) /\ next \in {"guard", "end"}
    BY <1>13 DEF Compose, Respond, Fail
  <2>3. NoClash' /\ pc'[i] \in {"guard", "end"}
    BY <1>1, <1>3, <2>1, <2>2
  <2> QED
    BY <1>4, <2>3, ClashBehind, ClashAway DEF Behind
<1>14. CASE Guard(i)
  <2>1. NoClash /\ UNCHANGED cache
    <3>1. pc[i] = "guard"
      BY <1>14 DEF Guard
    <3> QED
      BY <1>14, <3>1 DEF Guard, Pause, Clash, Behind, tools
  <2>2. \/ pc'[i] = "end"
        \/ pc'[i] = "mint" /\ kind'[i] = "output"
        \/ pc'[i] = "score"
    BY <1>1, <1>2, <1>6, <1>14 DEF Guard
  <2> QED
    BY <1>3, <1>4, <2>1, <2>2, ClashBehind, ClashAway DEF Behind, Pausing
<1>15. CASE Score(i)
  <2>1. NoClash /\ UNCHANGED cache
    BY <1>15 DEF Score, Clash, Behind, tools
  <2>2. PICK x : Commit(i, Decide(st[i], x), AfterGuard(Decide(st[i], x)))
    BY <1>15 DEF Score
  <2>3. pc'[i] = AfterGuard(Decide(st[i], x)) /\ st'[i] = Decide(st[i], x)
    BY <1>1, <2>2
  <2>4. pc'[i] = "plan" => st'[i] = Replanned(st[i])
    <3>1. ASSUME NEW s, s = [st[i] EXCEPT !.verdict = "finalize"] PROVE AfterGuard(s) # "plan"
      BY <1>0, <3>1 DEF AfterGuard, AgentState
    <3>2. ASSUME NEW s, s = [st[i] EXCEPT !.verdict = "block", !.error = "low_confidence_blocked"]
          PROVE  AfterGuard(s) # "plan"
      BY <1>0, <3>2 DEF AfterGuard, AgentState
    <3> QED
      BY <2>3, <3>1, <3>2 DEF Decide
  <2>5. ~Clashing(Replanned(st[i]))
    BY <1>0 DEF Clashing, Replanned, AgentState, NoResults, Calls
  <2>6. pc'[i] \in {"end", "respond", "plan"}
    BY <2>3 DEF AfterGuard
  <2>7. CASE pc'[i] = "plan"
    BY <1>3, <2>1, <2>4, <2>5, <2>7, ClashAhead DEF Ahead, Unapproved
  <2>8. CASE pc'[i] \in {"end", "respond"}
    BY <1>3, <1>4, <2>1, <2>8, ClashBehind, ClashAway DEF Behind
  <2> QED
    BY <2>6, <2>7, <2>8
<1>16. CASE Raise(i)
  <2>1. pc'[i] = "raised"
    BY <1>0, <1>16 DEF Raise, Stay, LocalType
  <2> QED
    BY <2>1, ClashAway DEF Inside, Nodes, Calls
<1> QED
  BY <1>7, <1>8, <1>9, <1>10, <1>11, <1>12, <1>13, <1>14, <1>15, <1>16,
     <1>17, CallClash, CacheClash DEF GraphStep

\* Every step leaves the clash with the run it stops.
LEMMA NextFirstClash == IInv /\ RunnerAsks /\ FirstClash /\ [Next]_vars => FirstClash'
<1> SUFFICES ASSUME IInv, RunnerAsks, FirstClash, [Next]_vars, Fresh' PROVE Clash(Runner)'
  BY DEF FirstClash
<1>1. Fresh /\ Clash(Runner) /\ LocalType /\ Runner \in Invocations
  BY FreshBefore DEF FirstClash, IInv, Invocations
<1>2. ASSUME NEW i \in Invocations, Step(i) PROVE Clash(Runner)'
  <2>1. i = Runner
    BY <1>1, <1>2, StepMoves DEF Fresh, Busy, Invocations
  <2>2. CASE GraphStep(Runner)
    BY <1>1, <2>2, NoAnswerYet, GraphClash
  <2>3. CASE StartRun
    <3>1. /\ pc[Runner] = "start" /\ pc'[Runner] = "intake"
          /\ st'[Runner] = st[Runner] /\ cache' = cache
      BY <1>1, <2>3 DEF StartRun, Commit, Stay, LocalType, tools
    <3>2. NoClash' /\ ~Clashing(st'[Runner])
      BY <1>1, <3>1 DEF Clash, Ahead, Unapproved, NoClash, Clashing
    <3> QED
      BY <3>1, <3>2, ClashAhead DEF Ahead, Unapproved
  <2>4. CASE Park \/ EndOfRun \/ Save(Runner) \/ SaveFails(Runner) \/ Discard(Runner)
    <3>1. pc'[Runner] \in {"parked", "save", "discard", "done", "status"}
      BY <1>1, <2>4 DEF Park, EndOfRun, Save, SaveFails, Discard, DiscardThread, Return, Stay,
           LocalType
    <3> QED
      BY <3>1, ClashAway DEF Inside, Nodes, Calls
  <2> QED
    BY <1>2, <2>1, <2>2, <2>3, <2>4, ConstantsOK DEF Step, RunnerStep
<1>3. ASSUME NEW i \in Submitters, Submit(i) PROVE Clash(Runner)'
  BY <1>1, <1>3 DEF Submit, Stay, LocalType, Fresh, Invocations
<1>4. CASE CacheExpiry \/ Crash
  <2>1. pc'[Runner] \in {"idle", "parked", "done"}
    BY <1>1, <1>4 DEF CacheExpiry, Crash, Busy, local
  <2> QED
    BY <2>1, ClashAway DEF Inside, Nodes, Calls
<1>5. CASE (\E t \in Tokens : Expire(t) \/ AutoReject(t) \/ FreeThread(t)) \/ UNCHANGED vars
  <2>1. UNCHANGED <<pc, kind, st, cache, called, wording>>
    BY <1>5 DEF Expire, AutoReject, FreeThread, DiscardThread, vars, local, tools, plans
  <2> QED
    BY <1>1, <2>1 DEF Clash, NoClash, HasCalled, Cached, Key, Slot
<1> QED
  BY <1>2, <1>3, <1>4, <1>5, NextIs DEF ClockStep

-----------------------------------------------------------------------------
(* What a plan on hold was held for.                                         *)

\* The plan waits for an approval, or for an answer to a clash it met.
Asked(s) == NeedsApproval(s) \/ Attempted(s)

\* The runner works on the plan of the checkpoint and pauses before it for an approval.
RunnerWaits ==
    /\ pc[Runner] = "execute" => st[Runner] = thread.st
    /\ pc[Runner] \in Pausing /\ kind[Runner] \notin {"clash", "output"} =>
          NeedsApproval(thread.st)
    /\ Executing(pc[Runner], kind[Runner]) =>
          thread.st.plan = st[Runner].plan /\ thread.st.slot = st[Runner].slot

AtRest == Idle \/ pc[Runner] = "interrupted" \/ \E i \in Submitters : pc[i] = "resume"
Waits  == AtRest /\ thread.next = "execute" => Asked(thread.st)
\* Until a call of a store has failed that leaves a plan behind.
OnHold == failures = {} => RunnerWaits /\ Waits

\* At the start there is no checkpoint.
LEMMA InitWaits == Init => OnHold
  BY ConstantsOK DEF Init, OnHold, RunnerWaits, Waits, Executing, Pausing, Calls, Gone, Invocations

\* Only the gate pauses for an approval of a plan.
LEMMA ToPlanPause ==
  ASSUME IInv, NEW i \in Invocations, GraphStep(i), pc'[i] = "mint",
         kind'[i] \notin {"clash", "output"}
  PROVE  pc[i] = "execute" /\ NeedsApproval(st[i]) /\ UNCHANGED <<plans, thread>>
<1>1. LocalType
  BY DEF IInv
<1>2. ASSUME NEW k, NEW s, NEW card, Pause(i, k, s, card) PROVE kind'[i] = k
  BY <1>1, <1>2 DEF Pause, LocalType
<1>3. ASSUME NEW s, NEW next \in Nodes \union {"end"}, Commit(i, s, next) PROVE FALSE
  BY <1>1, <1>3 DEF Commit, Stay, LocalType, Nodes
<1>4. ASSUME NEW s, NEW here, Work(i, s, here), here # "mint" PROVE FALSE
  BY <1>1, <1>4 DEF Work, Stay, LocalType
<1>5. Returns(i) => FALSE
  BY <1>3 DEF Returns
<1>6. CASE Execute(i)
  BY <1>4, <1>6 DEF Execute, Pause, Work
<1>7. CASE FinishTools(i) \/ Guard(i)
  BY <1>2, <1>3, <1>4, <1>7 DEF FinishTools, Guard, Nodes
<1>8. CASE CallTool(i) \/ CacheResult(i)
  <2>1. ASSUME NEW s, NEW here, Work(i, s, here) PROVE here = "mint"
    BY <1>4, <2>1
  <2> QED
    BY <1>8, <2>1 DEF CallTool, CacheResult, Steps, Calls
<1>9. CASE Mint(i) \/ Show(i)
  BY <1>9, PauseSame
<1>12. CASE Ask(i)
  <2>1. \/ Interrupted(i)
        \/ \E s : Commit(i, s, "end")
        \/ \E s, here : here \in {"tools", "score"} /\ Proceed(i, s, here)
    BY <1>12 DEF Ask, Reject, Approve, Rebook, Release
  <2> QED
    BY <1>1, <2>1 DEF Interrupted, Commit, Proceed, Stay, LocalType
<1>10. CASE \/ Stage(i, "intake", "retrieve") \/ Stage(i, "retrieve", "plan") \/ Plan(i)
            \/ ExecuteFails(i) \/ Compose(i) \/ Score(i) \/ Respond(i)
  <2>1. PICK s, next : Commit(i, s, next)
    BY <1>10 DEF Stage, Plan, Emit, ExecuteFails, Fail, Compose, Score, Respond
  <2>2. thread'.next = "mint"
    BY <1>1, <2>1 DEF Commit, Stay, LocalType
  <2> QED
    BY <2>2, GraphThread DEF IInv, LocalType, Threads, Nodes
<1>11. CASE Raise(i)
  BY <1>1, <1>11 DEF Raise, Stay, LocalType
<1> QED
  BY <1>6, <1>7, <1>8, <1>9, <1>10, <1>11, <1>12 DEF GraphStep

\* Within a pause only the next of its calls is made.
LEMMA PauseNext ==
  ASSUME IInv, NEW i \in Invocations, GraphStep(i), pc'[i] \in {"show", "ask"}
  PROVE  Mint(i) \/ Show(i)
<1>1. LocalType
  BY DEF IInv
<1>2. ~Ask(i)
  <2>1. ASSUME Ask(i) PROVE FALSE
    <3>1. \/ Interrupted(i)
          \/ \E s : Commit(i, s, "end")
          \/ \E s, here : here \in {"tools", "score"} /\ Proceed(i, s, here)
      BY <2>1 DEF Ask, Reject, Approve, Rebook, Release
    <3> QED
      BY <1>1, <3>1 DEF Interrupted, Commit, Proceed, Stay, LocalType
  <2> QED
    BY <2>1
<1>3. ~ExecuteFails(i) /\ ~Raise(i)
  BY <1>1 DEF ExecuteFails, Fail, Commit, Raise, Stay, LocalType
<1>4. Mint(i) \/ pc[i] \in {"show", "ask"}
  BY PauseOrder
<1> QED
  BY <1>2, <1>3, <1>4
     DEF GraphStep, Stage, Plan, Execute, CallTool, CacheResult, FinishTools, Compose, Guard,
         Score, Respond, Calls

\* A step of the runner in the graph: what it pauses for is what it was asked.
LEMMA RunnerHolds ==
  ASSUME IInv, OneBusy, InStep, RunnerAsks, Clash(Runner), RunnerWaits, GraphStep(Runner)
  PROVE  RunnerWaits' /\ Waits'
<1> DEFINE R == Runner
<1>0. /\ LocalType /\ R \in Invocations /\ pc[R] \in Inside /\ Busy(R) /\ ~HasAnswer(R)
      /\ \A j \in Submitters : pc'[j] = "idle"
  <2>1. R \in Invocations /\ pc[R] \in Inside /\ ~HasAnswer(R) /\ LocalType
    BY GraphMoves, NoAnswerYet DEF Invocations, IInv
  <2>2. Busy(R) /\ Fresh
    BY <2>1 DEF Busy, OneBusy, Inside, Nodes, Calls
  <2>3. Step(R)
    BY DEF Step, RunnerStep
  <2> QED
    BY <2>1, <2>2, <2>3, StepMoves, ConstantsOK DEF Fresh, Invocations
<1>1. /\ pc'[R] \notin {"idle", "parked", "done"}
      /\ Waits' <=> (pc'[R] = "interrupted" /\ thread'.next = "execute" => Asked(thread.st)')
  <2>1. pc'[R] \notin {"idle", "parked", "done"}
    BY <1>0, GraphLeads DEF Inside, Nodes, Calls
  <2>2. AtRest' <=> pc'[R] = "interrupted"
    BY <1>0, <2>1 DEF AtRest, Idle, Busy
  <2> QED
    BY <2>1, <2>2 DEF Waits
<1>2. CASE Returns(R)
  <2>1. PICK s, next : next \in Nodes \union {"end"} /\ Commit(R, s, next)
    BY <1>2 DEF Returns
  <2>2. /\ pc'[R] \in Nodes \union {"end"} /\ thread'.st = st'[R]
    BY <1>0, <2>1 DEF Commit, Stay, LocalType
  <2>3. pc'[R] \notin Pausing \union {"interrupted"}
    BY <2>2 DEF Nodes, Pausing
  <2> QED
    BY <1>1, <2>2, <2>3 DEF RunnerWaits
<1>3. CASE ~Returns(R)
  <2>1. Keeps(R)
    <3>1. ASSUME NEW s, NEW next \in Nodes \union {"end"}, Commit(R, s, next) PROVE FALSE
      BY <1>3, <3>1 DEF Returns
    <3> QED
      BY <1>0, <3>1, GraphKeeps DEF Emit, Nodes
  <2>2. UNCHANGED plans /\ pc'[R] # "execute" /\ st'[R].plan = st[R].plan
    BY <2>1 DEF Keeps
  <2>3. thread'.next = thread.next /\ thread'.st = thread.st
    <3>1. CASE GoesOn(R) \/ Raise(R)
      BY <3>1 DEF GoesOn, Raise
    <3>2. CASE Stops(R)
      BY <1>0, <3>2 DEF Stops, Interrupted, LocalType, Threads
    <3> QED
      BY <1>0, <1>3, <3>1, <3>2, GraphMoves
  <2>4. CASE GoesOn(R)
    <3>1. Executing(pc'[R], kind'[R]) => Executing(pc[R], kind[R])
      <4>1. \A here \in Inside : \A k : NodeAt(here, k) = "execute" <=> Executing(here, k)
        BY DEF NodeAt, Executing, Pausing, Calls
      <4>2. pc'[R] \in Inside /\ NodeAt(pc'[R], kind'[R]) = NodeAt(pc[R], kind[R])
        BY <1>0, <2>4 DEF GoesOn, Stay, LocalType
      <4> QED
        BY <1>0, <4>1, <4>2
    <3>2. Executing(pc[R], kind[R]) => st'[R].slot = st[R].slot
      <4>1. ~(Ask(R) /\ kind[R] = "clash")
        <5>1. ASSUME Ask(R) PROVE pc'[R] = "interrupted"
          BY <1>0, <5>1 DEF Ask, Interrupted, Stay, LocalType
        <5> QED
          BY <1>0, <2>4, <5>1 DEF GoesOn, Stay, LocalType, Inside, Nodes, Calls
      <4> QED
        BY <2>1, <4>1 DEF Keeps
    <3>3. pc'[R] \in Pausing /\ kind'[R] \notin {"clash", "output"} => NeedsApproval(thread.st)'
      <4>1. SUFFICES ASSUME pc'[R] \in Pausing, kind'[R] \notin {"clash", "output"}
                     PROVE  NeedsApproval(thread.st)'
        OBVIOUS
      <4>2. gated' = gated
        BY <2>2 DEF plans
      <4>3. CASE pc'[R] = "mint"
        <5>1. pc[R] = "execute" /\ NeedsApproval(st[R])
          BY <1>0, <4>1, <4>3, ToPlanPause
        <5>2. st[R] = thread.st
          BY <5>1 DEF RunnerWaits
        <5> QED
          BY <2>3, <4>2, <5>1, <5>2 DEF NeedsApproval
      <4>4. CASE pc'[R] \in {"show", "ask"}
        <5>1. pc[R] \in Pausing /\ kind[R] = kind'[R]
          BY <1>0, <4>4, PauseNext, PauseSame
        <5> QED
          BY <2>3, <4>1, <4>2, <5>1 DEF RunnerWaits, NeedsApproval
      <4> QED
        BY <4>1, <4>3, <4>4 DEF Pausing
    <3>4. RunnerWaits'
      BY <2>2, <2>3, <3>1, <3>2, <3>3 DEF RunnerWaits
    <3>5. pc'[R] # "interrupted"
      BY <1>0, <2>4 DEF GoesOn, Stay, LocalType, Inside, Nodes, Calls
    <3> QED
      BY <1>1, <3>4, <3>5
  <2>5. CASE Ask(R) /\ Stops(R)
    <3>1. pc'[R] = "interrupted" /\ pc[R] \in Pausing /\ UNCHANGED tools
      BY <1>0, <2>5 DEF Ask, Stops, Interrupted, Stay, LocalType, Pausing
    <3>2. RunnerWaits'
      BY <3>1, NotExecuting DEF RunnerWaits
    <3>3. SUFFICES ASSUME thread.next = "execute" PROVE Asked(thread.st)'
      BY <1>1, <2>3, <3>2
    <3>4. kind[R] # "output" /\ Executing(pc[R], kind[R])
      <4>1. thread.next = NodeAt(pc[R], kind[R])
        BY <1>0, <3>3 DEF InStep, At
      <4> QED
        BY <3>1, <3>3, <4>1 DEF NodeAt, Executing, Pausing, Calls
    <3>5. CASE kind[R] = "clash"
      <4>1. HasCalled(st[R]) /\ Cached(Key(st[R], "event")) # {}
        BY <3>1, <3>5 DEF Clash, PastGate, Pausing
      <4>2. thread.st.plan = st[R].plan /\ thread.st.slot = st[R].slot
        BY <3>4 DEF RunnerWaits
      <4>3. Attempted(thread.st)
        BY <4>1, <4>2 DEF Attempted, HasCalled, Cached, Key, Slot
      <4> QED
        BY <2>2, <2>3, <3>1, <4>3 DEF Asked, Attempted, HasCalled, Cached, Key, Slot, plans,
            tools
    <3>6. CASE kind[R] # "clash"
      BY <2>2, <2>3, <3>1, <3>4, <3>6 DEF RunnerWaits, Asked, NeedsApproval, plans
    <3> QED
      BY <3>5, <3>6
  <2>6. CASE Raise(R)
    <3>1. pc'[R] = "raised"
      BY <1>0, <2>6 DEF Raise, Stay, LocalType
    <3> QED
      BY <1>1, <3>1, NotExecuting DEF RunnerWaits
  <2> QED
    BY <1>0, <1>3, <2>4, <2>5, <2>6, GraphMoves
<1> QED
  BY <1>2, <1>3

\* Where the runner is not in the graph, and nothing waits, nothing is claimed.
LEMMA NothingWaits ==
  ASSUME ~Busy(Runner)', ~AtRest' \/ thread'.next # "execute" PROVE RunnerWaits' /\ Waits'
<1>1. pc'[Runner] \in {"idle", "parked", "done"}
  BY DEF Busy
<1>2. ~Executing(pc'[Runner], kind'[Runner]) /\ pc'[Runner] \notin Pausing
  BY <1>1, NotExecuting
<1> QED
  BY <1>1, <1>2 DEF RunnerWaits, Waits

\* A step around the graph offers a plan only where the runner held one.
LEMMA AroundWaits ==
  ASSUME IInv, OneBusy, InStep, Waits, NEW i \in Invocations, Step(i), AroundStep(i),
         failures' = {}
  PROVE  RunnerWaits' /\ Waits'
<1>0. LocalType /\ Busy(i) /\ \A j \in Invocations \ {i} : pc'[j] = pc[j] /\ ~Busy(j) /\ ~Busy(j)'
  BY StepAlone DEF IInv
<1>1. /\ Runner \in Invocations /\ Runner \notin Submitters /\ Submitters \subseteq Invocations
      /\ UNCHANGED <<plans, cache, called>>
  BY AroundMoves, ConstantsOK DEF Invocations
<1>2. \A j \in Submitters : pc'[j] = "resume" => j = i
  BY <1>0, <1>1 DEF Busy
<1>3. ASSUME ~Executing(pc'[i], kind'[i]), pc'[i] \notin Pausing \union {"execute"}
      PROVE  RunnerWaits'
  <2>1. CASE i = Runner
    BY <1>3, <2>1 DEF RunnerWaits
  <2>2. CASE i # Runner
    <3>1. pc'[Runner] \in {"idle", "parked", "done"}
      BY <1>0, <1>1, <2>2 DEF Busy
    <3>2. ~Executing(pc'[Runner], kind'[Runner]) /\ pc'[Runner] \notin Pausing
      BY <3>1, NotExecuting
    <3> QED
      BY <3>1, <3>2 DEF RunnerWaits
  <2> QED
    BY <2>1, <2>2
<1>4. ASSUME pc'[i] \in {"intake", "save", "status", "discard", "raised"}
      PROVE  RunnerWaits' /\ Waits'
  <2>1. ~AtRest'
    BY <1>0, <1>1, <1>2, <1>4 DEF AtRest, Idle, Busy
  <2>2. ~Executing(pc'[i], kind'[i])
    BY <1>4, NotExecuting
  <2> QED
    BY <1>3, <1>4, <2>1, <2>2, NotExecuting DEF Waits
<1>5. ASSUME pc'[i] \in {"parked", "done"}, thread'.next # "execute" PROVE RunnerWaits' /\ Waits'
  <2>1. ~Executing(pc'[i], kind'[i])
    BY <1>5, NotExecuting
  <2> QED
    BY <1>3, <1>5, <2>1, NotExecuting DEF Waits
<1>6. CASE i = Runner /\ Park
  <2>1. pc[Runner] = "interrupted" /\ pc'[Runner] = "parked" /\ thread' = thread
    BY <1>0, <1>6 DEF Park, Return, Stay, LocalType
  <2>2. thread.next = "execute" => Asked(thread.st)
    BY <2>1 DEF Waits, AtRest
  <2>3. Asked(thread.st) => Asked(thread.st)'
    BY <1>1, <2>1 DEF Asked, NeedsApproval, Attempted, HasCalled, Cached, Key, Slot, plans
  <2>4. ~Executing(pc'[i], kind'[i])
    BY <1>6, <2>1, NotExecuting
  <2> QED
    BY <1>3, <1>6, <2>1, <2>2, <2>3, <2>4, NotExecuting DEF Waits
<1>7. CASE (i = Runner /\ (StartRun \/ EndOfRun)) \/ Save(i) \/ (i \in Submitters /\ Record(i))
  BY <1>0, <1>4, <1>7 DEF StartRun, Commit, EndOfRun, Save, Record, Stay, LocalType
<1>8. CASE Discard(i)
  BY <1>0, <1>5, <1>8, GoneNext DEF Discard, DiscardThread, Return, Stay, LocalType
<1>11. CASE SaveFails(i)
  BY <1>0, <1>4, <1>11 DEF SaveFails, Stay, LocalType
<1>9. CASE i \in Submitters /\ Resumed(i)
  BY <1>0, <1>4, <1>5, <1>9 DEF Resumed, Return, Stay, LocalType, InStep, At
<1>10. CASE i \in Submitters /\ Resume(i)
  <2>1. pc[i] = "resume"
    BY <1>10 DEF Resume
  <2>2. pc'[i] \in Nodes \union {"end", "raised"}
    BY <1>0, <1>10, <2>1 DEF Resume, Stay, LocalType, Threads
  <2>3. ~AtRest' /\ ~Busy(Runner)'
    BY <1>0, <1>1, <1>2, <1>10, <2>1, <2>2 DEF AtRest, Idle, Busy, Nodes
  <2> QED
    BY <2>3, NothingWaits
<1> QED
  BY <1>6, <1>7, <1>8, <1>9, <1>10, <1>11 DEF AroundStep

\* Every step leaves what waits with its question, while keys and checkpoints are kept.
LEMMA NextWaits ==
  ASSUME OneAtATime, MaxCrashes = 0 \/ ~Durable, ~CacheExpires
  PROVE  IInv /\ OneBusy /\ InStep /\ Turn /\ RunnerAsks /\ FirstClash /\ OnHold
           /\ [Next]_vars => OnHold'
<1> SUFFICES ASSUME IInv, OneBusy, InStep, Turn, RunnerAsks, FirstClash, OnHold,
                    [Next]_vars, failures' = {}
             PROVE  RunnerWaits' /\ Waits'
  BY DEF OnHold
<1>0. /\ LocalType /\ Runner \in Invocations /\ Runner \notin Submitters
      /\ Submitters \subseteq Invocations /\ Tok /\ RunnerWaits /\ Waits
  <2>1. failures = {}
    BY FailuresStay
  <2> QED
    BY <2>1, ConstantsOK DEF IInv, Invocations, Turn, OnHold
<1>1. ASSUME UNCHANGED <<pc, kind, st, plans, cache, called>>,
             thread' = thread \/ (thread' = Gone /\ Idle)
      PROVE  RunnerWaits' /\ Waits'
  <2>1. CASE thread' = thread
    BY <1>0, <1>1, <2>1
       DEF RunnerWaits, Waits, AtRest, Idle, Busy, Asked, NeedsApproval, Attempted, HasCalled,
           Cached, Key, Slot, plans
  <2>2. CASE thread' = Gone /\ Idle
    BY <1>0, <1>1, <2>2, GoneNext, NothingWaits DEF Idle, Busy
  <2> QED
    BY <1>1, <2>1, <2>2
<1>2. ASSUME NEW i \in Invocations, Step(i) PROVE RunnerWaits' /\ Waits'
  <2>1. CASE i = Runner /\ GraphStep(i)
    <3>1. Busy(Runner)
      BY <1>0, <1>2, <2>1, StepAlone
    <3>2. Clash(Runner)
      BY <3>1 DEF OneBusy, FirstClash
    <3> QED
      BY <1>0, <2>1, <3>2, RunnerHolds
  <2>2. CASE i # Runner /\ GraphStep(i)
    <3>1. /\ ~Busy(Runner)' /\ \A j \in Submitters \ {i} : pc'[j] # "resume"
      BY <1>0, <1>2, <2>2, StepAlone DEF Busy
    <3>2. pc'[i] \notin {"idle", "parked", "done", "resume"}
      BY <2>2, GraphLeads DEF Inside, Nodes, Calls
    <3>3. ~AtRest'
      BY <1>0, <3>1, <3>2 DEF AtRest, Idle, Busy
    <3> QED
      BY <3>1, <3>3, NothingWaits
  <2>3. CASE AroundStep(i)
    BY <1>0, <1>2, <2>3, AroundWaits
  <2> QED
    BY <1>2, <2>1, <2>2, <2>3, StepIs
<1>3. ASSUME NEW i \in Submitters, Submit(i) PROVE RunnerWaits' /\ Waits'
  <2>1. Idle /\ UNCHANGED <<thread, plans, cache, called>> /\ ~Busy(Runner)'
    BY <1>0, <1>3, SubmitAlone DEF Submit, tools
  <2>2. thread.next = "execute" => Asked(thread.st)'
    BY <1>0, <2>1 DEF Waits, AtRest, Asked, NeedsApproval, Attempted, HasCalled, Cached, Key,
                      Slot, plans
  <2>3. pc'[Runner] \in {"idle", "parked", "done"}
    BY <2>1 DEF Busy
  <2>4. ~Executing(pc'[Runner], kind'[Runner]) /\ pc'[Runner] \notin Pausing
    BY <2>3, NotExecuting
  <2> QED
    BY <2>1, <2>2, <2>3, <2>4 DEF RunnerWaits, Waits
<1>4. CASE ClockStep
  <2>1. ~CacheExpiry
    BY DEF CacheExpiry
  <2>2. PICK t \in Tokens : Expire(t) \/ AutoReject(t) \/ FreeThread(t)
    BY <1>4, <2>1 DEF ClockStep
  <2>3. CASE Expire(t) \/ AutoReject(t)
    BY <1>1, <2>3 DEF Expire, AutoReject, local, tools
  <2>4. CASE FreeThread(t)
    <3>1. freeing # {}
      BY <2>4 DEF FreeThread
    <3>2. Idle
      BY <1>0, <3>1 DEF Tok, Idle
    <3> QED
      BY <1>1, <2>4, <3>2 DEF FreeThread, DiscardThread, local, tools
  <2> QED
    BY <2>2, <2>3, <2>4
<1>5. CASE Crash
  <2>1. ~Durable
    BY <1>5, Bounds DEF Crash, IInv, SharedType
  <2>2. thread' = Gone /\ ~Busy(Runner)'
    BY <1>0, <1>5, <2>1, CrashIdle DEF Crash, Idle
  <2> QED
    BY <2>2, GoneNext, NothingWaits
<1>6. CASE UNCHANGED vars
  BY <1>1, <1>6 DEF vars, local, tools
<1> QED
  BY <1>2, <1>3, <1>4, <1>5, <1>6, NextIs

-----------------------------------------------------------------------------
(* Who works on a refused plan was told so.                                  *)

(* A handler that works on a refused plan carries the refusal, and meets a    *)
(* pause where it is taken: at the gate, or at a clash it can only find in    *)
(* the cache.                                                                 *)
Obeys(i) ==
    /\ pc[i] = "resume" /\ thread.next = "execute" /\ thread.st.plan \in refused =>
          dec[i] = "reject"
    /\ Executing(pc[i], kind[i]) /\ st[i].plan \in refused =>
          /\ resume[i] = "reject" /\ answers[i] = <<>>
          /\ pc[i] = "execute" => Asked(st[i])
          /\ PastGate(pc[i], kind[i]) => Attempted(st[i])
Obeying ==
    /\ Fresh => refused = {}
    /\ failures = {} => \A i \in Submitters : Obeys(i)

\* At the start nothing is refused.
LEMMA InitObeying == Init => Obeying
  BY DEF Init, Obeying, Obeys

\* What was attempted stays attempted, while no key expires.
LEMMA StillAttempted ==
  ASSUME IInv, NEW i \in Invocations, GraphStep(i), Keeps(i), st'[i].slot = st[i].slot,
         Attempted(st[i])
  PROVE  Attempted(st[i])'
<1>1. UNCHANGED <<wording, booking>> /\ st'[i].plan = st[i].plan
  BY DEF Keeps, plans
<1>2. called \subseteq called' /\ \A k : Cached(k) # {} => Cached(k)' # {}
  <2>1. CASE CallTool(i)
    BY <2>1 DEF CallTool, Cached, tools
  <2>2. CASE CacheResult(i)
    <3>1. called' = called /\ pc[i] \in Calls
      BY <2>2 DEF CacheResult
    <3> DEFINE h == [key |-> Key(st[i], pc[i]), result |-> st[i].tool_results[pc[i]]]
    <3>2. cache' = (cache \ Cached(h.key)) \union {h}
      BY <2>2 DEF CacheResult
    <3> HIDE DEF h
    <3>3. ASSUME NEW k, Cached(k) # {} PROVE Cached(k)' # {}
      <4>1. CASE k = h.key
        BY <3>2, <4>1 DEF Cached
      <4>2. CASE k # h.key
        BY <3>2, <3>3, <4>2 DEF Cached
      <4> QED
        BY <4>1, <4>2
    <3> QED
      BY <3>1, <3>3
  <2>3. CASE ~CallTool(i) /\ ~CacheResult(i)
    BY <2>3, GraphCalls DEF tools, Cached
  <2> QED
    BY <2>1, <2>2, <2>3
<1>3. Key(st[i], "event")' = Key(st[i], "event")
  BY <1>1 DEF Key, Slot
<1> QED
  BY <1>1, <1>2, <1>3 DEF Attempted, HasCalled

\* A handler in the graph: a new plan is not refused, and a refused one is not gone on with.
LEMMA GraphObeys ==
  ASSUME IInv, Known, NEW i \in Submitters, Obeys(i), GraphStep(i)
  PROVE  Obeys(i)' /\ refused' = refused
<1>0. /\ LocalType /\ i \in Invocations /\ pc[i] \in Inside /\ planned \in Nat
      /\ \A p \in refused : p \in Nat
  <2>1. i \in Invocations /\ LocalType
    BY DEF Invocations, IInv
  <2>2. planned \in Nat /\ \A p \in refused : p \in Nat
    BY Bounds DEF IInv, SharedType
  <2> QED
    BY <2>1, <2>2, GraphMoves
<1>1. refused' = refused
  BY <1>0, GraphTokens
<1>2. pc'[i] # "resume"
  BY <1>0, GraphLeads DEF Inside, Nodes, Calls
<1>3. SUFFICES ASSUME Executing(pc'[i], kind'[i]), st'[i].plan \in refused
               PROVE  /\ resume'[i] = "reject" /\ answers'[i] = <<>>
                      /\ pc'[i] # "execute"
                      /\ PastGate(pc'[i], kind'[i]) => Attempted(st[i])'
  BY <1>1, <1>2 DEF Obeys
<1>4. ~Emit(i)
  <2>1. ASSUME Emit(i) PROVE FALSE
    <3>1. PICK next :
             Commit(i, [st[i] EXCEPT !.plan = planned + 1, !.slot = 0, !.verdict = "none"], next)
      BY <2>1 DEF Emit
    <3>2. st'[i] = [st[i] EXCEPT !.plan = planned + 1, !.slot = 0, !.verdict = "none"]
      BY <1>0, <3>1 DEF Commit, LocalType
    <3>3. st'[i].plan = planned + 1
      BY <1>0, <3>2 DEF LocalType, AgentState
    <3> QED
      BY <1>0, <1>3, <3>3 DEF Known
  <2> QED
    BY <2>1
<1>5. pc'[i] # "execute" /\ Keeps(i)
  <2>1. ASSUME NEW s, NEW next \in {"plan", "end"}, Commit(i, s, next) PROVE FALSE
    <3>1. pc'[i] = next
      BY <1>0, <2>1 DEF Commit, Stay, LocalType
    <3> QED
      BY <1>3, <3>1, NotExecuting
  <2>2. Keeps(i)
    BY <1>0, <1>4, <2>1, GraphKeeps
  <2> QED
    BY <2>2 DEF Keeps
<1>6. GoesOn(i)
  <2>1. ~Returns(i)
    <3>1. ASSUME NEW s, NEW next \in Nodes \union {"end"}, Commit(i, s, next) PROVE FALSE
      <4>1. pc'[i] = next /\ next # "execute"
        BY <1>0, <1>5, <3>1 DEF Commit, Stay, LocalType
      <4> QED
        BY <1>3, <4>1, NotExecuting DEF Nodes
    <3> QED
      BY <3>1 DEF Returns
  <2>2. ~Stops(i) /\ ~Raise(i)
    <3>1. ASSUME Stops(i) \/ Raise(i) PROVE FALSE
      <4>1. pc'[i] \in {"interrupted", "raised"}
        BY <1>0, <3>1 DEF Stops, Interrupted, Raise, Stay, LocalType
      <4> QED
        BY <1>3, <4>1, NotExecuting
    <3> QED
      BY <3>1
  <2> QED
    BY <1>0, <2>1, <2>2, GraphMoves
<1>7. Executing(pc[i], kind[i]) /\ st[i].plan \in refused
  <2>1. \A here \in Inside : \A k : NodeAt(here, k) = "execute" <=> Executing(here, k)
    BY DEF NodeAt, Executing, Pausing, Calls
  <2>2. pc'[i] \in Inside /\ NodeAt(pc'[i], kind'[i]) = NodeAt(pc[i], kind[i])
    BY <1>0, <1>6 DEF GoesOn, Stay, LocalType
  <2> QED
    BY <1>0, <1>3, <1>5, <2>1, <2>2 DEF Keeps
<1>8. /\ resume[i] = "reject" /\ answers[i] = <<>>
      /\ pc[i] = "execute" => Asked(st[i])
      /\ PastGate(pc[i], kind[i]) => Attempted(st[i])
  BY <1>7 DEF Obeys
<1>9. ~Ask(i)
  <2>1. ASSUME Ask(i) PROVE FALSE
    <3>1. HasAnswer(i) /\ Refuses(Answer(i))
      BY <1>0, <1>8 DEF HasAnswer, Answer, Replaying, Refuses, LocalType
    <3>2. \E s : Reject(i, s)
      BY <2>1, <3>1 DEF Ask
    <3>3. pc'[i] = "end"
      BY <1>0, <3>2 DEF Reject, Commit, Stay, LocalType
    <3> QED
      BY <1>3, <3>3, NotExecuting
  <2> QED
    BY <2>1
<1>10. Execute(i) \/ Mint(i) \/ Show(i) \/ CallTool(i) \/ CacheResult(i) \/ FinishTools(i)
  <2>1. pc[i] \in {"execute", "tools"} \union Pausing \union Calls
    BY <1>7 DEF Executing
  <2>2. pc'[i] \notin {"end", "raised"}
    BY <1>3, NotExecuting
  <2>3. ~ExecuteFails(i) /\ ~Raise(i)
    BY <1>0, <2>2 DEF ExecuteFails, Fail, Raise, Commit, Stay, LocalType
  <2> QED
    BY <1>9, <2>1, <2>3
       DEF GraphStep, Stage, Plan, Compose, Guard, Score, Respond, Pausing, Calls
<1>11. resume'[i] = resume[i] /\ answers'[i] = answers[i] /\ st'[i].slot = st[i].slot
  <2>1. ASSUME NEW s, Commit(i, s, "compose") PROVE FALSE
    <3>1. pc'[i] = "compose"
      BY <1>0, <2>1 DEF Commit, Stay, LocalType
    <3> QED
      BY <1>3, <3>1, NotExecuting
  <2>2. UNCHANGED <<resume, answers>>
    BY <1>10, <2>1 DEF Execute, Mint, Show, CallTool, CacheResult, FinishTools, Pause, Work
  <2> QED
    BY <1>5, <1>9, <2>2 DEF Keeps
<1>12. PastGate(pc'[i], kind'[i]) => Attempted(st[i])
  <2>1. CASE PastGate(pc[i], kind[i])
    BY <1>8, <2>1
  <2>4. CASE Mint(i) \/ Show(i)
    <3>1. pc[i] \in Pausing /\ pc'[i] \in {"show", "ask"} /\ kind'[i] = kind[i]
      BY <1>0, <2>4, PauseSame
    <3> QED
      BY <1>8, <3>1 DEF PastGate, Calls
  <2>2. CASE ~PastGate(pc[i], kind[i]) /\ ~Mint(i) /\ ~Show(i)
    <3>1. pc[i] \notin {"tools"} \union Calls
      BY <2>2 DEF PastGate
    <3>2. Execute(i) /\ pc[i] = "execute"
      BY <1>10, <2>2, <3>1 DEF Execute, CallTool, CacheResult, FinishTools
    <3>3. CASE NeedsApproval(st[i]) /\ Pause(i, "plan", st[i], "card")
      <4>1. pc'[i] = "mint" /\ kind'[i] = "plan"
        BY <1>0, <3>3 DEF Pause, Work, Stay, LocalType
      <4> QED
        BY <4>1 DEF PastGate, Pausing, Calls
    <3>4. CASE ~NeedsApproval(st[i])
      BY <1>8, <3>2, <3>4 DEF Asked
    <3> QED
      BY <3>2, <3>3, <3>4 DEF Execute
  <2> QED
    BY <2>1, <2>2, <2>4
<1> QED
  BY <1>0, <1>5, <1>8, <1>11, <1>12, StillAttempted

\* A step is of one handler; the others are at nothing.
LEMMA ObeyMoves ==
  ASSUME IInv, OneBusy, Obeying, NEW i \in Invocations, Step(i), refused' = refused,
         failures' = {} /\ i \in Submitters => Obeys(i)'
  PROVE  Obeying'
<1>1. /\ Submitters \subseteq Invocations
      /\ \A j \in Invocations \ {i} : pc'[j] = pc[j] /\ ~Busy(j)'
      /\ pc'[i] # "idle"
  BY StepAlone DEF Invocations
<1>2. \A j \in Submitters \ {i} : pc'[j] \in {"idle", "parked", "done"}
  BY <1>1 DEF Busy
<1>3. \A j \in Submitters \ {i} : Obeys(j)'
  BY <1>2, NotExecuting DEF Obeys
<1>4. Fresh' => Fresh
  BY <1>1 DEF Fresh
<1> QED
  BY <1>3, <1>4 DEF Obeying

\* A step around the graph: a replay starts with the answer that was submitted.
LEMMA AroundObeys ==
  ASSUME IInv, OneBusy, NoAnswersLeft, Waits, NEW i \in Submitters, Obeys(i),
         Step(i), AroundStep(i), failures = {}
  PROVE  Obeys(i)'
<1>0. /\ LocalType /\ i \in Invocations /\ i # Runner
      /\ UNCHANGED <<dec, refused, cache, called>> /\ UNCHANGED plans
  BY AroundMoves, ConstantsOK DEF IInv, Invocations
<1>1. ASSUME pc'[i] \in {"save", "status", "discard", "done", "raised"} PROVE Obeys(i)'
  BY <1>1, NotExecuting DEF Obeys
<1>2. CASE Save(i) \/ SaveFails(i) \/ Discard(i) \/ Resumed(i) \/ Record(i)
  BY <1>0, <1>1, <1>2
     DEF Save, SaveFails, Discard, DiscardThread, Resumed, Record, Return, Stay, LocalType
<1>3. CASE Resume(i)
  <2>1. pc[i] = "resume" /\ AtRest
    BY <1>3 DEF Resume, AtRest
  <2>2. CASE thread.next # "execute"
    <3>1. pc'[i] \in (Nodes \ {"execute"}) \union {"end", "raised"}
      BY <1>0, <1>3, <2>2 DEF Resume, Stay, LocalType, Threads
    <3>2. pc'[i] # "resume" /\ ~Executing(pc'[i], kind'[i])
      BY <3>1, NotExecuting DEF Nodes
    <3> QED
      BY <3>2 DEF Obeys
  <2>4. CASE thread.next = "execute"
    <3>6. /\ pc'[i] = "execute" /\ st'[i] = thread.st /\ answers'[i] = thread.answers
          /\ resume'[i] = dec[i]
      BY <1>0, <1>3, <2>4 DEF Resume, Stay, LocalType
    <3>1. \A j \in Submitters : pc[j] \notin Leaving
      <4>1. \A j \in Invocations \ {i} : ~Busy(j)
        BY <1>0, StepAlone
      <4> QED
        BY <2>1, <4>1 DEF Busy, Invocations, Leaving
    <3>2. thread.answers = <<>>
      BY <3>1 DEF NoAnswersLeft
    <3>3. Asked(thread.st)
      BY <2>1, <2>4 DEF Waits
    <3>4. thread.st.plan \in refused => dec[i] = "reject"
      BY <2>1, <2>4 DEF Obeys
    <3>5. Asked(st[i])'
      BY <1>0, <3>3, <3>6 DEF Asked, NeedsApproval, Attempted, HasCalled, Cached, Key, Slot,
          plans
    <3> QED
      BY <1>0, <2>4, <3>2, <3>4, <3>5, <3>6 DEF Obeys, PastGate, Pausing, Calls
  <2> QED
    BY <2>2, <2>4
<1> QED
  BY <1>0, <1>2, <1>3 DEF AroundStep

\* Every step: who works on a refused plan was told so.
LEMMA NextObeying ==
  ASSUME OneAtATime, MaxCrashes = 0 \/ ~Durable, ~CacheExpires
  PROVE  IInv /\ OneBusy /\ Known /\ NoAnswersLeft /\ OnHold /\ Shown /\ Obeying
           /\ [Next]_vars => Obeying'
<1> SUFFICES ASSUME IInv, OneBusy, Known, NoAnswersLeft, OnHold, Shown, Obeying, [Next]_vars
             PROVE  Obeying'
  OBVIOUS
<1>7. failures' = {} => failures = {} /\ Waits
  BY FailuresStay DEF OnHold
<1>0. LocalType /\ Runner \notin Submitters /\ Submitters \subseteq Invocations
  BY ConstantsOK DEF IInv, Invocations
<1>1. ASSUME NEW i \in Invocations, Step(i) PROVE Obeying'
  <2>1. refused' = refused
    BY <1>1, GraphTokens, AroundMoves, StepIs
  <2>2. ASSUME i \in Submitters, failures' = {} PROVE Obeys(i)'
    <3>1. Obeys(i)
      BY <1>7, <2>2 DEF Obeying
    <3> QED
      BY <1>1, <1>7, <2>2, <3>1, GraphObeys, AroundObeys, StepIs
  <2> QED
    BY <1>1, <2>1, <2>2, ObeyMoves
<1>2. ASSUME NEW i \in Submitters, Submit(i) PROVE Obeying'
  <2>1. /\ Idle /\ pc'[i] = "resume" /\ thread' = thread
        /\ \A j \in Submitters \ {i} : pc'[j] = pc[j] /\ ~Busy(j)
    BY <1>0, <1>2, SubmitAlone DEF Submit
  <2>2. failures' = {} /\ thread.next = "execute" /\ thread.st.plan \in refused' =>
           dec'[i] = "reject"
    <3>1. thread.next = "execute" => row.plan = thread.st.plan
      <4>1. ~Lost
        BY <1>2 DEF Submit, Lost, Minted
      <4> QED
        BY <2>1, <4>1 DEF Shown, Showing
    <3>2. row.plan \in refused' => dec'[i] = "reject"
      BY <1>2 DEF Submit, IInv, SharedType
    <3> QED
      BY <3>1, <3>2
  <2>3. failures' = {} => Obeys(i)'
    BY <2>1, <2>2, NotExecuting DEF Obeys
  <2>4. ASSUME NEW j \in Submitters \ {i} PROVE Obeys(j)'
    <3>1. pc'[j] \in {"idle", "parked", "done"}
      BY <2>1, <2>4 DEF Busy
    <3> QED
      BY <3>1, NotExecuting DEF Obeys
  <2>5. ~Fresh'
    BY <2>1 DEF Fresh
  <2> QED
    BY <2>3, <2>4, <2>5 DEF Obeying
<1>3. ASSUME UNCHANGED <<local, dec, plans, cache, called, refused>>, thread' \in {thread, Gone}
      PROVE  Obeying'
  <2>1. Fresh' = Fresh
    BY <1>3 DEF local, Fresh
  <2>2. ASSUME NEW i \in Submitters, failures' = {} PROVE Obeys(i)'
    <3>1. UNCHANGED <<pc, st, kind, resume, answers, planned, gated, booking, wording>>
      BY <1>3 DEF local, plans
    <3>2. Asked(st[i])' = Asked(st[i]) /\ Attempted(st[i])' = Attempted(st[i])
      BY <1>3, <3>1 DEF Asked, NeedsApproval, Attempted, HasCalled, Cached, Key, Slot
    <3>3. Obeys(i)
      BY <1>7, <2>2 DEF Obeying
    <3> QED
      BY <1>3, <3>1, <3>2, <3>3, GoneNext DEF Obeys
  <2> QED
    BY <1>3, <2>1, <2>2 DEF Obeying
<1>4. CASE ClockStep
  <2>1. PICK t \in Tokens : Expire(t) \/ AutoReject(t) \/ FreeThread(t)
    BY <1>4 DEF ClockStep, CacheExpiry
  <2> QED
    BY <1>3, <2>1 DEF Expire, AutoReject, FreeThread, DiscardThread, request, tools, ghosts
<1>5. CASE Crash
  <2>1. Fresh' => Fresh
    BY FreshBefore
  <2>2. refused' = refused
    BY <1>5 DEF Crash, ghosts
  <2>3. ASSUME NEW j \in Submitters PROVE Obeys(j)'
    <3>1. pc'[j] \in {"idle", "parked", "done"}
      BY <1>0, <1>5, <2>3, CrashIdle DEF Idle, Busy
    <3> QED
      BY <3>1, NotExecuting DEF Obeys
  <2> QED
    BY <2>1, <2>2, <2>3 DEF Obeying
<1>6. CASE UNCHANGED vars
  BY <1>3, <1>6 DEF vars, request, tools, ghosts
<1> QED
  BY <1>1, <1>2, <1>4, <1>5, <1>6, NextIs

\* All of it together is inductive.
LEMMA RefusalHolds ==
  ASSUME OneAtATime, MaxCrashes = 0 \/ ~Durable, ~CacheExpires PROVE Spec => []Obeying
<1>1. IInv /\ RunnerAsks /\ NoAnswersLeft /\ [Next]_vars => NoAnswersLeft'
  BY NextAnswersLeft
<1>2. IInv /\ RunnerAsks /\ FirstClash /\ [Next]_vars => FirstClash'
  BY NextFirstClash
<1>3. IInv /\ OneBusy /\ InStep /\ Turn /\ RunnerAsks /\ FirstClash /\ OnHold
        /\ [Next]_vars => OnHold'
  BY NextWaits
<1>4. IInv /\ OneBusy /\ Known /\ NoAnswersLeft /\ OnHold /\ Shown /\ Obeying
        /\ [Next]_vars => Obeying'
  BY NextObeying
<1>5. IInv /\ Known /\ [Next]_vars => Known'
  BY NextKnown
<1>6. Spec => []InStep /\ []Turn
  BY InStepKept, TurnKept, PTL
<1>7. Spec => []RunnerAsks
  BY InitAsks, NextAsks, Invariance, PTL DEF Spec
<1>8. Spec => []Shown
  BY ShownKept
<1> QED
  BY <1>1, <1>2, <1>3, <1>4, <1>5, <1>6, <1>7, <1>8, InitAnswersLeft, InitFirstClash, InitWaits,
     InitObeying, InitKnown, OneBusyKept, Invariance, PTL DEF Spec

\* A call of a refused plan: its event was tried before, and another step of it was called.
LEMMA RefusedCall ==
  ASSUME IInv, OneBusy, Obeying, failures = {}, [Next]_vars, NEW i \in Invocations,
         pc[i] = "tools", pc'[i] \in Calls, st[i].plan \in refused
  PROVE  pc'[i] # "event" /\ HasCalled(st[i])
<1>0. LocalType /\ Busy(i)
  BY DEF IInv, Busy
<1>1. Step(i)
  <2>1. pc'[i] # pc[i] /\ pc'[i] \notin {"done", "resume"}
    BY DEF Calls
  <2>2. ASSUME NEW j \in Invocations, Step(j) PROVE j = i
    BY <2>1, <2>2, StepAlone
  <2>3. ASSUME NEW j \in Submitters, Submit(j) PROVE FALSE
    BY <1>0, <2>1, <2>3 DEF Submit, Stay, LocalType
  <2>4. ~ClockStep /\ ~Crash /\ ~UNCHANGED vars
    BY <1>0, <2>1 DEF ClockStep, CacheExpiry, Expire, AutoReject, FreeThread, DiscardThread,
         Crash, vars, local
  <2> QED
    BY <2>2, <2>3, <2>4, NextIs
<1>2. GraphStep(i)
  BY <1>1, StepIs, AroundMoves DEF Nodes, Calls
<1>3. CallTool(i)
  <2>1. pc'[i] \notin {"mint", "compose", "end", "tools", "raised"}
    BY DEF Calls
  <2>2. ~FinishTools(i) /\ ~ExecuteFails(i) /\ ~Raise(i)
    BY <1>0, <2>1 DEF FinishTools, Pause, Work, ExecuteFails, Fail, Commit, Raise, Stay,
        LocalType
  <2> QED
    BY <1>2, <2>2 DEF GraphStep, Stage, Plan, Execute, Mint, Show, Ask, CacheResult, Compose,
                      Guard, Score, Respond, Calls
<1>4. PICK c \in Steps(st[i]) : pc'[i] = c /\ Cached(Key(st[i], c)) = {}
  <2>1. ASSUME NEW s, NEW here, Work(i, s, here) PROVE pc'[i] = here
    BY <1>0, <2>1 DEF Work, Stay, LocalType
  <2>2. "tools" \notin Calls
    BY DEF Calls
  <2> QED
    BY <1>3, <2>1, <2>2 DEF CallTool
<1>5. i \in Submitters
  <2>1. refused # {}
    OBVIOUS
  <2>2. ~Fresh
    BY <2>1 DEF Obeying
  <2> QED
    BY <1>0, <2>2 DEF OneBusy, Invocations
<1>6. Attempted(st[i])
  BY <1>5 DEF Obeying, Obeys, Executing, PastGate
<1>7. ASSUME c = "event" PROVE FALSE
  BY <1>4, <1>6, <1>7 DEF Steps, Attempted
<1> QED
  BY <1>4, <1>6, <1>7 DEF Attempted

(* After "reject" the rejected booking is not attempted again, and a plan     *)
(* that had called nothing never will: over a rejection taken at the gate, at *)
(* a clash, or in a replay that carries it past one, as long as decisions     *)
(* come one after the other, the cache outlives the pause, no call after      *)
(* create_approval fails, and no checkpoint survives a restart half way.      *)
THEOREM RefusalsAreKept ==
  ASSUME OneAtATime, MaxCrashes = 0 \/ ~Durable, ~CacheExpires PROVE Spec => RefusalIsRespected
<1>1. IInv /\ OneBusy /\ Obeying /\ [Next]_vars =>
        [\A i \in Invocations :
            failures = {} /\ pc[i] = "tools" /\ pc'[i] \in Calls /\ st[i].plan \in refused =>
                pc'[i] # "event" /\ \E k \in called : k[1] = st[i].plan]_vars
  BY RefusedCall DEF HasCalled
<1> QED
  BY <1>1, RefusalHolds, OneBusyKept, Invariance, PTL DEF Spec, RefusalIsRespected
==============================================================================
