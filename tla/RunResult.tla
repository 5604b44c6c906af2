------------------------------ MODULE RunResult ------------------------------
(***************************************************************************)
(* What GET /v1/invoke/result tells of a run: _load_result reads the plans *)
(* row and the phase key of Redis, which the background task, the nodes of *)
(* the graph and the approval handler write at different moments, and      *)
(* which expire, fail to be written or stop being written when the process *)
(* dies.  The graph itself is that of WorkflowRun, reduced to what it      *)
(* leaves in the row.                                                      *)
(***************************************************************************)
EXTENDS Naturals

CONSTANTS
    MaxRetries,   \* guard.MAX_RETRIES
    MaxCrashes,   \* bound: process restarts
    MaxFailures,  \* bound: writes to the database that raise
    MaxDecisions  \* bound: approval decisions

ASSUME BoundsOK == {MaxRetries, MaxCrashes, MaxFailures, MaxDecisions} \subseteq Nat

Flags == [draft: BOOLEAN, error: BOOLEAN, verdict: BOOLEAN]
Empty == [draft |-> FALSE, error |-> FALSE, verdict |-> FALSE]
Nodes == {"plan", "execute", "compose", "guard", "respond"}

VARIABLES
    at,        \* the node being worked on, "final", "label", "paused", "over", "lost"
    worker,    \* "task", or an approval handler: "answering" in the node it resumed, "handler"
    state,     \* the worker's AgentState: which terminal signals it carries
    thread,    \* the checkpoint: the next node, "final" for END, and its input
    row,       \* the plans row: the empty set, or the one state saved last
    phase,     \* the phase key of Redis: "none", "working", "done"
    retries, crashes, failures, decisions
vars == <<at, worker, state, thread, row, phase, retries, crashes, failures, decisions>>
counters == <<retries, crashes, failures, decisions>>

Working == at \in Nodes \union {"final", "label"}

TypeOK ==
    /\ at \in Nodes \union {"final", "label", "paused", "over", "lost"}
    /\ worker \in {"task", "answering", "handler"} /\ state \in Flags
    /\ thread \in [node: Nodes \union {"final"}, state: Flags]
    /\ row \in {{}} \union {{s} : s \in Flags}
    /\ phase \in {"none", "working", "done"}
    /\ retries \in 0..MaxRetries /\ crashes \in 0..MaxCrashes
    /\ failures \in 0..MaxFailures /\ decisions \in 0..MaxDecisions

\* invoke has set the phase and spawned the background task.
Init ==
    /\ at = "plan" /\ worker = "task" /\ state = Empty
    /\ thread = [node |-> "plan", state |-> Empty]
    /\ row = {} /\ phase = "working"
    /\ retries = 0 /\ crashes = 0 /\ failures = 0 /\ decisions = 0

Terminal(s) == s.draft \/ s.error \/ s.verdict
\* Mutant of LoadResult: no reconciliation.
LoadRowOnly == IF \E s \in row : Terminal(s) THEN "done" ELSE "pending"
\* _load_result: a terminal signal in the row decides, else the phase key.
LoadResult ==
    IF row = {} THEN "pending"
    ELSE IF \E s \in row : Terminal(s) THEN "done"
    ELSE IF phase = "none" THEN "failed" ELSE "pending"

-----------------------------------------------------------------------------
(* The nodes.                                                                *)

Failed(s)  == [s EXCEPT !.error = TRUE]
Drafted(s) == [s EXCEPT !.draft = TRUE]

(* The node returned s; a state with an error goes to END.  The stream of    *)
(* the background task sets the phase; a handler's ainvoke sets none.        *)
Commit(s, next) ==
    LET there == IF s.error THEN "final" ELSE next IN
    /\ state' = s /\ at' = there /\ thread' = [node |-> there, state |-> s]
    /\ worker' = IF worker = "task" THEN "task" ELSE "handler"
    /\ phase' = IF worker = "task" THEN "working" ELSE phase

\* save_plan of s in a node: the row is written, or the write raises.
Saved(s)   == row' = {s} /\ UNCHANGED failures
SaveRaises == failures < MaxFailures /\ failures' = failures + 1 /\ UNCHANGED row

\* intake, retrieve and plan write nothing; a plan clears the verdict.
Plan ==
    /\ at = "plan"
    /\ \/ Commit([state EXCEPT !.verdict = FALSE], "execute")
       \/ Commit(Failed(state), "final")
    /\ UNCHANGED <<row, counters>>

(* execute saves the row before its tools run, with the card just approved   *)
(* in it, and drops the card; a no-slot report is saved as the answer.       *)
Execute ==
    /\ at = "execute"
    /\ \/ /\ Commit([state EXCEPT !.draft = FALSE], "compose")
          /\ Saved(state) \/ (worker = "answering" /\ Saved(Drafted(state)))
       \/ Commit(Drafted(state), "compose") /\ Saved(Drafted(state))
       \/ Commit(Failed(state), "final") /\ (Saved(state) \/ SaveRaises)
    /\ UNCHANGED <<retries, crashes, decisions>>

\* compose saves the draft it has written.
Compose ==
    /\ at = "compose"
    /\ \/ ~state.draft /\ Commit(Drafted(state), "guard") /\ Saved(Drafted(state))
       \/ state.draft /\ Commit(state, "guard") /\ UNCHANGED <<row, failures>>
       \/ ~state.draft /\ Commit(Failed(state), "final") /\ UNCHANGED <<row, failures>>
       \/ ~state.draft /\ Commit(Failed(Drafted(state)), "final") /\ SaveRaises
    /\ UNCHANGED <<retries, crashes, decisions>>

\* Mutant of CanRetry: one replan too many.
CanRetryOnceMore == retries <= MaxRetries
CanRetry == retries < MaxRetries

\* guard finalizes, blocks, or replans without results and draft; it saves nothing.
Guard ==
    /\ at = "guard"
    /\ LET scored == [state EXCEPT !.verdict = TRUE] IN
       \/ Commit(scored, "respond") /\ UNCHANGED retries
       \/ /\ CanRetry /\ retries' = retries + 1
          /\ Commit([scored EXCEPT !.draft = FALSE], "plan")
       \/ Commit(Failed(scored), "final") /\ UNCHANGED retries
       \/ Commit(Failed(state), "final") /\ UNCHANGED retries
    /\ UNCHANGED <<row, crashes, failures, decisions>>

Respond ==
    /\ at = "respond"
    /\ \/ Commit(state, "final") /\ Saved(state)
       \/ Commit(Failed(state), "final") /\ SaveRaises
    /\ UNCHANGED <<retries, crashes, decisions>>

(* The background task records what the graph raised, or its timeout.  A     *)
(* handler answers 500 and leaves the checkpoint where it is.                *)
Raise ==
    /\ \/ at \in Nodes /\ worker = "task" /\ state' = Failed(state) /\ at' = "final"
       \/ at \in {"plan", "guard"} /\ worker # "task" /\ at' = "paused" /\ UNCHANGED state
    /\ UNCHANGED <<worker, thread, row, phase, counters>>

-----------------------------------------------------------------------------
(* Pauses and the end of a run.                                              *)

\* Mutant of Pause: the row is not saved with the card.
PauseUnsaved ==
    /\ at \in {"execute", "guard"} /\ worker = "task"
    /\ at' = "paused" /\ phase' = "done"
    /\ UNCHANGED <<worker, state, thread, row, counters>>
(* A node saved the card and interrupted; the background task then sets the  *)
(* phase and saves nothing.                                                  *)
Pause ==
    /\ at \in {"execute", "guard"} /\ worker = "task"
    /\ row' = {Drafted(state)}
    /\ at' = "paused" /\ phase' = "done"
    /\ UNCHANGED <<worker, state, thread, counters>>

\* A handler whose run pauses again goes on to save its committed state, as if the
\* run had ended.  In execute it may be the clash that is not answered yet.
PauseAgain ==
    /\ \/ at = "execute" /\ worker # "task"
       \/ at = "guard" /\ worker = "handler"
    /\ row' = {Drafted(state)}
    /\ at' = "final"
    /\ UNCHANGED <<worker, state, thread, phase, counters>>

\* submit_approval: the handler replays the next node of the checkpoint.
Decide ==
    /\ at = "paused" /\ thread.node \in Nodes /\ decisions < MaxDecisions
    /\ decisions' = decisions + 1 /\ worker' = "answering"
    /\ at' = thread.node /\ state' = thread.state
    /\ UNCHANGED <<thread, row, phase, retries, crashes, failures>>

\* The interrupt returned a rejection: the node saves the error and the run ends.
Reject ==
    /\ at \in {"execute", "guard"} /\ worker = "answering"
    /\ LET s == Failed(Drafted(state)) IN Commit(s, "final") /\ Saved(s)
    /\ UNCHANGED <<retries, crashes, decisions>>

\* The final save_plan: the background task swallows its failure, a handler answers 500.
Final ==
    /\ at = "final"
    /\ \/ Saved(state) /\ at' = "label"
       \/ SaveRaises /\ at' = IF worker = "task" THEN "label" ELSE "paused"
    /\ UNCHANGED <<worker, state, thread, phase, retries, crashes, decisions>>

\* The checkpoint is discarded; the background task sets the phase, a handler sets none.
Label ==
    /\ at = "label" /\ at' = "over"
    /\ thread' = [node |-> "final", state |-> Empty]
    /\ phase' = IF worker = "task" THEN "done" ELSE phase
    /\ UNCHANGED <<worker, state, row, counters>>

\* 600 s without a write; the background task ends within its 120 s timeout.
PhaseExpires ==
    /\ phase # "none" /\ (Working => worker # "task")
    /\ phase' = "none"
    /\ UNCHANGED <<at, worker, state, thread, row, counters>>

\* The process dies: the task is lost, the checkpoint a handler worked on is not.
Crash ==
    /\ Working /\ crashes < MaxCrashes /\ crashes' = crashes + 1
    /\ at' = IF worker = "task" THEN "lost" ELSE "paused"
    /\ UNCHANGED <<worker, state, thread, row, phase, retries, failures, decisions>>

WorkerStep ==
    \/ Plan \/ Execute \/ Compose \/ Guard \/ Respond \/ Raise
    \/ Pause \/ PauseAgain \/ Reject \/ Final \/ Label
Next == WorkerStep \/ Decide \/ PhaseExpires \/ Crash

Spec == Init /\ [][Next]_vars
\* The event loop runs what it has started; Redis drops a key after its TTL.
FairSpec == Spec /\ WF_vars(WorkerStep) /\ WF_vars(PhaseExpires)

-----------------------------------------------------------------------------
(* The phase is "done" only when the result is there to be read: the stream  *)
(* sends it once, on seeing that phase.  (A write that failed, or a decision  *)
(* that has been taken since, void it.)                                      *)
DoneLabelTells == phase = "done" /\ decisions = 0 /\ failures = 0 => LoadResult = "done"

(* "report it failed rather than 'pending' forever": a run that has a row is *)
(* told of in the end, whatever dies and whatever fails to be written.       *)
NotPendingForever == row # {} ~> LoadResult # "pending"

(* _load_result: "if the row exists with no terminal signal AND the phase    *)
(* key has vanished, the worker that owned this run is gone".                *)
FailedMeansGone == LoadResult = "failed" => ~Working

(* _load_result: "the run counts as 'done' once a reliable terminal signal   *)
(* is present: an error, a populated draft, or a guardrails verdict": of a   *)
(* run nobody has decided on, what is told as done is paused or ending.      *)
DoneIsReliable ==
    LoadResult = "done" /\ decisions = 0 /\ crashes = 0 =>
        at \notin {"plan", "execute", "compose", "guard"}
===============================================================================
