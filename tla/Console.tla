------------------------------ MODULE Console ------------------------------
(***************************************************************************)
(* From a prompt to the reply shown: the Streamlit page                    *)
(* (streamlit_app/app.py) in front of FrontDoor and of RunResult.  The     *)
(* page submits prompts, polls the phase, fetches the result, and takes    *)
(* the user's decision on a paused run; other clients of the same user     *)
(* post with an Idempotency-Key, and decide on runs as well.               *)
(*                                                                         *)
(* RunResult has the first run that is spawned; of any later one the page  *)
(* is told anything.  The script of the page runs from top to bottom, and  *)
(* whatever the user touches meanwhile ends it and starts it again.        *)
(***************************************************************************)
EXTENDS RunResult, FrontDoor

VARIABLES
    ours,     \* the run RunResult has, NoKey before it is spawned
    place,    \* of the script: "ready", "posting", "polling", "fetching", "deciding"
    prompt,   \* the request it is posting
    current,  \* session_state.current_trace_id
    waiting,  \* the run the user waits to hear of
    offered,  \* session_state.pending_approval: a run, or NoKey
    shown,    \* the last reply: a result with the run it is meant for and its own, or a notice
    overtaken \* observation: runs on offer when another prompt was accepted
pageVars == <<place, prompt, current, waiting, offered, shown, overtaken>>
consoleVars == <<vars, doorVars, ours, pageVars>>

Nothing == [says |-> "nothing", for |-> NoKey, of |-> NoKey]
ConsoleInit ==
    /\ Init /\ DoorInit
    /\ ours = NoKey /\ place = "ready" /\ prompt = NoKey /\ current = NoKey
    /\ waiting = NoKey /\ offered = NoKey /\ shown = Nothing /\ overtaken = {}

\* A message of the page's own, or the result of a run for the one that is waited for.
Tells       == shown' = [Nothing EXCEPT !.says = "notice"]
Shows(run)  == shown' = [says |-> "result", for |-> waiting, of |-> run]
\* The script is through, and the user may go on.
Rests == place' = "ready" /\ waiting' = NoKey

-----------------------------------------------------------------------------
(* _submit_prompt.                                                           *)

\* The page sends no Idempotency-Key.
Submit(p) ==
    /\ place = "ready" /\ Send(p, NoKey)
    /\ place' = "posting" /\ prompt' = p
    /\ UNCHANGED <<vars, ours, current, waiting, offered, shown, overtaken>>

\* Mutant of Accepted: the trace of the request is taken before it is answered.
AcceptedBlindly ==
    current' = IF post[prompt].at = "answered" THEN post[prompt].run ELSE NoKey
Accepted ==
    current' = IF post[prompt].at = "answered" THEN post[prompt].run ELSE current

(* The answer has come, or the page has given up waiting for it.  A trace is *)
(* polled at once; the paused run stays on offer.                            *)
Answered ==
    /\ place = "posting" /\ prompt' = NoKey
    /\ \/ /\ post[prompt].at \in {"answered", "refused", "limited", "error"}
          /\ Accepted
          /\ IF post[prompt].at = "answered"
             THEN /\ place' = "polling" /\ waiting' = post[prompt].run
                  /\ overtaken' = overtaken \union ({offered} \ {NoKey, post[prompt].run})
                  /\ UNCHANGED shown
             ELSE Rests /\ Tells /\ UNCHANGED overtaken
       \/ Rests /\ Tells /\ UNCHANGED <<current, overtaken>>
    /\ UNCHANGED <<vars, doorVars, ours, offered>>

-----------------------------------------------------------------------------
(* _poll_run, _fetch_result, _store_result.                                  *)

\* invoke_phase says that the run is over.
PhaseIsDone == waiting = ours => phase = "done"

\* It does, or has not for 360 ticks.
Poll ==
    /\ place = "polling"
    /\ \/ PhaseIsDone /\ place' = "fetching"
          /\ UNCHANGED <<waiting, shown>>
       \/ Rests /\ Tells
    /\ UNCHANGED <<vars, doorVars, ours, prompt, current, offered, overtaken>>

\* _store_result: a paused run is on offer.
Offers(run) == offered' \in {offered, run}

(* The result of the run that is current is shown once it is done; any other *)
(* answer, the 429 of the page's own polling too, is asked for again, until  *)
(* the tries are over.                                                       *)
Fetch ==
    /\ place = "fetching" /\ Rests
    /\ \/ /\ current = ours => LoadResult = "done"
          /\ Shows(current) /\ Offers(current)
       \/ Tells /\ UNCHANGED offered
    /\ UNCHANGED <<vars, doorVars, ours, prompt, current, overtaken>>

(* The user touches the page while its script runs: it begins again, but the *)
(* trace was not taken yet or has been popped from pending_run, and nobody   *)
(* waits for the run any more; and a decision in flight may be made again.   *)
Interact ==
    /\ place # "ready" /\ Rests /\ prompt' = NoKey
    /\ UNCHANGED <<vars, doorVars, ours, current, offered, shown, overtaken>>

-----------------------------------------------------------------------------
(* _hitl_block.                                                              *)

\* The decision is posted; whether it is taken is the server's affair.
Click ==
    /\ place = "ready" /\ offered # NoKey
    /\ place' = "deciding" /\ waiting' = offered
    /\ UNCHANGED <<vars, doorVars, ours, prompt, current, offered, shown, overtaken>>

(* The server has answered, in whatever way, or the page has given up: after *)
(* a rejection it says so, otherwise it fetches the result of the run that   *)
(* is current.                                                               *)
Clicked ==
    /\ place = "deciding" /\ offered' = NoKey
    /\ \/ Rests /\ Tells
       \/ place' = "fetching" /\ UNCHANGED <<waiting, shown>>
    /\ UNCHANGED <<vars, doorVars, ours, prompt, current, overtaken>>

PageStep == (\E p \in Posts : Submit(p)) \/ Answered \/ Poll \/ Fetch \/ Interact \/ Click \/ Clicked

-----------------------------------------------------------------------------
(* The server.                                                               *)

\* invoke spawns a run: the first is RunResult's.
Begin(p) ==
    /\ Spawn(p)
    /\ ours' = IF ours = NoKey THEN p ELSE ours
    /\ UNCHANGED <<vars, pageVars>>

DoorStep ==
    /\ \/ \E p \in Posts :
             \/ \E k \in Keys : Send(p, k)
             \/ Lookup(p) \/ Vet(p) \/ SpawnFails(p) \/ Store(p)
       \/ Tick \/ KeyExpires
    /\ UNCHANGED <<vars, ours, pageVars>>

RunStep ==
    /\ ours # NoKey /\ (WorkerStep \/ Decide \/ PhaseExpires)
    /\ UNCHANGED <<doorVars, ours, pageVars>>

\* The process dies with its run, if it has one, and its requests.
Restart ==
    /\ \E p \in Posts : Handling(p)
    /\ IF ours # NoKey /\ Working THEN Crash
       ELSE crashes < MaxCrashes /\ crashes' = crashes + 1
            /\ UNCHANGED <<at, worker, state, thread, row, phase, retries, failures, decisions>>
    /\ DoorCrash
    /\ UNCHANGED <<ours, pageVars>>
CrashOfRun == ours # NoKey /\ Crash /\ UNCHANGED <<doorVars, ours, pageVars>>

ConsoleNext ==
    PageStep \/ DoorStep \/ (\E p \in Posts : Begin(p)) \/ RunStep \/ Restart \/ CrashOfRun

Run == ours # NoKey /\ WorkerStep /\ UNCHANGED <<doorVars, ours, pageVars>>
Forget == ours # NoKey /\ PhaseExpires /\ UNCHANGED <<doorVars, ours, pageVars>>
ConsoleSpec ==
    ConsoleInit /\ [][ConsoleNext]_consoleVars
    /\ WF_consoleVars(Run) /\ WF_consoleVars(Forget)

-----------------------------------------------------------------------------
(* _hitl_block and _store_result: the reply that follows is that of the run  *)
(* the user has asked for or decided on, whatever else was posted, refused   *)
(* or touched meanwhile, unless another prompt was accepted while the run    *)
(* waited for its decision.                                                  *)
ReplyIsOfItsRun ==
    shown.says = "result" => shown.of = shown.for \/ shown.for \in overtaken
=============================================================================
