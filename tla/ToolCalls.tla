----------------------------- MODULE ToolCalls -----------------------------
(***************************************************************************)
(* Calls of the MCP client (app/mcp/client.py) and what they do at the     *)
(* servers: Gmail posts and the calendar's create, update and delete with  *)
(* their clash check (app/mcp/servers/google_server.py), and the calls of  *)
(* the github, reddit and finnhub servers, one request each.               *)
(*                                                                         *)
(* A caller is one call_tool in an engine process, a handler one tool      *)
(* function in the server process.  They are joined by HTTP: the caller    *)
(* may lose the answer of a handler that goes on, and call again.  The     *)
(* server resolves the user's token first (Tokens).  The calendar and the  *)
(* mailbox are Google's: every request to them is an action of its own.    *)
(***************************************************************************)
EXTENDS Tokens

CONSTANTS
    Callers,      \* call_tool invocations at a time
    Keys,         \* the calls made: the operation, the event's id or the slot it is
                  \* described by, and the time asked for; what is not given is 0
    Slots,        \* calendar slots, 1..n
    PerDay,       \* working slots of a day
    MaxTries,     \* stop_after_attempt
    MaxEvents,    \* bound: events of the calendar
    MaxCalls,     \* bound: calls begun
    MaxLosses     \* bound: answers lost, crashes, cache losses

ASSUME CallConstants ==
    /\ Slots \subseteq Nat /\ PerDay \in Nat \ {0}
    /\ {MaxTries, MaxEvents} \subseteq Nat \ {0} /\ {MaxCalls, MaxLosses} \subseteq Nat
    /\ Keys \subseteq [op: {"create", "update", "delete", "post", "read",
                            "comment", "submit", "fetch"},
                       id: 0..MaxEvents, of: Slots \union {0},
                       from: Slots \union {0}, till: Slots \union {0}]
\* The working slots of some days, one day after the other.
ASSUME WholeDays == \E days \in 0..Cardinality(Slots) : Slots = 1..(days * PerDay)

Handlers == Resolvers
NoKey == [op |-> "none", id |-> 0, of |-> 0, from |-> 0, till |-> 0]
EventIds == 1..MaxEvents
\* A timed event: when it is, the call that last wrote it (NoKey: the user's own), and
\* whether that call was surprised.
Events   == [id: EventIds, from: Slots, till: Slots, by: Keys \union {NoKey}, surprised: BOOLEAN]
NoEvent  == [id |-> 0, from |-> 0, till |-> 0, by |-> NoKey, surprised |-> FALSE]
\* ToolResult: "success" and "conflict" are both ok, the second with a conflict payload,
\* which execute.py's _conflict_result looks for.
Answers  == {"none", "success", "conflict", "failed"}
\* Two times have a slot in common, be they windows or events.
Overlap(w, e) == w.from <= e.till /\ e.from <= w.till

VARIABLES
    caller,     \* per caller: where it is, its key, attempts made, its handler, the result
    job,        \* per handler: the call it serves
    answer,     \* per handler: its answer
    found,      \* per handler: the event it has found, as it was then
    clashing,   \* per handler: the events that clash
    cache,      \* Redis: results by key
    events,     \* the calendar
    \* counters and observations
    begun,      \* calls begun
    losses,     \* faults so far
    landed,     \* per key: how often it took effect
    excused,    \* keys with a fault, or called twice at once
    surprised   \* handlers that write by what has changed since they looked

clientVars == <<caller, cache, begun>>
serverVars == <<job, answer, found, clashing, events, landed, surprised>>
vars == <<tokenVars, clientVars, serverVars, losses, excused>>

Idle  == [at |-> "idle", key |-> NoKey, tries |-> 0, on |-> "none", result |-> "none"]

Init ==
    /\ TokenInit
    /\ caller = [c \in Callers |-> Idle]
    /\ job = [h \in Handlers |-> NoKey] /\ answer = [h \in Handlers |-> "none"]
    /\ found = [h \in Handlers |-> NoEvent] /\ clashing = [h \in Handlers |-> {}]
    /\ cache = {} /\ begun = 0 /\ losses \in 0..MaxLosses
    /\ \E I \in SUBSET EventIds, first, last \in [EventIds -> Slots] :
          events = {[id |-> i, from |-> first[i], till |-> last[i], by |-> NoKey,
                     surprised |-> FALSE] : i \in I}
    /\ \A e, f \in events : e.from <= e.till /\ (Overlap(e, f) => e = f)
    /\ landed = [k \in Keys |-> 0] /\ excused = {} /\ surprised = {}

-----------------------------------------------------------------------------
(* MCPClient.call_tool.                                                      *)

\* Mutant of Cached: no lookup before the call.
NeverCached(k) == {}
\* The result Redis has of this step, tool and arguments.
Cached(k) == {h \in cache : h.key = k}

Busy(c) == caller[c].at # "idle"

(* A cached result is returned as it is, and an unknown server or tool is a  *)
(* failure that is not cached: neither changes anything.  The lookup and     *)
(* the call are two steps: the same call may be made twice at once.          *)
CallTool(c, k) ==
    /\ ~Busy(c) /\ begun < MaxCalls
    /\ Cached(k) = {}
    /\ caller' = [caller EXCEPT ![c] = [Idle EXCEPT !.at = "send", !.key = k]]
    /\ begun' = begun + 1
    /\ excused' = IF \E d \in Callers : Busy(d) /\ caller[d].key = k
                  THEN excused \union {k} ELSE excused
    /\ UNCHANGED <<tokenVars, cache, serverVars, losses>>

\* Tools whose credentials Tokens does not follow: github's row, which is never renewed,
\* reddit's own tokens, and finnhub's key.
Elsewhere(k) == k.op \in {"comment", "submit", "fetch"}

(* An attempt reaches the server, whose handler first resolves the token.    *)
Invoke(c) ==
    /\ caller[c].at = "send"
    /\ \E h \in Handlers :
          /\ at[h] = "idle"
          /\ Go(h, IF Elsewhere(caller[c].key) THEN "token" ELSE "resolve")
          /\ job' = [job EXCEPT ![h] = caller[c].key]
          /\ caller' = [caller EXCEPT ![c].at = "wait", ![c].on = h, ![c].tries = @ + 1]
    /\ UNCHANGED <<rows, bundle, target, granted, renewable, current, late, undone, cache, begun,
                   answer, found, clashing, events, landed, surprised, losses, excused>>

\* The handler is free again.
Free(h) ==
    /\ Go(h, "idle")
    /\ job' = [job EXCEPT ![h] = NoKey] /\ answer' = [answer EXCEPT ![h] = "none"]
    /\ found' = [found EXCEPT ![h] = NoEvent] /\ clashing' = [clashing EXCEPT ![h] = {}]
    /\ surprised' = surprised \ {h}
    /\ UNCHANGED <<rows, bundle, target, granted, renewable, current, late, undone, events, landed>>

\* Its answer reaches the caller; an error of the tool is an answer, and not retried.
Receive(c) ==
    /\ caller[c].at = "wait" /\ at[caller[c].on] = "answered"
    /\ caller' = [caller EXCEPT ![c].at = "store", ![c].result = answer[caller[c].on]]
    /\ Free(caller[c].on)
    /\ UNCHANGED <<cache, begun, losses, excused>>

\* An answer nobody waits for any more.
Dropped(h) ==
    /\ at[h] = "answered" /\ \A c \in Callers : caller[c].on # h \/ caller[c].at # "wait"
    /\ Free(h)
    /\ UNCHANGED <<clientVars, losses, excused>>

\* A fault, counted, that excuses what happens to the keys K.
Fault(K) ==
    /\ losses < MaxLosses /\ losses' = losses + 1
    /\ excused' = excused \union K

\* Mutant of Spent: one attempt more.
SpentLate(tries) == tries > MaxTries
\* stop_after_attempt.
Spent(tries) == tries >= MaxTries

(* A timeout or network error between client and server: retried up to       *)
(* MaxTries times, while the handler it gave up goes on.                     *)
LoseAnswer(c) ==
    /\ caller[c].at \in {"send", "wait"}
    /\ Fault({caller[c].key})
    /\ LET tries == IF caller[c].at = "send" THEN caller[c].tries + 1 ELSE caller[c].tries
       IN  caller' = [caller EXCEPT ![c] =
             IF Spent(tries)
             THEN [@ EXCEPT !.at = "store", !.on = "none", !.result = "failed"]
             ELSE [@ EXCEPT !.at = "send", !.on = "none", !.tries = tries]]
    /\ UNCHANGED <<tokenVars, cache, begun, serverVars>>

(* The result, good or bad, is cached for 15 minutes.                        *)
StoreResult(c) ==
    /\ caller[c].at = "store"
    /\ cache' = (cache \ Cached(caller[c].key))
                \union {[key |-> caller[c].key, result |-> caller[c].result]}
    /\ caller' = [caller EXCEPT ![c] = Idle]
    /\ UNCHANGED <<tokenVars, begun, serverVars, losses, excused>>

\* Redis raises instead, or the engine dies, at any point of a call.
AbandonCall(c) ==
    /\ Busy(c)
    /\ Fault({caller[c].key})
    /\ caller' = [caller EXCEPT ![c] = Idle]
    /\ UNCHANGED <<tokenVars, cache, begun, serverVars>>

\* The 15 minutes are over.
CacheExpiry ==
    /\ cache # {}
    /\ Fault({h.key : h \in cache})
    /\ cache' = {}
    /\ UNCHANGED <<tokenVars, caller, begun, serverVars>>

-----------------------------------------------------------------------------
(* The tool functions of google_server.                                      *)

\* A handler goes on to its next request.
Onto(h, place) ==
    /\ Go(h, place)
    /\ UNCHANGED <<rows, bundle, target, granted, renewable, current, late, undone>>

\* It returns, or raises; both are an answer.
Answer(h, a) == Onto(h, "answered") /\ answer' = [answer EXCEPT ![h] = a]

\* Mutant of Fails: raise_for_status is forgotten, and the error body is the result.
FailsQuietly(h) ==
    /\ at[h] \in {"refused", "token", "check", "act"}
    /\ Answer(h, "success")
    /\ UNCHANGED <<clientVars, job, found, clashing, events, landed, surprised, losses, excused>>
\* A token was refused, or a request fails before it does anything.
Fails(h) ==
    /\ at[h] \in {"refused", "token", "check", "act"}
    /\ Answer(h, "failed")
    /\ UNCHANGED <<clientVars, job, found, clashing, events, landed, surprised, losses, excused>>

\* The events of a time.
During(w) == {e \in events : Overlap(w, e)}

\* _get_event, or _resolve_event: exactly one event of the window matches the description.
Matches(k, e) ==
    IF k.id # 0 THEN e.id = k.id ELSE During([from |-> k.of, till |-> k.of]) = {e}
ResolveEvent(h) ==
    /\ at[h] = "token" /\ job[h].op \in {"update", "delete"}
    /\ \E e \in events :
          /\ Matches(job[h], e)
          /\ found' = [found EXCEPT ![h] = e]
    /\ Onto(h, IF job[h].op = "update" THEN "check" ELSE "act")
    /\ UNCHANGED <<clientVars, job, answer, clashing, events, landed, surprised, losses, excused>>

(* The time that call k makes of event e: a side it does not give stays as   *)
(* it is.  Google takes no time that ends before it begins.                  *)
Time(k, e) == [from |-> IF k.from # 0 THEN k.from ELSE e.from,
               till |-> IF k.till # 0 THEN k.till ELSE e.till]
Valid(w)   == w.from \in Slots /\ w.till \in Slots /\ w.from <= w.till
\* What the handler asks for, by the event it has found.
Window(h)  == Time(job[h], found[h])

\* Mutant of Clashing: the event that is updated is in its own way.
ClashingWithItself(h) == During(Window(h))
\* Mutant of Clashing: update_event does not check.
ClashingOnCreate(h) == IF job[h].op = "create" THEN During(Window(h)) ELSE {}
\* _overlapping_events but for exclude_id.
Clashing(h) == {e \in During(Window(h)) : e.id # found[h].id}

(* _clash_or_none: a taken window is reported, with a free one, and nothing  *)
(* is written.  create_event checks first, update_event the event it has     *)
(* found, in its new time.                                                   *)
ClashOrNone(h) ==
    /\ (at[h] = "token" /\ job[h].op = "create") \/ at[h] = "check"
    /\ Valid(Window(h))
    /\ IF Clashing(h) = {} THEN Onto(h, "act") /\ UNCHANGED <<answer, clashing>>
       ELSE Answer(h, "conflict") /\ clashing' = [clashing EXCEPT ![h] = Clashing(h)]
    /\ UNCHANGED <<clientVars, job, found, events, landed, surprised, losses, excused>>

(* Google carries the write out.  The response may still be lost or bad, and *)
(* then the tool raises though it took effect.                               *)
Landed(h, a) ==
    /\ Answer(h, a)
    /\ landed' = [landed EXCEPT ![job[h]] = @ + 1]
    /\ UNCHANGED <<clientVars, job, found, clashing, losses, excused>>

\* An update that leaves a side of the event's time to what it is.
Partial(k) == k.from = 0 \/ k.till = 0
(* Event id in window w is news to handler g, which is to write: it has read *)
(* a side of its window from that event, or has found the window free of it. *)
Surprises(id, w, g) ==
    /\ job[g].op \in {"create", "update"}
    /\ \/ at[g] \in {"check", "act"} /\ found[g].id = id /\ Partial(job[g])
       \/ at[g] = "act" /\ found[g].id # id /\ Overlap(Window(g), w)

\* Event id is in window w now.
Put(h, id, w) ==
    /\ events' = {e \in events : e.id # id}
                 \union {[id |-> id, from |-> w.from, till |-> w.till, by |-> job[h],
                          surprised |-> h \in surprised]}
    /\ surprised' = surprised \union {g \in Handlers \ {h} : Surprises(id, w, g)}

\* An id is given once; here, not while a handler goes by it.
CreateEvent(h) ==
    /\ at[h] = "act" /\ job[h].op = "create"
    /\ \E id \in EventIds, a \in {"success", "failed"} :
          /\ \A e \in events : e.id # id
          /\ \A g \in Handlers : found[g].id # id
          /\ Put(h, id, Window(h)) /\ Landed(h, a)

(* The patch has the sides that were given and falls on the event as it is   *)
(* now.  It may have been moved since it was read, or deleted: a 404.        *)
UpdateEvent(h) ==
    /\ at[h] = "act" /\ job[h].op = "update"
    /\ \E e \in events, a \in {"success", "failed"} :
          /\ e.id = found[h].id /\ Valid(Time(job[h], e))
          /\ Put(h, e.id, Time(job[h], e)) /\ Landed(h, a)

DeleteEvent(h) ==
    /\ at[h] = "act" /\ job[h].op = "delete"
    /\ \E e \in events, a \in {"success", "failed"} :
          /\ e.id = found[h].id
          /\ events' = events \ {e} /\ UNCHANGED surprised
          /\ Landed(h, a)

\* send_email, create_draft: one request and no check.
SendEmail(h) ==
    /\ at[h] = "token" /\ job[h].op = "post"
    /\ \E a \in {"success", "failed"} : Landed(h, a)
    /\ UNCHANGED <<events, surprised>>

\* github's comment_on_pr and create_issue.
CommentOnPr(h) ==
    /\ at[h] = "token" /\ job[h].op = "comment"
    /\ \E a \in {"success", "failed"} : Landed(h, a)
    /\ UNCHANGED <<events, surprised>>
(* PyGithub repeats a POST by itself (GithubRetry) when GitHub answers 5xx   *)
(* or not at all, be it that the request took effect or not.                 *)
RetryComment(h) ==
    /\ at[h] = "token" /\ job[h].op = "comment"
    /\ Fault({job[h]})
    /\ landed' \in {landed, [landed EXCEPT ![job[h]] = @ + 1]}
    /\ UNCHANGED <<tokenVars, clientVars, job, answer, found, clashing, events, surprised>>

\* reddit's post_comment and submit.
Submit(h) ==
    /\ at[h] = "token" /\ job[h].op = "submit"
    /\ \E a \in {"success", "failed"} : Landed(h, a)
    /\ UNCHANGED <<events, surprised>>
\* Reddit refuses with 200 and json.errors, which nobody reads.
SubmitRefused(h) ==
    /\ at[h] = "token" /\ job[h].op = "submit"
    /\ Answer(h, "success")
    /\ UNCHANGED <<clientVars, job, found, clashing, events, landed, surprised, losses, excused>>

\* finnhub's _get: within its cap of calls, or Redis does not say.
GetQuote(h) ==
    /\ at[h] = "token" /\ job[h].op = "fetch"
    /\ \E within \in BOOLEAN : Answer(h, IF within THEN "success" ELSE "failed")
    /\ UNCHANGED <<clientVars, job, found, clashing, events, landed, surprised, losses, excused>>

\* search_email, get_thread, list_upcoming, find_free_slot: read only.
SearchEmail(h) ==
    /\ at[h] = "token" /\ job[h].op = "read"
    /\ Answer(h, "success")
    /\ UNCHANGED <<clientVars, job, found, clashing, events, landed, surprised, losses, excused>>

-----------------------------------------------------------------------------
(* _next_free_slot.                                                          *)

Day(s) == (s - 1) \div PerDay
Smallest(S) == CHOOSE x \in S : \A y \in S : x <= y

\* Mutant of Start: the time asked for is forgotten.
StartOfDay(day, from) == day * PerDay + 1
\* The opening of the day, or the requested time if that is later.
Start(day, from) == IF from > day * PerDay + 1 THEN from ELSE day * PerDay + 1

(* One busy slot: the meeting fits before it, or the cursor jumps over it.   *)
Pass(w, b, duration) ==
    IF w.free # 0 THEN w
    ELSE IF b >= w.cursor + duration THEN [w EXCEPT !.free = w.cursor]
    ELSE [w EXCEPT !.cursor = IF b + 1 > w.cursor THEN b + 1 ELSE w.cursor]

(* The loop over the busy slots of a day in their order, after each slot.    *)
Walk(busy, day, from, duration) ==
    LET walk[n \in 0..PerDay] ==
            IF n = 0 THEN [free |-> 0, cursor |-> Start(day, from)]
            ELSE IF day * PerDay + n \in busy
            THEN Pass(walk[n - 1], day * PerDay + n, duration)
            ELSE walk[n - 1]
    IN  walk

\* The first gap of the day, the one before its close at the latest, 0 for none.
FreeOnDay(busy, day, from, duration) ==
    LET close == (day + 1) * PerDay + 1
        w     == Walk(busy, day, from, duration)[PerDay]
    IN  IF w.free # 0 THEN w.free
        ELSE IF close >= w.cursor + duration THEN w.cursor ELSE 0

\* The first day with a gap, 0 for none.
NextFreeSlot(busy, from, duration) ==
    LET days == {d \in {Day(s) : s \in Slots} :
                    d >= Day(from) /\ FreeOnDay(busy, d, from, duration) # 0}
    IN  IF days = {} THEN 0 ELSE FreeOnDay(busy, Smallest(days), from, duration)

-----------------------------------------------------------------------------

CallerStep(c) == Invoke(c) \/ Receive(c) \/ StoreResult(c)
HandlerStep(h) ==
    \/ Fails(h) \/ ResolveEvent(h) \/ ClashOrNone(h) \/ CreateEvent(h) \/ UpdateEvent(h)
    \/ DeleteEvent(h) \/ SendEmail(h) \/ SearchEmail(h) \/ Dropped(h)
    \/ CommentOnPr(h) \/ RetryComment(h) \/ Submit(h) \/ SubmitRefused(h) \/ GetQuote(h)
FaultStep == CacheExpiry \/ \E c \in Callers : LoseAnswer(c) \/ AbandonCall(c)

\* Tokens only resolves; the rest of the server and the client wait.
TokenStep ==
    /\ \/ \E h \in Handlers : ResolveStep(h)
       \/ \E p \in Requests : RequestStep(p)
       \/ Age
    /\ UNCHANGED <<clientVars, serverVars, losses, excused>>

Next ==
    \/ \E c \in Callers : CallerStep(c) \/ \E k \in Keys : CallTool(c, k)
    \/ \E h \in Handlers : HandlerStep(h)
    \/ TokenStep
    \/ FaultStep

Spec == Init /\ [][Next]_vars

-----------------------------------------------------------------------------
(* Properties.                                                               *)

TypeOK ==
    /\ rows \subseteq [id: RowIds, bundle: Bundles]
    /\ at \in [Processes -> {"idle", "resolve", "refresh", "look", "write", "matched", "refused",
                             "token", "check", "act", "answered"}]
    /\ bundle \in [Processes -> Bundles] /\ target \in [Processes -> 0..MaxRows]
    /\ granted \in 0..MaxGrants /\ renewable \subseteq Grants
    /\ current \in 0..MaxGrants /\ late \subseteq Resolvers /\ undone \in BOOLEAN
    /\ caller \in [Callers -> [at: {"idle", "send", "wait", "store"}, key: Keys \union {NoKey},
                               tries: 0..MaxTries, on: Handlers \union {"none"},
                               result: Answers]]
    /\ job \in [Handlers -> Keys \union {NoKey}] /\ answer \in [Handlers -> Answers]
    /\ found \in [Handlers -> Events \union {NoEvent}] /\ clashing \in [Handlers -> SUBSET Events]
    /\ cache \subseteq [key: Keys, result: Answers \ {"none"}]
    /\ events \subseteq Events
    /\ begun \in 0..MaxCalls /\ losses \in 0..MaxLosses
    /\ landed \in [Keys -> Nat] /\ excused \subseteq Keys /\ surprised \subseteq Handlers

(* client.py and execute.py: what a cached result says of the effect is so,  *)
(* whatever was lost, retried or answered late on the way: a success stands  *)
(* for a call that took effect, reddit's apart, and a conflict, which is ok  *)
(* too, for a call that did not, unless an answer to it was lost before.     *)
ResultTellsEffect ==
    \A h \in cache :
        /\ h.result = "success" /\ h.key.op \notin {"read", "fetch", "submit"}
               => landed[h.key] > 0
        /\ h.result = "conflict" /\ h.key \notin excused => landed[h.key] = 0

(* call_tool, "Redis-backed idempotency and tenacity retries": no call takes *)
(* effect twice, though it failed after taking effect, unless an answer was  *)
(* lost, to the client or to PyGithub, or a cached result, or it was made    *)
(* twice at once; and then once for each call and each fault at the most,    *)
(* however often it is tried.                                                *)
RepeatNeedsFault ==
    \A k \in Keys : /\ landed[k] > 1 => k \in excused
                    /\ landed[k] <= begun + losses

(* create_event and update_event: two events overlap only if one was written *)
(* by what was no longer so: since the clash check another had been put in   *)
(* its window, or since it was read the event itself had been moved, and the *)
(* patch gave one side only.                                                 *)
DoubleBookingNeedsRace ==
    \A e, f \in events : e # f /\ Overlap(e, f) => e.surprised \/ f.surprised

(* A reported clash is with an event of somebody else: an update is not in   *)
(* its own way, and a create is in the way of itself only when it is retried *)
(* after a lost answer.                                                      *)
ClashIsWithAnother ==
    \A h \in Handlers : answer[h] = "conflict" =>
        \/ job[h] \in excused
        \/ \E e \in clashing[h] : e.id # found[h].id /\ e.by # job[h]

(* _next_free_slot: what is suggested with a clash is the earliest working   *)
(* time, not before any asked for, at which the meeting fits between the     *)
(* events.                                                                   *)
Fits(busy, s, duration) ==
    /\ s \in Slots /\ s + duration - 1 <= (Day(s) + 1) * PerDay
    /\ \A b \in busy : b < s \/ b >= s + duration
SuggestionIsEarliest ==
    LET busy == UNION {e.from..e.till : e \in events}
    IN  (\E h \in Handlers : answer[h] = "conflict") => \A s \in Slots, duration \in 1..PerDay :
            LET fit == {x \in Slots : x >= s /\ Fits(busy, x, duration)}
            IN  NextFreeSlot(busy, s, duration) = IF fit = {} THEN 0 ELSE Smallest(fit)
=============================================================================
