----------------------------- MODULE FrontDoor -----------------------------
(***************************************************************************)
(* POST /v1/invoke (app/api/invoke.py) behind the middleware of            *)
(* app/main.py, for one user: two limiters, each an INCR and an EXPIRE of  *)
(* a counter of its window; the Idempotency-Key, read at the beginning and *)
(* stored at the end; and the run spawned in between.                      *)
(*                                                                         *)
(* Redis may raise at any call: the limiters then let the request in, the  *)
(* rest of the handler answers 500.                                        *)
(***************************************************************************)
EXTENDS Naturals, FiniteSets

CONSTANTS
    Posts,       \* requests; a run is known by the request that spawned it
    Keys,        \* values of the Idempotency-Key header
    NoKey,       \* the request without that header
    PerMinute,   \* rate_limit_per_min, of every request (app/config.py)
    RunCap,      \* rate_per_minute, rate_per_hour: of runs (policy.yaml)
    MaxWindows   \* bound: windows of time that pass

ASSUME DoorConstants ==
    /\ NoKey \notin Keys /\ NoKey \notin Posts /\ IsFiniteSet(Posts)
    /\ {PerMinute, RunCap, MaxWindows} \subseteq Nat

Kinds == {"request", "run"}
Limit(kind) == IF kind = "request" THEN PerMinute ELSE RunCap

VARIABLES
    post,     \* per request: where it is, its key, and the run it was answered with
    idem,     \* Redis: the run stored for a key
    count,    \* Redis: the counters, by kind and the window in their name
    lasting,  \* counters whose EXPIRE has failed
    window,   \* the clock, in windows
    \* observations
    expired,  \* keys whose entry has gone
    behind,   \* per request: those of its key answered before it looked
    counted   \* per request: the kinds and windows it was counted in
doorVars == <<post, idem, count, lasting, window, expired, behind, counted>>

Stages == {"idle", "lookup", "vet", "accept", "store",
           "answered", "refused", "limited", "error"}

DoorInit ==
    /\ post = [p \in Posts |-> [at |-> "idle", key |-> NoKey, run |-> NoKey]]
    /\ idem = [k \in Keys |-> NoKey]
    /\ count = [c \in Kinds \X (0..MaxWindows) |-> 0] /\ lasting = {} /\ window = 0
    /\ expired = {} /\ behind = [p \in Posts |-> {}] /\ counted = [p \in Posts |-> {}]

Moves(p, stage) == post' = [post EXCEPT ![p].at = stage]
Answers(p, run) == post' = [post EXCEPT ![p].at = "answered", ![p].run = run]

-----------------------------------------------------------------------------
(* check_rate_limit, _incr.                                                  *)

\* Mutant of Counter: the window is not part of the name.
CounterForEver(kind) == <<kind, 0>>
Counter(kind) == <<kind, window>>

(* INCR, and EXPIRE of a counter that begins, which may fail and be let      *)
(* pass; or INCR fails, and everybody is let in.                             *)
CountAs(p, kind, within, over) ==
    /\ counted' = [counted EXCEPT ![p] = @ \union {<<kind, window>>}]
    /\ \/ within /\ UNCHANGED <<count, lasting>>
       \/ LET c == Counter(kind) IN
          /\ count' = [count EXCEPT ![c] = @ + 1]
          /\ lasting' \in {lasting} \union (IF count[c] = 0 THEN {lasting \union {c}} ELSE {})
          /\ IF count'[c] <= Limit(kind) THEN within ELSE over

\* A window has passed, and the counters that expire with it.
Tick ==
    /\ window < MaxWindows /\ window' = window + 1
    /\ count' = [c \in DOMAIN count |-> IF c \in lasting THEN count[c] ELSE 0]
    /\ UNCHANGED <<post, idem, lasting, expired, behind, counted>>

-----------------------------------------------------------------------------
(* The request.                                                              *)

\* _auth_and_rate_limit lets the request with key k through to the handler.
Send(p, k) ==
    /\ post[p].at = "idle"
    /\ CountAs(p, "request", post' = [post EXCEPT ![p].at = "lookup", ![p].key = k],
                             post' = [post EXCEPT ![p].at = "limited", ![p].key = k])
    /\ UNCHANGED <<idem, window, expired, behind>>

\* Mutant of Known: the entry is not looked for.
KnownNever(k) == NoKey
Known(k) == IF k = NoKey THEN NoKey ELSE idem[k]

\* The run of an equal request is answered again.
Lookup(p) ==
    /\ post[p].at = "lookup"
    /\ \/ Known(post[p].key) # NoKey /\ Answers(p, Known(post[p].key))
       \/ Known(post[p].key) = NoKey /\ Moves(p, "vet")
       \/ post[p].key # NoKey /\ Moves(p, "error")
    /\ behind' = [behind EXCEPT ![p] =
                     {q \in Posts : /\ post[q].at = "answered"
                                    /\ post[q].key = post[p].key /\ post[q].key # NoKey}]
    /\ UNCHANGED <<idem, count, lasting, window, expired, counted>>

\* Whether a rule on the text blocks: injection, jailbreak, a secret, or its size.
TextBlocked == BOOLEAN

(* evaluate_input: a blocked text (400) is counted all the same; then the    *)
(* cap (429).                                                                *)
Vet(p) ==
    /\ post[p].at = "vet"
    /\ \E blocked \in TextBlocked :
          IF blocked THEN CountAs(p, "run", Moves(p, "refused"), Moves(p, "refused"))
          ELSE CountAs(p, "run", Moves(p, "accept"), Moves(p, "limited"))
    /\ UNCHANGED <<idem, window, expired, behind>>

\* create_session and _set_phase may raise; the history is best effort.  Then the run starts.
Spawn(p) ==
    /\ post[p].at = "accept"
    /\ post' = [post EXCEPT ![p].at = "store", ![p].run = p]
    /\ UNCHANGED <<idem, count, lasting, window, expired, behind, counted>>
SpawnFails(p) ==
    /\ post[p].at = "accept" /\ Moves(p, "error")
    /\ UNCHANGED <<idem, count, lasting, window, expired, behind, counted>>

(* The key is stored and the request answered; if Redis raises, the answer   *)
(* is a 500 though the run goes on.                                          *)
Store(p) ==
    /\ post[p].at = "store"
    /\ LET k == post[p].key IN
       \/ k = NoKey /\ Answers(p, p) /\ UNCHANGED idem
       \/ k # NoKey /\ Answers(p, p) /\ idem' = [idem EXCEPT ![k] = p]
       \/ k # NoKey /\ Moves(p, "error") /\ UNCHANGED idem
    /\ UNCHANGED <<count, lasting, window, expired, behind, counted>>

\* _IDEM_TTL is over.
KeyExpires ==
    /\ \E k \in Keys : /\ idem[k] # NoKey
                       /\ idem' = [idem EXCEPT ![k] = NoKey]
                       /\ expired' = expired \union {k}
    /\ UNCHANGED <<post, count, lasting, window, behind, counted>>

\* The process dies with the requests it was handling.
Handling(p) == post[p].at \in {"lookup", "vet", "accept", "store"}
DoorCrash ==
    /\ post' = [p \in Posts |-> IF Handling(p) THEN [post[p] EXCEPT !.at = "error"] ELSE post[p]]
    /\ UNCHANGED <<idem, count, lasting, window, expired, behind, counted>>

-----------------------------------------------------------------------------
(* Properties.                                                               *)

Spawned(p) == post[p].run = p

(* invoke: "An Idempotency-Key header replays the original run": a request   *)
(* that comes after another of its key was answered starts nothing while the *)
(* key is kept, and is answered with a run of that key.  (Two that overlap,  *)
(* or one whose key could not be stored, may both have started a run.)       *)
KeyRunsOnce ==
    \A p \in Posts :
        /\ behind[p] # {} /\ post[p].key \in Keys \ expired => ~Spawned(p)
        /\ post[p].at = "answered" => Spawned(post[p].run) /\ post[post[p].run].key = post[p].key

(* redis_client.py: a request is turned away only in a window in which more  *)
(* than the limit have come, whatever counters have been left without an end. *)
LimitedIsBusy ==
    \A p \in Posts : post[p].at = "limited" =>
        \E c \in counted[p] : Cardinality({q \in Posts : c \in counted[q]}) > Limit(c[1])
=============================================================================
