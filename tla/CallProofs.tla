------------------------------ MODULE CallProofs ------------------------------
(***************************************************************************)
(* The calls, their effects and the calendar, for any number of callers    *)
(* and handlers and every order of their steps and of the faults.          *)
(*                                                                         *)
(* The argument for effects: a key without a fault is in the hands of one  *)
(* caller, and of the handler that caller waits on (Once); before that     *)
(* handler has answered, nothing has taken effect, and afterwards the      *)
(* caller holds the result until it is cached, which keeps others from     *)
(* calling.  A conflict in anybody's hands stands for no effect for the    *)
(* same reason (Spared).  For the calendar: a handler about to write has   *)
(* its window to itself, and what it has read of its event is so, and who  *)
(* puts an event there or moves the event takes that away (Clear).         *)
(* For the suggestion: below the cursor of the walk over a day no meeting  *)
(* fits, and the busy slots passed are below it (Walked).                  *)
(* For repeats: every effect, and every one to come, has been paid for by  *)
(* a call or a fault, and by one of the tries of a call or a fault that    *)
(* made PyGithub repeat it (PaidFor).                                      *)
(***************************************************************************)
EXTENDS TokenProofs

CallerType == [at: {"idle", "send", "wait", "store"}, key: Keys \union {NoKey},
               tries: 0..MaxTries, on: Handlers \union {"none"}, result: Answers]
CallType ==
    /\ caller \in [Callers -> CallerType]
    /\ job \in [Handlers -> Keys \union {NoKey}] /\ answer \in [Handlers -> Answers]
    /\ found \in [Handlers -> Events \union {NoEvent}] /\ clashing \in [Handlers -> SUBSET Events]
    /\ cache \subseteq [key: Keys, result: Answers \ {"none"}]
    /\ events \subseteq Events
    /\ begun \in 0..MaxCalls /\ losses \in 0..MaxLosses
    /\ landed \in [Keys -> Nat] /\ excused \subseteq Keys /\ surprised \subseteq Handlers

\* A caller that waits does so for a handler that serves its key, and alone.
Joined ==
    /\ \A c \in Callers :
          /\ caller[c].at # "idle" => caller[c].key \in Keys
          /\ caller[c].at = "send" => caller[c].tries < MaxTries
          /\ caller[c].at = "store" => caller[c].result # "none"
          /\ caller[c].at = "wait" => /\ caller[c].on \in Handlers
                                      /\ at[caller[c].on] # "idle"
                                      /\ job[caller[c].on] = caller[c].key
    /\ \A c, d \in Callers :
          caller[c].at = "wait" /\ caller[d].at = "wait" /\ caller[c].on = caller[d].on => c = d

Employed ==
    \A h \in Handlers :
        /\ at[h] # "idle" => job[h] \in Keys
        /\ at[h] = "answered" <=> answer[h] # "none"
        /\ at[h] = "idle" \/ job[h].op = "create" => found[h] = NoEvent
        /\ at[h] = "act" /\ job[h].op = "create" => Valid(Window(h))

\* A handler that is about to write has its window to itself, and what it has read of its
\* event is so, or it has been surprised.
Alone(h) == \A e \in events : Overlap(Window(h), e) => e.id = found[h].id
Fresh(h) == \A e \in events :
                e.id = found[h].id => e.from = found[h].from /\ e.till = found[h].till
Clear ==
    \A h \in Handlers : job[h].op \in {"create", "update"} /\ h \notin surprised =>
        /\ at[h] = "act" => Alone(h)
        /\ at[h] \in {"check", "act"} /\ Partial(job[h]) => Fresh(h)

Did(k, a) == a = "success" /\ k.op \notin {"read", "fetch", "submit"} => landed[k] > 0
Took ==
    /\ \A x \in cache : Did(x.key, x.result)
    /\ \A c \in Callers : caller[c].at = "store" => Did(caller[c].key, caller[c].result)
    /\ \A h \in Handlers : at[h] = "answered" => Did(job[h], answer[h])

\* A conflict stands for no effect, unless there was a fault.
Left(k, a) == a = "conflict" /\ k \notin excused => landed[k] = 0
Spared ==
    /\ \A x \in cache : Left(x.key, x.result)
    /\ \A c \in Callers : caller[c].at = "store" => Left(caller[c].key, caller[c].result)
    /\ \A h \in Handlers : at[h] = "answered" => Left(job[h], answer[h])

HasResult(k) == \E x \in cache : x.key = k
Holds(c, k)  == caller[c].at # "idle" /\ caller[c].key = k
\* c has the result of k, or is about to receive it.
Knows(c, k)  == /\ caller[c].key = k
                /\ \/ caller[c].at = "store"
                   \/ caller[c].at = "wait" /\ at[caller[c].on] = "answered"
Once ==
    \A k \in Keys \ excused :
        /\ \A c, d \in Callers : Holds(c, k) /\ Holds(d, k) => c = d
        /\ HasResult(k) => \A c \in Callers : ~Holds(c, k)
        /\ \A h \in Handlers : at[h] # "idle" /\ job[h] = k
               => \E c \in Callers : caller[c].at = "wait" /\ caller[c].on = h
        /\ \/ landed[k] = 0
           \/ landed[k] = 1 /\ (HasResult(k) \/ \E c \in Callers : Knows(c, k))

\* Who signed an event has taken effect, and an id is one event's.
Signed == /\ \A e \in events : e.by \in Keys => landed[e.by] > 0
          /\ \A e, f \in events : e.id = f.id => e = f

CallInv == /\ CallType /\ Joined /\ Employed /\ Clear /\ Took /\ Spared /\ Once /\ Signed
           /\ DoubleBookingNeedsRace /\ ClashIsWithAnother
Inv == TokenInv /\ CallInv

\* A fact of constants: a key is not NoKey, and its times are slots or not given.
LEMMA KeysAre ==
  /\ NoKey \notin Keys /\ \A k \in Keys : {k.from, k.till} \subseteq Slots \union {0}
  /\ NoKey.op = "none" /\ Slots \subseteq Nat
BY CallConstants DEF NoKey

LEMMA IdleType == Idle \in CallerType /\ Idle.at = "idle" /\ Idle.tries = 0 /\ Idle.on = "none"
BY CallConstants DEF Idle, CallerType, Answers

LEMMA CallInitInv == Init => CallInv
<1> SUFFICES ASSUME Init PROVE CallInv
  OBVIOUS
<1>0. /\ at = [p \in Processes |-> "idle"] /\ \A h \in Handlers : at[h] = "idle"
  BY DEF Init, TokenInit, Handlers, Processes
<1>1. PICK I \in SUBSET EventIds, first \in [EventIds -> Slots], last \in [EventIds -> Slots] :
        events = {[id |-> i, from |-> first[i], till |-> last[i], by |-> NoKey,
                   surprised |-> FALSE] : i \in I}
  BY DEF Init
<1> DEFINE own(i) == [id |-> i, from |-> first[i], till |-> last[i], by |-> NoKey,
                      surprised |-> FALSE]
<1>9. \A i \in EventIds : own(i) \in Events /\ own(i).by = NoKey /\ own(i).id = i
  BY DEF Events
<1>10. events = {own(i) : i \in I}
  BY <1>1
<1> HIDE DEF own
<1>11. \A e \in events : e.id \in EventIds /\ e = own(e.id)
  BY <1>9, <1>10
<1>2. events \subseteq Events /\ \A e \in events : e.by = NoKey
  BY <1>9, <1>11
<1>8. \A e, f \in events : e.id = f.id => e = f
  BY <1>11
<1>3. CallType
  <2>1. caller \in [Callers -> CallerType]
    BY IdleType DEF Init
  <2>2. /\ job \in [Handlers -> Keys \union {NoKey}] /\ answer \in [Handlers -> Answers]
        /\ clashing \in [Handlers -> SUBSET Events] /\ surprised \subseteq Handlers
        /\ excused \subseteq Keys /\ cache \subseteq [key: Keys, result: Answers \ {"none"}]
    BY DEF Init, Answers
  <2>4. found \in [Handlers -> Events \union {NoEvent}]
    BY DEF Init
  <2>3. /\ landed \in [Keys -> Nat]
        /\ begun \in 0..MaxCalls /\ losses \in 0..MaxLosses
    BY CallConstants DEF Init
  <2> QED
    BY <1>2, <2>1, <2>2, <2>3, <2>4 DEF CallType
<1>4. \A c \in Callers : caller[c].at = "idle"
  BY IdleType DEF Init
<1>5. Joined /\ Employed /\ Clear
  BY <1>0, <1>4 DEF Init, Joined, Employed, Clear, Alone, Fresh, Window, Time
<1>6. Took /\ Spared /\ Once /\ Signed
  BY <1>0, <1>2, <1>4, <1>8, KeysAre DEF Init, Took, Spared, Once, Signed, Holds, HasResult
<1>7. DoubleBookingNeedsRace /\ ClashIsWithAnother
  <2>1. \A e, f \in events : Overlap(e, f) => e = f
    BY DEF Init
  <2>2. \A h \in Handlers : answer[h] = "none"
    BY DEF Init
  <2> QED
    BY <2>1, <2>2 DEF DoubleBookingNeedsRace, ClashIsWithAnother
<1> QED
  BY <1>3, <1>5, <1>6, <1>7 DEF CallInv

\* What has not been answered has not taken effect, if its key has no fault.
LEMMA NotYet ==
  ASSUME CallInv, NEW h \in Handlers, at[h] \notin {"idle", "answered"}, job[h] \notin excused
  PROVE  landed[job[h]] = 0
<1>1. job[h] \in Keys
  BY DEF CallInv, Employed
<1>2. PICK c \in Callers : caller[c].at = "wait" /\ caller[c].on = h
  BY <1>1 DEF CallInv, Once
<1>3. caller[c].key = job[h] /\ Holds(c, job[h])
  BY <1>2 DEF CallInv, Joined, Holds
<1>4. ~HasResult(job[h])
  BY <1>1, <1>3 DEF CallInv, Once
<1>5. ASSUME NEW d \in Callers, Knows(d, job[h]) PROVE FALSE
  <2>1. Holds(d, job[h])
    BY <1>5 DEF Knows, Holds
  <2>2. c = d
    BY <1>1, <1>3, <2>1 DEF CallInv, Once
  <2> QED
    BY <1>2, <1>5, <2>2 DEF Knows
<1> QED
  BY <1>1, <1>4, <1>5 DEF CallInv, Once

-----------------------------------------------------------------------------
(* Steps that leave the servers' work as it is.                              *)

\* Handlers at most move on between their requests; the callers may do something.
Between ==
    /\ UNCHANGED serverVars
    /\ \A h \in Handlers :
          at'[h] = at[h] \/ {at[h], at'[h]} \intersect {"idle", "answered", "check", "act"} = {}

LEMMA BetweenKeeps ==
  ASSUME CallInv, Between
  PROVE  /\ Employed' /\ Clear' /\ Signed' /\ DoubleBookingNeedsRace'
         /\ excused \subseteq excused' => ClashIsWithAnother'
<1>1. Employed'
  BY DEF CallInv, Employed, Window, Time, Between, serverVars
<1>2. Clear'
  BY DEF CallInv, Clear, Alone, Fresh, Window, Time, Between, serverVars
<1>3. Signed' /\ DoubleBookingNeedsRace'
  BY DEF CallInv, Signed, DoubleBookingNeedsRace, Between, serverVars
<1>4. excused \subseteq excused' => ClashIsWithAnother'
  BY DEF CallInv, ClashIsWithAnother, Between, serverVars
<1> QED
  BY <1>1, <1>2, <1>3, <1>4

LEMMA TokenStepCalls ==
  ASSUME CallInv, Between, UNCHANGED <<clientVars, losses, excused>>
  PROVE  CallInv'
<1>1. CallType'
  BY DEF CallInv, CallType, Between, serverVars, clientVars
<1>2. Joined'
  BY DEF CallInv, Joined, Between, serverVars, clientVars
<1>3. Took' /\ Spared'
  BY DEF CallInv, Took, Did, Spared, Left, Between, serverVars, clientVars
<1>4. Once'
  <2> SUFFICES ASSUME NEW k \in Keys \ excused
               PROVE  /\ \A c, d \in Callers : Holds(c, k)' /\ Holds(d, k)' => c = d
                      /\ HasResult(k)' => \A c \in Callers : ~Holds(c, k)'
                      /\ \A h \in Handlers : at'[h] # "idle" /\ job'[h] = k
                           => \E c \in Callers : caller'[c].at = "wait" /\ caller'[c].on = h
                      /\ \/ landed'[k] = 0
                         \/ landed'[k] = 1 /\ (HasResult(k)' \/ \E c \in Callers : Knows(c, k)')
    BY DEF Once
  <2>1. \A c \in Callers : (Holds(c, k)' <=> Holds(c, k))
    BY DEF Holds, clientVars
  <2>2. HasResult(k)' <=> HasResult(k)
    BY DEF HasResult, clientVars
  <2>3. \A c \in Callers : Knows(c, k) => Knows(c, k)'
    BY DEF Knows, CallInv, Joined, Between, clientVars
  <2> QED
    BY <2>1, <2>2, <2>3 DEF CallInv, Once, Between, serverVars, clientVars
<1> QED
  BY <1>1, <1>2, <1>3, <1>4, BetweenKeeps DEF CallInv

LEMMA TokenBetween ==
  ASSUME TokenInv, TokenStep
  PROVE  Between
<1>1. UNCHANGED serverVars
  BY DEF TokenStep
<1>2. ASSUME NEW p \in Processes, NEW place, Go(p, place) \/ Leave(p, place)
      PROVE  \A h \in Handlers \ {p} : at'[h] = at[h]
  BY <1>2 DEF Go, Leave, TokenInv, TokenType, Handlers, Processes
<1>3. ASSUME NEW p \in Processes, NEW place, Go(p, place) \/ Leave(p, place)
      PROVE  at'[p] = place
  BY <1>3 DEF Go, Leave, TokenInv, TokenType
<1>4. ASSUME NEW p \in Resolvers, ResolveStep(p) PROVE Between
  <2>1. PICK place : /\ Go(p, place) \/ Leave(p, place)
                     /\ {at[p], place} \intersect {"idle", "answered", "check", "act"} = {}
    <3>1. CASE Read(p)
      BY <3>1 DEF Read
    <3>2. CASE Refresh(p)
      BY <3>2 DEF Refresh
    <3>3. CASE Look(p)
      BY <3>3 DEF Look
    <3>4. CASE Write(p)
      BY <3>4 DEF Write
    <3> QED
      BY <1>4, <3>1, <3>2, <3>3, <3>4 DEF ResolveStep
  <2> QED
    BY <1>1, <1>2, <1>3, <2>1 DEF Between, Handlers, Processes
<1>5. ASSUME NEW p \in Requests, RequestStep(p) PROVE Between
  <2>1. \E place : Go(p, place) \/ Leave(p, place)
    <3>1. CASE Look(p) \/ Write(p)
      BY <3>1 DEF Look, Write
    <3>2. CASE StoreIntegrationToken(p) \/ DisconnectIntegration(p)
      BY <3>2 DEF StoreIntegrationToken, DisconnectIntegration
    <3>3. CASE DeleteToken(p) \/ RequestFailed(p)
      BY <3>3 DEF DeleteToken, RequestFailed
    <3> QED
      BY <1>5, <3>1, <3>2, <3>3 DEF RequestStep
  <2>2. p \notin Handlers /\ p \in Processes
    BY TokenConstants DEF Handlers, Processes
  <2> QED
    BY <1>1, <1>2, <2>1, <2>2 DEF Between
<1>6. CASE Age
  BY <1>1, <1>6 DEF Age, Between
<1> QED
  BY <1>4, <1>5, <1>6 DEF TokenStep, Handlers

-----------------------------------------------------------------------------
(* Steps of the callers.                                                     *)

LEMMA CallToolInv ==
  ASSUME CallInv, NEW c \in Callers, NEW k \in Keys, CallTool(c, k)
  PROVE  CallInv'
<1> DEFINE new == [Idle EXCEPT !.at = "send", !.key = k]
<1>1. new \in CallerType /\ new.at = "send" /\ new.key = k /\ new.tries = 0
  BY IdleType DEF CallerType
<1>2. caller' = [caller EXCEPT ![c] = new]
  BY DEF CallTool
<1> HIDE DEF new
<1>3. /\ caller' \in [Callers -> CallerType] /\ caller'[c] = new
      /\ \A d \in Callers \ {c} : caller'[d] = caller[d]
  BY <1>1, <1>2 DEF CallInv, CallType
<1>4. Between /\ excused \subseteq excused' /\ excused' \subseteq excused \union {k}
  BY DEF CallTool, Between, tokenVars
<1>5. CallType'
  <2>1. begun' \in 0..MaxCalls /\ excused' \subseteq Keys
    BY <1>4, CallConstants DEF CallInv, CallType, CallTool
  <2> QED
    BY <1>3, <2>1 DEF CallInv, CallType, CallTool, serverVars
<1>6. Joined'
  <2>1. 0 < MaxTries
    BY CallConstants
  <2>2. at' = at /\ job' = job
    BY DEF CallTool, tokenVars, serverVars
  <2>3. \A d \in Callers : caller'[d].at = "wait" => d # c
    BY <1>1, <1>3
  <2> QED
    BY <1>1, <1>3, <2>1, <2>2, <2>3 DEF CallInv, Joined
<1>7. Took' /\ Spared'
  BY <1>1, <1>3 DEF CallInv, Took, Did, Spared, Left, CallTool, tokenVars, serverVars
<1>8. Once'
  <2> SUFFICES ASSUME NEW x \in Keys \ excused'
               PROVE  /\ \A d, e \in Callers : Holds(d, x)' /\ Holds(e, x)' => d = e
                      /\ HasResult(x)' => \A d \in Callers : ~Holds(d, x)'
                      /\ \A h \in Handlers : at'[h] # "idle" /\ job'[h] = x
                           => \E d \in Callers : caller'[d].at = "wait" /\ caller'[d].on = h
                      /\ \/ landed'[x] = 0
                         \/ landed'[x] = 1 /\ (HasResult(x)' \/ \E d \in Callers : Knows(d, x)')
    BY DEF Once
  <2>1. x \in Keys \ excused /\ (HasResult(x)' <=> HasResult(x))
    BY <1>4 DEF CallTool, HasResult
  <2>2. \A d \in Callers \ {c} : /\ Holds(d, x)' <=> Holds(d, x)
                                 /\ Knows(d, x)' <=> Knows(d, x)
    BY <1>3 DEF Holds, Knows, CallTool, tokenVars
  <2>3. Holds(c, x)' <=> x = k
    BY <1>1, <1>3 DEF Holds
  <2>4. x = k => ~HasResult(x) /\ \A d \in Callers : ~Holds(d, x)
    BY DEF CallTool, Cached, HasResult, Holds, Busy
  <2>5. ~Knows(c, x) /\ caller[c].at = "idle"
    BY DEF CallTool, Knows, Busy
  <2>6. at' = at /\ job' = job /\ landed' = landed
    BY DEF CallTool, tokenVars, serverVars
  <2>7. \A d \in Callers \ {c} : caller'[d] = caller[d]
    BY <1>3
  <2> QED
    BY <2>1, <2>2, <2>3, <2>4, <2>5, <2>6, <2>7 DEF CallInv, Once
<1> QED
  BY <1>4, <1>5, <1>6, <1>7, <1>8, BetweenKeeps DEF CallInv

\* Every caller but c stays as it is.
LEMMA OneCaller ==
  ASSUME CallInv, NEW c \in Callers, NEW new \in CallerType, caller' = [caller EXCEPT ![c] = new]
  PROVE  /\ caller' \in [Callers -> CallerType] /\ caller'[c] = new
         /\ \A d \in Callers \ {c} : caller'[d] = caller[d]
BY DEF CallInv, CallType

\* A caller that is there has a proper record and, if busy, a proper key.
LEMMA CallerIs ==
  ASSUME CallInv, NEW c \in Callers
  PROVE  /\ caller[c] \in CallerType /\ caller[c].tries \in 0..MaxTries
         /\ caller[c].at \in {"idle", "send", "wait", "store"} /\ caller[c].result \in Answers
         /\ caller[c].at # "idle" => caller[c].key \in Keys
BY DEF CallInv, CallType, CallerType, Joined

(* A fault excuses its keys, and leaves what the others are about.           *)
LEMMA FaultOnce ==
  ASSUME CallInv, NEW c \in Callers, NEW new \in CallerType, caller[c].at # "idle",
         caller' = [caller EXCEPT ![c] = new], new.key \in {caller[c].key, NoKey},
         excused' = excused \union {caller[c].key}, UNCHANGED <<tokenVars, cache, serverVars>>
  PROVE  Once'
<1>1. /\ caller'[c] = new /\ \A d \in Callers \ {c} : caller'[d] = caller[d]
  BY OneCaller
<1> SUFFICES ASSUME NEW x \in Keys \ excused'
             PROVE  /\ \A d, e \in Callers : Holds(d, x)' /\ Holds(e, x)' => d = e
                    /\ HasResult(x)' => \A d \in Callers : ~Holds(d, x)'
                    /\ \A h \in Handlers : at'[h] # "idle" /\ job'[h] = x
                         => \E d \in Callers : caller'[d].at = "wait" /\ caller'[d].on = h
                    /\ \/ landed'[x] = 0
                       \/ landed'[x] = 1 /\ (HasResult(x)' \/ \E d \in Callers : Knows(d, x)')
  BY DEF Once
<1>2. x \in Keys \ excused /\ x # caller[c].key /\ x # new.key
  BY KeysAre
<1>3. /\ ~Holds(c, x) /\ ~Holds(c, x)' /\ ~Knows(c, x)
  BY <1>1, <1>2 DEF Holds, Knows
<1>4. \A d \in Callers \ {c} : /\ Holds(d, x)' <=> Holds(d, x)
                               /\ Knows(d, x)' <=> Knows(d, x)
  BY <1>1 DEF Holds, Knows, tokenVars
<1>5. at' = at /\ job' = job /\ landed' = landed /\ (HasResult(x)' <=> HasResult(x))
  BY DEF tokenVars, serverVars, HasResult
<1>6. ASSUME NEW h \in Handlers, at[h] # "idle", job[h] = x
      PROVE  \E d \in Callers : caller'[d].at = "wait" /\ caller'[d].on = h
  <2>1. PICK d \in Callers : caller[d].at = "wait" /\ caller[d].on = h
    BY <1>2, <1>6 DEF CallInv, Once
  <2>2. caller[d].key = x
    BY <1>6, <2>1 DEF CallInv, Joined
  <2> QED
    BY <1>1, <1>2, <2>1, <2>2
<1> QED
  BY <1>2, <1>3, <1>4, <1>5, <1>6 DEF CallInv, Once

LEMMA LoseAnswerInv ==
  ASSUME CallInv, NEW c \in Callers, LoseAnswer(c)
  PROVE  CallInv'
<1> DEFINE tries == IF caller[c].at = "send" THEN caller[c].tries + 1 ELSE caller[c].tries
           new == IF Spent(tries)
                  THEN [caller[c] EXCEPT !.at = "store", !.on = "none", !.result = "failed"]
                  ELSE [caller[c] EXCEPT !.at = "send", !.on = "none", !.tries = tries]
<1>1. /\ caller[c].at \in {"send", "wait"} /\ caller[c].key \in Keys
      /\ excused' = excused \union {caller[c].key} /\ losses' \in 0..MaxLosses
      /\ UNCHANGED <<tokenVars, cache, begun, serverVars>>
  <2>1. caller[c].at # "idle"
    BY DEF LoseAnswer
  <2>2. losses' \in 0..MaxLosses
    BY CallConstants DEF LoseAnswer, Fault, CallInv, CallType
  <2> QED
    BY <2>1, <2>2, CallerIs DEF LoseAnswer, Fault
<1>2. tries \in Nat /\ (~Spent(tries) => tries < MaxTries)
  BY CallerIs, CallConstants DEF Spent
<1>3. caller' = [caller EXCEPT ![c] = new]
  BY DEF LoseAnswer, CallInv, CallType
<1>4. /\ new \in CallerType /\ new.key = caller[c].key /\ new.at \in {"send", "store"}
      /\ new.at = "send" => new.tries < MaxTries
      /\ new.at = "store" => new.result = "failed"
  <2>1. ~Spent(tries) => tries \in 0..MaxTries
    BY <1>2, CallConstants
  <2> HIDE DEF tries
  <2> QED
    BY <1>2, <2>1, CallerIs DEF CallerType, Answers
<1> HIDE DEF new
<1>5. /\ caller' \in [Callers -> CallerType] /\ caller'[c] = new
      /\ \A d \in Callers \ {c} : caller'[d] = caller[d]
  BY <1>3, <1>4, OneCaller
<1>6. CallType'
  BY <1>1, <1>5 DEF CallInv, CallType, serverVars
<1>7. Joined'
  <2>1. at' = at /\ job' = job /\ \A d \in Callers : caller'[d].at = "wait" => d # c
    BY <1>1, <1>4, <1>5 DEF tokenVars, serverVars
  <2> QED
    BY <1>1, <1>4, <1>5, <2>1 DEF CallInv, Joined
<1>8. Took' /\ Spared'
  BY <1>1, <1>4, <1>5 DEF CallInv, Took, Did, Spared, Left, tokenVars, serverVars
<1>9. Once'
  BY <1>1, <1>3, <1>4, FaultOnce
<1>10. Between /\ excused \subseteq excused'
  BY <1>1 DEF Between, tokenVars
<1> QED
  BY <1>6, <1>7, <1>8, <1>9, <1>10, BetweenKeeps DEF CallInv

LEMMA AbandonCallInv ==
  ASSUME CallInv, NEW c \in Callers, AbandonCall(c)
  PROVE  CallInv'
<1>1. /\ caller[c].at # "idle" /\ caller[c].key \in Keys
      /\ excused' = excused \union {caller[c].key} /\ losses' \in 0..MaxLosses
      /\ UNCHANGED <<tokenVars, cache, begun, serverVars>>
  <2>1. caller[c].at # "idle"
    BY DEF AbandonCall, Busy
  <2>2. losses' \in 0..MaxLosses
    BY CallConstants DEF AbandonCall, Fault, CallInv, CallType
  <2> QED
    BY <2>1, <2>2, CallerIs DEF AbandonCall, Fault
<1>2. caller' = [caller EXCEPT ![c] = Idle] /\ Idle.key = NoKey
  BY DEF AbandonCall, Idle
<1>3. /\ caller' \in [Callers -> CallerType] /\ caller'[c] = Idle
      /\ \A d \in Callers \ {c} : caller'[d] = caller[d]
  BY <1>2, IdleType, OneCaller
<1>4. CallType'
  BY <1>1, <1>3 DEF CallInv, CallType, serverVars
<1>5. Joined'
  BY <1>1, <1>3, IdleType DEF CallInv, Joined, tokenVars, serverVars
<1>6. Took' /\ Spared'
  BY <1>1, <1>3, IdleType DEF CallInv, Took, Did, Spared, Left, tokenVars, serverVars
<1>7. Once'
  BY <1>1, <1>2, IdleType, FaultOnce
<1>8. Between /\ excused \subseteq excused'
  BY <1>1 DEF Between, tokenVars
<1> QED
  BY <1>4, <1>5, <1>6, <1>7, <1>8, BetweenKeeps DEF CallInv

LEMMA CacheExpiryInv ==
  ASSUME CallInv, CacheExpiry
  PROVE  CallInv'
<1>1. /\ excused' = excused \union {x.key : x \in cache} /\ losses' \in 0..MaxLosses
      /\ cache' = {} /\ UNCHANGED <<tokenVars, caller, begun, serverVars>>
  BY CallConstants DEF CacheExpiry, Fault, CallInv, CallType
<1>2. CallType'
  BY <1>1 DEF CallInv, CallType, serverVars
<1>3. Joined' /\ Took' /\ Spared'
  BY <1>1 DEF CallInv, Joined, Took, Did, Spared, Left, tokenVars, serverVars
<1>4. Once'
  <2>1. \A x \in Keys \ excused' : x \in Keys \ excused /\ ~HasResult(x) /\ ~HasResult(x)'
    BY <1>1 DEF HasResult
  <2>2. \A x, d : (Holds(d, x)' <=> Holds(d, x)) /\ (Knows(d, x)' <=> Knows(d, x))
    BY <1>1 DEF Holds, Knows, tokenVars
  <2> QED
    BY <1>1, <2>1, <2>2 DEF CallInv, Once, tokenVars, serverVars
<1>5. Between /\ excused \subseteq excused'
  BY <1>1 DEF Between, tokenVars
<1> QED
  BY <1>2, <1>3, <1>4, <1>5, BetweenKeeps DEF CallInv

LEMMA StoreResultInv ==
  ASSUME CallInv, NEW c \in Callers, StoreResult(c)
  PROVE  CallInv'
<1> DEFINE q == caller[c].key
           entry == [key |-> q, result |-> caller[c].result]
<1>1. /\ caller[c].at = "store" /\ q \in Keys /\ caller[c].result \in Answers \ {"none"}
      /\ Did(q, caller[c].result)
      /\ UNCHANGED <<tokenVars, begun, serverVars, losses, excused>>
  BY CallerIs DEF StoreResult, CallInv, Joined, Took
<1>2. caller' = [caller EXCEPT ![c] = Idle] /\ Idle.key = NoKey
  BY DEF StoreResult, Idle
<1>3. /\ caller' \in [Callers -> CallerType] /\ caller'[c] = Idle
      /\ \A d \in Callers \ {c} : caller'[d] = caller[d]
  BY <1>2, IdleType, OneCaller
<1>4. cache' = (cache \ Cached(q)) \union {entry}
  BY DEF StoreResult
<1>5. entry \in [key: Keys, result: Answers \ {"none"}] /\ entry.key = q
      /\ entry.result = caller[c].result
  BY <1>1
<1>6. CallType'
  BY <1>1, <1>3, <1>4, <1>5 DEF CallInv, CallType, serverVars
<1>7. Joined'
  BY <1>1, <1>3, IdleType DEF CallInv, Joined, tokenVars, serverVars
<1>8. Took' /\ Spared'
  <2>1. \A x \in cache' : x \in cache \/ x = entry
    BY <1>4
  <2>2. landed' = landed /\ at' = at /\ job' = job /\ answer' = answer
    BY <1>1 DEF tokenVars, serverVars
  <2> QED
    BY <1>1, <1>3, <1>5, <2>1, <2>2, IdleType DEF CallInv, Took, Did, Spared, Left
<1>9. Once'
  <2> SUFFICES ASSUME NEW x \in Keys \ excused
               PROVE  /\ \A d, e \in Callers : Holds(d, x)' /\ Holds(e, x)' => d = e
                      /\ HasResult(x)' => \A d \in Callers : ~Holds(d, x)'
                      /\ \A h \in Handlers : at'[h] # "idle" /\ job'[h] = x
                           => \E d \in Callers : caller'[d].at = "wait" /\ caller'[d].on = h
                      /\ \/ landed'[x] = 0
                         \/ landed'[x] = 1 /\ (HasResult(x)' \/ \E d \in Callers : Knows(d, x)')
    BY <1>1 DEF Once
  <2>1. at' = at /\ job' = job /\ landed' = landed
    BY <1>1 DEF tokenVars, serverVars
  <2>2. \A d \in Callers \ {c} : /\ Holds(d, x)' <=> Holds(d, x)
                                 /\ Knows(d, x)' <=> Knows(d, x)
    BY <1>3, <2>1 DEF Holds, Knows
  <2>3. ~Holds(c, x)'
    BY <1>3, IdleType DEF Holds
  <2>4. \A h \in Handlers, d \in Callers :
          caller[d].at = "wait" /\ caller[d].on = h => d # c /\ caller'[d] = caller[d]
    BY <1>1, <1>3
  <2>5. CASE x # q
    <3>1. HasResult(x)' <=> HasResult(x)
      BY <1>4, <1>5, <2>5 DEF HasResult, Cached
    <3>2. ~Knows(c, x)
      BY <2>5 DEF Knows
    <3> QED
      BY <2>1, <2>2, <2>3, <2>4, <3>1, <3>2 DEF CallInv, Once
  <2>6. CASE x = q
    <3>1. HasResult(x)'
      BY <1>4, <1>5, <2>6 DEF HasResult
    <3>2. Holds(c, x)
      BY <1>1, <2>6 DEF Holds
    <3>3. \A d \in Callers \ {c} : ~Holds(d, x)
      BY <3>2 DEF CallInv, Once
    <3> QED
      BY <2>1, <2>2, <2>3, <2>4, <3>1, <3>3 DEF CallInv, Once
  <2> QED
    BY <2>5, <2>6
<1>10. Between
  BY <1>1 DEF Between, tokenVars
<1> QED
  BY <1>1, <1>6, <1>7, <1>8, <1>9, <1>10, BetweenKeeps DEF CallInv

LEMMA InvokeInv ==
  ASSUME TokenInv, CallInv, NEW c \in Callers, Invoke(c)
  PROVE  CallInv'
<1> DEFINE q == caller[c].key
<1>1. PICK h \in Handlers :
        /\ at[h] = "idle" /\ Go(h, IF Elsewhere(q) THEN "token" ELSE "resolve")
        /\ job' = [job EXCEPT ![h] = q]
        /\ caller' = [caller EXCEPT ![c].at = "wait", ![c].on = h, ![c].tries = @ + 1]
  BY DEF Invoke
<1>2. /\ caller[c].at = "send" /\ q \in Keys /\ caller[c].tries < MaxTries
      /\ UNCHANGED <<cache, begun, answer, found, clashing, events, landed, surprised, losses, excused>>
  BY CallerIs DEF Invoke, CallInv, Joined
<1> DEFINE new == [caller[c] EXCEPT !.at = "wait", !.on = h, !.tries = @ + 1]
<1>3. /\ new \in CallerType /\ new.at = "wait" /\ new.key = q /\ new.on = h
  <2>1. caller[c].tries + 1 \in 0..MaxTries
    BY <1>2, CallerIs, CallConstants
  <2> QED
    BY <2>1, CallerIs DEF CallerType
<1>4. caller' = [caller EXCEPT ![c] = new]
  BY <1>1 DEF CallInv, CallType
<1> HIDE DEF new
<1>5. /\ caller' \in [Callers -> CallerType] /\ caller'[c] = new
      /\ \A d \in Callers \ {c} : caller'[d] = caller[d]
  BY <1>3, <1>4, OneCaller
<1>6. /\ at'[h] \in {"token", "resolve"} /\ \A g \in Handlers \ {h} : at'[g] = at[g]
  BY <1>1 DEF Go, TokenInv, TokenType, Handlers, Processes
<1>7. /\ job' \in [Handlers -> Keys \union {NoKey}] /\ job'[h] = q
      /\ \A g \in Handlers \ {h} : job'[g] = job[g]
  BY <1>1, <1>2 DEF CallInv, CallType
<1>8. CallType'
  BY <1>2, <1>5, <1>7 DEF CallInv, CallType
<1>9. \A d \in Callers \ {c} : caller[d].at = "wait" => caller[d].on # h
  BY <1>1 DEF CallInv, Joined
<1>10. Joined'
  BY <1>2, <1>3, <1>5, <1>6, <1>7, <1>9 DEF CallInv, Joined
<1>11. Employed'
  BY <1>1, <1>2, <1>6, <1>7 DEF CallInv, Employed, Window, Time
<1>12. Clear' /\ Signed' /\ DoubleBookingNeedsRace'
  BY <1>2, <1>6, <1>7 DEF CallInv, Clear, Alone, Fresh, Window, Time, Signed, DoubleBookingNeedsRace
<1>13. Took' /\ Spared'
  BY <1>2, <1>3, <1>5, <1>6, <1>7 DEF CallInv, Took, Did, Spared, Left
<1>14. ClashIsWithAnother'
  <2>1. answer[h] = "none"
    BY <1>1 DEF CallInv, Employed
  <2> QED
    BY <1>2, <1>7, <2>1 DEF CallInv, ClashIsWithAnother
<1>15. Once'
  <2> SUFFICES ASSUME NEW x \in Keys \ excused
               PROVE  /\ \A d, e \in Callers : Holds(d, x)' /\ Holds(e, x)' => d = e
                      /\ HasResult(x)' => \A d \in Callers : ~Holds(d, x)'
                      /\ \A g \in Handlers : at'[g] # "idle" /\ job'[g] = x
                           => \E d \in Callers : caller'[d].at = "wait" /\ caller'[d].on = g
                      /\ \/ landed'[x] = 0
                         \/ landed'[x] = 1 /\ (HasResult(x)' \/ \E d \in Callers : Knows(d, x)')
    BY <1>2 DEF Once
  <2>1. \A d \in Callers : Holds(d, x)' <=> Holds(d, x)
    BY <1>2, <1>3, <1>5 DEF Holds
  <2>2. \A d \in Callers : Knows(d, x) => Knows(d, x)'
    <3>1. ~Knows(c, x)
      BY <1>2 DEF Knows
    <3>2. \A d \in Callers \ {c} : caller[d].at = "wait" =>
             caller[d].on \in Handlers /\ at'[caller[d].on] = at[caller[d].on]
      BY <1>6, <1>9 DEF CallInv, Joined
    <3> QED
      BY <1>5, <3>1, <3>2 DEF Knows
  <2>3. HasResult(x)' <=> HasResult(x)
    BY <1>2 DEF HasResult
  <2>4. ASSUME NEW g \in Handlers, at'[g] # "idle", job'[g] = x
        PROVE  \E d \in Callers : caller'[d].at = "wait" /\ caller'[d].on = g
    <3>1. CASE g = h
      BY <1>3, <1>5, <3>1
    <3>2. CASE g # h
      <4>1. PICK d \in Callers : caller[d].at = "wait" /\ caller[d].on = g
        BY <1>6, <1>7, <2>4, <3>2 DEF CallInv, Once
      <4> QED
        BY <1>2, <1>5, <4>1
    <3> QED
      BY <3>1, <3>2
  <2> QED
    BY <1>2, <2>1, <2>2, <2>3, <2>4 DEF CallInv, Once
<1> QED
  BY <1>8, <1>10, <1>11, <1>12, <1>13, <1>14, <1>15 DEF CallInv

\* A freed handler serves nobody, and has nothing to answer for.
LEMMA FreeKeeps ==
  ASSUME TokenInv, CallInv, NEW h \in Handlers, at[h] = "answered", Free(h),
         UNCHANGED <<excused>>
  PROVE  /\ at'[h] = "idle" /\ \A g \in Handlers \ {h} : at'[g] = at[g] /\ job'[g] = job[g]
         /\ landed' = landed /\ events' = events /\ answer' \in [Handlers -> Answers]
         /\ \A g \in Handlers \ {h} : answer'[g] = answer[g]
         /\ job' \in [Handlers -> Keys \union {NoKey}]
         /\ found' \in [Handlers -> Events \union {NoEvent}] /\ clashing' \in [Handlers -> SUBSET Events]
         /\ surprised' \subseteq Handlers
         /\ Employed' /\ Clear' /\ Signed' /\ DoubleBookingNeedsRace' /\ ClashIsWithAnother'
<1>1. at'[h] = "idle" /\ \A g \in Handlers \ {h} : at'[g] = at[g]
  BY DEF Free, Go, TokenInv, TokenType, Handlers, Processes
<1>2. /\ job' \in [Handlers -> Keys \union {NoKey}] /\ \A g \in Handlers \ {h} : job'[g] = job[g]
      /\ answer' \in [Handlers -> Answers] /\ answer'[h] = "none"
      /\ \A g \in Handlers \ {h} : answer'[g] = answer[g]
      /\ clashing' \in [Handlers -> SUBSET Events]
      /\ \A g \in Handlers \ {h} : clashing'[g] = clashing[g]
  BY DEF Free, CallInv, CallType, Answers
<1>3. /\ found' \in [Handlers -> Events \union {NoEvent}] /\ found'[h] = NoEvent
      /\ \A g \in Handlers \ {h} : found'[g] = found[g]
  BY DEF Free, CallInv, CallType
<1>4. surprised' = surprised \ {h} /\ landed' = landed /\ events' = events
  BY DEF Free
<1>5. Employed'
  BY <1>1, <1>2, <1>3 DEF CallInv, Employed, Window, Time
<1>6. Clear'
  BY <1>1, <1>2, <1>3, <1>4 DEF CallInv, Clear, Alone, Fresh, Window, Time
<1>7. Signed' /\ DoubleBookingNeedsRace'
  BY <1>4 DEF CallInv, Signed, DoubleBookingNeedsRace
<1>8. ClashIsWithAnother'
  BY <1>2, <1>3 DEF CallInv, ClashIsWithAnother
<1> QED
  BY <1>1, <1>2, <1>3, <1>4, <1>5, <1>6, <1>7, <1>8 DEF CallInv, CallType

LEMMA ReceiveInv ==
  ASSUME TokenInv, CallInv, NEW c \in Callers, Receive(c)
  PROVE  CallInv'
<1>1. PICK h \in Handlers : h = caller[c].on
  BY DEF Receive, CallInv, Joined
<1>2. /\ caller[c].at = "wait" /\ at[h] = "answered" /\ Free(h) /\ job[h] = caller[c].key
      /\ caller[c].key \in Keys /\ UNCHANGED <<cache, begun, losses, excused>>
  BY <1>1 DEF Receive, CallInv, Joined
<1> DEFINE new == [caller[c] EXCEPT !.at = "store", !.result = answer[h]]
<1>3. /\ new \in CallerType /\ new.at = "store" /\ new.key = caller[c].key
      /\ new.result = answer[h] /\ new.result # "none"
  <2>1. answer[h] \in Answers \ {"none"}
    BY <1>2 DEF CallInv, CallType, Employed
  <2> QED
    BY <2>1, CallerIs DEF CallerType
<1>4. caller' = [caller EXCEPT ![c] = new]
  BY <1>1 DEF Receive, CallInv, CallType
<1> HIDE DEF new
<1>5. /\ caller' \in [Callers -> CallerType] /\ caller'[c] = new
      /\ \A d \in Callers \ {c} : caller'[d] = caller[d]
  BY <1>3, <1>4, OneCaller
<1>6. /\ at'[h] = "idle" /\ \A g \in Handlers \ {h} : at'[g] = at[g] /\ job'[g] = job[g]
      /\ landed' = landed /\ \A g \in Handlers \ {h} : answer'[g] = answer[g]
      /\ Employed' /\ Clear' /\ Signed' /\ DoubleBookingNeedsRace' /\ ClashIsWithAnother'
  BY <1>2, FreeKeeps
<1>7. CallType'
  BY <1>2, <1>5, FreeKeeps DEF CallInv, CallType
<1>8. \A d \in Callers \ {c} : caller[d].at = "wait" => caller[d].on # h
  BY <1>1, <1>2 DEF CallInv, Joined
<1>9. Joined'
  BY <1>2, <1>3, <1>5, <1>6, <1>8 DEF CallInv, Joined
<1>10. Took' /\ Spared'
  BY <1>2, <1>3, <1>5, <1>6 DEF CallInv, Took, Did, Spared, Left
<1>11. Once'
  <2> SUFFICES ASSUME NEW x \in Keys \ excused
               PROVE  /\ \A d, e \in Callers : Holds(d, x)' /\ Holds(e, x)' => d = e
                      /\ HasResult(x)' => \A d \in Callers : ~Holds(d, x)'
                      /\ \A g \in Handlers : at'[g] # "idle" /\ job'[g] = x
                           => \E d \in Callers : caller'[d].at = "wait" /\ caller'[d].on = g
                      /\ \/ landed'[x] = 0
                         \/ landed'[x] = 1 /\ (HasResult(x)' \/ \E d \in Callers : Knows(d, x)')
    BY <1>2 DEF Once
  <2>1. \A d \in Callers : Holds(d, x)' <=> Holds(d, x)
    BY <1>2, <1>3, <1>5 DEF Holds
  <2>2. \A d \in Callers : Knows(d, x) => Knows(d, x)'
    <3>1. \A d \in Callers \ {c} : caller[d].at = "wait" =>
             caller[d].on \in Handlers /\ at'[caller[d].on] = at[caller[d].on]
      BY <1>6, <1>8 DEF CallInv, Joined
    <3> QED
      BY <1>3, <1>5, <3>1 DEF Knows
  <2>3. HasResult(x)' <=> HasResult(x)
    BY <1>2 DEF HasResult
  <2>4. ASSUME NEW g \in Handlers, at'[g] # "idle", job'[g] = x
        PROVE  \E d \in Callers : caller'[d].at = "wait" /\ caller'[d].on = g
    <3>1. g # h
      BY <1>6, <2>4
    <3>2. PICK d \in Callers : caller[d].at = "wait" /\ caller[d].on = g
      BY <1>6, <2>4, <3>1 DEF CallInv, Once
    <3> QED
      BY <1>1, <1>5, <3>1, <3>2
  <2> QED
    BY <1>6, <2>1, <2>2, <2>3, <2>4 DEF CallInv, Once
<1> QED
  BY <1>6, <1>7, <1>9, <1>10, <1>11 DEF CallInv

LEMMA DroppedInv ==
  ASSUME TokenInv, CallInv, NEW h \in Handlers, Dropped(h)
  PROVE  CallInv'
<1>1. /\ at[h] = "answered" /\ Free(h) /\ UNCHANGED <<caller, cache, begun, losses, excused>>
      /\ \A c \in Callers : caller[c].at = "wait" => caller[c].on # h
  BY DEF Dropped, clientVars
<1>2. /\ at'[h] = "idle" /\ \A g \in Handlers \ {h} : at'[g] = at[g] /\ job'[g] = job[g]
      /\ landed' = landed /\ \A g \in Handlers \ {h} : answer'[g] = answer[g]
      /\ Employed' /\ Clear' /\ Signed' /\ DoubleBookingNeedsRace' /\ ClashIsWithAnother'
  BY <1>1, FreeKeeps
<1>3. CallType'
  BY <1>1, FreeKeeps DEF CallInv, CallType
<1>4. Joined' /\ Took' /\ Spared'
  BY <1>1, <1>2 DEF CallInv, Joined, Took, Did, Spared, Left
<1>5. Once'
  <2>1. \A d, x : Holds(d, x)' <=> Holds(d, x)
    BY <1>1 DEF Holds
  <2>2. \A d \in Callers : \A x : Knows(d, x) => Knows(d, x)'
    BY <1>1, <1>2 DEF CallInv, Joined, Knows
  <2>3. \A x : HasResult(x)' <=> HasResult(x)
    BY <1>1 DEF HasResult
  <2> QED
    BY <1>1, <1>2, <2>1, <2>2, <2>3 DEF CallInv, Once
<1> QED
  BY <1>2, <1>3, <1>4, <1>5 DEF CallInv

-----------------------------------------------------------------------------
(* Steps of the tool functions.                                              *)

\* A handler with work goes on with it; the callers and what they know stay.
LEMMA HandlerGoes ==
  ASSUME TokenInv, CallInv, NEW h \in Handlers, at[h] \notin {"idle", "answered"},
         NEW place \in {"check", "act", "answered"}, Onto(h, place),
         UNCHANGED <<clientVars, job, landed, excused>>
  PROVE  /\ at'[h] = place /\ \A g \in Handlers \ {h} : at'[g] = at[g]
         /\ Joined' /\ Once'
<1>1. at'[h] = place /\ \A g \in Handlers \ {h} : at'[g] = at[g]
  BY DEF Onto, Go, TokenInv, TokenType, Handlers, Processes
<1>2. Joined'
  BY <1>1 DEF CallInv, Joined, clientVars
<1>3. Once'
  <2>1. \A d, x : Holds(d, x)' <=> Holds(d, x)
    BY DEF Holds, clientVars
  <2>2. \A d \in Callers : \A x : Knows(d, x) => Knows(d, x)'
    BY <1>1 DEF CallInv, Joined, Knows, clientVars
  <2>3. \A x : HasResult(x)' <=> HasResult(x)
    BY DEF HasResult, clientVars
  <2>4. \A g \in Handlers : at'[g] # "idle" => at[g] # "idle"
    BY <1>1
  <2> QED
    BY <2>1, <2>2, <2>3, <2>4 DEF CallInv, Once, clientVars
<1> QED
  BY <1>1, <1>2, <1>3

\* An answer that stands for no effect: a failure, or a result that was only read.
LEMMA AnswersOnly ==
  ASSUME TokenInv, CallInv, NEW h \in Handlers, at[h] \notin {"idle", "answered"},
         NEW a \in {"success", "failed"}, Answer(h, a), Did(job[h], a),
         UNCHANGED <<clientVars, job, found, clashing, events, landed, surprised, losses, excused>>
  PROVE  CallInv'
<1>1. /\ at'[h] = "answered" /\ \A g \in Handlers \ {h} : at'[g] = at[g]
      /\ Joined' /\ Once'
  BY HandlerGoes DEF Answer
<1>2. /\ answer' \in [Handlers -> Answers] /\ answer'[h] = a
      /\ \A g \in Handlers \ {h} : answer'[g] = answer[g]
  BY DEF Answer, CallInv, CallType, Answers
<1>3. CallType'
  BY <1>2 DEF CallInv, CallType, clientVars
<1>4. Employed'
  BY <1>1, <1>2 DEF CallInv, Employed, Window, Time
<1>5. Clear' /\ Signed' /\ DoubleBookingNeedsRace'
  BY <1>1 DEF CallInv, Clear, Alone, Fresh, Window, Time, Signed, DoubleBookingNeedsRace
<1>6. Took' /\ Spared'
  BY <1>1, <1>2 DEF CallInv, Took, Did, Spared, Left, clientVars
<1>7. ClashIsWithAnother'
  BY <1>2 DEF CallInv, ClashIsWithAnother
<1> QED
  BY <1>1, <1>3, <1>4, <1>5, <1>6, <1>7 DEF CallInv

LEMMA NoEffectInv ==
  ASSUME TokenInv, CallInv, NEW h \in Handlers,
         Fails(h) \/ SearchEmail(h) \/ GetQuote(h) \/ SubmitRefused(h)
  PROVE  CallInv'
<1>1. CASE Fails(h)
  BY <1>1, AnswersOnly DEF Fails, Did
<1>2. CASE SearchEmail(h)
  BY <1>2, AnswersOnly DEF SearchEmail, Did
<1>3. CASE GetQuote(h)
  BY <1>3, AnswersOnly DEF GetQuote, Did
<1>4. CASE SubmitRefused(h)
  BY <1>4, AnswersOnly DEF SubmitRefused, Did
<1> QED
  BY <1>1, <1>2, <1>3, <1>4

LEMMA ResolveEventInv ==
  ASSUME TokenInv, CallInv, NEW h \in Handlers, ResolveEvent(h)
  PROVE  CallInv'
<1>1. PICK e \in events : found' = [found EXCEPT ![h] = e]
  BY DEF ResolveEvent
<1>2. /\ at[h] = "token" /\ job[h].op \in {"update", "delete"}
      /\ UNCHANGED <<clientVars, job, answer, clashing, events, landed, surprised, losses, excused>>
  BY DEF ResolveEvent
<1>3. PICK place \in {"check", "act"} :
        Onto(h, place) /\ (place = "act" => job[h].op = "delete")
  BY DEF ResolveEvent
<1>4. /\ at'[h] = place /\ \A g \in Handlers \ {h} : at'[g] = at[g]
      /\ Joined' /\ Once'
  BY <1>2, <1>3, HandlerGoes
<1>5. /\ found' \in [Handlers -> Events \union {NoEvent}] /\ found'[h] = e
      /\ \A g \in Handlers \ {h} : found'[g] = found[g]
  BY <1>1 DEF CallInv, CallType
<1>6. CallType'
  BY <1>2, <1>5 DEF CallInv, CallType, clientVars
<1>7. Employed'
  BY <1>2, <1>3, <1>4, <1>5 DEF CallInv, Employed, Window, Time
<1>8. Clear'
  BY <1>2, <1>3, <1>4, <1>5 DEF CallInv, Clear, Alone, Fresh, Window, Time, Signed
<1>9. Signed' /\ DoubleBookingNeedsRace'
  BY <1>2 DEF CallInv, Signed, DoubleBookingNeedsRace
<1>10. Took' /\ Spared'
  BY <1>2, <1>3, <1>4 DEF CallInv, Took, Did, Spared, Left, clientVars
<1>11. ClashIsWithAnother'
  BY <1>2, <1>5 DEF CallInv, ClashIsWithAnother, Employed
<1> QED
  BY <1>4, <1>6, <1>7, <1>8, <1>9, <1>10, <1>11 DEF CallInv

LEMMA ClashOrNoneInv ==
  ASSUME TokenInv, CallInv, NEW h \in Handlers, ClashOrNone(h)
  PROVE  CallInv'
<1>1. /\ at[h] \in {"token", "check"} /\ job[h] \in Keys
      /\ UNCHANGED <<clientVars, job, found, events, landed, surprised, losses, excused>>
  BY DEF ClashOrNone, CallInv, Employed
<1>2. CASE Clashing(h) = {} /\ Onto(h, "act") /\ UNCHANGED <<answer, clashing>>
  <2>1. /\ at'[h] = "act" /\ \A g \in Handlers \ {h} : at'[g] = at[g]
        /\ Joined' /\ Once'
    BY <1>1, <1>2, HandlerGoes
  <2>2. CallType'
    BY <1>1, <1>2 DEF CallInv, CallType, clientVars
  <2>3. Employed'
    <3>1. Valid(Window(h))
      BY DEF ClashOrNone
    <3> QED
      BY <1>1, <1>2, <2>1, <3>1 DEF CallInv, Employed, Window, Time, Valid
  <2>4. Alone(h)
    BY <1>2 DEF Clashing, During, Alone
  <2>8. job[h].op = "create" => Fresh(h)
    <3>1. \A e \in events : e.id \in 1..MaxEvents
      BY DEF CallInv, CallType, Events, EventIds
    <3>2. job[h].op = "create" => found[h].id = 0
      BY DEF CallInv, Employed, NoEvent
    <3> QED
      BY <3>1, <3>2, CallConstants DEF Fresh
  <2>9. job[h].op \in {"create", "update"} /\ h \notin surprised /\ Partial(job[h]) => Fresh(h)
    <3>1. at[h] = "check" \/ job[h].op = "create"
      BY DEF ClashOrNone
    <3> QED
      BY <2>8, <3>1 DEF CallInv, Clear
  <2>5. Clear'
    BY <1>1, <2>1, <2>4, <2>9 DEF CallInv, Clear, Alone, Fresh, Window, Time
  <2>6. Signed' /\ DoubleBookingNeedsRace' /\ ClashIsWithAnother'
    BY <1>1, <1>2 DEF CallInv, Signed, DoubleBookingNeedsRace, ClashIsWithAnother
  <2>7. Took' /\ Spared'
    BY <1>1, <1>2, <2>1 DEF CallInv, Took, Did, Spared, Left, clientVars
  <2> QED
    BY <2>1, <2>2, <2>3, <2>5, <2>6, <2>7 DEF CallInv
<1>3. CASE /\ Clashing(h) # {} /\ Answer(h, "conflict")
           /\ clashing' = [clashing EXCEPT ![h] = Clashing(h)]
  <2>1. /\ at'[h] = "answered" /\ \A g \in Handlers \ {h} : at'[g] = at[g]
        /\ Joined' /\ Once'
    BY <1>1, <1>3, HandlerGoes DEF Answer
  <2>2. /\ answer' \in [Handlers -> Answers] /\ answer'[h] = "conflict"
        /\ \A g \in Handlers \ {h} : answer'[g] = answer[g]
    BY <1>3 DEF Answer, CallInv, CallType, Answers
  <2>3. /\ clashing' \in [Handlers -> SUBSET Events] /\ clashing'[h] = Clashing(h)
        /\ \A g \in Handlers \ {h} : clashing'[g] = clashing[g]
    BY <1>3 DEF CallInv, CallType, Clashing, During
  <2>4. CallType'
    BY <1>1, <2>2, <2>3 DEF CallInv, CallType, clientVars
  <2>5. Employed'
    BY <1>1, <2>1, <2>2 DEF CallInv, Employed, Window, Time
  <2>6. Clear' /\ Signed' /\ DoubleBookingNeedsRace'
    BY <1>1, <2>1 DEF CallInv, Clear, Alone, Fresh, Window, Time, Signed, DoubleBookingNeedsRace
  <2>10. job[h] \notin excused => landed[job[h]] = 0
    BY <1>1, NotYet
  <2>7. Took' /\ Spared'
    <3>1. UNCHANGED <<caller, cache, job, landed, excused>>
      BY <1>1 DEF clientVars
    <3>2. Took'
      BY <2>1, <2>2, <3>1 DEF CallInv, Took, Did
    <3>3. Spared'
      BY <2>1, <2>2, <2>10, <3>1 DEF CallInv, Spared, Left
    <3> QED
      BY <3>2, <3>3
  <2>8. job[h] \in excused \/ \E e \in Clashing(h) : e.id # found[h].id /\ e.by # job[h]
    <3>1. CASE job[h] \notin excused
      <4>2. \A e \in events : e.by # job[h]
        BY <1>1, <2>10, <3>1 DEF CallInv, Signed
      <4> QED
        BY <1>3, <4>2 DEF Clashing, During
    <3> QED
      BY <3>1
  <2>9. ClashIsWithAnother'
    BY <1>1, <2>2, <2>3, <2>8 DEF CallInv, ClashIsWithAnother
  <2> QED
    BY <2>1, <2>4, <2>5, <2>6, <2>7, <2>9 DEF CallInv
<1> QED
  BY <1>2, <1>3 DEF ClashOrNone

\* A call without a fault that a handler works on is in no other hands.
LEMMA InOneHand ==
  ASSUME CallInv, NEW h \in Handlers, at[h] \notin {"idle", "answered"}, job[h] \notin excused
  PROVE  /\ \A x \in cache : x.key # job[h]
         /\ \A c \in Callers : caller[c].at = "store" => caller[c].key # job[h]
         /\ \A g \in Handlers \ {h} : at[g] # "idle" => job[g] # job[h]
<1>1. job[h] \in Keys
  BY DEF CallInv, Employed
<1>2. PICK c \in Callers : caller[c].at = "wait" /\ caller[c].on = h
  BY <1>1 DEF CallInv, Once
<1>3. Holds(c, job[h])
  BY <1>2 DEF CallInv, Joined, Holds
<1>4. \A d \in Callers : Holds(d, job[h]) => d = c
  BY <1>1, <1>3 DEF CallInv, Once
<1>5. ~HasResult(job[h])
  BY <1>1, <1>3 DEF CallInv, Once
<1>6. ASSUME NEW g \in Handlers, at[g] # "idle", job[g] = job[h] PROVE g = h
  <2>1. PICK d \in Callers : caller[d].at = "wait" /\ caller[d].on = g
    BY <1>1, <1>6 DEF CallInv, Once
  <2>2. Holds(d, job[h])
    BY <1>6, <2>1 DEF CallInv, Joined, Holds
  <2> QED
    BY <1>2, <1>4, <2>1, <2>2
<1> QED
  BY <1>2, <1>4, <1>5, <1>6 DEF HasResult, Holds

(* A call takes effect: the first time, if its key has no fault, and its     *)
(* caller is about to know.                                                  *)
LEMMA LandedKeeps ==
  ASSUME TokenInv, CallInv, NEW h \in Handlers, at[h] \notin {"idle", "answered"},
         NEW a \in {"success", "failed"}, Landed(h, a)
  PROVE  /\ at'[h] = "answered" /\ \A g \in Handlers \ {h} : at'[g] = at[g]
         /\ landed' \in [Keys -> Nat] /\ landed'[job[h]] > 0
         /\ \A k \in Keys : landed[k] > 0 => landed'[k] > 0
         /\ answer' \in [Handlers -> Answers] /\ answer'[h] = a
         /\ \A g \in Handlers \ {h} : answer'[g] = answer[g]
         /\ UNCHANGED <<clientVars, job, found, clashing, losses, excused>>
         /\ Joined' /\ Employed' /\ Took' /\ Spared' /\ Once' /\ ClashIsWithAnother'
<1>1. /\ job[h] \in Keys /\ Onto(h, "answered") /\ Answer(h, a)
      /\ landed' = [landed EXCEPT ![job[h]] = @ + 1]
      /\ UNCHANGED <<clientVars, job, found, clashing, losses, excused>>
  BY DEF Landed, Answer, CallInv, Employed
<1>2. at'[h] = "answered" /\ \A g \in Handlers \ {h} : at'[g] = at[g]
  BY <1>1 DEF Onto, Go, TokenInv, TokenType, Handlers, Processes
<1>3. /\ landed' \in [Keys -> Nat] /\ landed'[job[h]] = landed[job[h]] + 1
      /\ \A k \in Keys \ {job[h]} : landed'[k] = landed[k]
  BY <1>1 DEF CallInv, CallType
<1>4. landed'[job[h]] > 0 /\ \A k \in Keys : landed[k] > 0 => landed'[k] > 0
  <2>1. \A k \in Keys : landed[k] \in Nat
    BY DEF CallInv, CallType
  <2> QED
    BY <1>1, <1>3, <2>1
<1>5. /\ answer' \in [Handlers -> Answers] /\ answer'[h] = a
      /\ \A g \in Handlers \ {h} : answer'[g] = answer[g]
  BY <1>1 DEF Answer, CallInv, CallType, Answers
<1>6. Joined'
  BY <1>1, <1>2 DEF CallInv, Joined, clientVars
<1>7. Employed'
  BY <1>1, <1>2, <1>5 DEF CallInv, Employed, Window, Time
<1>8. Took'
  <2>1. \A k \in Keys : \A x : Did(k, x) => Did(k, x)'
    BY <1>4 DEF Did
  <2>2. Did(job[h], a)'
    BY <1>1, <1>4 DEF Did
  <2>3. \A x \in cache' : Did(x.key, x.result)'
    BY <1>1, <2>1 DEF CallInv, CallType, Took, clientVars
  <2>4. \A c \in Callers : caller'[c].at = "store" => Did(caller[c].key, caller[c].result)'
    BY <1>1, <2>1, CallerIs DEF CallInv, Took, clientVars
  <2>5. \A g \in Handlers : at'[g] = "answered" => Did(job[g], answer[g])'
    <3>1. ASSUME NEW g \in Handlers, at'[g] = "answered" PROVE Did(job[g], answer[g])'
      <4>1. CASE g = h
        BY <1>1, <1>4, <1>5, <4>1 DEF Did
      <4>2. CASE g # h
        <5>1. at[g] = "answered" /\ job[g] \in Keys /\ Did(job[g], answer[g])
          BY <1>2, <3>1, <4>2 DEF CallInv, Took, Employed
        <5> QED
          BY <1>1, <1>4, <1>5, <4>2, <5>1 DEF Did
      <4> QED
        BY <4>1, <4>2
    <3> QED
      BY <3>1
  <2> QED
    BY <1>1, <2>3, <2>4, <2>5 DEF Took, Did, Spared, Left, clientVars
<1>9. Once'
  <2>1. \A d, x : Holds(d, x)' <=> Holds(d, x)
    BY <1>1 DEF Holds, clientVars
  <2>2. \A d \in Callers : \A x : Knows(d, x) => Knows(d, x)'
    BY <1>1, <1>2 DEF CallInv, Joined, Knows, clientVars
  <2>3. \A x : HasResult(x)' <=> HasResult(x)
    BY <1>1 DEF HasResult, clientVars
  <2>4. \A g \in Handlers : at'[g] # "idle" => at[g] # "idle"
    BY <1>2
  <2>5. job[h] \notin excused =>
           landed'[job[h]] = 1 /\ \E c \in Callers : Knows(c, job[h])'
    <3>1. SUFFICES ASSUME job[h] \notin excused
                   PROVE  landed'[job[h]] = 1 /\ \E c \in Callers : Knows(c, job[h])'
      OBVIOUS
    <3>2. landed[job[h]] = 0
      BY <3>1, NotYet
    <3>3. PICK c \in Callers : caller[c].at = "wait" /\ caller[c].on = h
      BY <1>1, <3>1 DEF CallInv, Once
    <3>4. caller[c].key = job[h]
      BY <3>3 DEF CallInv, Joined
    <3>5. Knows(c, job[h])'
      BY <1>1, <1>2, <3>3, <3>4 DEF Knows, clientVars
    <3> QED
      BY <1>3, <3>2, <3>5
  <2> QED
    BY <1>1, <1>3, <2>1, <2>2, <2>3, <2>4, <2>5 DEF CallInv, Once, clientVars
<1>10. ClashIsWithAnother'
  BY <1>1, <1>5 DEF CallInv, ClashIsWithAnother
<1>11. Spared'
  <2>2. UNCHANGED <<caller, cache, job, excused>>
    BY <1>1 DEF clientVars
  <2>3. \A x \in cache : Left(x.key, x.result)'
    BY <1>3, <2>2, InOneHand DEF CallInv, CallType, Spared, Left
  <2>4. \A c \in Callers : caller[c].at = "store" => Left(caller[c].key, caller[c].result)'
    BY <1>3, <2>2, InOneHand, CallerIs DEF CallInv, Spared, Left
  <2>5. ASSUME NEW g \in Handlers, at'[g] = "answered" PROVE Left(job[g], answer[g])'
    <3>1. CASE g = h
      BY <1>5, <2>2, <3>1 DEF Left
    <3>2. CASE g # h
      <4>1. at[g] = "answered" /\ job[g] \in Keys /\ Left(job[g], answer[g])
        BY <1>2, <2>5, <3>2 DEF CallInv, Spared, Employed
      <4> QED
        BY <1>3, <1>5, <2>2, <3>2, <4>1, InOneHand DEF Left
    <3> QED
      BY <3>1, <3>2
  <2> QED
    BY <2>2, <2>3, <2>4, <2>5 DEF Spared
<1> QED
  BY <1>1, <1>2, <1>3, <1>4, <1>5, <1>6, <1>7, <1>8, <1>9, <1>10, <1>11

LEMMA LandedInv ==
  ASSUME TokenInv, CallInv, NEW h \in Handlers, at[h] \notin {"idle", "answered"},
         NEW a \in {"success", "failed"}, Landed(h, a),
         events' \subseteq Events, surprised' \subseteq Handlers,
         Clear', DoubleBookingNeedsRace',
         \A e \in events' : e \in events \/ e.by = job[h],
         \A e, f \in events' : e.id = f.id => e = f
  PROVE  CallInv'
<1>1. CallType'
  BY LandedKeeps DEF CallInv, CallType, clientVars
<1>2. Signed'
  <2>1. \A e \in events' : e.by \in Keys => landed'[e.by] > 0
    BY LandedKeeps DEF CallInv, Signed
  <2> QED
    BY <2>1 DEF Signed
<1> QED
  BY <1>1, <1>2, LandedKeeps DEF CallInv

\* An event is put where the handler has found room, and the others are warned.
LEMMA PutInv ==
  ASSUME TokenInv, CallInv, NEW h \in Handlers, at[h] = "act",
         NEW a \in {"success", "failed"}, Landed(h, a), NEW id \in EventIds,
         NEW w, w = [from |-> w.from, till |-> w.till], Valid(w), Put(h, id, w),
         \/ job[h].op = "create" /\ w = Window(h)
         \/ /\ job[h].op = "update" /\ id = found[h].id
            /\ \E e \in events : e.id = id /\ w = Time(job[h], e)
  PROVE  CallInv'
<1>1. PICK new : new = [id |-> id, from |-> w.from, till |-> w.till, by |-> job[h],
                        surprised |-> h \in surprised]
  OBVIOUS
<1>2. job[h] \in Keys
  BY DEF CallInv, Employed
<1>3. /\ new \in Events /\ new.by = job[h] /\ new.from = w.from /\ new.till = w.till
      /\ new.surprised = (h \in surprised) /\ new.id = id
  BY <1>1, <1>2 DEF Events, Valid
<1>4. /\ events' = {e \in events : e.id # id} \union {new}
      /\ surprised' = surprised \union {g \in Handlers \ {h} : Surprises(id, w, g)}
  BY <1>1 DEF Put
<1>5. \A e \in events' : e = new \/ (e \in events /\ e.id # id)
  BY <1>4
<1>6. h \notin surprised => \A e \in events : Overlap(w, e) => e.id = id
  <2> SUFFICES ASSUME h \notin surprised, NEW e \in events, Overlap(w, e) PROVE e.id = id
    OBVIOUS
  <2>1. Alone(h) /\ (Partial(job[h]) => Fresh(h))
    BY DEF CallInv, Clear
  <2>2. CASE job[h].op = "create" /\ w = Window(h)
    <3>1. e.id = 0
      BY <2>1, <2>2 DEF Alone, CallInv, Employed, NoEvent
    <3>2. e.id \in EventIds
      BY DEF CallInv, CallType, Events
    <3> QED
      BY <3>1, <3>2, CallConstants DEF EventIds
  <2>3. CASE /\ job[h].op = "update" /\ id = found[h].id
             /\ \E f \in events : f.id = id /\ w = Time(job[h], f)
    <3>1. PICK f \in events : f.id = id /\ w = Time(job[h], f)
      BY <2>3
    <3>2. w = Window(h)
      BY <2>1, <2>3, <3>1 DEF Fresh, Partial, Window, Time
    <3> QED
      BY <2>1, <2>3, <3>2 DEF Alone
  <2> QED
    BY <2>2, <2>3
<1>7. DoubleBookingNeedsRace'
  <2>1. \A e \in events' \ {new} : Overlap(e, new) \/ Overlap(new, e) => new.surprised
    BY <1>3, <1>5, <1>6 DEF Overlap
  <2>2. \A e, f \in events' \ {new} : e # f /\ Overlap(e, f) => e.surprised \/ f.surprised
    BY <1>5 DEF CallInv, DoubleBookingNeedsRace
  <2> QED
    BY <2>1, <2>2 DEF DoubleBookingNeedsRace
<1>8. Clear'
  <2> SUFFICES ASSUME NEW g \in Handlers, job'[g].op \in {"create", "update"},
                      g \notin surprised'
               PROVE  /\ at'[g] = "act" => Alone(g)'
                      /\ at'[g] \in {"check", "act"} /\ Partial(job'[g]) => Fresh(g)'
    BY DEF Clear
  <2> SUFFICES ASSUME at'[g] \in {"check", "act"}
               PROVE  /\ at'[g] = "act" => Alone(g)'
                      /\ Partial(job'[g]) => Fresh(g)'
    OBVIOUS
  <2>1. g # h /\ at'[g] = at[g] /\ job'[g] = job[g] /\ found'[g] = found[g]
    BY LandedKeeps
  <2>2. g \notin surprised /\ ~Surprises(id, w, g)
    BY <1>4, <2>1
  <2>3. at[g] = "act" => Alone(g)'
    <3> SUFFICES ASSUME at[g] = "act", NEW e \in events', Overlap(Window(g), e)
                 PROVE  e.id = found[g].id
      BY <2>1 DEF Alone, Window
    <3>1. CASE e = new
      BY <1>3, <2>1, <2>2, <3>1 DEF Surprises, Overlap
    <3>2. CASE e \in events
      BY <2>1, <2>2, <3>2 DEF CallInv, Clear, Alone
    <3> QED
      BY <1>5, <3>1, <3>2
  <2>4. Partial(job[g]) => Fresh(g)'
    <3> SUFFICES ASSUME Partial(job[g]), NEW e \in events', e.id = found[g].id
                 PROVE  e.from = found[g].from /\ e.till = found[g].till
      BY <2>1 DEF Fresh
    <3>1. e # new
      BY <1>3, <2>1, <2>2 DEF Surprises
    <3>2. e \in events
      BY <1>5, <3>1
    <3> QED
      BY <2>1, <2>2, <3>2 DEF CallInv, Clear, Fresh
  <2> QED
    BY <2>1, <2>3, <2>4
<1>9. events' \subseteq Events /\ surprised' \subseteq Handlers
  BY <1>3, <1>4 DEF CallInv, CallType
<1>10. \A e, f \in events' : e.id = f.id => e = f
  BY <1>3, <1>5 DEF CallInv, Signed
<1> QED
  BY <1>3, <1>5, <1>7, <1>8, <1>9, <1>10, LandedInv

LEMMA CreateEventInv ==
  ASSUME TokenInv, CallInv, NEW h \in Handlers, CreateEvent(h)
  PROVE  CallInv'
<1>1. PICK id \in EventIds, a \in {"success", "failed"} :
        Put(h, id, Window(h)) /\ Landed(h, a)
  BY DEF CreateEvent
<1>2. at[h] = "act" /\ job[h].op = "create" /\ Valid(Window(h))
  BY DEF CreateEvent, CallInv, Employed
<1>3. Window(h) = [from |-> Window(h).from, till |-> Window(h).till]
  BY DEF Window, Time
<1> QED
  BY <1>1, <1>2, <1>3, PutInv

LEMMA UpdateEventInv ==
  ASSUME TokenInv, CallInv, NEW h \in Handlers, UpdateEvent(h)
  PROVE  CallInv'
<1>1. PICK e \in events, a \in {"success", "failed"} :
        /\ e.id = found[h].id /\ Valid(Time(job[h], e))
        /\ Put(h, e.id, Time(job[h], e)) /\ Landed(h, a)
  BY DEF UpdateEvent
<1>2. at[h] = "act" /\ job[h].op = "update" /\ e.id \in EventIds
  BY DEF UpdateEvent, CallInv, CallType, Events
<1>3. Time(job[h], e) = [from |-> Time(job[h], e).from, till |-> Time(job[h], e).till]
  BY DEF Time
<1> QED
  BY <1>1, <1>2, <1>3, PutInv

LEMMA DeleteEventInv ==
  ASSUME TokenInv, CallInv, NEW h \in Handlers, DeleteEvent(h)
  PROVE  CallInv'
<1>1. PICK a \in {"success", "failed"} : Landed(h, a)
  BY DEF DeleteEvent
<1>2. at[h] = "act" /\ events' \subseteq events /\ surprised' = surprised
  BY DEF DeleteEvent
<1>3. DoubleBookingNeedsRace'
  BY <1>2 DEF CallInv, DoubleBookingNeedsRace
<1>4. Clear'
  BY <1>1, <1>2, LandedKeeps DEF CallInv, Clear, Alone, Fresh, Window, Time
<1>5. /\ events' \subseteq Events /\ surprised' \subseteq Handlers
      /\ \A e, f \in events' : e.id = f.id => e = f
  BY <1>2 DEF CallInv, CallType, Signed
<1> QED
  BY <1>1, <1>2, <1>3, <1>4, <1>5, LandedInv

LEMMA PostInv ==
  ASSUME TokenInv, CallInv, NEW h \in Handlers, SendEmail(h) \/ CommentOnPr(h) \/ Submit(h)
  PROVE  CallInv'
<1>1. /\ at[h] = "token" /\ events' = events /\ surprised' = surprised
      /\ \E a \in {"success", "failed"} : Landed(h, a)
  BY DEF SendEmail, CommentOnPr, Submit
<1>2. PICK a \in {"success", "failed"} : Landed(h, a)
  BY <1>1
<1>3. DoubleBookingNeedsRace'
  BY <1>1 DEF CallInv, DoubleBookingNeedsRace
<1>4. Clear'
  BY <1>1, <1>2, LandedKeeps DEF CallInv, Clear, Alone, Fresh, Window, Time
<1>5. /\ events' \subseteq Events /\ surprised' \subseteq Handlers
      /\ \A e, f \in events' : e.id = f.id => e = f
  BY <1>1 DEF CallInv, CallType, Signed
<1> QED
  BY <1>1, <1>2, <1>3, <1>4, <1>5, LandedInv

\* PyGithub's own retry: the key is excused, whether it took effect or not.
LEMMA RetryCommentInv ==
  ASSUME TokenInv, CallInv, NEW h \in Handlers, RetryComment(h)
  PROVE  CallInv'
<1>1. /\ at[h] = "token" /\ job[h] \in Keys
      /\ losses' \in 0..MaxLosses /\ excused' = excused \union {job[h]}
      /\ UNCHANGED <<at, caller, cache, begun, job, answer, found, clashing, events, surprised>>
  BY CallConstants
  DEF RetryComment, Fault, CallInv, CallType, Employed, tokenVars, clientVars
<1>2. /\ landed' \in [Keys -> Nat] /\ \A k \in Keys \ {job[h]} : landed'[k] = landed[k]
      /\ \A k \in Keys : landed'[k] >= landed[k]
  BY <1>1 DEF RetryComment, CallInv, CallType
<1>3. \A k \in Keys : landed[k] \in Nat /\ landed'[k] \in Nat
  BY <1>2 DEF CallInv, CallType
<1>4. CallType'
  BY <1>1, <1>2 DEF CallInv, CallType
<1>5. Joined' /\ Employed' /\ Clear'
  BY <1>1 DEF CallInv, Joined, Employed, Clear, Alone, Fresh, Window, Time
<1>6. Took'
  BY <1>1, <1>2, <1>3, CallerIs DEF CallInv, CallType, Employed, Took, Did
<1>7. Spared'
  BY <1>1, <1>2, CallerIs DEF CallInv, CallType, Employed, Spared, Left
<1>8. Once'
  <2>1. \A d, x : (Holds(d, x)' <=> Holds(d, x)) /\ (Knows(d, x)' <=> Knows(d, x))
    BY <1>1 DEF Holds, Knows
  <2>2. \A x : HasResult(x)' <=> HasResult(x)
    BY <1>1 DEF HasResult
  <2> QED
    BY <1>1, <1>2, <2>1, <2>2 DEF CallInv, Once
<1>9. Signed'
  BY <1>1, <1>2, <1>3 DEF CallInv, Signed
<1>10. DoubleBookingNeedsRace' /\ ClashIsWithAnother'
  BY <1>1 DEF CallInv, DoubleBookingNeedsRace, ClashIsWithAnother
<1> QED
  BY <1>4, <1>5, <1>6, <1>7, <1>8, <1>9, <1>10 DEF CallInv

LEMMA CallStepInv == Inv /\ [Next]_vars => CallInv'
<1> SUFFICES ASSUME TokenInv, CallInv, [Next]_vars PROVE CallInv'
  BY DEF Inv
<1>1. ASSUME NEW c \in Callers, CallerStep(c) PROVE CallInv'
  BY <1>1, InvokeInv, ReceiveInv, StoreResultInv DEF CallerStep
<1>2. ASSUME NEW c \in Callers, NEW k \in Keys, CallTool(c, k) PROVE CallInv'
  BY <1>2, CallToolInv
<1>3. ASSUME NEW h \in Handlers, HandlerStep(h) PROVE CallInv'
  BY <1>3, NoEffectInv, ResolveEventInv, ClashOrNoneInv, CreateEventInv, UpdateEventInv,
     DeleteEventInv, PostInv, RetryCommentInv, DroppedInv
  DEF HandlerStep
<1>4. CASE TokenStep
  <2>1. UNCHANGED <<clientVars, losses, excused>>
    BY <1>4 DEF TokenStep
  <2> QED
    BY <1>4, <2>1, TokenBetween, TokenStepCalls
<1>5. CASE FaultStep
  BY <1>5, LoseAnswerInv, AbandonCallInv, CacheExpiryInv DEF FaultStep
<1>6. CASE UNCHANGED vars
  <2>1. Between /\ UNCHANGED <<clientVars, losses, excused>>
    BY <1>6 DEF vars, tokenVars, Between
  <2> QED
    BY <2>1, TokenStepCalls
<1> QED
  BY <1>1, <1>2, <1>3, <1>4, <1>5, <1>6 DEF Next

-----------------------------------------------------------------------------
(* The walk of _next_free_slot.  Induction over the slots of a day is by the *)
(* least exception: a set of numbers has a least one because the intervals   *)
(* up to its members are finite sets, ordered well-foundedly by inclusion.   *)

\* A set of numbers has a least one: of the intervals up to its members, one is smallest.
LEMMA Least ==
  ASSUME NEW S, S \subseteq Nat, S # {}
  PROVE  \E m \in S : \A k \in S : m <= k
<1> DEFINE T == {0..m : m \in S}
<1>1. T \subseteq FiniteSubsetsOf(Nat) /\ T # {}
  <2>1. \A m \in S : IsFiniteSet(0..m) /\ 0..m \in SUBSET Nat
    BY FS_Interval
  <2> QED
    BY <2>1 DEF FiniteSubsetsOf
<1>2. PICK x \in T : \A y \in T : ~(<<y, x>> \in StrictSubsetOrdering(Nat))
  <2> HIDE DEF T
  <2> QED
    BY <1>1, FS_StrictSubsetOrderingWellFounded, WFMin
<1>3. PICK m \in S : x = 0..m
  OBVIOUS
<1>4. ASSUME NEW k \in S, k < m PROVE FALSE
  <2>1. 0..k \in T /\ 0..k \subseteq Nat /\ 0..m \subseteq Nat
    OBVIOUS
  <2>2. 0..k \subseteq 0..m /\ m \in 0..m /\ m \notin 0..k
    BY <1>4
  <2>3. <<0..k, 0..m>> \in StrictSubsetOrdering(Nat)
    BY <2>1, <2>2 DEF StrictSubsetOrdering
  <2> QED
    BY <1>2, <1>3, <2>1, <2>3
<1> QED
  BY <1>4

\* Induction over the numbers: the least exception has a predecessor that is none.
LEMMA Climb ==
  ASSUME NEW S, 0 \in S, \A n \in Nat : n \in S => n + 1 \in S
  PROVE  Nat \subseteq S
<1> SUFFICES ASSUME Nat \ S # {} PROVE FALSE
  OBVIOUS
<1>1. PICK m \in Nat \ S : \A k \in Nat \ S : m <= k
  BY Least
<1>2. m # 0 /\ m - 1 \in Nat
  OBVIOUS
<1>3. m - 1 \in S
  BY <1>1, <1>2
<1> QED
  BY <1>2, <1>3

LEMMA SmallestIs ==
  ASSUME NEW S, S \subseteq Nat, S # {}
  PROVE  Smallest(S) \in S /\ \A k \in S : Smallest(S) <= k
<1>1. \E m \in S : \A k \in S : m <= k
  BY Least
<1> QED
  BY <1>1 DEF Smallest

\* Day counts whole days of PerDay slots, and the numbers of two days do not overlap.
LEMMA DayIs ==
  ASSUME NEW s \in Nat \ {0}
  PROVE  Day(s) \in Nat /\ Day(s) * PerDay < s /\ s <= (Day(s) + 1) * PerDay
BY CallConstants DEF Day

LEMMA Earlier ==
  ASSUME NEW a \in Nat, NEW b \in Nat, a < b
  PROVE  (a + 1) * PerDay <= b * PerDay
BY CallConstants

LEMMA DayOnly ==
  ASSUME NEW s \in Nat, NEW d \in Nat, d * PerDay < s, s <= (d + 1) * PerDay
  PROVE  Day(s) = d
BY CallConstants DEF Day

\* f is the walk of Walk over the first m slots of the day.
WalkTo(f, m, busy, day, from, duration) ==
    f = [n \in 0..m |->
            IF n = 0 THEN [free |-> 0, cursor |-> Start(day, from)]
            ELSE IF day * PerDay + n \in busy
            THEN Pass(f[n - 1], day * PerDay + n, duration)
            ELSE f[n - 1]]

\* There is such a walk, of any length.
LEMMA WalkExists ==
  ASSUME NEW busy, NEW day, NEW from, NEW duration
  PROVE  \A m \in Nat : \E f : WalkTo(f, m, busy, day, from, duration)
<1> DEFINE S == {m \in Nat : \E f : WalkTo(f, m, busy, day, from, duration)}
<1>1. 0 \in S
  <2>1. WalkTo([n \in 0..0 |-> [free |-> 0, cursor |-> Start(day, from)]], 0,
               busy, day, from, duration)
    BY DEF WalkTo
  <2> QED
    BY <2>1
<1>2. ASSUME NEW m \in Nat, m \in S PROVE m + 1 \in S
  <2>1. PICK f : WalkTo(f, m, busy, day, from, duration)
    BY <1>2
  <2> DEFINE b == day * PerDay + (m + 1)
             g == [n \in 0..(m + 1) |-> IF n <= m THEN f[n]
                                       ELSE IF b \in busy THEN Pass(f[m], b, duration) ELSE f[m]]
  <2>2. \A n \in 0..(m + 1) : n <= m \/ n = m + 1
    OBVIOUS
  <2>3. \A n \in 0..m : n <= m /\ n \in 0..(m + 1) /\ (n # 0 => n - 1 \in 0..m /\ n - 1 <= m)
    OBVIOUS
  <2>4. \A n \in 0..m : g[n] = f[n]
    BY <2>3
  <2>5. g[m + 1] = IF b \in busy THEN Pass(g[m], b, duration) ELSE g[m]
    BY <2>4
  <2>6. ASSUME NEW n \in 0..(m + 1)
        PROVE  g[n] = IF n = 0 THEN [free |-> 0, cursor |-> Start(day, from)]
                      ELSE IF day * PerDay + n \in busy
                      THEN Pass(g[n - 1], day * PerDay + n, duration)
                      ELSE g[n - 1]
    <3>1. CASE n = m + 1
      <4>1. n # 0 /\ n - 1 = m
        BY <3>1
      <4> HIDE DEF g
      <4> QED
        BY <2>5, <3>1, <4>1
    <3>2. CASE n \in 0..m
      <4>1. f[n] = IF n = 0 THEN [free |-> 0, cursor |-> Start(day, from)]
                   ELSE IF day * PerDay + n \in busy
                   THEN Pass(f[n - 1], day * PerDay + n, duration)
                   ELSE f[n - 1]
        BY <2>1, <3>2 DEF WalkTo
      <4>2. n # 0 => g[n - 1] = f[n - 1]
        BY <2>3, <2>4, <3>2
      <4> HIDE DEF g
      <4> QED
        BY <2>4, <3>2, <4>1, <4>2
    <3> QED
      BY <3>1, <3>2
  <2>7. g = [n \in 0..(m + 1) |-> g[n]]
    OBVIOUS
  <2>8. WalkTo(g, m + 1, busy, day, from, duration)
    <3> HIDE DEF g
    <3> QED
      BY <2>6, <2>7 DEF WalkTo
  <2> QED
    BY <2>8
<1> QED
  <2> HIDE DEF S
  <2>1. Nat \subseteq S
    BY <1>1, <1>2, Climb
  <2> QED
    BY <2>1 DEF S

\* The walk is what its definition says, slot by slot.
LEMMA WalkStep ==
  ASSUME NEW busy, NEW day, NEW from, NEW duration
  PROVE  LET f == Walk(busy, day, from, duration)
         IN  /\ f[0] = [free |-> 0, cursor |-> Start(day, from)]
             /\ \A n \in 1..PerDay :
                   f[n] = IF day * PerDay + n \in busy
                          THEN Pass(f[n - 1], day * PerDay + n, duration) ELSE f[n - 1]
<1> DEFINE f == Walk(busy, day, from, duration)
<1>1. f = CHOOSE g : WalkTo(g, PerDay, busy, day, from, duration)
  BY DEF Walk, WalkTo
<1>2. \E g : WalkTo(g, PerDay, busy, day, from, duration)
  BY WalkExists, CallConstants
<1>3. WalkTo(f, PerDay, busy, day, from, duration)
  <2> HIDE DEF f
  <2> QED
    BY <1>1, <1>2
<1>4. 0 \in 0..PerDay /\ \A n \in 1..PerDay : n \in 0..PerDay /\ n # 0
  BY CallConstants
<1> HIDE DEF f
<1>5. /\ f[0] = [free |-> 0, cursor |-> Start(day, from)]
      /\ \A n \in 1..PerDay :
            f[n] = IF day * PerDay + n \in busy
                   THEN Pass(f[n - 1], day * PerDay + n, duration) ELSE f[n - 1]
  BY <1>3, <1>4 DEF WalkTo
<1> QED
  BY <1>5 DEF f

\* No busy slot is in the way of the meeting at x.
Gap(busy, x, duration) == \A b \in busy : b < x \/ b >= x + duration

\* What the walk w has found once it is past the busy slots up to last.
Walked(w, busy, start, last, duration) ==
    /\ w \in [free: Nat, cursor: Nat] /\ w.cursor >= start
    /\ \A x \in Nat : x >= start /\ x < w.cursor => ~Gap(busy, x, duration)
    /\ w.free = 0 => \A b \in busy : b <= last => b < w.cursor
    /\ w.free # 0 => /\ w.free = w.cursor /\ w.cursor + duration <= last
                     /\ Gap(busy, w.cursor, duration)

\* One slot further: a gap is the earliest, and a busy slot jumped over is in the way of
\* every start the cursor jumps over.
LEMMA PassWalks ==
  ASSUME NEW busy \in SUBSET Nat, NEW start \in Nat \ {0}, NEW last \in Nat,
         NEW duration \in Nat \ {0}, NEW w, Walked(w, busy, start, last, duration)
  PROVE  /\ last + 1 \notin busy => Walked(w, busy, start, last + 1, duration)
         /\ last + 1 \in busy
            => Walked(Pass(w, last + 1, duration), busy, start, last + 1, duration)
<1> USE DEF Walked
<1>1. last + 1 \notin busy => Walked(w, busy, start, last + 1, duration)
  OBVIOUS
<1>2. ASSUME last + 1 \in busy
      PROVE  Walked(Pass(w, last + 1, duration), busy, start, last + 1, duration)
  <2> DEFINE v == Pass(w, last + 1, duration)
  <2> SUFFICES Walked(v, busy, start, last + 1, duration)
    OBVIOUS
  <2>1. CASE w.free # 0
    BY <2>1 DEF Pass
  <2>2. CASE w.free = 0 /\ last + 1 >= w.cursor + duration
    <3>1. v \in [free: Nat, cursor: Nat] /\ v.free = w.cursor /\ v.cursor = w.cursor
      BY <2>2 DEF Pass
    <3>2. Gap(busy, w.cursor, duration)
      BY <2>2 DEF Gap
    <3> HIDE DEF v
    <3> QED
      BY <2>2, <3>1, <3>2
  <2>3. CASE w.free = 0 /\ last + 1 < w.cursor + duration
    <3>1. /\ v \in [free: Nat, cursor: Nat] /\ v.free = 0
          /\ v.cursor = IF last + 2 > w.cursor THEN last + 2 ELSE w.cursor
      BY <2>3 DEF Pass
    <3>2. ASSUME NEW x \in Nat, x >= start, x < v.cursor PROVE ~Gap(busy, x, duration)
      <4>1. CASE x < w.cursor
        BY <3>2, <4>1
      <4>2. CASE x >= w.cursor
        BY <1>2, <2>3, <3>1, <3>2, <4>2 DEF Gap
      <4> QED
        BY <4>1, <4>2
    <3>3. \A b \in busy : b <= last + 1 => b < v.cursor
      BY <2>3, <3>1
    <3> HIDE DEF v
    <3> QED
      BY <2>3, <3>1, <3>2, <3>3
  <2> QED
    BY <2>1, <2>2, <2>3
<1> QED
  BY <1>1, <1>2

\* At the end of the day.
LEMMA WalkWalks ==
  ASSUME NEW busy \in SUBSET Nat, NEW day \in Nat, NEW from \in Nat, NEW duration \in Nat \ {0}
  PROVE  Walked(Walk(busy, day, from, duration)[PerDay], busy, Start(day, from),
                day * PerDay + PerDay, duration)
<1> DEFINE f == Walk(busy, day, from, duration)
           base == day * PerDay
           start == Start(day, from)
           S == {n \in Nat : n <= PerDay => Walked(f[n], busy, start, base + n, duration)}
<1>1. base \in Nat /\ PerDay \in Nat \ {0}
  BY CallConstants
<1>2. start \in Nat \ {0} /\ start > base
  BY <1>1 DEF Start
<1>3. /\ f[0] = [free |-> 0, cursor |-> start]
      /\ \A n \in 1..PerDay :
            f[n] = IF base + n \in busy THEN Pass(f[n - 1], base + n, duration) ELSE f[n - 1]
  BY WalkStep
<1> HIDE DEF f, base, start
<1>4. 0 \in S
  <2>1. f[0] \in [free: Nat, cursor: Nat] /\ f[0].free = 0 /\ f[0].cursor = start
    BY <1>2, <1>3
  <2>2. Walked(f[0], busy, start, base, duration)
    BY <1>1, <1>2, <2>1 DEF Walked
  <2> QED
    BY <1>1, <2>2
<1>5. ASSUME NEW n \in Nat, n \in S PROVE n + 1 \in S
  <2> SUFFICES ASSUME n + 1 <= PerDay
               PROVE  Walked(f[n + 1], busy, start, base + (n + 1), duration)
    OBVIOUS
  <2>1. n + 1 \in 1..PerDay /\ (n + 1) - 1 = n /\ base + n \in Nat
        /\ base + (n + 1) = (base + n) + 1
    BY <1>1
  <2>2. Walked(f[n], busy, start, base + n, duration)
    BY <1>1, <1>5
  <2>3. f[n + 1] = IF (base + n) + 1 \in busy THEN Pass(f[n], (base + n) + 1, duration) ELSE f[n]
    BY <1>3, <2>1
  <2> QED
    BY <1>2, <2>1, <2>2, <2>3, PassWalks
<1>6. PerDay \in S
  <2> HIDE DEF S
  <2> QED
    BY <1>1, <1>4, <1>5, Climb
<1> QED
  BY <1>1, <1>6 DEF f, base, start

\* What a day offers is free and within its hours, and nothing earlier would do.
LEMMA FreeOnDayIs ==
  ASSUME NEW busy \in SUBSET Nat, NEW day \in Nat, NEW from \in Nat, NEW duration \in Nat \ {0}
  PROVE  LET start == Start(day, from)
             close == (day + 1) * PerDay + 1
             free  == FreeOnDay(busy, day, from, duration)
         IN  /\ free \in Nat
             /\ free # 0 => /\ free >= start /\ free + duration <= close
                            /\ Gap(busy, free, duration)
             /\ \A x \in Nat : /\ x >= start /\ x + duration <= close
                               /\ Gap(busy, x, duration)
                              => free # 0 /\ free <= x
<1> DEFINE start == Start(day, from)
           last  == day * PerDay + PerDay
           close == (day + 1) * PerDay + 1
           free  == FreeOnDay(busy, day, from, duration)
           w     == Walk(busy, day, from, duration)[PerDay]
<1>1. Walked(w, busy, start, last, duration)
  BY WalkWalks
<1>2. close = last + 1 /\ last \in Nat
  BY CallConstants
<1>3. start \in Nat \ {0}
  <2>1. day * PerDay \in Nat
    BY CallConstants
  <2> QED
    BY <2>1 DEF Start
<1>4. free = IF w.free # 0 THEN w.free
             ELSE IF close >= w.cursor + duration THEN w.cursor ELSE 0
  BY DEF FreeOnDay
<1> HIDE DEF start, last, close, free, w
<1>5. /\ w.free \in Nat /\ w.cursor \in Nat /\ w.cursor >= start
      /\ \A x \in Nat : x >= start /\ x < w.cursor => ~Gap(busy, x, duration)
  BY <1>1 DEF Walked
<1>6. w.free # 0 => /\ free = w.cursor /\ free + duration <= close
                    /\ Gap(busy, free, duration)
  BY <1>1, <1>2, <1>4, <1>5 DEF Walked
<1>7. w.free = 0 /\ close >= w.cursor + duration
      => free = w.cursor /\ Gap(busy, free, duration)
  BY <1>1, <1>2, <1>4, <1>5 DEF Walked, Gap
<1>8. /\ free \in Nat
      /\ free # 0 => /\ free >= start /\ free + duration <= close
                     /\ Gap(busy, free, duration)
  BY <1>3, <1>4, <1>5, <1>6, <1>7
<1>9. ASSUME NEW x \in Nat, x >= start, x + duration <= close, Gap(busy, x, duration)
      PROVE  free # 0 /\ free <= x
  <2>1. w.cursor <= x
    BY <1>3, <1>5, <1>9
  <2> QED
    BY <1>2, <1>3, <1>4, <1>5, <1>6, <1>7, <1>9, <2>1
<1> QED
  BY <1>8, <1>9 DEF start, close, free

\* The days of the calendar, and the slots of each.
LEMMA DaySlots ==
  ASSUME NEW s \in Slots, NEW y \in Nat,
         Day(s) * PerDay < y, y <= (Day(s) + 1) * PerDay
  PROVE  y \in Slots
<1>1. PICK days \in Nat : Slots = 1..(days * PerDay)
  <2>1. PICK days \in 0..Cardinality(Slots) : Slots = 1..(days * PerDay)
    BY WholeDays
  <2> QED
    BY <2>1
<1>2. s \in Nat \ {0} /\ s <= days * PerDay /\ PerDay \in Nat \ {0}
  BY <1>1, CallConstants
<1>3. Day(s) \in Nat /\ Day(s) * PerDay < s
  BY <1>2, DayIs
<1>4. Day(s) < days
  <2> SUFFICES ASSUME days <= Day(s) PROVE FALSE
    BY <1>3
  <2>1. days * PerDay <= Day(s) * PerDay
    BY <1>2, <1>3
  <2>2. days * PerDay \in Nat /\ Day(s) * PerDay \in Nat
    BY <1>2, <1>3
  <2> QED
    BY <1>2, <1>3, <2>1, <2>2
<1>5. (Day(s) + 1) * PerDay <= days * PerDay /\ days * PerDay \in Nat
      /\ (Day(s) + 1) * PerDay \in Nat /\ Day(s) * PerDay \in Nat
  BY <1>2, <1>3, <1>4, Earlier
<1> QED
  BY <1>1, <1>5

\* The starts from which the meeting fits.
Fitting(busy, from, duration) == {x \in Slots : x >= from /\ Fits(busy, x, duration)}

\* _next_free_slot, whatever is busy: the first day that offers anything offers the earliest.
LEMMA SuggestionIs ==
  ASSUME NEW busy \in SUBSET Slots, NEW from \in Slots, NEW duration \in 1..PerDay
  PROVE  NextFreeSlot(busy, from, duration) =
             IF Fitting(busy, from, duration) = {} THEN 0
             ELSE Smallest(Fitting(busy, from, duration))
<1> SUFFICES ASSUME NEW fit, fit = Fitting(busy, from, duration)
             PROVE  NextFreeSlot(busy, from, duration) = IF fit = {} THEN 0 ELSE Smallest(fit)
  OBVIOUS
<1>0. fit = {x \in Slots : x >= from /\ Fits(busy, x, duration)}
  BY DEF Fitting
<1> DEFINE free(d) == FreeOnDay(busy, d, from, duration)
           days == {d \in {Day(s) : s \in Slots} : d >= Day(from) /\ free(d) # 0}
<1>1. /\ busy \in SUBSET Nat /\ Slots \subseteq Nat \ {0} /\ from \in Nat \ {0}
      /\ duration \in Nat \ {0} /\ PerDay \in Nat \ {0}
  <2>1. PICK n \in 0..Cardinality(Slots) : Slots = 1..(n * PerDay)
    BY WholeDays
  <2>2. Slots \subseteq Nat \ {0}
    BY <2>1, CallConstants
  <2> QED
    BY <2>2, CallConstants
<1>2. \A s \in Slots : Day(s) \in Nat /\ Day(s) * PerDay < s /\ s <= (Day(s) + 1) * PerDay
  BY <1>1, DayIs
<1>3. ASSUME NEW d \in Nat
      PROVE  /\ d * PerDay \in Nat /\ (d + 1) * PerDay \in Nat
             /\ Start(d, from) \in Nat /\ Start(d, from) > d * PerDay /\ Start(d, from) >= from
             /\ \A x \in Nat : x > d * PerDay /\ x >= from => x >= Start(d, from)
  <2>1. d * PerDay \in Nat /\ (d + 1) * PerDay \in Nat
    BY <1>1
  <2> QED
    BY <1>1, <2>1 DEF Start
<1>4. ASSUME NEW d \in days
      PROVE  free(d) \in fit /\ Day(free(d)) = d
  <2>1. PICK s \in Slots : d = Day(s)
    OBVIOUS
  <2>2. d \in Nat /\ free(d) # 0
    BY <1>2, <2>1
  <2>3. /\ free(d) \in Nat /\ free(d) >= Start(d, from)
        /\ free(d) + duration <= (d + 1) * PerDay + 1
        /\ Gap(busy, free(d), duration)
    BY <1>1, <2>2, FreeOnDayIs
  <2> HIDE DEF free
  <2>4. d * PerDay < free(d) /\ free(d) <= (d + 1) * PerDay /\ free(d) >= from
        /\ free(d) + duration - 1 <= (d + 1) * PerDay
    BY <1>1, <1>3, <2>2, <2>3
  <2>5. free(d) \in Slots
    BY <2>1, <2>3, <2>4, DaySlots
  <2>6. Day(free(d)) = d
    BY <2>2, <2>3, <2>4, DayOnly
  <2>7. Fits(busy, free(d), duration)
    BY <2>3, <2>4, <2>5, <2>6 DEF Fits, Gap
  <2> QED
    BY <1>0, <2>4, <2>5, <2>6, <2>7
<1>5. ASSUME NEW x \in fit
      PROVE  Day(x) \in days /\ free(Day(x)) <= x
  <2>1. x \in Slots /\ x \in Nat /\ x >= from /\ Fits(busy, x, duration)
    BY <1>0, <1>1
  <2>2. Day(x) \in Nat /\ Day(x) * PerDay < x /\ x <= (Day(x) + 1) * PerDay
    BY <1>2, <2>1
  <2>3. Gap(busy, x, duration) /\ x + duration - 1 <= (Day(x) + 1) * PerDay
    BY <2>1 DEF Fits, Gap
  <2>4. x >= Start(Day(x), from) /\ x + duration <= (Day(x) + 1) * PerDay + 1
    BY <1>1, <1>3, <2>1, <2>2, <2>3
  <2>5. free(Day(x)) # 0 /\ free(Day(x)) <= x
    BY <1>1, <2>1, <2>2, <2>3, <2>4, FreeOnDayIs
  <2>6. Day(x) >= Day(from)
    <3> SUFFICES ASSUME Day(x) < Day(from) PROVE FALSE
      BY <1>2, <2>2
    <3>1. (Day(x) + 1) * PerDay <= Day(from) * PerDay
      BY <1>2, <2>2, Earlier
    <3>2. Day(from) * PerDay < from /\ Day(from) \in Nat
      BY <1>2
    <3> QED
      BY <1>1, <1>3, <2>1, <2>2, <3>1, <3>2
  <2> HIDE DEF free
  <2> QED
    BY <2>1, <2>5, <2>6
<1>6. NextFreeSlot(busy, from, duration) = IF days = {} THEN 0 ELSE free(Smallest(days))
  BY DEF NextFreeSlot
<1>7. days \subseteq Nat /\ fit \subseteq Slots /\ fit \subseteq Nat
  BY <1>0, <1>1, <1>2
<1> HIDE DEF free, days
<1>8. CASE fit = {}
  BY <1>4, <1>6, <1>8
<1>9. CASE fit # {}
  <2>1. days # {}
    BY <1>5, <1>9
  <2>2. Smallest(days) \in days /\ \A d \in days : Smallest(days) <= d
    BY <1>7, <2>1, SmallestIs
  <2> DEFINE first == Smallest(days)
  <2> HIDE DEF first
  <2>3. first \in days /\ first \in Nat /\ (\A d \in days : first <= d)
    BY <1>7, <2>2 DEF first
  <2>4. free(first) \in fit /\ Day(free(first)) = first
    BY <1>4, <2>3
  <2>5. ASSUME NEW x \in fit PROVE free(first) <= x
    <3>1. Day(x) \in days /\ free(Day(x)) <= x /\ first <= Day(x) /\ Day(x) \in Nat
      BY <1>5, <1>7, <2>3
    <3>2. CASE Day(x) = first
      BY <3>1, <3>2
    <3>3. CASE first < Day(x)
      <4>1. (first + 1) * PerDay <= Day(x) * PerDay
        BY <2>3, <3>1, <3>3, Earlier
      <4>2. /\ Day(x) * PerDay < x /\ x \in Nat
            /\ free(first) <= (first + 1) * PerDay /\ free(first) \in Nat
        BY <1>2, <1>7, <2>4
      <4>3. Day(x) * PerDay \in Nat /\ (first + 1) * PerDay \in Nat
        BY <1>3, <2>3, <3>1
      <4> QED
        BY <4>1, <4>2, <4>3
    <3> QED
      BY <2>3, <3>1, <3>2, <3>3
  <2>6. Smallest(fit) \in fit /\ \A k \in fit : Smallest(fit) <= k
    BY <1>7, <1>9, SmallestIs
  <2>7. Smallest(fit) = free(first)
    BY <1>7, <2>4, <2>5, <2>6
  <2> QED
    BY <1>6, <1>9, <2>1, <2>7 DEF first
<1> QED
  BY <1>8, <1>9

-----------------------------------------------------------------------------
(* The results.                                                              *)

THEOREM CallsInv == Spec => []Inv
<1>1. Init => Inv
  BY TokenInitInv, CallInitInv DEF Init, Inv
<1>2. Inv /\ [Next]_vars => Inv'
  BY TokenStepInv, CallStepInv DEF Inv
<1> QED
  BY <1>1, <1>2, PTL DEF Spec

(* Everything keeps its type: attempts stay within MaxTries, and only whole  *)
(* results are cached.                                                       *)
THEOREM CallsTyped == Spec => []TypeOK
<1>1. Inv => TypeOK
  BY DEF Inv, TokenInv, TokenType, TokenPlaces, CallInv, CallType, CallerType, TypeOK
<1> QED
  BY <1>1, CallsInv, PTL

(* client.py: a success means done, reddit's apart, and a conflict means not  *)
(* done unless an answer was lost, for any number of callers, handlers,       *)
(* retries and faults.                                                        *)
THEOREM ResultsAreTrue == Spec => []ResultTellsEffect
<1>1. Inv => ResultTellsEffect
  BY DEF Inv, CallInv, CallType, Took, Did, Spared, Left, ResultTellsEffect
<1> QED
  BY <1>1, CallsInv, PTL

(* create_event, update_event: without a race between check and write no     *)
(* slot is booked twice, whatever the calendar.                              *)
THEOREM NoDoubleBookingWithoutRace == Spec => []DoubleBookingNeedsRace
<1>1. Inv => DoubleBookingNeedsRace
  BY DEF Inv, CallInv
<1> QED
  BY <1>1, CallsInv, PTL

(* _clash_or_none: a reported clash is with an event of somebody else,       *)
(* unless the call has had a fault.                                          *)
THEOREM ClashesAreReal == Spec => []ClashIsWithAnother
<1>1. Inv => ClashIsWithAnother
  BY DEF Inv, CallInv
<1> QED
  BY <1>1, CallsInv, PTL

(* _next_free_slot: with a clash the earliest start at which the meeting fits *)
(* is suggested, and none only if it fits nowhere, for any calendar, length  *)
(* of a day and number of days.                                              *)
THEOREM SuggestionsAreEarliest == Spec => []SuggestionIsEarliest
<1>1. Inv => SuggestionIsEarliest
  <2> DEFINE busy == UNION {e.from..e.till : e \in events}
  <2> SUFFICES ASSUME Inv, NEW s \in Slots, NEW duration \in 1..PerDay
               PROVE  NextFreeSlot(busy, s, duration) =
                          IF Fitting(busy, s, duration) = {} THEN 0
                          ELSE Smallest(Fitting(busy, s, duration))
    BY DEF SuggestionIsEarliest, Fitting
  <2>1. busy \in SUBSET Slots
    <3>1. events \subseteq Events
      BY DEF Inv, CallInv, CallType
    <3>2. PICK n \in 0..Cardinality(Slots) : Slots = 1..(n * PerDay)
      BY WholeDays
    <3>3. Slots \subseteq Nat /\ \A x, y \in Slots : x..y \subseteq Slots
      BY <3>2, CallConstants
    <3>4. \A e \in events : e.from \in Slots /\ e.till \in Slots
      BY <3>1 DEF Events
    <3> QED
      BY <3>3, <3>4
  <2> HIDE DEF busy
  <2> QED
    BY <2>1, SuggestionIs
<1> QED
  BY <1>1, CallsInv, PTL

-----------------------------------------------------------------------------
(* What the effects of a call cost.                                          *)

\* Handlers that work on k, callers about to try it, and the tries they have left.
Working(k) == {h \in Handlers : at[h] \notin {"idle", "answered"} /\ job[h] = k}
Sending(k) == {c \in Callers : caller[c].at = "send" /\ caller[c].key = k}
TriesLeft(k) ==
    {x \in Callers \X (1..MaxTries) :
        /\ caller[x[1]].at \in {"send", "wait"} /\ caller[x[1]].key = k
        /\ caller[x[1]].tries < x[2]}

\* The faults that may have made PyGithub repeat k.
Repeats(k) == IF k.op = "comment" THEN losses ELSE 0

\* l effects, and those to come of W, have been paid for: with the tries that S is about to
\* make, by b calls and x faults; with the tries T left, by MaxTries for each call, and by
\* the r repeats of PyGithub.
Accounted(l, W, S, T, b, x, r) ==
    /\ IsFiniteSet(W) /\ IsFiniteSet(S) /\ IsFiniteSet(T)
    /\ l + Cardinality(W) + Cardinality(S) <= b + x
    /\ l + Cardinality(W) + Cardinality(T) <= MaxTries * b + r
PaidFor(k) ==
    Accounted(landed[k], Working(k), Sending(k), TriesLeft(k), begun, losses, Repeats(k))

\* A part of a finite set, with one element more or less.
LEMMA Parts ==
  ASSUME NEW S, IsFiniteSet(S)
  PROVE  /\ Cardinality(S) \in Nat
         /\ \A R \in SUBSET S : /\ IsFiniteSet(R) /\ Cardinality(R) \in Nat
                                /\ Cardinality(R) <= Cardinality(S)
         /\ \A x : \A R \in SUBSET (S \union {x}) :
               /\ IsFiniteSet(R) /\ Cardinality(R) \in Nat
               /\ Cardinality(R) <= Cardinality(S) + 1
         /\ \A x \in S : \A R \in SUBSET (S \ {x}) :
               /\ IsFiniteSet(R) /\ Cardinality(R) \in Nat
               /\ Cardinality(R) + 1 <= Cardinality(S)
<1>1. Cardinality(S) \in Nat
  BY FS_CardinalityType
<1>2. \A R \in SUBSET S : /\ IsFiniteSet(R) /\ Cardinality(R) \in Nat
                          /\ Cardinality(R) <= Cardinality(S)
  BY FS_Subset, FS_CardinalityType
<1>3. ASSUME NEW x, NEW R \in SUBSET (S \union {x})
      PROVE  /\ IsFiniteSet(R) /\ Cardinality(R) \in Nat
             /\ Cardinality(R) <= Cardinality(S) + 1
  <2>1. IsFiniteSet(S \union {x}) /\ Cardinality(S \union {x}) <= Cardinality(S) + 1
    BY <1>1, FS_AddElement
  <2>2. /\ IsFiniteSet(R) /\ Cardinality(R) \in Nat /\ Cardinality(S \union {x}) \in Nat
        /\ Cardinality(R) <= Cardinality(S \union {x})
    BY <2>1, FS_Subset, FS_CardinalityType
  <2> QED
    BY <1>1, <2>1, <2>2
<1>4. ASSUME NEW x \in S, NEW R \in SUBSET (S \ {x})
      PROVE  /\ IsFiniteSet(R) /\ Cardinality(R) \in Nat
             /\ Cardinality(R) + 1 <= Cardinality(S)
  <2>1. IsFiniteSet(S \ {x}) /\ Cardinality(S \ {x}) = Cardinality(S) - 1
    BY FS_RemoveElement
  <2>2. /\ IsFiniteSet(R) /\ Cardinality(R) \in Nat /\ Cardinality(S \ {x}) \in Nat
        /\ Cardinality(R) <= Cardinality(S \ {x})
    BY <2>1, FS_Subset, FS_CardinalityType
  <2> QED
    BY <1>1, <2>1, <2>2
<1> QED
  BY <1>1, <1>2, <1>3, <1>4

\* The ways the account of a key may change: less to do, or a fault more;
LEMMA LessToDo ==
  ASSUME NEW l \in Nat, NEW W, NEW S, NEW T, NEW b \in Nat, NEW x \in Nat,
         NEW r \in Nat, Accounted(l, W, S, T, b, x, r),
         NEW V \in SUBSET W, NEW R \in SUBSET S, NEW U \in SUBSET T, NEW y \in Nat, x <= y,
         NEW q \in Nat, r <= q
  PROVE  Accounted(l, V, R, U, b, y, q)
<1>1. IsFiniteSet(W) /\ IsFiniteSet(S) /\ IsFiniteSet(T)
  BY DEF Accounted
<1>2. /\ IsFiniteSet(V) /\ Cardinality(V) \in Nat /\ Cardinality(V) <= Cardinality(W)
      /\ IsFiniteSet(R) /\ Cardinality(R) \in Nat /\ Cardinality(R) <= Cardinality(S)
      /\ IsFiniteSet(U) /\ Cardinality(U) \in Nat /\ Cardinality(U) <= Cardinality(T)
      /\ Cardinality(W) \in Nat /\ Cardinality(S) \in Nat /\ Cardinality(T) \in Nat
  BY <1>1, Parts
<1>3. l + Cardinality(V) + Cardinality(R) <= b + y
  BY <1>2 DEF Accounted
<1>4. MaxTries * b \in Nat
  BY CallConstants
<1>5. l + Cardinality(V) + Cardinality(U) <= MaxTries * b + q
  BY <1>2, <1>4 DEF Accounted
<1> QED
  BY <1>2, <1>3, <1>5 DEF Accounted

\* a fault, after which c tries again;
LEMMA AnotherTry ==
  ASSUME NEW l \in Nat, NEW W, NEW S, NEW T, NEW b \in Nat, NEW x \in Nat,
         NEW r \in Nat, Accounted(l, W, S, T, b, x, r),
         NEW c, NEW R \in SUBSET (S \union {c}), NEW U \in SUBSET T, NEW q \in Nat, r <= q
  PROVE  Accounted(l, W, R, U, b, x + 1, q)
<1>1. IsFiniteSet(W) /\ IsFiniteSet(S) /\ IsFiniteSet(T)
  BY DEF Accounted
<1>2. /\ IsFiniteSet(R) /\ Cardinality(R) \in Nat /\ Cardinality(R) <= Cardinality(S) + 1
      /\ IsFiniteSet(U) /\ Cardinality(U) \in Nat /\ Cardinality(U) <= Cardinality(T)
      /\ Cardinality(W) \in Nat /\ Cardinality(S) \in Nat /\ Cardinality(T) \in Nat
  BY <1>1, Parts
<1>3. l + Cardinality(W) + Cardinality(R) <= b + (x + 1)
  BY <1>2 DEF Accounted
<1>4. MaxTries * b \in Nat
  BY CallConstants
<1>5. l + Cardinality(W) + Cardinality(U) <= MaxTries * b + q
  BY <1>2, <1>4 DEF Accounted
<1> QED
  BY <1>1, <1>2, <1>3, <1>5 DEF Accounted

\* a call begun, with all its tries;
LEMMA AnotherCall ==
  ASSUME NEW l \in Nat, NEW W, NEW S, NEW T, NEW b \in Nat, NEW x \in Nat,
         NEW r \in Nat, Accounted(l, W, S, T, b, x, r),
         NEW c, NEW R \in SUBSET (S \union {c}), NEW U \in SUBSET (T \union ({c} \X (1..MaxTries)))
  PROVE  Accounted(l, W, R, U, b + 1, x, r)
<1>1. IsFiniteSet(W) /\ IsFiniteSet(S) /\ IsFiniteSet(T)
  BY DEF Accounted
<1>2. /\ IsFiniteSet(R) /\ Cardinality(R) \in Nat /\ Cardinality(R) <= Cardinality(S) + 1
      /\ Cardinality(W) \in Nat /\ Cardinality(S) \in Nat /\ Cardinality(T) \in Nat
  BY <1>1, Parts
<1>3. l + Cardinality(W) + Cardinality(R) <= (b + 1) + x
  BY <1>2 DEF Accounted
<1>4. MaxTries \in Nat /\ MaxTries > 0 /\ MaxTries * b \in Nat
      /\ MaxTries * (b + 1) = MaxTries * b + MaxTries
  BY CallConstants
<1> DEFINE new == {c} \X (1..MaxTries)
<1>5. IsFiniteSet(new) /\ Cardinality(new) = MaxTries
  <2>1. IsFiniteSet({c}) /\ Cardinality({c}) = 1
    BY FS_Singleton
  <2>2. IsFiniteSet(1..MaxTries) /\ Cardinality(1..MaxTries) = MaxTries
    BY <1>4, FS_Interval
  <2>3. IsFiniteSet(new) /\ Cardinality(new) = Cardinality({c}) * Cardinality(1..MaxTries)
    BY <2>1, <2>2, FS_Product, Zenon
  <2>4. 1 * MaxTries = MaxTries
    BY <1>4
  <2> QED
    BY <2>1, <2>2, <2>3, <2>4, Zenon
<1> HIDE DEF new
<1>6. IsFiniteSet(T \union new) /\ Cardinality(T \union new) <= Cardinality(T) + MaxTries
  <2>1. /\ IsFiniteSet(T \union new)
        /\ Cardinality(T \union new) = Cardinality(T) + Cardinality(new) - Cardinality(T \cap new)
    BY <1>1, <1>5, FS_Union
  <2>2. Cardinality(T \cap new) \in Nat
    BY <1>5, FS_Subset, FS_CardinalityType
  <2> QED
    BY <1>2, <1>4, <1>5, <2>1, <2>2
<1>7. U \subseteq T \union new
  BY DEF new
<1>8. IsFiniteSet(U) /\ Cardinality(U) \in Nat /\ Cardinality(U) <= Cardinality(T) + MaxTries
  <2>1. /\ IsFiniteSet(U) /\ Cardinality(U) \in Nat /\ Cardinality(T \union new) \in Nat
        /\ Cardinality(U) <= Cardinality(T \union new)
    BY <1>6, <1>7, FS_Subset, FS_CardinalityType
  <2> QED
    BY <1>2, <1>4, <1>6, <2>1
<1>9. l + Cardinality(W) + Cardinality(U) <= MaxTries * (b + 1) + r
  BY <1>2, <1>4, <1>8 DEF Accounted
<1> QED
  BY <1>1, <1>2, <1>3, <1>8, <1>9 DEF Accounted

\* a try, which takes one of those left and gives it to a handler;
LEMMA Tried ==
  ASSUME NEW l \in Nat, NEW W, NEW S, NEW T, NEW b \in Nat, NEW x \in Nat,
         NEW r \in Nat, Accounted(l, W, S, T, b, x, r),
         NEW h, NEW V \in SUBSET (W \union {h}), NEW c \in S, NEW R \in SUBSET (S \ {c}),
         NEW t \in T, NEW U \in SUBSET (T \ {t})
  PROVE  Accounted(l, V, R, U, b, x, r)
<1>1. IsFiniteSet(W) /\ IsFiniteSet(S) /\ IsFiniteSet(T)
  BY DEF Accounted
<1>2. /\ IsFiniteSet(V) /\ Cardinality(V) \in Nat /\ Cardinality(V) <= Cardinality(W) + 1
      /\ IsFiniteSet(R) /\ Cardinality(R) \in Nat /\ Cardinality(R) + 1 <= Cardinality(S)
      /\ IsFiniteSet(U) /\ Cardinality(U) \in Nat /\ Cardinality(U) + 1 <= Cardinality(T)
      /\ Cardinality(W) \in Nat /\ Cardinality(S) \in Nat /\ Cardinality(T) \in Nat
  BY <1>1, Parts
<1>3. l + Cardinality(V) + Cardinality(R) <= b + x
  BY <1>2 DEF Accounted
<1>4. MaxTries * b \in Nat
  BY CallConstants
<1>5. l + Cardinality(V) + Cardinality(U) <= MaxTries * b + r
  BY <1>2, <1>4 DEF Accounted
<1> QED
  BY <1>2, <1>3, <1>5 DEF Accounted

\* an effect, which ends a handler's work;
LEMMA Effective ==
  ASSUME NEW l \in Nat, NEW W, NEW S, NEW T, NEW b \in Nat, NEW x \in Nat,
         NEW r \in Nat, Accounted(l, W, S, T, b, x, r), NEW h \in W, NEW V \in SUBSET (W \ {h})
  PROVE  Accounted(l + 1, V, S, T, b, x, r)
<1>1. IsFiniteSet(W) /\ IsFiniteSet(S) /\ IsFiniteSet(T)
  BY DEF Accounted
<1>2. /\ IsFiniteSet(V) /\ Cardinality(V) \in Nat /\ Cardinality(V) + 1 <= Cardinality(W)
      /\ Cardinality(W) \in Nat /\ Cardinality(S) \in Nat /\ Cardinality(T) \in Nat
  BY <1>1, Parts
<1>3. (l + 1) + Cardinality(V) + Cardinality(S) <= b + x
  BY <1>2 DEF Accounted
<1>4. MaxTries * b \in Nat
  BY CallConstants
<1>5. (l + 1) + Cardinality(V) + Cardinality(T) <= MaxTries * b + r
  BY <1>2, <1>4 DEF Accounted
<1> QED
  BY <1>1, <1>2, <1>3, <1>5 DEF Accounted

\* and a fault that makes PyGithub repeat what may have taken effect.
LEMMA Repeated ==
  ASSUME NEW l \in Nat, NEW W, NEW S, NEW T, NEW b \in Nat, NEW x \in Nat,
         NEW r \in Nat, Accounted(l, W, S, T, b, x, r), NEW m \in {l, l + 1}
  PROVE  Accounted(m, W, S, T, b, x + 1, r + 1)
<1>1. /\ Cardinality(W) \in Nat /\ Cardinality(S) \in Nat /\ Cardinality(T) \in Nat
      /\ MaxTries * b \in Nat
  BY FS_CardinalityType, CallConstants DEF Accounted
<1> QED
  BY <1>1 DEF Accounted

\* The account of a key, in numbers.
LEMMA AccountIs ==
  ASSUME CallInv, NEW k \in Keys
  PROVE  landed[k] \in Nat /\ begun \in Nat /\ losses \in Nat /\ Repeats(k) \in Nat
BY CallConstants DEF CallInv, CallType, Repeats

\* A step of which a handler's progress is all that k notices.
LEMMA NothingNew ==
  ASSUME CallInv, NEW k \in Keys, PaidFor(k), Working(k)' \subseteq Working(k),
         Sending(k)' \subseteq Sending(k), TriesLeft(k)' \subseteq TriesLeft(k),
         landed'[k] = landed[k], begun' = begun, losses' \in Nat, losses <= losses'
  PROVE  PaidFor(k)'
<1>1. Repeats(k)' \in Nat /\ Repeats(k) <= Repeats(k)'
  BY AccountIs DEF Repeats
<1>2. Accounted(landed[k], Working(k)', Sending(k)', TriesLeft(k)', begun, losses', Repeats(k)')
  BY <1>1, AccountIs, LessToDo DEF PaidFor
<1> QED
  BY <1>2 DEF PaidFor

\* The callers are as they were.
LEMMA SameCallers ==
  ASSUME UNCHANGED caller, NEW k
  PROVE  Sending(k)' = Sending(k) /\ TriesLeft(k)' = TriesLeft(k)
BY DEF Sending, TriesLeft

\* A handler that works goes on, or answers, without an effect.
LEMMA GoesOnPaid ==
  ASSUME TokenInv, CallInv, NEW k \in Keys, PaidFor(k), NEW h \in Handlers,
         at[h] \notin {"idle", "answered"}, NEW place, Onto(h, place),
         UNCHANGED <<clientVars, job, landed, losses>>
  PROVE  PaidFor(k)'
<1>1. \A g \in Handlers \ {h} : at'[g] = at[g]
  BY DEF Onto, Go, TokenInv, TokenType, Handlers, Processes
<1>2. Working(k)' \subseteq Working(k)
  BY <1>1 DEF Working
<1> QED
  BY <1>2, AccountIs, SameCallers, NothingNew DEF clientVars

\* A handler is free again.
LEMMA FreePaid ==
  ASSUME TokenInv, CallInv, NEW k \in Keys, PaidFor(k), NEW h \in Handlers, Free(h),
         Sending(k)' \subseteq Sending(k), TriesLeft(k)' \subseteq TriesLeft(k),
         UNCHANGED <<begun, losses>>
  PROVE  PaidFor(k)'
<1>1. at'[h] = "idle" /\ \A g \in Handlers \ {h} : at'[g] = at[g] /\ job'[g] = job[g]
  BY DEF Free, Go, TokenInv, TokenType, Handlers, Processes, CallInv, CallType
<1>2. Working(k)' \subseteq Working(k) /\ landed' = landed
  BY <1>1 DEF Working, Free
<1> QED
  BY <1>2, AccountIs, NothingNew

LEMMA CallToolPaid ==
  ASSUME CallInv, NEW k \in Keys, PaidFor(k), NEW c \in Callers, NEW j \in Keys, CallTool(c, j)
  PROVE  PaidFor(k)'
<1>1. \A d \in Callers \ {c} : caller'[d] = caller[d]
  BY DEF CallTool, CallInv, CallType
<1>2. UNCHANGED <<at, job, landed, losses>> /\ begun' = begun + 1
  BY DEF CallTool, tokenVars, serverVars
<1>3. Working(k)' = Working(k) /\ Sending(k)' \subseteq Sending(k) \union {c}
  BY <1>1, <1>2 DEF Working, Sending
<1>4. TriesLeft(k)' \subseteq TriesLeft(k) \union ({c} \X (1..MaxTries))
  BY <1>1 DEF TriesLeft
<1>5. Accounted(landed[k], Working(k), Sending(k)', TriesLeft(k)', begun + 1, losses, Repeats(k))
  <2>1. /\ Sending(k)' \in SUBSET (Sending(k) \union {c})
        /\ TriesLeft(k)' \in SUBSET (TriesLeft(k) \union ({c} \X (1..MaxTries)))
    BY <1>3, <1>4, Zenon
  <2>2. Accounted(landed[k], Working(k), Sending(k), TriesLeft(k), begun, losses, Repeats(k))
    BY DEF PaidFor
  <2>3. landed[k] \in Nat /\ begun \in Nat /\ losses \in Nat /\ Repeats(k) \in Nat
    BY AccountIs
  <2> QED
    BY <2>1, <2>2, <2>3, AnotherCall, Zenon
<1> QED
  BY <1>2, <1>3, <1>5 DEF PaidFor, Repeats

LEMMA InvokePaid ==
  ASSUME TokenInv, CallInv, NEW k \in Keys, PaidFor(k), NEW c \in Callers, Invoke(c)
  PROVE  PaidFor(k)'
<1>1. PICK h \in Handlers :
        /\ at[h] = "idle" /\ job' = [job EXCEPT ![h] = caller[c].key]
        /\ Go(h, IF Elsewhere(caller[c].key) THEN "token" ELSE "resolve")
        /\ caller' = [caller EXCEPT ![c].at = "wait", ![c].on = h, ![c].tries = @ + 1]
  BY DEF Invoke
<1>2. \A g \in Handlers \ {h} : at'[g] = at[g] /\ job'[g] = job[g]
  BY <1>1 DEF Go, TokenInv, TokenType, Handlers, Processes, CallInv, CallType
<1>3. job'[h] = caller[c].key
  BY <1>1 DEF CallInv, CallType
<1>4. /\ caller'[c].at = "wait" /\ caller'[c].key = caller[c].key
      /\ caller'[c].tries = caller[c].tries + 1
      /\ \A d \in Callers \ {c} : caller'[d] = caller[d]
  BY <1>1 DEF CallInv, CallType, CallerType
<1>5. caller[c].at = "send" /\ caller[c].tries \in Nat /\ caller[c].tries < MaxTries
  BY CallerIs, CallConstants DEF Invoke, CallInv, Joined
<1>6. UNCHANGED <<landed, begun, losses>>
  BY DEF Invoke
<1>7. /\ Working(k)' \subseteq Working(k) \union {h} /\ c \notin Sending(k)'
      /\ Sending(k)' \subseteq Sending(k)
  BY <1>2, <1>4 DEF Working, Sending
<1>8. /\ TriesLeft(k)' \subseteq TriesLeft(k)
      /\ <<c, caller[c].tries + 1>> \notin TriesLeft(k)'
  BY <1>4, <1>5 DEF TriesLeft
<1>9. CASE caller[c].key = k
  <2>1. c \in Sending(k) /\ <<c, caller[c].tries + 1>> \in TriesLeft(k)
    BY <1>5, <1>9, CallConstants DEF Sending, TriesLeft
  <2>2. PICK t \in TriesLeft(k) : t \notin TriesLeft(k)'
    BY <1>8, <2>1
  <2>3. Accounted(landed[k], Working(k)', Sending(k)', TriesLeft(k)', begun, losses, Repeats(k))
    <3>1. /\ Working(k)' \in SUBSET (Working(k) \union {h})
          /\ Sending(k)' \in SUBSET (Sending(k) \ {c})
          /\ TriesLeft(k)' \in SUBSET (TriesLeft(k) \ {t})
      BY <1>7, <1>8, <2>2
    <3>2. Accounted(landed[k], Working(k), Sending(k), TriesLeft(k), begun, losses, Repeats(k))
      BY DEF PaidFor
    <3>3. landed[k] \in Nat /\ begun \in Nat /\ losses \in Nat /\ Repeats(k) \in Nat
      BY AccountIs
    <3> QED
      BY <2>1, <2>2, <3>1, <3>2, <3>3, Tried, Zenon
  <2> QED
    BY <1>6, <2>3 DEF PaidFor, Repeats
<1>10. CASE caller[c].key # k
  <2>1. Working(k)' \subseteq Working(k)
    BY <1>2, <1>3, <1>10 DEF Working
  <2> QED
    BY <1>6, <1>7, <1>8, <2>1, AccountIs, NothingNew
<1> QED
  BY <1>9, <1>10

LEMMA ReceivePaid ==
  ASSUME TokenInv, CallInv, NEW k \in Keys, PaidFor(k), NEW c \in Callers, Receive(c)
  PROVE  PaidFor(k)'
<1>1. caller[c].on \in Handlers /\ Free(caller[c].on) /\ UNCHANGED <<begun, losses>>
  BY DEF Receive, CallInv, Joined
<1>2. caller'[c].at = "store" /\ \A d \in Callers \ {c} : caller'[d] = caller[d]
  BY DEF Receive, CallInv, CallType, CallerType
<1>3. Sending(k)' \subseteq Sending(k) /\ TriesLeft(k)' \subseteq TriesLeft(k)
  BY <1>2 DEF Sending, TriesLeft
<1> QED
  BY <1>1, <1>3, FreePaid

\* A call is over, or given up: its tries are not made.
LEMMA OverPaid ==
  ASSUME CallInv, NEW k \in Keys, PaidFor(k), NEW c \in Callers,
         StoreResult(c) \/ AbandonCall(c)
  PROVE  PaidFor(k)'
<1>1. UNCHANGED <<at, job, landed, begun>> /\ caller' = [caller EXCEPT ![c] = Idle]
  BY DEF StoreResult, AbandonCall, tokenVars, serverVars
<1>2. caller'[c].at = "idle" /\ \A d \in Callers \ {c} : caller'[d] = caller[d]
  BY <1>1, IdleType DEF CallInv, CallType
<1>3. /\ Working(k)' = Working(k) /\ Sending(k)' \subseteq Sending(k)
      /\ TriesLeft(k)' \subseteq TriesLeft(k)
  BY <1>1, <1>2 DEF Working, Sending, TriesLeft
<1>4. losses' = losses \/ losses' = losses + 1
  BY DEF StoreResult, AbandonCall, Fault
<1> QED
  BY <1>1, <1>3, <1>4, AccountIs, NothingNew

LEMMA LoseAnswerPaid ==
  ASSUME CallInv, NEW k \in Keys, PaidFor(k), NEW c \in Callers, LoseAnswer(c)
  PROVE  PaidFor(k)'
<1>1. UNCHANGED <<at, job, landed, begun>> /\ losses' = losses + 1
  BY DEF LoseAnswer, Fault, tokenVars, serverVars
<1>2. \A d \in Callers \ {c} : caller'[d] = caller[d]
  BY DEF LoseAnswer, CallInv, CallType
<1>3. /\ caller[c].at \in {"send", "wait"} /\ caller'[c].key = caller[c].key
      /\ \/ caller'[c].at = "store"
         \/ caller'[c].tries \in {caller[c].tries, caller[c].tries + 1}
  BY DEF LoseAnswer, CallInv, CallType, CallerType
<1>4. caller[c].tries \in Nat
  BY CallerIs, CallConstants
<1>5. Working(k)' = Working(k) /\ Sending(k)' \subseteq Sending(k) \union {c}
  BY <1>1, <1>2 DEF Working, Sending
<1>6. TriesLeft(k)' \subseteq TriesLeft(k)
  BY <1>2, <1>3, <1>4 DEF TriesLeft
<1>8. Repeats(k)' \in Nat /\ Repeats(k) <= Repeats(k)'
  BY <1>1, AccountIs DEF Repeats
<1>7. Accounted(landed[k], Working(k), Sending(k)', TriesLeft(k)', begun, losses + 1, Repeats(k)')
  BY <1>5, <1>6, <1>8, AccountIs, AnotherTry DEF PaidFor
<1> QED
  BY <1>1, <1>5, <1>7 DEF PaidFor

LEMMA LandedPaid ==
  ASSUME TokenInv, CallInv, NEW k \in Keys, PaidFor(k), NEW h \in Handlers,
         at[h] \notin {"idle", "answered"}, NEW a \in {"success", "failed"}, Landed(h, a)
  PROVE  PaidFor(k)'
<1>1. /\ at'[h] = "answered" /\ \A g \in Handlers \ {h} : at'[g] = at[g]
      /\ UNCHANGED <<clientVars, job, losses>>
  BY LandedKeeps
<1>2. /\ landed' = [landed EXCEPT ![job[h]] = @ + 1]
      /\ UNCHANGED <<caller, begun>>
  BY <1>1 DEF Landed, clientVars
<1>3. Working(k)' \subseteq Working(k) \ {h}
  BY <1>1 DEF Working
<1>4. Sending(k)' = Sending(k) /\ TriesLeft(k)' = TriesLeft(k)
  BY <1>2, SameCallers
<1>5. CASE job[h] = k
  <2>1. h \in Working(k) /\ landed'[k] = landed[k] + 1
    BY <1>2, <1>5 DEF Working, CallInv, CallType
  <2>2. Accounted(landed[k] + 1, Working(k)', Sending(k), TriesLeft(k), begun, losses, Repeats(k))
    BY <1>3, <2>1, AccountIs, Effective DEF PaidFor
  <2> QED
    BY <1>1, <1>2, <1>4, <2>1, <2>2 DEF PaidFor, Repeats
<1>6. CASE job[h] # k
  <2>1. landed'[k] = landed[k]
    BY <1>2, <1>6 DEF CallInv, CallType
  <2> QED
    BY <1>1, <1>2, <1>3, <1>4, <2>1, AccountIs, NothingNew
<1> QED
  BY <1>5, <1>6

LEMMA RetryCommentPaid ==
  ASSUME CallInv, NEW k \in Keys, PaidFor(k), NEW h \in Handlers, RetryComment(h)
  PROVE  PaidFor(k)'
<1>1. /\ job[h].op = "comment" /\ losses' = losses + 1
      /\ landed' \in {landed, [landed EXCEPT ![job[h]] = @ + 1]}
      /\ UNCHANGED <<at, job, caller, begun>>
  BY DEF RetryComment, Fault, tokenVars, clientVars
<1>2. /\ Working(k)' = Working(k) /\ Sending(k)' = Sending(k)
      /\ TriesLeft(k)' = TriesLeft(k)
  BY <1>1 DEF Working, Sending, TriesLeft
<1>3. CASE k = job[h]
  <2>1. /\ landed'[k] \in {landed[k], landed[k] + 1}
        /\ Repeats(k) = losses /\ Repeats(k)' = losses + 1
    BY <1>1, <1>3 DEF CallInv, CallType, Repeats
  <2>2. Accounted(landed'[k], Working(k), Sending(k), TriesLeft(k), begun, losses + 1,
                  Repeats(k) + 1)
    BY <2>1, AccountIs, Repeated DEF PaidFor
  <2> QED
    BY <1>1, <1>2, <2>1, <2>2 DEF PaidFor
<1>4. CASE k # job[h]
  <2>1. landed'[k] = landed[k]
    BY <1>1, <1>4 DEF CallInv, CallType
  <2> QED
    BY <1>1, <1>2, <2>1, AccountIs, NothingNew
<1> QED
  BY <1>3, <1>4

LEMMA HandlerPaid ==
  ASSUME TokenInv, CallInv, NEW k \in Keys, PaidFor(k), NEW h \in Handlers, HandlerStep(h)
  PROVE  PaidFor(k)'
<1>1. CASE Fails(h) \/ SearchEmail(h) \/ GetQuote(h) \/ SubmitRefused(h)
  <2>1. /\ at[h] \notin {"idle", "answered"} /\ Onto(h, "answered")
        /\ UNCHANGED <<clientVars, job, landed, losses>>
    BY <1>1 DEF Fails, SearchEmail, GetQuote, SubmitRefused, Answer
  <2> QED
    BY <2>1, GoesOnPaid
<1>2. CASE ResolveEvent(h) \/ ClashOrNone(h)
  <2>1. /\ at[h] \notin {"idle", "answered"}
        /\ Onto(h, "answered") \/ Onto(h, "act") \/ Onto(h, "check")
        /\ UNCHANGED <<clientVars, job, landed, losses>>
    BY <1>2 DEF ResolveEvent, ClashOrNone, Answer
  <2> QED
    BY <2>1, GoesOnPaid
<1>3. CASE \/ CreateEvent(h) \/ UpdateEvent(h) \/ DeleteEvent(h)
           \/ SendEmail(h) \/ CommentOnPr(h) \/ Submit(h)
  <2>1. /\ at[h] \notin {"idle", "answered"} /\ \E a \in {"success", "failed"} : Landed(h, a)
    BY <1>3 DEF CreateEvent, UpdateEvent, DeleteEvent, SendEmail, CommentOnPr, Submit
  <2> QED
    BY <2>1, LandedPaid
<1>4. CASE Dropped(h)
  <2>1. Free(h) /\ UNCHANGED <<caller, begun, losses>>
    BY <1>4 DEF Dropped, clientVars
  <2> QED
    BY <2>1, SameCallers, FreePaid
<1>5. CASE RetryComment(h)
  BY <1>5, RetryCommentPaid
<1> QED
  BY <1>1, <1>2, <1>3, <1>4, <1>5 DEF HandlerStep

\* Handlers go on between their requests, the calls stay as they are.
LEMMA BetweenPaid ==
  ASSUME CallInv, NEW k \in Keys, PaidFor(k), Between,
         UNCHANGED <<caller, begun>>, losses' \in {losses, losses + 1}
  PROVE  PaidFor(k)'
<1>1. Working(k)' \subseteq Working(k) /\ landed' = landed
  BY DEF Between, Working, serverVars
<1> QED
  BY <1>1, AccountIs, SameCallers, NothingNew

\* Every step pays for what it does.
LEMMA StepPaid ==
  ASSUME Inv, [Next]_vars, NEW k \in Keys, PaidFor(k)
  PROVE  PaidFor(k)'
<1>1. TokenInv /\ CallInv
  BY DEF Inv
<1>2. ASSUME NEW c \in Callers, CallerStep(c) PROVE PaidFor(k)'
  BY <1>1, <1>2, InvokePaid, ReceivePaid, OverPaid DEF CallerStep
<1>3. ASSUME NEW c \in Callers, NEW j \in Keys, CallTool(c, j) PROVE PaidFor(k)'
  BY <1>1, <1>3, CallToolPaid
<1>4. ASSUME NEW h \in Handlers, HandlerStep(h) PROVE PaidFor(k)'
  BY <1>1, <1>4, HandlerPaid
<1>5. CASE TokenStep
  <2>1. UNCHANGED <<caller, begun>> /\ losses' = losses
    BY <1>5 DEF TokenStep, clientVars
  <2> QED
    BY <1>1, <1>5, <2>1, TokenBetween, BetweenPaid
<1>6. CASE CacheExpiry
  <2>1. UNCHANGED <<caller, begun>> /\ losses' = losses + 1 /\ Between
    BY <1>6 DEF CacheExpiry, Fault, Between, tokenVars
  <2> QED
    BY <1>1, <2>1, BetweenPaid
<1>7. ASSUME NEW c \in Callers, LoseAnswer(c) \/ AbandonCall(c) PROVE PaidFor(k)'
  BY <1>1, <1>7, LoseAnswerPaid, OverPaid
<1>8. CASE UNCHANGED vars
  <2>1. UNCHANGED <<caller, begun>> /\ losses' = losses /\ Between
    BY <1>8 DEF vars, tokenVars, clientVars, Between
  <2> QED
    BY <1>1, <2>1, BetweenPaid
<1> QED
  BY <1>2, <1>3, <1>4, <1>5, <1>6, <1>7, <1>8 DEF Next, FaultStep

\* What has taken effect has been paid for: with calls and faults, and with tries.
EffectsArePaid ==
    \A k \in Keys : /\ landed[k] <= begun + losses
                    /\ k.op # "comment" => landed[k] <= MaxTries * begun

(* call_tool and its tenacity retries: a call takes effect once, and once    *)
(* more for a fault at the most (an answer lost to the client or to          *)
(* PyGithub, a crash, a lost cache entry), and, but for PyGithub's own       *)
(* repeats, never more often than stop_after_attempt lets it be tried.       *)
THEOREM RepeatsAreBounded == Spec => []EffectsArePaid
<1> DEFINE Books == \A k \in Keys : PaidFor(k)
<1>1. Init => Books
  <2> SUFFICES ASSUME Init, NEW k \in Keys PROVE PaidFor(k)
    OBVIOUS
  <2>1. Working(k) = {}
    BY DEF Init, TokenInit, Working, Handlers, Processes
  <2>2. Sending(k) = {} /\ TriesLeft(k) = {}
    BY IdleType DEF Init, Sending, TriesLeft
  <2>3. landed[k] = 0 /\ begun = 0 /\ losses \in Nat
    BY CallConstants DEF Init
  <2>4. IsFiniteSet({}) /\ Cardinality({}) = 0
    BY FS_EmptySet
  <2>5. MaxTries * 0 = 0
    BY CallConstants
  <2>6. Repeats(k) \in Nat
    BY <2>3 DEF Repeats
  <2> QED
    BY <2>1, <2>2, <2>3, <2>4, <2>5, <2>6 DEF PaidFor, Accounted
<1>2. Inv /\ Books /\ [Next]_vars => Books'
  BY StepPaid
<1>3. Inv /\ Books => EffectsArePaid
  <2> SUFFICES ASSUME Inv, NEW k \in Keys, PaidFor(k)
               PROVE  /\ landed[k] <= begun + losses
                      /\ k.op # "comment" => landed[k] <= MaxTries * begun
    BY DEF EffectsArePaid
  <2>1. landed[k] \in Nat /\ begun \in Nat /\ losses \in Nat /\ MaxTries * begun \in Nat
    BY AccountIs, CallConstants DEF Inv
  <2>2. /\ Cardinality(Working(k)) \in Nat /\ Cardinality(Sending(k)) \in Nat
        /\ Cardinality(TriesLeft(k)) \in Nat
    BY FS_CardinalityType DEF PaidFor, Accounted
  <2>3. k.op # "comment" => Repeats(k) = 0
    BY DEF Repeats
  <2> QED
    BY <2>1, <2>2, <2>3 DEF PaidFor, Accounted
<1> HIDE DEF Books
<1> QED
  BY <1>1, <1>2, <1>3, CallsInv, PTL DEF Spec

(* call_tool's idempotency: without a fault, and unless it is made twice at  *)
(* once, no call takes effect twice; with faults, once for each call begun   *)
(* and each fault at the most.                                               *)
THEOREM NoRepeatWithoutFault == Spec => []RepeatNeedsFault
<1>1. Inv /\ EffectsArePaid => RepeatNeedsFault
  <2>1. Inv => \A k \in Keys : landed[k] > 1 => k \in excused
    BY DEF Inv, CallInv, CallType, Once
  <2> QED
    BY <2>1 DEF EffectsArePaid, RepeatNeedsFault
<1> QED
  BY <1>1, CallsInv, RepeatsAreBounded, PTL
==============================================================================
