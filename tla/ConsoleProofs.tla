---------------------------- MODULE ConsoleProofs ----------------------------
(***************************************************************************)
(* What a user is told, for any number of posts, keys, limits, retries,    *)
(* decisions, failures and restarts.                                       *)
(*                                                                         *)
(* The argument, part by part.  The run: nothing is written between the    *)
(* last save and the label, so the row tells what the label promises, as   *)
(* long as nobody has decided (Ending).  The door: an answered key has its *)
(* entry until it expires, so a request that comes behind finds it (Keyed); *)
(* a counter never counts more than the requests that have come (Tally).    *)
(* The page: the run on offer is the current one or was overtaken (Paired). *)
(***************************************************************************)
EXTENDS Console, TLAPS, FiniteSetTheorems

-----------------------------------------------------------------------------
(* The run.                                                                  *)

Written == \E s \in row : Terminal(s)
\* Only the task has worked, and every write has been made.
Clean == decisions = 0 /\ failures = 0
Ending ==
    /\ decisions = 0 => worker = "task"
    /\ decisions = 0 /\ at \in {"respond", "final", "label"} => Terminal(state)
    /\ Clean /\ at = "label" => Written
    /\ Clean /\ phase = "done" => at \in {"paused", "over"} /\ Written
RunInv == TypeOK /\ Ending

LEMMA RunInit == Init => RunInv
BY BoundsOK DEF Init, RunInv, TypeOK, Ending, Empty, Flags, Nodes, Terminal, Clean

\* A node that commits a state of the right type.
LEMMA CommitTyped ==
  ASSUME RunInv, NEW s \in Flags, NEW next \in Nodes \union {"final"}, Commit(s, next),
         at \in Nodes, decisions = 0 /\ next \in {"respond", "final"} => Terminal(s)
  PROVE  /\ state' = s /\ at' \in Nodes \union {"final"} /\ worker' \in {"task", "handler"}
         /\ thread' \in [node: Nodes \union {"final"}, state: Flags]
         /\ phase' \in {"none", "working", "done"}
         /\ decisions = 0 /\ at' \in {"respond", "final"} => Terminal(s)
         /\ decisions = 0 => worker' = "task" /\ phase' = "working"
<1>1. s.error => Terminal(s)
  BY DEF Terminal
<1>2. (decisions = 0 => worker = "task") /\ phase \in {"none", "working", "done"}
  BY DEF RunInv, Ending, TypeOK
<1> QED
  BY <1>1, <1>2 DEF Commit

\* So the invariant is kept by a node that commits, and saves or not.
LEMMA Committed ==
  ASSUME RunInv, NEW s \in Flags, NEW next \in Nodes \union {"final"}, Commit(s, next),
         at \in Nodes, decisions = 0 /\ next \in {"respond", "final"} => Terminal(s),
         row' = row \/ \E t \in Flags : row' = {t},
         retries' \in 0..MaxRetries, failures' \in 0..MaxFailures, UNCHANGED <<crashes, decisions>>
  PROVE  RunInv'
<1>1. /\ state' = s /\ at' \in Nodes \union {"final"} /\ worker' \in {"task", "handler"}
      /\ thread' \in [node: Nodes \union {"final"}, state: Flags]
      /\ phase' \in {"none", "working", "done"}
      /\ decisions = 0 /\ at' \in {"respond", "final"} => Terminal(s)
      /\ decisions = 0 => worker' = "task" /\ phase' = "working"
  BY CommitTyped
<1>2. TypeOK'
  <2>1. row' \in {{}} \union {{t} : t \in Flags}
    BY DEF RunInv, TypeOK
  <2> QED
    BY <1>1, <2>1 DEF RunInv, TypeOK
<1>3. Ending'
  <2>1. Terminal(state') <=> Terminal(s)
    BY <1>1
  <2>2. at' # "label"
    BY <1>1 DEF Nodes
  <2> QED
    BY <1>1, <2>1, <2>2 DEF Ending, Clean, Terminal
<1> QED
  BY <1>2, <1>3 DEF RunInv

LEMMA FlagStates ==
  ASSUME NEW s \in Flags
  PROVE  /\ Failed(s) \in Flags /\ Terminal(Failed(s))
         /\ Drafted(s) \in Flags /\ Terminal(Drafted(s))
         /\ \A b \in BOOLEAN : [s EXCEPT !.verdict = b] \in Flags /\ [s EXCEPT !.draft = b] \in Flags
         /\ Terminal([s EXCEPT !.verdict = TRUE])
BY DEF Flags, Failed, Drafted, Terminal

LEMMA NodeInv ==
  ASSUME RunInv, Plan \/ Execute \/ Compose \/ Guard \/ Respond \/ Reject
  PROVE  RunInv'
<1> USE BoundsOK
<1>1. state \in Flags /\ retries \in 0..MaxRetries /\ failures \in 0..MaxFailures
  BY DEF RunInv, TypeOK
<1>2. decisions = 0 /\ at = "respond" => Terminal(state)
  BY DEF RunInv, Ending
<1> DEFINE Sf == Failed(state)
           Sd == Drafted(state)
           Sp == [state EXCEPT !.verdict = FALSE]
           Se == [state EXCEPT !.draft = FALSE]
           Sv == [state EXCEPT !.verdict = TRUE]
           Sr == [Sv EXCEPT !.draft = FALSE]
<1>3. /\ Sf \in Flags /\ Sd \in Flags /\ Sp \in Flags /\ Se \in Flags /\ Sv \in Flags /\ Sr \in Flags
      /\ Failed(Sd) \in Flags /\ Failed(Sv) \in Flags
      /\ Terminal(Sf) /\ Terminal(Sv) /\ Terminal(Sd) /\ Terminal(Failed(Sd)) /\ Terminal(Failed(Sv))
  <2>1. /\ Sf \in Flags /\ Sd \in Flags /\ Sp \in Flags /\ Se \in Flags /\ Sv \in Flags
        /\ Terminal(Sf) /\ Terminal(Sv) /\ Terminal(Sd)
    BY <1>1, FlagStates
  <2> HIDE DEF Sf, Sd, Sp, Se, Sv
  <2> QED
    BY <2>1, FlagStates
<1>4. CASE Plan
  <2>1. at = "plan" /\ UNCHANGED <<row, retries, crashes, failures, decisions>>
        /\ (Commit(Sp, "execute") \/ Commit(Sf, "final"))
    BY <1>4 DEF Plan, counters
  <2> HIDE DEF Sp, Sf
  <2> QED
    BY <1>1, <1>3, <2>1, Committed DEF Nodes
<1>5. CASE Execute
  <2>1. at = "execute" /\ UNCHANGED <<retries, crashes, decisions>>
        /\ \/ Commit(Se, "compose") /\ (Saved(state) \/ Saved(Sd))
           \/ Commit(Sd, "compose") /\ Saved(Sd)
           \/ Commit(Sf, "final") /\ (Saved(state) \/ SaveRaises)
    BY <1>5 DEF Execute
  <2> HIDE DEF Se, Sd, Sf
  <2>2. (row' = row \/ \E t \in Flags : row' = {t}) /\ failures' \in 0..MaxFailures
    BY <1>1, <1>3, <2>1 DEF Saved, SaveRaises
  <2> QED
    BY <1>1, <1>3, <2>1, <2>2, Committed DEF Nodes
<1>6. CASE Compose
  <2>1. at = "compose" /\ UNCHANGED <<retries, crashes, decisions>>
        /\ \/ Commit(Sd, "guard") /\ Saved(Sd)
           \/ Commit(state, "guard") /\ UNCHANGED <<row, failures>>
           \/ Commit(Sf, "final") /\ UNCHANGED <<row, failures>>
           \/ Commit(Failed(Sd), "final") /\ SaveRaises
    BY <1>6 DEF Compose
  <2> HIDE DEF Sd, Sf
  <2>2. (row' = row \/ \E t \in Flags : row' = {t}) /\ failures' \in 0..MaxFailures
    BY <1>1, <1>3, <2>1 DEF Saved, SaveRaises
  <2> QED
    BY <1>1, <1>3, <2>1, <2>2, Committed DEF Nodes
<1>7. CASE Guard
  <2>1. /\ at = "guard" /\ UNCHANGED <<row, crashes, failures, decisions>>
        /\ retries' \in 0..MaxRetries
        /\ \/ Commit(Sv, "respond") \/ Commit(Sr, "plan")
           \/ Commit(Failed(Sv), "final") \/ Commit(Sf, "final")
    BY <1>1, <1>7 DEF Guard, CanRetry
  <2> HIDE DEF Sv, Sr, Sf
  <2> QED
    BY <1>1, <1>3, <2>1, Committed DEF Nodes
<1>8. CASE Respond
  <2>1. at = "respond" /\ UNCHANGED <<retries, crashes, decisions>>
        /\ \/ Commit(state, "final") /\ Saved(state)
           \/ Commit(Sf, "final") /\ SaveRaises
    BY <1>8 DEF Respond
  <2> HIDE DEF Sf
  <2>2. (row' = row \/ \E t \in Flags : row' = {t}) /\ failures' \in 0..MaxFailures
    BY <1>1, <1>3, <2>1 DEF Saved, SaveRaises
  <2> QED
    BY <1>1, <1>2, <1>3, <2>1, <2>2, Committed DEF Nodes
<1>9. CASE Reject
  <2>1. at \in {"execute", "guard"} /\ UNCHANGED <<retries, crashes, decisions>>
        /\ Commit(Failed(Sd), "final") /\ Saved(Failed(Sd))
    BY <1>9 DEF Reject
  <2> HIDE DEF Sd
  <2>2. (row' = row \/ \E t \in Flags : row' = {t}) /\ failures' \in 0..MaxFailures
    BY <1>1, <1>3, <2>1 DEF Saved, SaveRaises
  <2> QED
    BY <1>1, <1>3, <2>1, <2>2, Committed DEF Nodes
<1> QED
  BY <1>4, <1>5, <1>6, <1>7, <1>8, <1>9

LEMMA PauseInv == ASSUME RunInv, Pause \/ PauseAgain PROVE RunInv'
<1>1. state \in Flags /\ Drafted(state) \in Flags /\ Terminal(Drafted(state))
  BY FlagStates DEF RunInv, TypeOK
<1>2. Written' /\ row' = {Drafted(state)} /\ UNCHANGED <<worker, state, thread, counters>>
  BY <1>1 DEF Pause, PauseAgain, Written
<1>3. row' \in {{}} \union {{t} : t \in Flags}
  BY <1>1, <1>2
<1>4. at' \in {"paused", "final"} /\ phase' \in {phase, "done"}
      /\ (phase' = "done" /\ decisions = 0 => at' = "paused") /\ (at' = "final" => worker # "task")
  BY DEF Pause, PauseAgain, RunInv, Ending
<1>5. TypeOK'
  BY <1>2, <1>3, <1>4 DEF RunInv, TypeOK, counters
<1>6. Ending'
  BY <1>2, <1>4 DEF RunInv, Ending, Clean, counters
<1> QED
  BY <1>5, <1>6 DEF RunInv

LEMMA OtherRunInv ==
  ASSUME RunInv, Raise \/ Final \/ Label \/ Decide \/ PhaseExpires \/ Crash \/ UNCHANGED vars
  PROVE  RunInv'
<1> USE BoundsOK
<1>1. state \in Flags /\ Failed(state) \in Flags /\ Terminal(Failed(state))
  BY FlagStates DEF RunInv, TypeOK
<1>2. CASE Raise
  <2>1. TypeOK'
    BY <1>1, <1>2 DEF Raise, RunInv, TypeOK, counters
  <2>2. UNCHANGED <<row, worker, phase, decisions, failures>> /\ at' \in {"final", "paused"}
        /\ (at' = "final" => state' = Failed(state))
        /\ (at' = "paused" => worker # "task") /\ at \in Nodes
    BY <1>2 DEF Raise, counters, Nodes
  <2> QED
    BY <1>1, <2>1, <2>2 DEF RunInv, Ending, Clean, Written, Nodes
<1>3. CASE Final
  <2>1. (row' = {state} /\ failures' = failures /\ at' = "label")
        \/ (failures' = failures + 1 /\ failures < MaxFailures
            /\ row' = row /\ at' \in {"label", "paused"})
    BY <1>3 DEF Final, Saved, SaveRaises
  <2>2. /\ decisions = 0 => Terminal(state)
        /\ UNCHANGED <<worker, state, thread, phase, retries, crashes, decisions>> /\ at = "final"
    BY <1>3 DEF Final, RunInv, Ending
  <2>3. row' = {state} /\ decisions = 0 => Written'
    BY <2>2 DEF Written
  <2>4. TypeOK'
    BY <1>1, <2>1, <2>2 DEF RunInv, TypeOK
  <2>5. failures' = failures + 1 => failures' # 0
    BY DEF RunInv, TypeOK
  <2> QED
    BY <2>1, <2>2, <2>3, <2>4, <2>5 DEF RunInv, Ending, Clean, Terminal
<1>4. CASE Label
  <2>1. TypeOK'
    BY <1>4 DEF Label, RunInv, TypeOK, counters, Empty, Flags
  <2> QED
    BY <1>4, <2>1 DEF Label, RunInv, Ending, Clean, Written, counters
<1>5. CASE Decide
  <2>1. TypeOK'
    BY <1>5 DEF Decide, RunInv, TypeOK
  <2>2. decisions' # 0 /\ at' \in Nodes /\ at' = thread.node /\ state' = thread.state
    BY <1>5 DEF Decide, RunInv, TypeOK
  <2> QED
    BY <1>5, <2>1, <2>2 DEF RunInv, Ending, Clean, Nodes
<1>6. CASE PhaseExpires
  BY <1>6 DEF PhaseExpires, RunInv, TypeOK, Ending, Clean, Written, counters
<1>7. CASE Crash
  BY <1>7 DEF Crash, RunInv, TypeOK, Ending, Clean, Written, Working, Nodes
<1>8. CASE UNCHANGED vars
  BY <1>8 DEF vars, RunInv, TypeOK, Ending, Clean, Written
<1> QED
  BY <1>2, <1>3, <1>4, <1>5, <1>6, <1>7, <1>8

-----------------------------------------------------------------------------
(* The door.                                                                 *)

Counters == Kinds \X (0..MaxWindows)
DoorType ==
    /\ post \in [Posts -> [at: Stages, key: Keys \union {NoKey}, run: Posts \union {NoKey}]]
    /\ idem \in [Keys -> Posts \union {NoKey}]
    /\ count \in [Counters -> Nat] /\ window \in 0..MaxWindows
    /\ behind \in [Posts -> SUBSET Posts] /\ counted \in [Posts -> SUBSET Counters]

\* A post that has run p was spawned as p, and has the key of p.
Runs(p, k) == p \in Posts /\ Spawned(p) /\ post[p].key = k
Unanswered == {"idle", "lookup", "vet", "accept", "refused", "limited"}
Stage(p) ==
    /\ post[p].at \in Unanswered => post[p].run = NoKey
    /\ post[p].at = "store" => Spawned(p)
    /\ post[p].at = "answered" => Runs(post[p].run, post[p].key)
\* An answered key has an entry as long as it lasts; who comes behind starts nothing.
Kept(p) ==
    /\ post[p].at = "answered" /\ post[p].key \in Keys \ expired => idem[post[p].key] # NoKey
    /\ post[p].at \in {"idle", "lookup"} => behind[p] = {}
    /\ behind[p] # {} /\ post[p].key \in Keys \ expired =>
           post[p].at \in {"answered", "error"} /\ ~Spawned(p)
Entries == \A k \in Keys : idem[k] # NoKey => Runs(idem[k], k)
Keyed == Entries /\ \A p \in Posts : Stage(p) /\ Kept(p)

\* Those that were counted in c.  No counter has counted more.
Came(c) == {q \in Posts : c \in counted[q]}
Uncounted(p) ==
    /\ post[p].at = "idle" => counted[p] = {}
    /\ post[p].at \in {"lookup", "vet"} => \A w : <<"run", w>> \notin counted[p]
Tally ==
    /\ \A c \in Counters : count[c] <= Cardinality(Came(c))
    /\ \A p \in Posts : Uncounted(p)
    /\ LimitedIsBusy
DoorInv == DoorType /\ Keyed /\ Tally

LEMMA CameFinite == ASSUME NEW c PROVE IsFiniteSet(Came(c)) /\ Cardinality(Came(c)) \in Nat
BY DoorConstants, FS_Subset, FS_CardinalityType DEF Came

LEMMA DoorInitInv == DoorInit => DoorInv
<1> SUFFICES ASSUME DoorInit PROVE DoorInv
  OBVIOUS
<1>1. DoorType
  BY DoorConstants DEF DoorInit, DoorType, Stages, Counters
<1>2. Keyed
  BY DoorConstants DEF DoorInit, Keyed, Entries, Stage, Kept, Spawned
<1>3. Tally
  <2>1. \A c \in Counters : count[c] = 0 /\ Cardinality(Came(c)) \in Nat
    BY CameFinite DEF DoorInit, Counters
  <2> QED
    BY <2>1 DEF DoorInit, Tally, Uncounted, LimitedIsBusy
<1> QED
  BY <1>1, <1>2, <1>3 DEF DoorInv

-----------------------------------------------------------------------------
(* Counting.                                                                 *)

\* A post may only be counted in more: then the counters' bound and the limited stay.
LEMMA MoreCome ==
  ASSUME DoorInv, NEW c, \A q \in Posts : counted[q] \subseteq counted'[q]
  PROVE  Came(c) \subseteq Came(c)' /\ Cardinality(Came(c)) <= Cardinality(Came(c)')
<1>1. Came(c) \subseteq Came(c)'
  BY DEF Came
<1>2. IsFiniteSet(Came(c)')
  BY DoorConstants, FS_Subset DEF Came
<1> QED
  BY <1>1, <1>2, FS_Subset

\* p is counted in the window, by the counter or in spite of it.
CountsIn(p, c) ==
    /\ counted' = [counted EXCEPT ![p] = @ \union {c}]
    /\ count' \in {count, [count EXCEPT ![c] = @ + 1]}

LEMMA OneMore ==
  ASSUME DoorInv, NEW p \in Posts, NEW c \in Counters, c \notin counted[p], CountsIn(p, c)
  PROVE  /\ count' \in [Counters -> Nat] /\ counted' \in [Posts -> SUBSET Counters]
         /\ \A d \in Counters : count'[d] <= Cardinality(Came(d)')
         /\ Cardinality(Came(c)') \in Nat
<1>1. count \in [Counters -> Nat] /\ counted \in [Posts -> SUBSET Counters]
  BY DEF DoorInv, DoorType
<1>2. count' \in [Counters -> Nat] /\ counted' \in [Posts -> SUBSET Counters]
  BY <1>1 DEF CountsIn
<1>3. \A q \in Posts : counted[q] \subseteq counted'[q]
  BY <1>1 DEF CountsIn
<1>4. Came(c)' = Came(c) \union {p} /\ p \notin Came(c)
  BY <1>1 DEF Came, CountsIn
<1>5. Cardinality(Came(c)') = Cardinality(Came(c)) + 1
  BY <1>4, CameFinite, FS_AddElement
<1>6. ASSUME NEW d \in Counters PROVE count'[d] <= Cardinality(Came(d)')
  <2>1. count[d] <= Cardinality(Came(d)) /\ count[d] \in Nat /\ count[c] \in Nat
        /\ count[c] <= Cardinality(Came(c))
    BY <1>1 DEF DoorInv, Tally
  <2>2. Cardinality(Came(d)) \in Nat /\ Cardinality(Came(c)) \in Nat
    BY CameFinite
  <2>3. CASE d = c
    BY <1>1, <1>5, <2>1, <2>2, <2>3 DEF CountsIn
  <2>4. CASE d # c
    <3>1. count'[d] = count[d]
      BY <1>1, <2>4 DEF CountsIn
    <3>2. Came(d)' = Came(d)
      BY <1>1, <2>4 DEF Came, CountsIn
    <3> QED
      BY <2>1, <3>1, <3>2
  <2> QED
    BY <2>3, <2>4
<1>7. Cardinality(Came(c)') \in Nat
  BY <1>5, CameFinite
<1> QED
  BY <1>2, <1>6, <1>7

\* The limited ones stay so, while more may come.
LEMMA StillBusy ==
  ASSUME DoorInv, NEW q \in Posts, post[q].at = "limited",
         \A p \in Posts : counted[p] \subseteq counted'[p], counted' \in [Posts -> SUBSET Counters]
  PROVE  \E c \in counted'[q] : Cardinality({p \in Posts : c \in counted'[p]}) > Limit(c[1])
<1>1. PICK c \in counted[q] : Cardinality(Came(c)) > Limit(c[1])
  BY DEF DoorInv, Tally, LimitedIsBusy, Came
<1>2. c \in counted'[q] /\ c \in Counters
  BY <1>1 DEF DoorInv, DoorType
<1>3. Limit(c[1]) \in Nat
  BY DoorConstants DEF Limit
<1>4. Cardinality(Came(c)) <= Cardinality(Came(c)') /\ Cardinality(Came(c)) \in Nat
  BY MoreCome, CameFinite
<1>5. IsFiniteSet(Came(c)') /\ Cardinality(Came(c)') \in Nat
  BY DoorConstants, FS_Subset, FS_CardinalityType DEF Came
<1>6. Cardinality(Came(c)') > Limit(c[1])
  BY <1>1, <1>3, <1>4, <1>5
<1> QED
  BY <1>2, <1>6 DEF Came

LEMMA TallyKept ==
  ASSUME DoorInv, UNCHANGED counted, \A c \in Counters : count'[c] \in Nat /\ count'[c] <= count[c],
         \A p \in Posts : /\ post'[p].at = "idle" => post[p].at = "idle"
                          /\ post'[p].at \in {"lookup", "vet"} => post[p].at \in {"lookup", "vet"}
                          /\ post'[p].at = "limited" => post[p].at = "limited"
  PROVE  Tally'
<1>1. \A c \in Counters : count'[c] <= Cardinality(Came(c)')
  <2> SUFFICES ASSUME NEW c \in Counters PROVE count'[c] <= Cardinality(Came(c)')
    OBVIOUS
  <2>1. Came(c)' = Came(c) /\ Cardinality(Came(c)) \in Nat
    BY CameFinite DEF Came
  <2>2. count[c] \in Nat /\ count[c] <= Cardinality(Came(c)) /\ count'[c] \in Nat /\ count'[c] <= count[c]
    BY DEF DoorInv, DoorType, Tally
  <2> QED
    BY <2>1, <2>2
<1>2. \A p \in Posts : Uncounted(p)'
  BY DEF DoorInv, Tally, Uncounted
<1>3. LimitedIsBusy'
  BY StillBusy DEF DoorInv, DoorType, LimitedIsBusy
<1> QED
  BY <1>1, <1>2, <1>3 DEF Tally

\* p is counted, and limited only if the counter is over.
LEMMA TallyMore ==
  ASSUME DoorInv, NEW p \in Posts, NEW kind \in Kinds, CountsIn(p, <<kind, window>>),
         \A q \in Posts : q # p => post'[q] = post[q],
         \/ kind = "request" /\ post[p].at = "idle" /\ post'[p].at # "idle"
         \/ kind = "run" /\ post[p].at = "vet" /\ post'[p].at \notin {"idle", "lookup", "vet"},
         post'[p].at = "limited" => count' = [count EXCEPT ![<<kind, window>>] = @ + 1]
                                    /\ count'[<<kind, window>>] > Limit(kind)
  PROVE  Tally' /\ count' \in [Counters -> Nat] /\ counted' \in [Posts -> SUBSET Counters]
<1>0. <<kind, window>> \in Counters
  BY DEF DoorInv, DoorType, Counters
<1>a. PICK c \in Counters : c = <<kind, window>>
  BY <1>0
<1>1. /\ c[1] = kind /\ c = <<kind, window>> /\ CountsIn(p, c)
      /\ post'[p].at = "limited" => count'[c] > Limit(kind)
  BY <1>a
<1>2. counted \in [Posts -> SUBSET Counters] /\ Uncounted(p)
  BY DEF DoorInv, DoorType, Tally
<1>3. c \notin counted[p]
  BY <1>1, <1>2 DEF Uncounted
<1>4. /\ count' \in [Counters -> Nat] /\ counted' \in [Posts -> SUBSET Counters]
      /\ \A d \in Counters : count'[d] <= Cardinality(Came(d)')
      /\ Cardinality(Came(c)') \in Nat
  BY <1>1, <1>3, OneMore
<1>5. /\ \A q \in Posts : counted[q] \subseteq counted'[q] /\ (q # p => counted'[q] = counted[q])
      /\ counted'[p] = counted[p] \union {c}
  BY <1>1, <1>2 DEF CountsIn
<1>6. ASSUME NEW q \in Posts PROVE Uncounted(q)'
  <2>1. CASE q # p
    BY <1>5, <2>1 DEF DoorInv, Tally, Uncounted
  <2>2. CASE q = p
    BY <1>1, <1>2, <1>5, <2>2 DEF Uncounted
  <2> QED
    BY <2>1, <2>2
<1>7. ASSUME NEW q \in Posts, post'[q].at = "limited"
      PROVE  \E d \in counted'[q] : Cardinality({r \in Posts : d \in counted'[r]}) > Limit(d[1])
  <2>1. CASE q # p
    BY <1>4, <1>5, <1>7, <2>1, StillBusy
  <2>2. CASE q = p
    <3>1. count'[c] > Limit(kind) /\ count'[c] \in Nat /\ count'[c] <= Cardinality(Came(c)')
      BY <1>1, <1>4, <1>7, <2>2
    <3>2. Limit(kind) \in Nat
      BY DoorConstants DEF Limit
    <3>3. Cardinality(Came(c)') > Limit(c[1])
      BY <1>1, <1>4, <3>1, <3>2
    <3>4. c \in counted'[q]
      BY <1>5, <2>2
    <3> QED
      BY <3>3, <3>4 DEF Came
  <2> QED
    BY <2>1, <2>2
<1> QED
  BY <1>4, <1>6, <1>7 DEF Tally, LimitedIsBusy

-----------------------------------------------------------------------------
(* Keys.                                                                     *)

\* What was answered and stored stays; only a post that moves is looked at again.
LEMMA KeyedKept ==
  ASSUME DoorInv, Entries', expired \subseteq expired',
         \A q \in Posts, k \in Keys \union {NoKey} : Runs(q, k) => Runs(q, k)',
         \A k \in Keys : idem[k] # NoKey => idem'[k] # NoKey \/ k \in expired',
         \A q \in Posts : \/ post'[q] = post[q] /\ behind'[q] = behind[q]
                          \/ (Stage(q) /\ Kept(q))'
  PROVE  Keyed'
<1>1. ASSUME NEW q \in Posts, post'[q] = post[q], behind'[q] = behind[q] PROVE (Stage(q) /\ Kept(q))'
  <2>1. Stage(q) /\ Kept(q) /\ post[q].key \in Keys \union {NoKey}
    BY DEF DoorInv, Keyed, DoorType
  <2>2. Stage(q)'
    <3>1. post[q].at = "answered" => post[q].run \in Posts /\ Runs(post[q].run, post[q].key)
      BY <2>1 DEF Stage, Runs
    <3>2. post[q].at = "answered" => Runs(post[q].run, post[q].key)'
      BY <2>1, <3>1, <1>1 DEF Runs, Spawned
    <3> QED
      BY <1>1, <2>1, <3>2 DEF Stage, Spawned, Runs
  <2>3. Kept(q)'
    BY <1>1, <2>1 DEF Kept, Spawned
  <2> QED
    BY <2>2, <2>3
<1> QED
  BY <1>1 DEF Keyed

\* One post moves, and the entries stay as they are.
LEMMA OneMoves ==
  ASSUME DoorInv, NEW p \in Posts, NEW x \in [at: Stages, key: Keys \union {NoKey}, run: Posts \union {NoKey}],
         post' = [post EXCEPT ![p] = x], UNCHANGED <<idem, expired>>,
         \A q \in Posts : q # p => behind'[q] = behind[q],
         Spawned(p) => x.run = p /\ x.key = post[p].key,
         (Stage(p) /\ Kept(p))'
  PROVE  Keyed'
<1>1. \A q \in Posts : q # p => post'[q] = post[q]
  BY DEF DoorInv, DoorType
<1>2. post'[p] = x
  BY DEF DoorInv, DoorType
<1>3. \A q, k : Runs(q, k) => Runs(q, k)'
  BY <1>1, <1>2 DEF Runs, Spawned
<1>4. Entries'
  BY <1>3 DEF Entries, DoorInv, Keyed, Runs, Spawned
<1> QED
  BY <1>1, <1>3, <1>4, KeyedKept

-----------------------------------------------------------------------------
(* The steps of the door.                                                    *)

LEMMA SendInv ==
  ASSUME DoorInv, NEW p \in Posts, NEW k \in Keys \union {NoKey}, Send(p, k)
  PROVE  DoorInv'
<1> DEFINE x(stage) == [post[p] EXCEPT !.at = stage, !.key = k]
<1>1. /\ post[p].at = "idle" /\ UNCHANGED <<idem, window, expired, behind>>
      /\ Stage(p) /\ Kept(p) /\ post[p].run = NoKey /\ behind[p] = {}
      /\ post \in [Posts -> [at: Stages, key: Keys \union {NoKey}, run: Posts \union {NoKey}]]
      /\ count \in [Counters -> Nat] /\ <<"request", window>> \in Counters
  BY DEF Send, DoorInv, DoorType, Keyed, Stage, Kept, Unanswered, Counters, Kinds
<1>2. \A stage \in Stages :
          [post EXCEPT ![p].at = stage, ![p].key = k] = [post EXCEPT ![p] = x(stage)]
  OBVIOUS
<1>3. CountsIn(p, <<"request", window>>)
      /\ \/ post' = [post EXCEPT ![p] = x("lookup")]
         \/ /\ post' = [post EXCEPT ![p] = x("limited")]
            /\ count' = [count EXCEPT ![<<"request", window>>] = @ + 1]
            /\ count'[<<"request", window>>] > Limit("request")
  <2>1. "lookup" \in Stages /\ "limited" \in Stages
    BY DEF Stages
  <2>2. CountsIn(p, <<"request", window>>)
    BY DEF Send, CountAs, CountsIn, Counter
  <2>3. \/ post' = [post EXCEPT ![p].at = "lookup", ![p].key = k]
        \/ /\ post' = [post EXCEPT ![p].at = "limited", ![p].key = k]
           /\ count' = [count EXCEPT ![<<"request", window>>] = @ + 1]
           /\ ~(count'[<<"request", window>>] <= Limit("request"))
    BY DEF Send, CountAs, Counter
  <2>4. count' = [count EXCEPT ![<<"request", window>>] = @ + 1]
            => count'[<<"request", window>>] \in Nat
    BY <1>1
  <2>5. Limit("request") \in Nat
    BY DoorConstants DEF Limit
  <2>6. \A n \in Nat : ~(n <= Limit("request")) => n > Limit("request")
    BY <2>5
  <2> HIDE DEF x
  <2> QED
    BY <1>2, <2>1, <2>2, <2>3, <2>4, <2>6
<1>4. PICK stage \in {"lookup", "limited"} : post' = [post EXCEPT ![p] = x(stage)]
  BY <1>3
<1>5. post'[p] = x(stage) /\ \A q \in Posts : q # p => post'[q] = post[q]
  BY <1>1, <1>4
<1>6. x(stage) \in [at: Stages, key: Keys \union {NoKey}, run: Posts \union {NoKey}]
      /\ x(stage).at = stage /\ x(stage).run = NoKey /\ x(stage).key = k
  BY <1>1 DEF Stages
<1>7. Keyed'
  <2>1. Stage(p)' /\ Kept(p)' /\ ~Spawned(p)
    BY <1>1, <1>5, <1>6, DoorConstants DEF Stage, Kept, Spawned, Unanswered
  <2> QED
    BY <1>1, <1>4, <1>6, <2>1, OneMoves
<1>8. Tally' /\ count' \in [Counters -> Nat] /\ counted' \in [Posts -> SUBSET Counters]
  <2>1. post'[p].at = "limited" => count' = [count EXCEPT ![<<"request", window>>] = @ + 1]
                                /\ count'[<<"request", window>>] > Limit("request")
    BY <1>1, <1>3, <1>5, <1>6, ZenonT(30)
  <2>2. post'[p].at # "idle" /\ "request" \in Kinds
    BY <1>5, <1>6 DEF Kinds
  <2> QED
    BY <1>1, <1>3, <1>5, <2>1, <2>2, TallyMore
<1>9. DoorType'
  BY <1>1, <1>4, <1>6, <1>8 DEF DoorInv, DoorType
<1> QED
  BY <1>7, <1>8, <1>9 DEF DoorInv

\* A request that is counted by evaluate_input.
LEMMA VetInv == ASSUME DoorInv, NEW p \in Posts, Vet(p) PROVE DoorInv'
<1> DEFINE x(stage) == [post[p] EXCEPT !.at = stage]
<1>1. /\ post[p].at = "vet" /\ UNCHANGED <<idem, window, expired, behind>>
      /\ Stage(p) /\ Kept(p) /\ post[p].run = NoKey
      /\ post \in [Posts -> [at: Stages, key: Keys \union {NoKey}, run: Posts \union {NoKey}]]
      /\ count \in [Counters -> Nat] /\ <<"run", window>> \in Counters
  BY DEF Vet, DoorInv, DoorType, Keyed, Stage, Kept, Unanswered, Counters, Kinds
<1>2. CountsIn(p, <<"run", window>>)
      /\ \/ post' = [post EXCEPT ![p].at = "refused"]
         \/ post' = [post EXCEPT ![p].at = "accept"]
         \/ /\ post' = [post EXCEPT ![p].at = "limited"]
            /\ count' = [count EXCEPT ![<<"run", window>>] = @ + 1]
            /\ ~(count'[<<"run", window>>] <= Limit("run"))
  BY DEF Vet, CountAs, CountsIn, Counter, Moves
<1>3. count' = [count EXCEPT ![<<"run", window>>] = @ + 1]
            => count'[<<"run", window>>] \in Nat
  BY <1>1
<1>4. PICK stage \in {"refused", "accept", "limited"} : post' = [post EXCEPT ![p] = x(stage)]
  BY <1>2
<1>5. post'[p] = x(stage) /\ \A q \in Posts : q # p => post'[q] = post[q]
  BY <1>1, <1>4
<1>6. x(stage) \in [at: Stages, key: Keys \union {NoKey}, run: Posts \union {NoKey}]
      /\ x(stage).at = stage /\ x(stage).run = NoKey /\ x(stage).key = post[p].key
  BY <1>1 DEF Stages
<1>7. Keyed'
  <2>1. Stage(p)' /\ Kept(p)' /\ ~Spawned(p)
    BY <1>1, <1>5, <1>6, DoorConstants DEF Stage, Kept, Spawned, Unanswered
  <2> QED
    BY <1>1, <1>4, <1>6, <2>1, OneMoves
<1>8. Tally' /\ count' \in [Counters -> Nat] /\ counted' \in [Posts -> SUBSET Counters]
  <2>1. Limit("run") \in Nat
    BY DoorConstants DEF Limit
  <2>2. post'[p].at = "limited" => count' = [count EXCEPT ![<<"run", window>>] = @ + 1]
                                /\ count'[<<"run", window>>] > Limit("run")
    BY <1>1, <1>2, <1>3, <2>1
  <2>3. post'[p].at \notin {"idle", "lookup", "vet"} /\ "run" \in Kinds
    BY <1>5, <1>6 DEF Kinds
  <2> QED
    BY <1>1, <1>2, <1>5, <2>2, <2>3, TallyMore
<1>9. DoorType'
  BY <1>1, <1>4, <1>6, <1>8 DEF DoorInv, DoorType
<1> QED
  BY <1>7, <1>8, <1>9 DEF DoorInv

\* Who comes behind an answered request of its key finds the entry.
LEMMA LookupInv == ASSUME DoorInv, NEW p \in Posts, Lookup(p) PROVE DoorInv'
<1> DEFINE k == post[p].key
           Before(q) == post[q].at = "answered" /\ post[q].key = k /\ k # NoKey
<1>1. /\ post[p].at = "lookup" /\ UNCHANGED <<idem, count, lasting, window, expired, counted>>
      /\ Stage(p) /\ Kept(p) /\ post[p].run = NoKey /\ k \in Keys \union {NoKey}
      /\ post \in [Posts -> [at: Stages, key: Keys \union {NoKey}, run: Posts \union {NoKey}]]
      /\ behind \in [Posts -> SUBSET Posts]
  BY DEF Lookup, DoorInv, DoorType, Keyed, Stage, Unanswered
<1>2. behind' = [behind EXCEPT ![p] = {q \in Posts : Before(q)}]
  BY DEF Lookup
<1>3. /\ behind'[p] = {q \in Posts : Before(q)} /\ behind' \in [Posts -> SUBSET Posts]
      /\ \A q \in Posts : q # p => behind'[q] = behind[q]
  BY <1>1, <1>2
<1>4. behind'[p] # {} => k \in Keys /\ (k \in expired \/ idem[k] # NoKey)
  BY <1>1, <1>3 DEF DoorInv, Keyed, Kept
<1>5. k \in Keys /\ idem[k] # NoKey => Runs(idem[k], k)
  BY DEF DoorInv, Keyed, Entries
<1>6. \E x \in [at: Stages, key: Keys \union {NoKey}, run: Posts \union {NoKey}] :
          /\ post' = [post EXCEPT ![p] = x] /\ x.key = k
          /\ \/ x.at = "answered" /\ k \in Keys /\ idem[k] # NoKey /\ x.run = idem[k]
             \/ x.at = "vet" /\ x.run = NoKey /\ (k = NoKey \/ idem[k] = NoKey)
             \/ x.at = "error" /\ x.run = NoKey
  <2> HIDE DEF Before
  <2>1. CASE Known(k) # NoKey /\ Answers(p, Known(k))
    <3>1. k \in Keys /\ Known(k) = idem[k] /\ idem[k] \in Posts
      BY <1>1, <1>5, <2>1 DEF Known, Runs
    <3> DEFINE x == [post[p] EXCEPT !.at = "answered", !.run = idem[k]]
    <3>2. post' = [post EXCEPT ![p] = x]
      BY <2>1, <3>1 DEF Answers
    <3>3. x \in [at: Stages, key: Keys \union {NoKey}, run: Posts \union {NoKey}]
          /\ x.at = "answered" /\ x.run = idem[k] /\ x.key = k
      BY <1>1, <2>1, <3>1, <3>2 DEF Stages
    <3> HIDE DEF x
    <3> QED
      BY <2>1, <3>1, <3>2, <3>3
  <2>2. CASE Known(k) = NoKey /\ Moves(p, "vet")
    <3> DEFINE x == [post[p] EXCEPT !.at = "vet"]
    <3>1. post' = [post EXCEPT ![p] = x] /\ (k = NoKey \/ idem[k] = NoKey)
      BY <2>2 DEF Moves, Known
    <3>2. x \in [at: Stages, key: Keys \union {NoKey}, run: Posts \union {NoKey}]
          /\ x.at = "vet" /\ x.run = NoKey /\ x.key = k
      BY <1>1, <3>1 DEF Stages
    <3> HIDE DEF x
    <3> QED
      BY <2>2, <3>1, <3>2
  <2>3. CASE Moves(p, "error")
    <3> DEFINE x == [post[p] EXCEPT !.at = "error"]
    <3>1. post' = [post EXCEPT ![p] = x]
      BY <2>3 DEF Moves
    <3>2. x \in [at: Stages, key: Keys \union {NoKey}, run: Posts \union {NoKey}]
          /\ x.at = "error" /\ x.run = NoKey /\ x.key = k
      BY <1>1, <3>1 DEF Stages
    <3> HIDE DEF x
    <3> QED
      BY <2>3, <3>1, <3>2
  <2> QED
    BY <2>1, <2>2, <2>3 DEF Lookup
<1>7. PICK x \in [at: Stages, key: Keys \union {NoKey}, run: Posts \union {NoKey}] :
          /\ post' = [post EXCEPT ![p] = x] /\ x.key = k
          /\ \/ x.at = "answered" /\ k \in Keys /\ idem[k] # NoKey /\ x.run = idem[k]
             \/ x.at = "vet" /\ x.run = NoKey /\ (k = NoKey \/ idem[k] = NoKey)
             \/ x.at = "error" /\ x.run = NoKey
  BY <1>6
<1>8. post'[p] = x /\ \A q \in Posts : q # p => post'[q] = post[q]
  BY <1>1, <1>7
<1>9. ~Spawned(p) /\ \A q \in Posts : Spawned(q) => q # p
  BY <1>1, DoorConstants DEF Spawned
<1>10. Stage(p)'
  <2>1. CASE x.at = "answered"
    <3>1. Runs(idem[k], k) /\ idem[k] # p
      BY <1>5, <1>7, <1>9, <2>1 DEF Runs
    <3>2. Runs(x.run, x.key)'
      BY <1>7, <1>8, <2>1, <3>1 DEF Runs, Spawned
    <3> QED
      BY <1>8, <2>1, <3>2 DEF Stage, Unanswered
  <2>2. CASE x.at # "answered"
    BY <1>7, <1>8, <2>2, DoorConstants DEF Stage, Unanswered
  <2> QED
    BY <2>1, <2>2
<1>11. Kept(p)'
  <2>1. x.run # p
    <3>1. k \in Keys /\ idem[k] # NoKey => idem[k] # p
      BY <1>5, <1>9 DEF Runs
    <3> QED
      BY <1>7, <3>1, DoorConstants
  <2>2. behind'[p] # {} /\ k \notin expired => x.at \in {"answered", "error"}
    BY <1>4, <1>7, DoorConstants
  <2> QED
    BY <1>1, <1>7, <1>8, <2>1, <2>2 DEF Kept, Spawned
<1>12. Keyed'
  BY <1>1, <1>3, <1>7, <1>9, <1>10, <1>11, OneMoves
<1>13. Tally'
  <2>1. \A c \in Counters : count'[c] \in Nat /\ count'[c] <= count[c]
    BY <1>1 DEF DoorInv, DoorType
  <2>2. \A q \in Posts : /\ post'[q].at = "idle" => post[q].at = "idle"
                         /\ post'[q].at \in {"lookup", "vet"} => post[q].at \in {"lookup", "vet"}
                         /\ post'[q].at = "limited" => post[q].at = "limited"
    BY <1>1, <1>7, <1>8
  <2> QED
    BY <1>1, <2>1, <2>2, TallyKept
<1>14. DoorType'
  <2>1. post' \in [Posts -> [at: Stages, key: Keys \union {NoKey}, run: Posts \union {NoKey}]]
    BY <1>1, <1>7
  <2>2. behind' \in [Posts -> SUBSET Posts]
    BY <1>3
  <2> QED
    BY <1>1, <2>1, <2>2 DEF DoorInv, DoorType
<1> QED
  BY <1>12, <1>13, <1>14 DEF DoorInv

\* The run starts, or does not.
LEMMA SpawnInv == ASSUME DoorInv, NEW p \in Posts, Spawn(p) \/ SpawnFails(p) PROVE DoorInv'
<1>1. /\ post[p].at = "accept" /\ UNCHANGED <<idem, count, lasting, window, expired, behind, counted>>
      /\ Stage(p) /\ Kept(p) /\ post[p].run = NoKey
      /\ post \in [Posts -> [at: Stages, key: Keys \union {NoKey}, run: Posts \union {NoKey}]]
  BY DEF Spawn, SpawnFails, DoorInv, DoorType, Keyed, Stage, Unanswered
<1>2. \E x \in [at: Stages, key: Keys \union {NoKey}, run: Posts \union {NoKey}] :
          /\ post' = [post EXCEPT ![p] = x] /\ x.key = post[p].key
          /\ (x.at = "store" /\ x.run = p) \/ (x.at = "error" /\ x.run = NoKey)
  <2>1. CASE Spawn(p)
    <3> DEFINE x == [post[p] EXCEPT !.at = "store", !.run = p]
    <3>1. post' = [post EXCEPT ![p] = x]
      BY <2>1 DEF Spawn
    <3>2. x \in [at: Stages, key: Keys \union {NoKey}, run: Posts \union {NoKey}]
          /\ x.at = "store" /\ x.run = p /\ x.key = post[p].key
      BY <1>1, <3>1 DEF Stages
    <3> HIDE DEF x
    <3> QED
      BY <2>1, <3>1, <3>2
  <2>2. CASE SpawnFails(p)
    <3> DEFINE x == [post[p] EXCEPT !.at = "error"]
    <3>1. post' = [post EXCEPT ![p] = x]
      BY <2>2 DEF SpawnFails, Moves
    <3>2. x \in [at: Stages, key: Keys \union {NoKey}, run: Posts \union {NoKey}]
          /\ x.at = "error" /\ x.run = NoKey /\ x.key = post[p].key
      BY <1>1, <3>1 DEF Stages
    <3> HIDE DEF x
    <3> QED
      BY <2>2, <3>1, <3>2
  <2> QED
    BY <2>1, <2>2
<1>3. PICK x \in [at: Stages, key: Keys \union {NoKey}, run: Posts \union {NoKey}] :
          /\ post' = [post EXCEPT ![p] = x] /\ x.key = post[p].key
          /\ (x.at = "store" /\ x.run = p) \/ (x.at = "error" /\ x.run = NoKey)
  BY <1>2
<1>4. post'[p] = x /\ \A q \in Posts : q # p => post'[q] = post[q]
  BY <1>1, <1>3
<1>5. Stage(p)' /\ Kept(p)' /\ ~Spawned(p)
  BY <1>1, <1>3, <1>4, DoorConstants DEF Stage, Kept, Spawned, Unanswered
<1>6. Keyed'
  BY <1>1, <1>3, <1>5, OneMoves
<1>7. Tally'
  <2>1. \A c \in Counters : count'[c] \in Nat /\ count'[c] <= count[c]
    BY <1>1 DEF DoorInv, DoorType
  <2>2. \A q \in Posts : /\ post'[q].at = "idle" => post[q].at = "idle"
                         /\ post'[q].at \in {"lookup", "vet"} => post[q].at \in {"lookup", "vet"}
                         /\ post'[q].at = "limited" => post[q].at = "limited"
    BY <1>1, <1>3, <1>4
  <2> QED
    BY <1>1, <2>1, <2>2, TallyKept
<1>8. DoorType'
  BY <1>1, <1>3 DEF DoorInv, DoorType
<1> QED
  BY <1>6, <1>7, <1>8 DEF DoorInv

\* The key is stored with the answer.
LEMMA StoreInv == ASSUME DoorInv, NEW p \in Posts, Store(p) PROVE DoorInv'
<1> DEFINE x(stage) == [post[p] EXCEPT !.at = stage]
<1>0. PICK k \in Keys \union {NoKey} : k = post[p].key
  BY DEF DoorInv, DoorType
<1>1. /\ post[p].at = "store" /\ UNCHANGED <<count, lasting, window, expired, behind, counted>>
      /\ Stage(p) /\ Kept(p) /\ post[p].run = p
      /\ post \in [Posts -> [at: Stages, key: Keys \union {NoKey}, run: Posts \union {NoKey}]]
      /\ idem \in [Keys -> Posts \union {NoKey}]
  BY DEF Store, DoorInv, DoorType, Keyed, Stage, Spawned
<1>2. PICK stage \in {"answered", "error"} :
          /\ post' = [post EXCEPT ![p] = x(stage)]
          /\ \/ k \in Keys /\ stage = "answered" /\ idem' = [idem EXCEPT ![k] = p]
             \/ (k = NoKey \/ stage = "error") /\ idem' = idem
  <2>1. Answers(p, p) => post' = [post EXCEPT ![p] = x("answered")]
    <3>1. [post[p] EXCEPT !.at = "answered", !.run = p] = x("answered")
      BY <1>1
    <3> QED
      BY <3>1 DEF Answers
  <2>2. Moves(p, "error") => post' = [post EXCEPT ![p] = x("error")]
    BY DEF Moves
  <2> HIDE DEF x
  <2> QED
    BY <1>0, <1>1, <2>1, <2>2 DEF Store
<1>3. /\ x(stage) \in [at: Stages, key: Keys \union {NoKey}, run: Posts \union {NoKey}]
      /\ x(stage).at = stage /\ x(stage).run = p /\ x(stage).key = k
  BY <1>0, <1>1 DEF Stages
<1>4. post'[p] = x(stage) /\ \A q \in Posts : q # p => post'[q] = post[q]
  BY <1>1, <1>2
<1>5. \A q, j : Runs(q, j) => Runs(q, j)'
  BY <1>1, <1>3, <1>4 DEF Runs, Spawned
<1>6. Runs(p, k)'
  BY <1>3, <1>4 DEF Runs, Spawned
<1>7. \A j \in Keys : (idem'[j] = p /\ j = k) \/ idem'[j] = idem[j]
  BY <1>1, <1>2
<1>8. Entries'
  BY <1>5, <1>6, <1>7 DEF Entries, DoorInv, Keyed
<1>9. Stage(p)'
  BY <1>3, <1>4, <1>6 DEF Stage, Unanswered, Spawned
<1>10. Kept(p)'
  <2>1. stage = "answered" /\ k \in Keys => idem'[k] = p /\ p # NoKey
    BY <1>1, <1>2, DoorConstants
  <2>2. behind[p] # {} => k \notin Keys \ expired
    BY <1>0, <1>1 DEF Kept
  <2> QED
    BY <1>1, <1>3, <1>4, <2>1, <2>2 DEF Kept, Spawned
<1>11. Keyed'
  <2>1. \A j \in Keys : idem[j] # NoKey => idem'[j] # NoKey
    BY <1>7, DoorConstants
  <2>2. \A q \in Posts : (post'[q] = post[q] /\ behind'[q] = behind[q]) \/ (Stage(q) /\ Kept(q))'
    BY <1>1, <1>4, <1>9, <1>10
  <2> QED
    BY <1>1, <1>5, <1>8, <2>1, <2>2, KeyedKept
<1>12. Tally'
  <2>1. \A c \in Counters : count'[c] \in Nat /\ count'[c] <= count[c]
    BY <1>1 DEF DoorInv, DoorType
  <2>2. \A q \in Posts : /\ post'[q].at = "idle" => post[q].at = "idle"
                         /\ post'[q].at \in {"lookup", "vet"} => post[q].at \in {"lookup", "vet"}
                         /\ post'[q].at = "limited" => post[q].at = "limited"
    BY <1>3, <1>4
  <2> QED
    BY <1>1, <2>1, <2>2, TallyKept
<1>13. DoorType'
  BY <1>1, <1>2, <1>3 DEF DoorInv, DoorType
<1> QED
  BY <1>11, <1>12, <1>13 DEF DoorInv

\* Windows pass, keys expire, and the process dies with what it handles.
LEMMA OtherDoorInv ==
  ASSUME DoorInv, Tick \/ KeyExpires \/ DoorCrash \/ UNCHANGED doorVars
  PROVE  DoorInv'
<1> DEFINE Posted == [at: Stages, key: Keys \union {NoKey}, run: Posts \union {NoKey}]
<1>1. /\ UNCHANGED <<behind, counted>> /\ window' \in 0..MaxWindows /\ expired \subseteq expired'
      /\ post \in [Posts -> Posted] /\ idem \in [Keys -> Posts \union {NoKey}]
      /\ count \in [Counters -> Nat]
  BY DoorConstants DEF Tick, KeyExpires, DoorCrash, doorVars, DoorInv, DoorType
<1>2. \A q \in Posts : \/ post'[q] = post[q]
                       \/ Handling(q) /\ post'[q] = [post[q] EXCEPT !.at = "error"]
  BY DEF Tick, KeyExpires, DoorCrash, doorVars
<1>3. \A q \in Posts : /\ post'[q] \in Posted /\ post'[q].run = post[q].run /\ post'[q].key = post[q].key
                       /\ post'[q] = post[q] \/ (Handling(q) /\ post'[q].at = "error")
  <2> SUFFICES ASSUME NEW q \in Posts
               PROVE  /\ post'[q] \in Posted /\ post'[q].run = post[q].run /\ post'[q].key = post[q].key
                      /\ post'[q] = post[q] \/ (Handling(q) /\ post'[q].at = "error")
    OBVIOUS
  <2>1. post[q] \in Posted
    BY <1>1
  <2>2. CASE post'[q] = post[q]
    BY <2>1, <2>2
  <2>3. CASE Handling(q) /\ post'[q] = [post[q] EXCEPT !.at = "error"]
    BY <2>1, <2>3 DEF Stages
  <2> QED
    BY <1>2, <2>2, <2>3
<1>4. post' \in [Posts -> Posted]
  <2>1. post' = post \/ post' = [q \in Posts |-> post'[q]]
    BY DEF Tick, KeyExpires, DoorCrash, doorVars
  <2> QED
    BY <1>1, <1>3, <2>1
<1>5. /\ idem' \in [Keys -> Posts \union {NoKey}]
      /\ \A k \in Keys : idem'[k] = idem[k] \/ (idem'[k] = NoKey /\ k \in expired')
  <2>1. CASE KeyExpires
    <3>1. PICK k \in Keys : idem' = [idem EXCEPT ![k] = NoKey] /\ expired' = expired \union {k}
      BY <2>1 DEF KeyExpires
    <3> QED
      BY <1>1, <3>1
  <2>2. CASE UNCHANGED idem
    BY <1>1, <2>2
  <2> QED
    BY <2>1, <2>2 DEF Tick, DoorCrash, doorVars
<1>6. count' \in [Counters -> Nat] /\ \A c \in Counters : count'[c] \in Nat /\ count'[c] <= count[c]
  <2>1. CASE Tick
    BY <1>1, <2>1 DEF Tick
  <2>2. CASE UNCHANGED count
    BY <1>1, <2>2
  <2> QED
    BY <2>1, <2>2 DEF KeyExpires, DoorCrash, doorVars
<1> HIDE DEF Posted
<1>7. \A q, k : Runs(q, k) => Runs(q, k)'
  BY <1>3 DEF Runs, Spawned
<1>8. Entries'
  BY <1>5, <1>7 DEF Entries, DoorInv, Keyed
<1>9. ASSUME NEW q \in Posts
      PROVE  (post'[q] = post[q] /\ behind'[q] = behind[q]) \/ (Stage(q) /\ Kept(q))'
  <2>1. CASE post'[q] = post[q]
    BY <1>1, <2>1
  <2>2. CASE post'[q].at = "error"
    <3>1. (Kept(q) /\ Handling(q)) \/ post'[q] = post[q]
      BY <1>2 DEF DoorInv, Keyed
    <3>2. CASE Kept(q) /\ Handling(q)
      <4>1. behind[q] # {} => post[q].key \notin Keys \ expired
        BY <3>2 DEF Kept, Handling
      <4>2. Stage(q)'
        BY <2>2 DEF Stage, Unanswered
      <4>3. Kept(q)'
        BY <1>1, <1>3, <2>2, <4>1 DEF Kept
      <4> QED
        BY <4>2, <4>3
    <3> QED
      BY <1>1, <3>1, <3>2
  <2> QED
    BY <1>3, <2>1, <2>2
<1>10. Keyed'
  BY <1>1, <1>5, <1>7, <1>8, <1>9, KeyedKept
<1>11. Tally'
  <2>1. \A q \in Posts : /\ post'[q].at = "idle" => post[q].at = "idle"
                         /\ post'[q].at \in {"lookup", "vet"} => post[q].at \in {"lookup", "vet"}
                         /\ post'[q].at = "limited" => post[q].at = "limited"
    BY <1>3
  <2> QED
    BY <1>1, <1>6, <2>1, TallyKept
<1>12. DoorType'
  BY <1>1, <1>4, <1>5, <1>6 DEF DoorInv, DoorType, Posted
<1> QED
  BY <1>10, <1>11, <1>12 DEF DoorInv

-----------------------------------------------------------------------------
(* The page.                                                                 *)

\* The run on offer, polled or fetched is the current one, or was overtaken.
Ours(run) == run = current \/ run \in overtaken
Paired ==
    /\ place = "polling" => waiting = current
    /\ place \in {"fetching", "deciding"} => Ours(waiting)
    /\ offered # NoKey => Ours(offered)
    /\ ReplyIsOfItsRun

LEMMA PageInv == ASSUME Paired, PageStep PROVE Paired'
<1>1. CASE \E p \in Posts : Submit(p)
  BY <1>1 DEF Submit, Paired, Ours, ReplyIsOfItsRun
<1>2. CASE Answered
  <2>1. overtaken \subseteq overtaken'
    BY <1>2 DEF Answered
  <2>2. place' \in {"polling", "ready"} /\ offered' = offered
    BY <1>2 DEF Answered, Rests
  <2>3. ReplyIsOfItsRun'
    BY <1>2, <2>1 DEF Answered, Tells, Nothing, Paired, ReplyIsOfItsRun
  <2>4. place' = "polling" => waiting' = current'
    BY <1>2 DEF Answered, Rests, Accepted
  <2>5. offered # NoKey => Ours(offered)'
    BY <1>2 DEF Answered, Accepted, Paired, Ours
  <2> QED
    BY <2>2, <2>3, <2>4, <2>5 DEF Paired
<1>3. CASE Poll
  BY <1>3 DEF Poll, Rests, Tells, Nothing, Paired, Ours, ReplyIsOfItsRun
<1>4. CASE Fetch
  BY <1>4 DEF Fetch, Rests, Tells, Shows, Offers, Nothing, Paired, Ours, ReplyIsOfItsRun
<1>5. CASE Interact
  BY <1>5 DEF Interact, Rests, Paired, Ours, ReplyIsOfItsRun
<1>6. CASE Click
  BY <1>6 DEF Click, Paired, Ours, ReplyIsOfItsRun
<1>7. CASE Clicked
  BY <1>7 DEF Clicked, Rests, Tells, Nothing, Paired, Ours, ReplyIsOfItsRun
<1> QED
  BY <1>1, <1>2, <1>3, <1>4, <1>5, <1>6, <1>7 DEF PageStep

-----------------------------------------------------------------------------
(* Page, door and run together.                                              *)

ConsoleInv == RunInv /\ DoorInv /\ Paired

LEMMA ConsoleInitInv == ConsoleInit => ConsoleInv
<1> SUFFICES ASSUME ConsoleInit PROVE ConsoleInv
  OBVIOUS
<1>1. RunInv /\ DoorInv
  BY RunInit, DoorInitInv DEF ConsoleInit
<1>2. Paired
  BY DEF ConsoleInit, Paired, Ours, ReplyIsOfItsRun, Nothing
<1> QED
  BY <1>1, <1>2 DEF ConsoleInv

LEMMA ConsoleStepInv == ASSUME ConsoleInv, [ConsoleNext]_consoleVars PROVE ConsoleInv'
<1> USE DEF ConsoleInv
<1>1. UNCHANGED pageVars => Paired'
  BY DEF pageVars, Paired, Ours, ReplyIsOfItsRun
<1>2. UNCHANGED vars => RunInv'
  BY OtherRunInv
<1>3. UNCHANGED doorVars => DoorInv'
  BY OtherDoorInv
<1>4. CASE PageStep
  <2>1. UNCHANGED vars
    BY <1>4 DEF PageStep, Submit, Answered, Poll, Fetch, Interact, Click, Clicked
  <2>2. UNCHANGED doorVars \/ \E p \in Posts : Send(p, NoKey)
    BY <1>4 DEF PageStep, Submit, Answered, Poll, Fetch, Interact, Click, Clicked
  <2>3. DoorInv'
    BY <1>3, <2>2, SendInv
  <2> QED
    BY <1>2, <1>4, <2>1, <2>3, PageInv
<1>5. CASE DoorStep
  <2>1. UNCHANGED vars /\ UNCHANGED pageVars
    BY <1>5 DEF DoorStep
  <2>2. \/ Tick \/ KeyExpires
        \/ \E p \in Posts : \/ \E k \in Keys : Send(p, k)
                            \/ Lookup(p) \/ Vet(p) \/ SpawnFails(p) \/ Store(p)
    BY <1>5 DEF DoorStep
  <2>3. DoorInv'
    BY <2>2, SendInv, LookupInv, VetInv, SpawnInv, StoreInv, OtherDoorInv
  <2> QED
    BY <1>1, <1>2, <2>1, <2>3
<1>6. CASE \E p \in Posts : Begin(p)
  <2>1. UNCHANGED vars /\ UNCHANGED pageVars /\ \E p \in Posts : Spawn(p)
    BY <1>6 DEF Begin
  <2> QED
    BY <1>1, <1>2, <2>1, SpawnInv
<1>7. CASE RunStep
  <2>1. UNCHANGED doorVars /\ UNCHANGED pageVars /\ (WorkerStep \/ Decide \/ PhaseExpires)
    BY <1>7 DEF RunStep
  <2>2. RunInv'
    BY <2>1, NodeInv, PauseInv, OtherRunInv DEF WorkerStep
  <2> QED
    BY <1>1, <1>3, <2>1, <2>2
<1>8. CASE Restart
  <2>1. DoorCrash /\ UNCHANGED pageVars
    BY <1>8 DEF Restart
  <2>2. \/ Crash
        \/ /\ crashes < MaxCrashes /\ crashes' = crashes + 1
           /\ UNCHANGED <<at, worker, state, thread, row, phase, retries, failures, decisions>>
    BY <1>8 DEF Restart
  <2>3. RunInv'
    <3>1. CASE Crash
      BY <3>1, OtherRunInv
    <3>2. CASE crashes < MaxCrashes /\ crashes' = crashes + 1
               /\ UNCHANGED <<at, worker, state, thread, row, phase, retries, failures, decisions>>
      <4>1. crashes' \in 0..MaxCrashes
        BY <3>2, BoundsOK DEF RunInv, TypeOK
      <4> QED
        BY <3>2, <4>1 DEF RunInv, TypeOK, Ending, Clean, Written
    <3> QED
      BY <2>2, <3>1, <3>2
  <2> QED
    BY <1>1, <2>1, <2>3, OtherDoorInv
<1>9. CASE CrashOfRun
  BY <1>1, <1>3, <1>9, OtherRunInv DEF CrashOfRun
<1>10. CASE UNCHANGED consoleVars
  BY <1>1, <1>2, <1>3, <1>10 DEF consoleVars
<1> QED
  BY <1>4, <1>5, <1>6, <1>7, <1>8, <1>9, <1>10 DEF ConsoleNext

THEOREM ConsoleSafe == ConsoleSpec => []ConsoleInv
BY ConsoleInitInv, ConsoleStepInv, PTL DEF ConsoleSpec

(* RunResult's record of a run keeps its type behind the page, for any       *)
(* bounds: the run replans at most MAX_RETRIES times.                        *)
THEOREM ConsoleTyped == ConsoleSpec => []TypeOK
<1>1. ConsoleInv => TypeOK
  BY DEF ConsoleInv, RunInv
<1> QED
  BY <1>1, ConsoleSafe, PTL

(* The phase is "done" only when the result is there to be read, on every    *)
(* path through the graph, any number of replans and restarts.               *)
THEOREM LabelTells == ConsoleSpec => []DoneLabelTells
<1>1. ConsoleInv => DoneLabelTells
  BY DEF ConsoleInv, RunInv, Ending, Clean, Written, DoneLabelTells, LoadResult
<1> QED
  BY <1>1, ConsoleSafe, PTL

(* "An Idempotency-Key header replays the original run": for any number of   *)
(* requests, keys, expiries and crashes, one that comes after an answered    *)
(* one of its key starts nothing.                                            *)
THEOREM KeysReplay == ConsoleSpec => []KeyRunsOnce
<1>1. ConsoleInv => KeyRunsOnce
  <2> SUFFICES ASSUME ConsoleInv, NEW p \in Posts
               PROVE  /\ behind[p] # {} /\ post[p].key \in Keys \ expired => ~Spawned(p)
                      /\ post[p].at = "answered" => Spawned(post[p].run) /\ post[post[p].run].key = post[p].key
    BY DEF KeyRunsOnce
  <2>1. Stage(p) /\ Kept(p)
    BY DEF ConsoleInv, DoorInv, Keyed
  <2> QED
    BY <2>1 DEF Stage, Kept, Runs
<1> QED
  BY <1>1, ConsoleSafe, PTL

(* Whatever limits are configured, and whatever counters Redis has left      *)
(* without an end: nobody is turned away in a window that is not full.       *)
THEOREM LimitsAreFair == ConsoleSpec => []LimitedIsBusy
<1>1. ConsoleInv => LimitedIsBusy
  BY DEF ConsoleInv, DoorInv, Tally
<1> QED
  BY <1>1, ConsoleSafe, PTL

(* The page shows the reply of the run it was asked for or decided on,       *)
(* however its script is interrupted, for any number of prompts.             *)
THEOREM RepliesMatch == ConsoleSpec => []ReplyIsOfItsRun
<1>1. ConsoleInv => ReplyIsOfItsRun
  BY DEF ConsoleInv, Paired
<1> QED
  BY <1>1, ConsoleSafe, PTL
==============================================================================
