--------------------------- MODULE PlanningProofs ---------------------------
(***************************************************************************)
(* What the lookups of a plan's names guarantee, for any catalogue, policy *)
(* and past, any number of runs and any order of their steps.              *)
(*                                                                         *)
(* The argument: a run changes its own record only (OneMoves), and what    *)
(* the properties say of called tools and held drafts follows from what    *)
(* the step before has looked up.  Named remembers the check against the   *)
(* catalogue, Asked and Untokened the gate, Sound what became of the runs  *)
(* that serve as examples; Sound is about other runs, and stays true       *)
(* because nothing leaves "done".                                          *)
(***************************************************************************)
EXTENDS Planning, TLAPS, FiniteSetTheorems

\* The record of a run, as TypeOK has it.
RunType == [at: Places, text: Texts, user: Users,
            retrieved: {k \in SUBSET Points : Cardinality(k) <= TopN},
            specs: SUBSET Pairs, plan: Plans, token: BOOLEAN, ok: BOOLEAN,
            approved: BOOLEAN, called: SUBSET (STRING \X STRING), blind: BOOLEAN]

Uncalled(x) == x.at \in Places \ {"guard", "held", "respond"} => x.called = {}
Sighted(x) ==
    x.at \in {"generate", "regenerate", "correct"} /\ ~x.blind
        => x.specs # {} /\ x.specs \subseteq Served
Named(x) ==
    x.at \in {"execute", "paused", "tools"} /\ ~x.blind
        => \A s \in x.plan : Emitted(s) \in Served \/ Swapped(s) \in Served
Known(x) == x.called \subseteq Served \/ x.blind
Asked(x) ==
    x.at = "tools" \/ x.called # {} => NeedingApproval(x.plan) = {} \/ x.approved
Untokened(x) ==
    /\ x.at = "paused" => x.token
    /\ x.at \in {"tools", "guard"} /\ ~x.token => NeedingApproval(x.plan) = {}
Pointful(x) ==
    x.at = "held" => Names(x.plan) \intersect (ExecutedWrites \union {Send} \union Policy) = {}

Local(x) ==
    Uncalled(x) /\ Sighted(x) /\ Named(x) /\ Known(x) /\ Asked(x) /\ Untokened(x) /\ Pointful(x)

\* A plan that may be an example: an old one, or that of a run that ended well.
Sound(p) == p.success /\ (p.id \in Runs => run[p.id].at = "done" /\ run[p.id].ok)
Examples == \A r \in Runs : \A p \in run[r].retrieved : Sound(p)
Indexed  == \A p \in points : p.success => Sound(p)

Rest ==
    /\ routes \subseteq [key: Texts, retrieve: BOOLEAN]
    /\ points \subseteq Points /\ IsFiniteSet(points)
    /\ docs \subseteq Pairs /\ emails \in [Users -> Nat]
    /\ reindex \in [at: {"idle", "filling"}, times: 0..MaxReindex]

IInv ==
    /\ run \in [Runs -> RunType] /\ Rest
    /\ \A r \in Runs : Local(run[r])
    /\ Examples /\ Indexed

\* A run that has not begun, or has ended, has nothing to answer for.
LEMMA FreshRuns ==
  /\ Fresh \in RunType /\ Local(Fresh)
  /\ \A place \in {"done", "failed"}, ok \in BOOLEAN :
        LET x == [Fresh EXCEPT !.at = place, !.ok = ok]
        IN  x \in RunType /\ Local(x) /\ x.at = place /\ x.ok = ok /\ x.retrieved = {}
<1>1. {} \in Plans
  BY FS_EmptySet, PlanningConstants DEF Plans
<1>2. {} \in {k \in SUBSET Points : Cardinality(k) <= TopN}
  BY FS_EmptySet, PlanningConstants
<1>3. Fresh \in RunType
  BY <1>1, <1>2, PlanningConstants DEF Fresh, RunType, Places
<1>4. Local(Fresh)
  BY DEF Fresh, Local, Uncalled, Sighted, Named, Known, Asked, Untokened, Pointful
<1>5. ASSUME NEW place \in {"done", "failed"}, NEW ok \in BOOLEAN
      PROVE  LET x == [Fresh EXCEPT !.at = place, !.ok = ok]
             IN  x \in RunType /\ Local(x) /\ x.at = place /\ x.ok = ok /\ x.retrieved = {}
  <2> DEFINE x == [Fresh EXCEPT !.at = place, !.ok = ok]
  <2>1. x \in RunType
    BY <1>3 DEF RunType, Places
  <2>2. x.at = place /\ x.ok = ok /\ x.retrieved = {} /\ x.called = {}
    BY <1>3 DEF RunType, Fresh
  <2>3. Local(x)
    BY <2>2 DEF Local, Uncalled, Sighted, Named, Known, Asked, Untokened, Pointful
  <2> QED
    BY <2>1, <2>2, <2>3
<1> QED
  BY <1>3, <1>4, <1>5

LEMMA InitInv == Init => IInv
<1> SUFFICES ASSUME Init PROVE IInv
  OBVIOUS
<1>1. Fresh \in RunType /\ Local(Fresh) /\ Fresh.retrieved = {}
  BY FreshRuns DEF Fresh
<1>2. run \in [Runs -> RunType] /\ \A r \in Runs : Local(run[r]) /\ run[r].retrieved = {}
  BY <1>1 DEF Init
<1>3. Rest
  BY PlanningConstants DEF Init, Rest, Points, Pairs
<1>4. Examples /\ Indexed
  BY <1>2, PlanningConstants DEF Init, Examples, Indexed, Sound
<1> QED
  BY <1>2, <1>3, <1>4 DEF IInv

(* A step changes the record of one run.  The others' still say what they    *)
(* said, and examples stay sound, if the run was not over before.            *)
LEMMA OneMoves ==
  ASSUME IInv, NEW r \in Runs, NEW y \in RunType, Becomes(r, y), Local(y),
         run[r].at # "done", \A p \in y.retrieved : Sound(p)
  PROVE  /\ run' \in [Runs -> RunType] /\ \A q \in Runs : Local(run'[q])
         /\ Examples' /\ \A p \in points : p.success => Sound(p)'
<1>1. /\ run' \in [Runs -> RunType] /\ run'[r] = y
      /\ \A q \in Runs \ {r} : run'[q] = run[q]
  BY DEF IInv, Becomes
<1>2. \A q \in Runs : Local(run'[q])
  BY <1>1 DEF IInv
<1>3. ASSUME NEW p, Sound(p) PROVE Sound(p)'
  BY <1>1, <1>3 DEF Sound
<1>4. Examples'
  BY <1>1, <1>3 DEF IInv, Examples
<1>5. \A p \in points : p.success => Sound(p)'
  BY <1>3 DEF IInv, Indexed
<1> QED
  BY <1>1, <1>2, <1>4, <1>5
LEMMA OneEnds ==
  ASSUME IInv, NEW r \in Runs, NEW how \in {"done", "failed"}, Ends(r, how), run[r].at # "done"
  PROVE  /\ run' \in [Runs -> RunType] /\ \A q \in Runs : Local(run'[q])
         /\ Examples' /\ \A p \in points : p.success => Sound(p)'
         /\ run'[r].at = how /\ run'[r].ok = run[r].ok
<1> DEFINE y == [Fresh EXCEPT !.at = how, !.ok = run[r].ok]
<1>1. run[r].ok \in BOOLEAN
  BY DEF IInv, RunType
<1>2. y \in RunType /\ Local(y) /\ y.at = how /\ y.ok = run[r].ok /\ y.retrieved = {}
  BY <1>1, FreshRuns
<1>3. Becomes(r, y)
  BY DEF Ends
<1>4. run'[r] = y
  BY <1>3 DEF Becomes, IInv
<1> HIDE DEF y
<1>5. /\ run' \in [Runs -> RunType] /\ \A q \in Runs : Local(run'[q])
      /\ Examples' /\ \A p \in points : p.success => Sound(p)'
  BY <1>2, <1>3, OneMoves
<1>6. run'[r].at = how /\ run'[r].ok = run[r].ok
  BY <1>2, <1>4
<1> QED
  BY <1>5, <1>6

\* What the invariant says of one record.
LEMMA RecordsTyped ==
  ASSUME IInv, NEW r \in Runs
  PROVE  /\ run[r] \in RunType /\ Local(run[r]) /\ \A p \in run[r].retrieved : Sound(p)
BY DEF IInv, Examples

LEMMA StartInv ==
  ASSUME IInv, NEW r \in Runs, Start(r)
  PROVE  IInv'
<1>1. PICK t \in Texts, u \in Users :
        Becomes(r, [Fresh EXCEPT !.at = "route", !.text = t, !.user = u])
  BY DEF Start
<1> DEFINE y == [Fresh EXCEPT !.at = "route", !.text = t, !.user = u]
<1>2. y \in RunType /\ y.retrieved = {} /\ y.called = {} /\ y.at = "route" /\ y.plan = {}
  <2>1. Fresh \in RunType
    BY FreshRuns
  <2>2. y \in RunType
    BY <2>1 DEF RunType, Places
  <2> QED
    BY <2>2 DEF Fresh
<1>3. Local(y)
  BY <1>2 DEF Local, Uncalled, Sighted, Named, Known, Asked, Untokened, Pointful
<1> HIDE DEF y
<1>4. /\ run' \in [Runs -> RunType] /\ \A q \in Runs : Local(run'[q])
      /\ Examples' /\ \A p \in points : p.success => Sound(p)'
  BY <1>1, <1>2, <1>3, OneMoves DEF Start, At, y
<1> QED
  BY <1>4 DEF IInv, Rest, Indexed, Start

LEMMA RouteQueryInv ==
  ASSUME IInv, NEW r \in Runs, RouteQuery(r)
  PROVE  IInv'
<1>1. PICK d \in BOOLEAN : Routed(r, d)
  <2>1. ASSUME NEW c \in routes, Routed(r, c.retrieve) PROVE \E d \in BOOLEAN : Routed(r, d)
    BY <2>1 DEF IInv, Rest
  <2> QED
    BY <2>1 DEF RouteQuery
<1> DEFINE y == [run[r] EXCEPT !.at = IF d THEN "search" ELSE "plan"]
<1>2. Becomes(r, y)
  BY <1>1 DEF Routed, To
<1>3. /\ y \in RunType /\ y.retrieved = run[r].retrieved /\ y.called = run[r].called
      /\ y.at \in {"search", "plan"} /\ y.blind = run[r].blind /\ y.plan = run[r].plan
      /\ y.token = run[r].token /\ y.approved = run[r].approved
  BY RecordsTyped DEF RunType, Places
<1>4. run[r].at = "route"
  BY DEF RouteQuery, At
<1>5. Local(y)
  BY <1>3, <1>4, RecordsTyped
  DEF Local, Uncalled, Sighted, Named, Known, Asked, Untokened, Pointful, Places
<1> HIDE DEF y
<1>6. /\ run' \in [Runs -> RunType] /\ \A q \in Runs : Local(run'[q])
      /\ Examples' /\ \A p \in points : p.success => Sound(p)'
  BY <1>2, <1>3, <1>4, <1>5, RecordsTyped, OneMoves
<1>7. routes' \subseteq [key: Texts, retrieve: BOOLEAN]
  <2>1. RouteKey(run[r].text) \in Texts
    BY RecordsTyped DEF RouteKey, RunType
  <2>2. \A d2 \in BOOLEAN :
           [key |-> RouteKey(run[r].text), retrieve |-> d2] \in [key: Texts, retrieve: BOOLEAN]
    BY <2>1
  <2> QED
    BY <2>2 DEF RouteQuery, IInv, Rest
<1> QED
  BY <1>6, <1>7 DEF IInv, Rest, Indexed, RouteQuery

\* The run goes to a place where what its record says is still true.
LEMMA OneGoes ==
  ASSUME IInv, NEW r \in Runs, NEW place \in Places, To(r, place), run[r].at # "done",
         Local([run[r] EXCEPT !.at = place])
  PROVE  /\ run' \in [Runs -> RunType] /\ \A q \in Runs : Local(run'[q])
         /\ Examples' /\ \A p \in points : p.success => Sound(p)'
<1> DEFINE y == [run[r] EXCEPT !.at = place]
<1>1. y \in RunType /\ y.retrieved = run[r].retrieved
  BY RecordsTyped DEF RunType
<1>2. Becomes(r, y)
  BY DEF To
<1>3. Local(y)
  OBVIOUS
<1> HIDE DEF y
<1> QED
  BY <1>1, <1>2, <1>3, RecordsTyped, OneMoves

\* What is kept of what was found are successful plans, TOP_N at most.
LEMMA KeptTyped ==
  ASSUME Rest, NEW u, NEW all, NEW graded \in Graded(u, all), NEW kept \in Kept(graded)
  PROVE  /\ kept \in {k \in SUBSET Points : Cardinality(k) <= TopN}
         /\ \A p \in kept : p \in points /\ p.success
<1>1. graded \subseteq points /\ \A p \in graded : p.success
  BY DEF Graded, Found
<1>2. kept \subseteq graded
  BY DEF Kept
<1>3. Cardinality(graded) \in Nat /\ TopN \in Nat
  BY <1>1, FS_Subset, FS_CardinalityType, PlanningConstants DEF Rest
<1>4. Cardinality(kept) <= TopN
  BY <1>3 DEF Kept
<1> QED
  BY <1>1, <1>2, <1>4 DEF Rest

LEMMA RetrievedInv ==
  ASSUME IInv, NEW r \in Runs, run[r].at \in {"search", "broaden"},
         NEW u, NEW all, NEW graded \in Graded(u, all), NEW kept \in Kept(graded),
         Retrieved(r, kept)
  PROVE  /\ run' \in [Runs -> RunType] /\ \A q \in Runs : Local(run'[q])
         /\ Examples' /\ \A p \in points : p.success => Sound(p)'
<1> DEFINE y == [run[r] EXCEPT !.at = "plan", !.retrieved = kept]
<1>1. /\ kept \in {k \in SUBSET Points : Cardinality(k) <= TopN}
      /\ \A p \in kept : p \in points /\ p.success
  BY KeptTyped DEF IInv
<1>2. /\ y \in RunType /\ y.retrieved = kept /\ y.called = run[r].called /\ y.at = "plan"
  BY <1>1, RecordsTyped, ZenonT(30) DEF RunType, Places
<1>3. y.called = {}
  BY <1>2, RecordsTyped DEF Local, Uncalled, Places
<1>4. Local(y)
  BY <1>2, <1>3 DEF Local, Uncalled, Sighted, Named, Known, Asked, Untokened, Pointful
<1>5. Becomes(r, y)
  BY DEF Retrieved
<1>6. \A p \in kept : Sound(p)
  BY <1>1 DEF IInv, Indexed
<1> HIDE DEF y
<1> QED
  BY <1>2, <1>4, <1>5, <1>6, OneMoves

LEMMA SearchInv ==
  ASSUME IInv, NEW r \in Runs, Search(r)
  PROVE  IInv'
<1>1. run[r].at = "search"
  BY DEF Search, At
<1>2. /\ run' \in [Runs -> RunType] /\ \A q \in Runs : Local(run'[q])
      /\ Examples' /\ \A p \in points : p.success => Sound(p)'
  <2>1. CASE To(r, "broaden")
    <3>1. Local([run[r] EXCEPT !.at = "broaden"])
      BY <1>1, RecordsTyped DEF RunType, Local, Uncalled, Sighted, Named, Known, Asked,
                                Untokened, Pointful, Places
    <3> QED
      BY <1>1, <2>1, <3>1, OneGoes DEF Places
  <2>2. CASE \E graded \in Graded(run[r].user, FALSE) :
                \E kept \in Kept(graded) : Retrieved(r, kept)
    BY <1>1, <2>2, RetrievedInv
  <2> QED
    BY <2>1, <2>2 DEF Search
<1> QED
  BY <1>2 DEF IInv, Rest, Indexed, Search

LEMMA BroadenInv ==
  ASSUME IInv, NEW r \in Runs, Broaden(r)
  PROVE  IInv'
<1>1. run[r].at = "broaden"
  BY DEF Broaden, At
<1>2. /\ run' \in [Runs -> RunType] /\ \A q \in Runs : Local(run'[q])
      /\ Examples' /\ \A p \in points : p.success => Sound(p)'
  BY <1>1, RetrievedInv DEF Broaden
<1> QED
  BY <1>2 DEF IInv, Rest, Indexed, Broaden

LEMMA RetrieveFailsInv ==
  ASSUME IInv, NEW r \in Runs, RetrieveFails(r)
  PROVE  IInv'
BY OneEnds DEF RetrieveFails, At, IInv, Rest, Indexed

LEMMA FetchToolSpecsInv ==
  ASSUME IInv, NEW r \in Runs, FetchToolSpecs(r)
  PROVE  IInv'
<1>1. PICK specs \in SUBSET docs :
        Becomes(r, [run[r] EXCEPT !.at = "generate", !.specs = specs,
                                  !.blind = specs = {} \/ ~(specs \subseteq Served)])
  BY DEF FetchToolSpecs
<1> DEFINE y == [run[r] EXCEPT !.at = "generate", !.specs = specs,
                               !.blind = specs = {} \/ ~(specs \subseteq Served)]
<1>2. run[r].at = "plan"
  BY DEF FetchToolSpecs, At
<1>3. specs \in SUBSET Pairs /\ (specs = {} \/ ~(specs \subseteq Served)) \in BOOLEAN
  BY DEF IInv, Rest
<1>4. /\ y \in RunType /\ y.retrieved = run[r].retrieved /\ y.called = run[r].called
      /\ y.at = "generate" /\ y.specs = specs
      /\ y.blind = (specs = {} \/ ~(specs \subseteq Served))
  BY <1>3, RecordsTyped, ZenonT(30) DEF RunType, Places
<1>5. y.called = {}
  BY <1>2, <1>4, RecordsTyped DEF Local, Uncalled, Places
<1>6. Local(y)
  BY <1>4, <1>5 DEF Local, Uncalled, Sighted, Named, Known, Asked, Untokened, Pointful
<1>7. Becomes(r, y)
  BY <1>1
<1> HIDE DEF y
<1>8. /\ run' \in [Runs -> RunType] /\ \A q \in Runs : Local(run'[q])
      /\ Examples' /\ \A p \in points : p.success => Sound(p)'
  BY <1>2, <1>4, <1>6, <1>7, RecordsTyped, OneMoves
<1> QED
  BY <1>8 DEF IInv, Rest, Indexed, FetchToolSpecs

\* A plan the catalogue does not know is not committed.
LEMMA PlannedInv ==
  ASSUME IInv, NEW r \in Runs, run[r].at \in {"generate", "regenerate", "correct"},
         NEW plan \in Plans, Invalid(plan, run[r].specs) = {}, Planned(r, plan)
  PROVE  /\ run' \in [Runs -> RunType] /\ \A q \in Runs : Local(run'[q])
         /\ Examples' /\ \A p \in points : p.success => Sound(p)'
<1> DEFINE y == [run[r] EXCEPT !.at = "execute", !.plan = plan, !.specs = {}, !.retrieved = {},
                               !.text = Fresh.text]
<1>1. {} \in {k \in SUBSET Points : Cardinality(k) <= TopN} /\ Fresh.text \in Texts
  BY FreshRuns, FS_EmptySet, PlanningConstants DEF RunType
<1>2. /\ y \in RunType /\ y.retrieved = {} /\ y.called = run[r].called
      /\ y.at = "execute" /\ y.plan = plan /\ y.blind = run[r].blind
  BY <1>1, RecordsTyped, ZenonT(30) DEF RunType, Places
<1>3. y.called = {}
  BY <1>2, RecordsTyped DEF Local, Uncalled, Places
<1>4. Named(y)
  <2> SUFFICES ASSUME ~run[r].blind, NEW s \in plan
               PROVE  Emitted(s) \in Served \/ Swapped(s) \in Served
    BY <1>2 DEF Named
  <2>1. run[r].specs # {} /\ run[r].specs \subseteq Served
    BY RecordsTyped DEF Local, Sighted
  <2> QED
    BY <2>1 DEF Invalid
<1>5. Local(y)
  BY <1>2, <1>3, <1>4 DEF Local, Uncalled, Sighted, Known, Asked, Untokened, Pointful
<1>6. Becomes(r, y)
  BY DEF Planned
<1> HIDE DEF y
<1> QED
  BY <1>2, <1>5, <1>6, OneMoves

\* Asking the model again promises nothing new.
LEMMA AskedAgain ==
  ASSUME IInv, NEW r \in Runs, run[r].at \in {"generate", "regenerate"},
         NEW place \in {"regenerate", "correct"}, To(r, place)
  PROVE  /\ run' \in [Runs -> RunType] /\ \A q \in Runs : Local(run'[q])
         /\ Examples' /\ \A p \in points : p.success => Sound(p)'
<1>1. Local([run[r] EXCEPT !.at = place])
  BY RecordsTyped DEF RunType, Local, Uncalled, Sighted, Named, Known, Asked,
                      Untokened, Pointful, Places
<1> QED
  BY <1>1, OneGoes DEF Places

LEMMA GenerateInv ==
  ASSUME IInv, NEW r \in Runs, Generate(r)
  PROVE  IInv'
<1>1. run[r].at \in {"generate", "regenerate"}
  BY DEF Generate, At
<1>2. /\ run' \in [Runs -> RunType] /\ \A q \in Runs : Local(run'[q])
      /\ Examples' /\ \A p \in points : p.success => Sound(p)'
  <2>1. CASE \E plan \in Plans : Invalid(plan, run[r].specs) = {} /\ Planned(r, plan)
    BY <1>1, <2>1, PlannedInv
  <2>2. CASE \E place \in {"regenerate", "correct"} : To(r, place)
    BY <1>1, <2>2, AskedAgain
  <2>3. CASE Ends(r, "failed")
    BY <1>1, <2>3, OneEnds
  <2> QED
    BY <2>1, <2>2, <2>3 DEF Generate
<1> QED
  BY <1>2 DEF IInv, Rest, Indexed, Generate

LEMMA CorrectInv ==
  ASSUME IInv, NEW r \in Runs, Correct(r)
  PROVE  IInv'
<1>1. run[r].at = "correct"
  BY DEF Correct, At
<1>2. /\ run' \in [Runs -> RunType] /\ \A q \in Runs : Local(run'[q])
      /\ Examples' /\ \A p \in points : p.success => Sound(p)'
  <2>1. CASE Ends(r, "failed")
    BY <1>1, <2>1, OneEnds
  <2>2. CASE \E plan \in Plans : Acceptable(plan, run[r].specs) /\ Planned(r, plan)
    BY <1>1, <2>2, PlannedInv DEF Acceptable
  <2> QED
    BY <2>1, <2>2 DEF Correct
<1> QED
  BY <1>2 DEF IInv, Rest, Indexed, Correct

LEMMA GateInv ==
  ASSUME IInv, NEW r \in Runs, Gate(r)
  PROVE  IInv'
<1>1. run[r].at = "execute"
  BY DEF Gate, At
<1>2. /\ run' \in [Runs -> RunType] /\ \A q \in Runs : Local(run'[q])
      /\ Examples' /\ \A p \in points : p.success => Sound(p)'
  <2>1. CASE NeedingApproval(run[r].plan) = {} /\ To(r, "tools")
    <3>1. Local([run[r] EXCEPT !.at = "tools"])
      BY <1>1, <2>1, RecordsTyped DEF RunType, Local, Uncalled, Sighted, Named, Known, Asked,
                                      Untokened, Pointful, Places
    <3> QED
      BY <1>1, <2>1, <3>1, OneGoes DEF Places
  <2>2. CASE Becomes(r, [run[r] EXCEPT !.at = "paused", !.token = TRUE])
    <3> DEFINE y == [run[r] EXCEPT !.at = "paused", !.token = TRUE]
    <3>1. y \in RunType /\ y.retrieved = run[r].retrieved
      BY RecordsTyped, ZenonT(30) DEF RunType, Places
    <3>2. Local(y)
      BY <1>1, RecordsTyped DEF RunType, Local, Uncalled, Sighted, Named, Known, Asked,
                                Untokened, Pointful, Places
    <3>3. Becomes(r, y)
      BY <2>2
    <3> HIDE DEF y
    <3> QED
      BY <1>1, <3>1, <3>2, <3>3, RecordsTyped, OneMoves
  <2> QED
    BY <2>1, <2>2 DEF Gate
<1> QED
  BY <1>2 DEF IInv, Rest, Indexed, Gate

LEMMA DecideInv ==
  ASSUME IInv, NEW r \in Runs, Decide(r)
  PROVE  IInv'
<1>1. run[r].at = "paused"
  BY DEF Decide, At
<1>2. /\ run' \in [Runs -> RunType] /\ \A q \in Runs : Local(run'[q])
      /\ Examples' /\ \A p \in points : p.success => Sound(p)'
  <2>1. CASE Ends(r, "failed")
    BY <1>1, <2>1, OneEnds
  <2>2. CASE Becomes(r, [run[r] EXCEPT !.at = "tools", !.approved = TRUE])
    <3> DEFINE y == [run[r] EXCEPT !.at = "tools", !.approved = TRUE]
    <3>1. y \in RunType /\ y.retrieved = run[r].retrieved
      BY RecordsTyped, ZenonT(30) DEF RunType, Places
    <3>2. Local(y)
      BY <1>1, RecordsTyped DEF RunType, Local, Uncalled, Sighted, Named, Known, Asked,
                                Untokened, Pointful, Places
    <3>3. Becomes(r, y)
      BY <2>2
    <3> HIDE DEF y
    <3> QED
      BY <1>1, <3>1, <3>2, <3>3, RecordsTyped, OneMoves
  <2> QED
    BY <2>1, <2>2 DEF Decide
<1> QED
  BY <1>2 DEF IInv, Rest, Indexed, Decide

\* A name the catalogue has, in either order, is resolved to a tool that is served.
LEMMA ResolvesKnown ==
  ASSUME NEW s \in Steps
  PROVE  /\ Resolve(s) \in STRING \X STRING
         /\ Emitted(s) \in Served \/ Swapped(s) \in Served => Resolve(s) \in Served
<1>1. s.tool \in STRING /\ s.action \in STRING /\ Served \subseteq STRING \X STRING
  BY PlanningConstants
<1>2. \A name : Exposing(name) # {} => (CHOOSE p \in Exposing(name) : TRUE) \in Served
  BY DEF Exposing
<1>3. Resolve(s) \in STRING \X STRING
  BY <1>1, <1>2 DEF Resolve, Emitted, Swapped
<1>4. ASSUME Emitted(s) \in Served \/ Swapped(s) \in Served PROVE Resolve(s) \in Served
  <2>1. CASE s.tool \in Servers
    <3>1. Swapped(s) \notin Served
      BY <2>1, PlanningConstants DEF Swapped
    <3> QED
      BY <1>4, <2>1, <3>1 DEF Resolve
  <2>2. CASE s.tool \notin Servers
    <3>1. Emitted(s) \notin Served
      BY <2>2, PlanningConstants DEF Emitted
    <3>2. Swapped(s) \in Served /\ s.action \in Servers
      BY <1>4, <3>1, PlanningConstants DEF Swapped
    <3> QED
      BY <2>2, <3>2 DEF Resolve
  <2> QED
    BY <2>1, <2>2
<1> QED
  BY <1>3, <1>4

LEMMA CallToolsInv ==
  ASSUME IInv, NEW r \in Runs, CallTools(r)
  PROVE  IInv'
<1> DEFINE pairs == {Resolve(s) : s \in run[r].plan}
<1>1. run[r].at = "tools"
  BY DEF CallTools, At
<1>2. PICK ok \in BOOLEAN :
        Becomes(r, [run[r] EXCEPT !.at = "guard", !.called = pairs, !.ok = ok])
  BY DEF CallTools
<1> DEFINE y == [run[r] EXCEPT !.at = "guard", !.called = pairs, !.ok = ok]
<1>3. run[r].plan \subseteq Steps
  BY RecordsTyped DEF RunType, Plans
<1>4. pairs \in SUBSET (STRING \X STRING)
  BY <1>3, ResolvesKnown
<1>5. pairs \subseteq Served \/ run[r].blind
  <2> SUFFICES ASSUME ~run[r].blind PROVE pairs \subseteq Served
    OBVIOUS
  <2>1. \A s \in run[r].plan : Emitted(s) \in Served \/ Swapped(s) \in Served
    BY <1>1, RecordsTyped DEF Local, Named
  <2> QED
    BY <1>3, <2>1, ResolvesKnown
<1> HIDE DEF pairs
<1>6. /\ y \in RunType /\ y.retrieved = run[r].retrieved /\ y.called = pairs /\ y.at = "guard"
      /\ y.blind = run[r].blind /\ y.plan = run[r].plan /\ y.approved = run[r].approved
      /\ y.token = run[r].token
  BY <1>4, RecordsTyped, ZenonT(30) DEF RunType, Places
<1>7. Local(y)
  BY <1>1, <1>5, <1>6, RecordsTyped
  DEF Local, Uncalled, Sighted, Named, Known, Asked, Untokened, Pointful
<1>8. Becomes(r, y)
  BY <1>2
<1> HIDE DEF y
<1>9. /\ run' \in [Runs -> RunType] /\ \A q \in Runs : Local(run'[q])
      /\ Examples' /\ \A p \in points : p.success => Sound(p)'
  BY <1>1, <1>6, <1>7, <1>8, RecordsTyped, OneMoves
<1> QED
  BY <1>9 DEF IInv, Rest, Indexed, CallTools

\* A plan that no gate asked about names nothing of the policy.
LEMMA UnaskedIsHarmless ==
  ASSUME NEW plan, NeedingApproval(plan) = {}
  PROVE  Names(plan) \intersect Policy = {}
BY DEF NeedingApproval, Names

LEMMA HeldBack ==
  ASSUME IInv, NEW r \in Runs, run[r].at = "guard", ~run[r].token,
         NEW counted, NEW secret \in BOOLEAN, NEW cites \in BOOLEAN,
         Verdict(run[r].plan, counted, secret, cites) = "flag_for_approval",
         Becomes(r, [run[r] EXCEPT !.at = "held", !.token = TRUE])
  PROVE  /\ run' \in [Runs -> RunType] /\ \A q \in Runs : Local(run'[q])
         /\ Examples' /\ \A p \in points : p.success => Sound(p)'
<1> DEFINE y == [run[r] EXCEPT !.at = "held", !.token = TRUE]
<1>1. /\ y \in RunType /\ y.retrieved = run[r].retrieved /\ y.called = run[r].called
      /\ y.at = "held" /\ y.plan = run[r].plan /\ y.blind = run[r].blind
      /\ y.approved = run[r].approved
  BY RecordsTyped, ZenonT(30) DEF RunType, Places
<1>2. NeedingApproval(run[r].plan) = {}
  BY RecordsTyped DEF Local, Untokened
<1>3. Names(run[r].plan) \intersect Policy = {}
  BY <1>2, UnaskedIsHarmless
<1>4. ~AlreadyDone(run[r].plan)
  BY <1>3 DEF Verdict, Destructive, Citation
<1>5. Pointful(y)
  BY <1>1, <1>3, <1>4 DEF Pointful, AlreadyDone
<1>6. Local(y)
  BY <1>1, <1>5, RecordsTyped DEF Local, Uncalled, Sighted, Named, Known, Asked, Untokened
<1>7. Becomes(r, y)
  OBVIOUS
<1> HIDE DEF y
<1> QED
  BY <1>1, <1>6, <1>7, RecordsTyped, OneMoves

\* From the guard, or a release, to the response.
LEMMA OneResponds ==
  ASSUME IInv, NEW r \in Runs, run[r].at \in {"guard", "held"}, To(r, "respond")
  PROVE  /\ run' \in [Runs -> RunType] /\ \A q \in Runs : Local(run'[q])
         /\ Examples' /\ \A p \in points : p.success => Sound(p)'
<1>1. Local([run[r] EXCEPT !.at = "respond"])
  BY RecordsTyped DEF RunType, Local, Uncalled, Sighted, Named, Known, Asked,
                      Untokened, Pointful, Places
<1> QED
  BY <1>1, OneGoes DEF Places

LEMMA GuardInv ==
  ASSUME IInv, NEW r \in Runs, Guard(r)
  PROVE  IInv'
<1>1. run[r].at = "guard"
  BY DEF Guard, At
<1>2. /\ run' \in [Runs -> RunType] /\ \A q \in Runs : Local(run'[q])
      /\ Examples' /\ \A p \in points : p.success => Sound(p)'
  <2>1. CASE Ends(r, "failed")
    BY <1>1, <2>1, OneEnds
  <2>2. CASE To(r, "respond")
    BY <1>1, <2>2, OneResponds
  <2>3. ASSUME NEW secret \in BOOLEAN, NEW cites \in BOOLEAN, NEW counted,
               Verdict(run[r].plan, counted, secret, cites) = "flag_for_approval",
               ~run[r].token, Becomes(r, [run[r] EXCEPT !.at = "held", !.token = TRUE])
        PROVE  /\ run' \in [Runs -> RunType] /\ \A q \in Runs : Local(run'[q])
               /\ Examples' /\ \A p \in points : p.success => Sound(p)'
    BY <1>1, <2>3, HeldBack
  <2>4. \/ Ends(r, "failed") \/ To(r, "respond")
        \/ \E secret, cites, redis \in BOOLEAN :
              LET plan    == run[r].plan
                  user    == run[r].user
                  counted == IF redis /\ Sends(plan) > 0 THEN emails[user] + Sends(plan) ELSE 0
              IN  /\ Verdict(plan, counted, secret, cites) = "flag_for_approval" /\ ~run[r].token
                  /\ Becomes(r, [run[r] EXCEPT !.at = "held", !.token = TRUE])
    BY DEF Guard
  <2> QED
    BY <2>1, <2>2, <2>3, <2>4
<1>3. emails' \in [Users -> Nat]
  <2>1. run[r].user \in Users /\ IsFiniteSet(run[r].plan)
    BY RecordsTyped, PlanningConstants, FS_Subset DEF RunType, Plans
  <2>2. Sends(run[r].plan) \in Nat
    <3>1. {s \in run[r].plan : Emitted(s) = Send} \subseteq run[r].plan
      OBVIOUS
    <3> QED
      BY <2>1, <3>1, FS_Subset, FS_CardinalityType DEF Sends
  <2>3. emails[run[r].user] + Sends(run[r].plan) \in Nat
    BY <2>1, <2>2 DEF IInv, Rest
  <2> QED
    BY <2>1, <2>3 DEF Guard, IInv, Rest
<1> QED
  BY <1>2, <1>3 DEF IInv, Rest, Indexed, Guard

LEMMA ReleaseInv ==
  ASSUME IInv, NEW r \in Runs, Release(r)
  PROVE  IInv'
<1>1. run[r].at = "held"
  BY DEF Release, At
<1>2. /\ run' \in [Runs -> RunType] /\ \A q \in Runs : Local(run'[q])
      /\ Examples' /\ \A p \in points : p.success => Sound(p)'
  <2>1. CASE Ends(r, "failed")
    BY <1>1, <2>1, OneEnds
  <2>2. CASE To(r, "respond")
    BY <1>1, <2>2, OneResponds
  <2> QED
    BY <2>1, <2>2 DEF Release
<1> QED
  BY <1>2 DEF IInv, Rest, Indexed, Release

\* What is indexed is sound: the run has ended, and will stay so.
LEMMA RespondInv ==
  ASSUME IInv, NEW r \in Runs, Respond(r)
  PROVE  IInv'
<1>1. run[r].at = "respond"
  BY DEF Respond, At
<1>2. CASE Ends(r, "failed") /\ UNCHANGED points
  <2>1. /\ run' \in [Runs -> RunType] /\ \A q \in Runs : Local(run'[q])
        /\ Examples' /\ \A p \in points : p.success => Sound(p)'
    BY <1>1, <1>2, OneEnds
  <2> QED
    BY <1>2, <2>1 DEF IInv, Rest, Indexed, Respond
<1>3. CASE Ends(r, "done")
  <2>0. PICK new : new = [id |-> r, user |-> run[r].user, success |-> run[r].ok]
    OBVIOUS
  <2>1. /\ run' \in [Runs -> RunType] /\ \A q \in Runs : Local(run'[q])
        /\ Examples' /\ \A x \in points : x.success => Sound(x)'
        /\ run'[r].at = "done" /\ run'[r].ok = run[r].ok
    BY <1>1, <1>3, OneEnds
  <2>2. new \in Points
    BY <2>0, RecordsTyped DEF RunType, Points
  <2>3. new.success => Sound(new)'
    BY <2>0, <2>1 DEF Sound
  <2>4. points' \in {points, points \union {new}}
    BY <1>1, <1>3, <2>0, <2>1 DEF Respond, Ends
  <2>5. points' \subseteq Points /\ IsFiniteSet(points')
    BY <2>2, <2>4, FS_AddElement DEF IInv, Rest
  <2>6. Indexed'
    BY <2>1, <2>3, <2>4 DEF Indexed
  <2>7. Rest'
    BY <2>5 DEF IInv, Rest, Respond
  <2> QED
    BY <2>1, <2>6, <2>7 DEF IInv
<1> QED
  BY <1>2, <1>3 DEF Respond

LEMMA SharedInv ==
  ASSUME IInv, RouteExpires \/ ClearDocs \/ FillDocs
  PROVE  IInv'
<1>1. run' = run /\ points' = points /\ emails' = emails
  BY DEF RouteExpires, ClearDocs, FillDocs
<1>2. Rest'
  <2>1. CASE RouteExpires
    BY <2>1 DEF RouteExpires, IInv, Rest
  <2>2. CASE ClearDocs
    BY <2>2, PlanningConstants DEF ClearDocs, IInv, Rest
  <2>3. CASE FillDocs
    BY <2>3 DEF FillDocs, Listed, Pairs, IInv, Rest
  <2> QED
    BY <2>1, <2>2, <2>3
<1> QED
  BY <1>1, <1>2 DEF IInv, Examples, Indexed, Sound

LEMMA StepInv == IInv /\ [Next]_vars => IInv'
<1> SUFFICES ASSUME IInv, [Next]_vars PROVE IInv'
  OBVIOUS
<1>1. ASSUME NEW r \in Runs, RunStep(r) PROVE IInv'
  BY <1>1, StartInv, RouteQueryInv, SearchInv, BroadenInv, RetrieveFailsInv, FetchToolSpecsInv,
     GenerateInv, CorrectInv, GateInv, DecideInv, CallToolsInv, GuardInv, ReleaseInv, RespondInv
  DEF RunStep
<1>2. CASE RouteExpires \/ ClearDocs \/ FillDocs
  BY <1>2, SharedInv
<1>3. CASE UNCHANGED vars
  BY <1>3 DEF vars, IInv, Rest, Examples, Indexed, Sound
<1> QED
  BY <1>1, <1>2, <1>3 DEF Next

THEOREM PlanningInv == Spec => []IInv
BY InitInv, StepInv, PTL DEF Spec

(* Every run's record and everything shared keeps its type: plans and        *)
(* examples stay within their bounds, counters are numbers.                  *)
THEOREM PlanningTyped == Spec => []TypeOK
<1>1. IInv => TypeOK
  BY DEF IInv, RunType, Rest, TypeOK
<1> QED
  BY <1>1, PlanningInv, PTL

(* planner.py's "hallucinated tool names are caught before execution", for   *)
(* every catalogue: what nobody serves is called by a blind plan only.       *)
THEOREM HallucinationsCaught == Spec => []UnknownNeedsBlindPlan
<1>1. IInv => UnknownNeedsBlindPlan
  BY DEF IInv, Local, Known, UnknownNeedsBlindPlan
<1> QED
  BY <1>1, PlanningInv, PTL

(* policy.yaml's "ALWAYS require human approval", for every policy and every *)
(* plan: a call of the policy was approved, if the plan named it so.         *)
THEOREM PolicyAsked == Spec => []AskedUnlessMisnamed
<1>1. IInv => AskedUnlessMisnamed
  <2> SUFFICES ASSUME IInv, NEW r \in Runs, NEW s \in run[r].plan,
                      Resolve(s) \in Policy, Resolve(s) \in run[r].called,
                      Resolve(s) = Emitted(s)
               PROVE  run[r].approved
    BY DEF AskedUnlessMisnamed
  <2>1. s \in NeedingApproval(run[r].plan)
    BY DEF NeedingApproval
  <2>2. run[r].called # {}
    OBVIOUS
  <2> QED
    BY <2>1, <2>2 DEF IInv, Local, Asked
<1> QED
  BY <1>1, PlanningInv, PTL

(* indexer.py: no planner is shown a run that failed, or one still going on, *)
(* by any search of any number of concurrent runs.                           *)
THEOREM ExamplesSucceeded == Spec => []TaughtBySuccess
<1>1. IInv => TaughtBySuccess
  BY DEF IInv, Examples, Sound, TaughtBySuccess
<1> QED
  BY <1>1, PlanningInv, PTL

(* policy.yaml's carve-out, for every policy: the output guard holds no plan *)
(* whose writes already happened.                                            *)
THEOREM HeldInTime == Spec => []HeldOnlyIfPointful
<1>1. IInv => HeldOnlyIfPointful
  BY DEF IInv, Local, Pointful, HeldOnlyIfPointful
<1> QED
  BY <1>1, PlanningInv, PTL
=============================================================================
