----------------------------- MODULE TokenProofs -----------------------------
(***************************************************************************)
(* The token rows, under any number of tool calls and requests.            *)
(*                                                                         *)
(* The argument: a bundle, in a row or in the hands of a process, can be   *)
(* renewed if its connection came so (Kept), and only a new connection     *)
(* adds to those.  A resolver that renews holds the connection of the row, *)
(* unless the row was changed behind it, and then it is late (InTime).     *)
(* Steps of the calls leave the rows alone and begin no renewal (Quiet).   *)
(***************************************************************************)
EXTENDS ToolCalls, TLAPS, FiniteSetTheorems

TokenPlaces == {"idle", "resolve", "refresh", "look", "write", "matched", "refused",
                "token", "check", "act", "answered"}
TokenType ==
    /\ rows \subseteq [id: RowIds, bundle: Bundles] /\ IsFiniteSet(rows)
    /\ \A r, s \in rows : r.id = s.id => r = s
    /\ at \in [Processes -> TokenPlaces]
    /\ bundle \in [Processes -> Bundles] /\ target \in [Processes -> 0..MaxRows]
    /\ granted \in 0..MaxGrants /\ renewable \subseteq Grants
    /\ current \in 0..MaxGrants /\ late \subseteq Resolvers /\ undone \in BOOLEAN

Kept(b) == b.grant <= granted /\ (b.grant \in renewable => b.renew)
AllKept ==
    /\ \A n \in renewable : n <= granted
    /\ \A r \in rows : Kept(r.bundle)
    /\ \A p \in Processes : Kept(bundle[p])

InTime ==
    \A p \in Resolvers :
        at[p] \in {"refresh", "look", "write"} /\ p \notin late
            => undone \/ bundle[p].grant = current

TokenInv == TokenType /\ AllKept /\ RowIsCurrent /\ InTime

LEMMA NoBundleType == NoBundle \in Bundles
BY TokenConstants DEF NoBundle, Bundles, Ages

LEMMA TokenInitInv == TokenInit => TokenInv
<1> SUFFICES ASSUME TokenInit PROVE TokenInv
  OBVIOUS
<1> DEFINE Begun == /\ IsFiniteSet(rows) /\ rows \subseteq [id: RowIds, bundle: Bundles]
                    /\ granted \in 0..MaxGrants /\ renewable \subseteq Grants
                    /\ \A n \in renewable : n <= granted
                    /\ \A r, s \in rows : r.id = s.id => r = s
                    /\ \A r \in rows : Kept(r.bundle) /\ r.bundle.grant = granted
<1>1. Begun
  <2>1. CASE rows = {} /\ granted = 0 /\ renewable = {}
    BY <2>1, FS_EmptySet, TokenConstants
  <2>2. ASSUME NEW b \in [grant: Grants, age: Ages, renew: BOOLEAN],
               rows = {[id |-> 1, bundle |-> b]}, granted = b.grant,
               renewable = IF b.renew THEN {b.grant} ELSE {}
        PROVE  Begun
    <3>1. IsFiniteSet(rows)
      BY <2>2, FS_Singleton
    <3>2. b \in Bundles /\ 1 \in RowIds /\ b.grant \in 1..MaxGrants
      BY <2>2, TokenConstants DEF Bundles, Grants, RowIds
    <3>3. renewable \subseteq {b.grant} /\ (b.grant \in renewable => b.renew)
      BY <2>2
    <3>4. rows \subseteq [id: RowIds, bundle: Bundles] /\ \A r \in rows : r.bundle = b
      BY <2>2, <3>2
    <3>5. \A n \in renewable : n <= granted
      BY <2>2, <3>2, <3>3
    <3>6. \A r, s \in rows : r.id = s.id => r = s
      BY <2>2
    <3> QED
      BY <2>2, <3>1, <3>2, <3>3, <3>4, <3>5, <3>6 DEF Kept, Grants
  <2> QED
    BY <2>1, <2>2 DEF TokenInit
<1>2. TokenType
  <2>1. at \in [Processes -> TokenPlaces] /\ bundle \in [Processes -> Bundles]
    BY NoBundleType DEF TokenInit, TokenPlaces
  <2>2. target \in [Processes -> 0..MaxRows]
    BY TokenConstants DEF TokenInit
  <2>3. current \in 0..MaxGrants /\ late \subseteq Resolvers /\ undone \in BOOLEAN
    BY <1>1 DEF TokenInit
  <2> QED
    BY <1>1, <2>1, <2>2, <2>3 DEF TokenType
<1>3. AllKept
  BY <1>1, TokenConstants DEF TokenInit, AllKept, Kept, NoBundle, Grants
<1>4. RowIsCurrent /\ InTime
  BY <1>1 DEF TokenInit, RowIsCurrent, InTime, Processes
<1> QED
  BY <1>2, <1>3, <1>4 DEF TokenInv

LEMMA AtMostOne ==
  ASSUME NEW S, IsFiniteSet(S), ~(Cardinality(S) > 1), NEW x \in S
  PROVE  S = {x}
<1>1. /\ IsFiniteSet(S \ {x}) /\ Cardinality(S \ {x}) = Cardinality(S) - 1
      /\ Cardinality(S) \in Nat /\ Cardinality(S \ {x}) \in Nat
  BY FS_RemoveElement, FS_CardinalityType
<1>2. Cardinality(S \ {x}) = 0
  BY <1>1
<1> QED
  BY <1>1, <1>2, FS_EmptySet

\* Nobody begins to renew, and nothing but a place changes.
Quiet ==
    /\ UNCHANGED <<rows, bundle, target, granted, renewable, current, late, undone>>
    /\ at' \in [Processes -> TokenPlaces]
    /\ \A p \in Processes : at'[p] = at[p] \/ at'[p] \notin {"refresh", "look", "write"}

LEMMA QuietInv ==
  ASSUME TokenInv, Quiet
  PROVE  TokenInv'
<1>1. TokenType'
  BY DEF TokenInv, TokenType, Quiet
<1>2. AllKept' /\ RowIsCurrent'
  BY DEF TokenInv, AllKept, Kept, RowIsCurrent, Quiet
<1>3. InTime'
  BY DEF TokenInv, InTime, Quiet, Processes
<1> QED
  BY <1>1, <1>2, <1>3 DEF TokenInv

\* A process that goes to another place takes its bundle along or drops it.
LEMMA Moves ==
  ASSUME TokenInv, NEW p \in Processes, NEW place \in TokenPlaces
  PROVE  /\ Go(p, place) => /\ at' \in [Processes -> TokenPlaces] /\ at'[p] = place
                            /\ \A q \in Processes \ {p} : at'[q] = at[q]
         /\ Leave(p, place) => /\ bundle' \in [Processes -> Bundles] /\ bundle'[p] = NoBundle
                               /\ \A q \in Processes \ {p} : bundle'[q] = bundle[q]
                               /\ target' \in [Processes -> 0..MaxRows]
<1>1. 0 \in 0..MaxRows
  BY TokenConstants
<1> QED
  BY <1>1, NoBundleType DEF TokenInv, TokenType, Go, Leave

\* No bundle needs no refresh token, whatever connections there are.
LEMMA NothingKept ==
  ASSUME TokenInv
  PROVE  Kept(NoBundle)
<1>1. renewable \subseteq 1..MaxGrants /\ granted \in Nat
  BY TokenConstants DEF TokenInv, TokenType, Grants
<1> QED
  BY <1>1 DEF Kept, NoBundle

LEMMA ReadInv ==
  ASSUME TokenInv, NEW p \in Resolvers, Read(p)
  PROVE  TokenInv'
<1>0. p \in Processes /\ Processes \intersect Resolvers = Resolvers
  BY DEF Processes
<1>1. CASE \E place \in {"refused", "token"} : Go(p, place) /\ UNCHANGED bundle
  <2>1. Quiet
    BY <1>0, <1>1, Moves DEF Quiet, Read, TokenPlaces, TokenInv
  <2> QED
    BY <2>1, QuietInv
<1>2. CASE \E r \in rows : /\ Cardinality(rows) = 1 /\ Go(p, "refresh")
                           /\ bundle' = [bundle EXCEPT ![p] = r.bundle]
  <2>1. PICK r \in rows : /\ Cardinality(rows) = 1 /\ Go(p, "refresh")
                          /\ bundle' = [bundle EXCEPT ![p] = r.bundle]
    BY <1>2
  <2>2. r.bundle \in Bundles
    BY DEF TokenInv, TokenType
  <2>3. /\ bundle' \in [Processes -> Bundles] /\ bundle'[p] = r.bundle
        /\ \A q \in Processes \ {p} : bundle'[q] = bundle[q]
    BY <1>0, <2>1, <2>2 DEF TokenInv, TokenType
  <2>4. /\ at' \in [Processes -> TokenPlaces]
        /\ \A q \in Processes \ {p} : at'[q] = at[q]
    BY <1>0, <2>1, Moves DEF TokenPlaces
  <2>5. TokenType'
    BY <2>3, <2>4 DEF TokenInv, TokenType, Read
  <2>6. AllKept'
    BY <2>3 DEF TokenInv, AllKept, Kept, Read
  <2>7. undone \/ r.bundle.grant = current
    BY <2>1 DEF TokenInv, RowIsCurrent
  <2>8. InTime'
    BY <1>0, <2>3, <2>4, <2>7 DEF TokenInv, InTime, Read, Processes
  <2> QED
    BY <2>5, <2>6, <2>8 DEF TokenInv, RowIsCurrent, Read
<1> QED
  BY <1>1, <1>2 DEF Read

LEMMA RefreshInv ==
  ASSUME TokenInv, NEW p \in Resolvers, Refresh(p)
  PROVE  TokenInv'
<1>0. p \in Processes
  BY DEF Processes
<1>1. CASE Go(p, "look") /\ bundle' = [bundle EXCEPT ![p] = Renewed(@)] /\ UNCHANGED <<target, late>>
  <2>1. /\ Renewed(bundle[p]) \in Bundles /\ Renewed(bundle[p]).grant = bundle[p].grant
        /\ Renewed(bundle[p]).renew = bundle[p].renew
    BY <1>0 DEF TokenInv, TokenType, Bundles, Ages, Renewed
  <2>2. /\ bundle' \in [Processes -> Bundles] /\ bundle'[p] = Renewed(bundle[p])
        /\ \A q \in Processes \ {p} : bundle'[q] = bundle[q]
    BY <1>0, <1>1, <2>1 DEF TokenInv, TokenType
  <2>3. /\ at' \in [Processes -> TokenPlaces]
        /\ \A q \in Processes \ {p} : at'[q] = at[q]
    BY <1>0, <1>1, Moves DEF TokenPlaces
  <2>4. TokenType'
    BY <1>1, <2>2, <2>3 DEF TokenInv, TokenType, Refresh
  <2>5. AllKept'
    BY <1>0, <2>1, <2>2 DEF TokenInv, AllKept, Kept, Refresh
  <2>6. InTime'
    <3>1. ASSUME NEW q \in Resolvers, at'[q] \in {"refresh", "look", "write"}, q \notin late'
          PROVE  undone' \/ bundle'[q].grant = current'
      <4>1. CASE q = p
        BY <1>1, <2>1, <2>2, <3>1, <4>1 DEF TokenInv, InTime, Refresh
      <4>2. CASE q # p
        BY <1>1, <2>2, <2>3, <3>1, <4>2 DEF TokenInv, InTime, Refresh, Processes
      <4> QED
        BY <4>1, <4>2
    <3> QED
      BY <3>1 DEF InTime
  <2> QED
    BY <2>4, <2>5, <2>6 DEF TokenInv, RowIsCurrent, Refresh
<1>2. CASE Leave(p, "refused") /\ late' = late \ {p}
  <2>1. /\ at' \in [Processes -> TokenPlaces] /\ at'[p] = "refused"
        /\ \A q \in Processes \ {p} : at'[q] = at[q]
        /\ bundle' \in [Processes -> Bundles] /\ bundle'[p] = NoBundle
        /\ \A q \in Processes \ {p} : bundle'[q] = bundle[q]
        /\ target' \in [Processes -> 0..MaxRows]
    BY <1>0, <1>2, Moves DEF TokenPlaces, Leave
  <2>2. TokenType'
    BY <1>2, <2>1 DEF TokenInv, TokenType, Refresh
  <2>3. AllKept'
    BY <2>1, NothingKept DEF TokenInv, AllKept, Kept, Refresh
  <2>4. InTime'
    BY <1>2, <2>1 DEF TokenInv, InTime, Refresh, Processes
  <2> QED
    BY <2>2, <2>3, <2>4 DEF TokenInv, RowIsCurrent, Refresh
<1> QED
  BY <1>1, <1>2 DEF Refresh

\* A process that stops before it has saved leaves the rows as they are.
LEMMA GivesUp ==
  ASSUME TokenInv, NEW p \in Processes, Leave(p, "refused"), late' = late \ {p},
         UNCHANGED <<rows, granted, renewable, current, undone>>
  PROVE  TokenInv'
<1>1. /\ at' \in [Processes -> TokenPlaces] /\ at'[p] = "refused"
      /\ \A q \in Processes \ {p} : at'[q] = at[q]
      /\ bundle' \in [Processes -> Bundles] /\ bundle'[p] = NoBundle
      /\ \A q \in Processes \ {p} : bundle'[q] = bundle[q]
      /\ target' \in [Processes -> 0..MaxRows]
  BY Moves DEF TokenPlaces, Leave
<1>2. TokenType'
  BY <1>1 DEF TokenInv, TokenType
<1>3. AllKept'
  BY <1>1, NothingKept DEF TokenInv, AllKept, Kept
<1>4. InTime'
  BY <1>1 DEF TokenInv, InTime, Processes
<1> QED
  BY <1>2, <1>3, <1>4 DEF TokenInv, RowIsCurrent

LEMMA LookInv ==
  ASSUME TokenInv, NEW p \in Processes, Look(p)
  PROVE  TokenInv'
<1>1. CASE Leave(p, "refused") /\ late' = late \ {p}
  BY <1>1, GivesUp DEF Look
<1>2. CASE /\ Go(p, "write") /\ UNCHANGED <<bundle, late>>
           /\ target' = [target EXCEPT ![p] = IF rows = {} THEN 0
                                              ELSE (CHOOSE r \in rows : TRUE).id]
  <2>1. (IF rows = {} THEN 0 ELSE (CHOOSE r \in rows : TRUE).id) \in 0..MaxRows
    <3>1. rows # {} => (CHOOSE r \in rows : TRUE) \in [id: RowIds, bundle: Bundles]
      BY DEF TokenInv, TokenType
    <3> QED
      BY <3>1, TokenConstants DEF RowIds
  <2>2. target' \in [Processes -> 0..MaxRows]
    BY <1>2, <2>1 DEF TokenInv, TokenType
  <2>3. /\ at' \in [Processes -> TokenPlaces]
        /\ \A q \in Processes \ {p} : at'[q] = at[q]
    BY <1>2, Moves DEF TokenPlaces
  <2>4. TokenType'
    BY <1>2, <2>2, <2>3 DEF TokenInv, TokenType, Look
  <2>5. AllKept'
    BY <1>2 DEF TokenInv, AllKept, Kept, Look
  <2>6. InTime'
    BY <1>2, <2>3 DEF TokenInv, InTime, Look, Processes
  <2> QED
    BY <2>4, <2>5, <2>6 DEF TokenInv, RowIsCurrent, Look
<1> QED
  BY <1>1, <1>2 DEF Look

\* What p saves is among the rows, and the only row if there is no second one.
LEMMA SavedRows ==
  ASSUME TokenInv, NEW p \in Processes, NEW id \in RowIds,
         IF target[p] = 0 THEN \A r \in rows : r.id # id ELSE id = target[p]
  PROVE  /\ \A r, s \in Saved(p, id) : r.id = s.id => r = s
         /\ Saved(p, id) \subseteq [id: RowIds, bundle: Bundles] /\ IsFiniteSet(Saved(p, id))
         /\ \A r \in Saved(p, id) : r \in rows \/ r.bundle = bundle[p]
         /\ Cardinality(Saved(p, id)) > 1 \/ \A r \in Saved(p, id) : r.bundle = bundle[p]
<1> DEFINE new == [id |-> id, bundle |-> bundle[p]]
           others == {r \in rows : r.id # target[p]}
<1>1. new \in [id: RowIds, bundle: Bundles] /\ new.bundle = bundle[p]
  BY DEF TokenInv, TokenType
<1>2. IsFiniteSet(others)
  BY FS_Subset DEF TokenInv, TokenType
<1>3. IsFiniteSet(others \union {new})
  BY <1>2, FS_AddElement
<1>4. Saved(p, id) = others \union {new}
  BY DEF Saved
<1>5. others \subseteq rows /\ \A r \in others : r.id # new.id
  OBVIOUS
<1> HIDE DEF new, others
<1>7. \A r, s \in Saved(p, id) : r.id = s.id => r = s
  BY <1>4, <1>5 DEF TokenInv, TokenType
<1>6. CASE ~(Cardinality(others \union {new}) > 1)
  <2>1. others \union {new} = {new}
    BY <1>3, <1>6, AtMostOne
  <2> QED
    BY <1>1, <1>3, <1>4, <1>7, <2>1
<1> QED
  BY <1>1, <1>3, <1>4, <1>5, <1>6, <1>7 DEF TokenInv, TokenType

LEMMA WriteInv ==
  ASSUME TokenInv, NEW p \in Processes, Write(p)
  PROVE  TokenInv'
<1>1. CASE Leave(p, "refused") /\ late' = late \ {p} /\ UNCHANGED <<rows, current, undone>>
  BY <1>1, GivesUp DEF Write
<1>2. CASE \E id \in RowIds :
             /\ IF target[p] = 0 THEN \A r \in rows : r.id # id
                ELSE id = target[p] /\ \E r \in rows : r.id = id
             /\ rows' = Saved(p, id)
             /\ IF p \in Resolvers
                THEN /\ Leave(p, "token")
                     /\ undone' = (undone \/ p \in late) /\ late' = late \ {p}
                     /\ UNCHANGED current
                ELSE /\ Leave(p, "idle")
                     /\ current' = bundle[p].grant
                     /\ undone' = FALSE /\ late' = late \union Renewing
  <2>1. PICK id \in RowIds :
          /\ rows' = Saved(p, id)
          /\ IF target[p] = 0 THEN \A r \in rows : r.id # id ELSE id = target[p]
    BY <1>2
  <2>2. /\ \A r, s \in rows' : r.id = s.id => r = s
        /\ rows' \subseteq [id: RowIds, bundle: Bundles] /\ IsFiniteSet(rows')
        /\ \A r \in rows' : r \in rows \/ r.bundle = bundle[p]
        /\ Cardinality(rows') > 1 \/ \A r \in rows' : r.bundle = bundle[p]
    BY <2>1, SavedRows
  <2>3. PICK place \in {"token", "idle"} : Leave(p, place)
    BY <1>2
  <2>4. /\ at' \in [Processes -> TokenPlaces] /\ at'[p] = place
        /\ \A q \in Processes \ {p} : at'[q] = at[q]
        /\ bundle' \in [Processes -> Bundles] /\ bundle'[p] = NoBundle
        /\ \A q \in Processes \ {p} : bundle'[q] = bundle[q]
        /\ target' \in [Processes -> 0..MaxRows]
    BY <2>3, Moves DEF TokenPlaces, Leave
  <2>5. UNCHANGED <<granted, renewable>>
    BY DEF Write
  <2>6. AllKept'
    BY <2>2, <2>4, <2>5, NothingKept DEF TokenInv, AllKept, Kept
  <2>7. bundle[p].grant \in 0..MaxGrants
    BY DEF TokenInv, TokenType, Bundles
  <2>8. CASE p \in Resolvers
    <3>1. undone' = (undone \/ p \in late) /\ late' = late \ {p} /\ UNCHANGED current
      BY <1>2, <2>8
    <3>2. TokenType'
      BY <2>2, <2>4, <2>5, <3>1 DEF TokenInv, TokenType
    <3>3. RowIsCurrent'
      <4>1. p \in late \/ undone \/ bundle[p].grant = current
        BY <2>8 DEF TokenInv, InTime, Write
      <4> QED
        BY <2>2, <3>1, <4>1 DEF RowIsCurrent
    <3>4. InTime'
      BY <2>4, <3>1 DEF TokenInv, InTime, Processes
    <3> QED
      BY <2>6, <3>2, <3>3, <3>4 DEF TokenInv
  <2>9. CASE p \notin Resolvers
    <3>1. undone' = FALSE /\ late' = late \union Renewing /\ current' = bundle[p].grant
      BY <1>2, <2>9
    <3>2. TokenType'
      BY <2>2, <2>4, <2>5, <2>7, <3>1 DEF TokenInv, TokenType, Renewing
    <3>3. RowIsCurrent'
      BY <2>2, <3>1 DEF RowIsCurrent
    <3>4. InTime'
      BY <2>4, <2>9, <3>1 DEF TokenInv, InTime, Processes, Renewing
    <3> QED
      BY <2>6, <3>2, <3>3, <3>4 DEF TokenInv
  <2> QED
    BY <2>8, <2>9
<1> QED
  BY <1>1, <1>2 DEF Write

LEMMA StoreInv ==
  ASSUME TokenInv, NEW p \in Requests, StoreIntegrationToken(p)
  PROVE  TokenInv'
<1>0. p \in Processes /\ p \notin Resolvers
  BY TokenConstants DEF Processes
<1>1. PICK renew \in BOOLEAN, age \in {"fresh", "endless"} :
        /\ bundle' = [bundle EXCEPT ![p] = [grant |-> granted', age |-> age, renew |-> renew]]
        /\ renewable' = IF renew THEN renewable \union {granted'} ELSE renewable
  BY DEF StoreIntegrationToken
<1>2. granted' = granted + 1 /\ granted \in Nat /\ granted' \in 1..MaxGrants
  BY TokenConstants DEF StoreIntegrationToken, TokenInv, TokenType
<1> DEFINE b == [grant |-> granted', age |-> age, renew |-> renew]
<1>3. b \in Bundles /\ b.grant = granted' /\ b.renew = renew
  BY <1>2 DEF Bundles, Ages
<1>4. bundle' = [bundle EXCEPT ![p] = b]
  BY <1>1
<1> HIDE DEF b
<1>5. /\ bundle' \in [Processes -> Bundles] /\ bundle'[p] = b
      /\ \A q \in Processes \ {p} : bundle'[q] = bundle[q]
  BY <1>0, <1>3, <1>4 DEF TokenInv, TokenType
<1>6. /\ at' \in [Processes -> TokenPlaces]
      /\ \A q \in Processes \ {p} : at'[q] = at[q]
  BY <1>0, Moves DEF TokenPlaces, StoreIntegrationToken
<1>7. renewable' \subseteq Grants /\ granted' \in 0..MaxGrants
  BY <1>1, <1>2 DEF TokenInv, TokenType, Grants
<1>8. TokenType'
  BY <1>5, <1>6, <1>7 DEF TokenInv, TokenType, StoreIntegrationToken
<1>9. AllKept'
  <2>1. ASSUME NEW x \in Bundles, Kept(x) PROVE Kept(x)'
    <3>1. x.grant \in Nat /\ x.grant # granted'
      BY <1>2, <2>1, TokenConstants DEF Kept, Bundles
    <3> QED
      BY <1>1, <1>2, <2>1, <3>1 DEF Kept
  <2>2. b.grant <= granted' /\ (b.grant \in renewable' => b.renew)
    <3>1. granted' \notin renewable
      BY <1>2, TokenConstants DEF TokenInv, TokenType, AllKept, Grants
    <3> QED
      BY <1>1, <1>2, <1>3, <3>1
  <2>3. \A r \in rows' : Kept(r.bundle)'
    BY <2>1 DEF TokenInv, TokenType, AllKept, StoreIntegrationToken
  <2>4. \A q \in Processes : Kept(bundle[q])'
    BY <1>5, <2>1, <2>2 DEF TokenInv, TokenType, AllKept, Kept
  <2>5. \A n \in renewable' : n <= granted'
    BY <1>1, <1>2, TokenConstants DEF TokenInv, TokenType, AllKept, Grants
  <2> QED
    BY <2>3, <2>4, <2>5 DEF AllKept
<1>10. InTime'
  BY <1>0, <1>5, <1>6 DEF TokenInv, InTime, StoreIntegrationToken, Processes
<1> QED
  BY <1>8, <1>9, <1>10 DEF TokenInv, RowIsCurrent, StoreIntegrationToken

LEMMA DeleteTokenInv ==
  ASSUME TokenInv, NEW p \in Requests, DeleteToken(p)
  PROVE  TokenInv'
<1>0. p \in Processes
  BY DEF Processes
<1>1. rows' = {} /\ IsFiniteSet(rows')
  BY FS_EmptySet DEF DeleteToken, Deleted
<1>2. /\ at' \in [Processes -> TokenPlaces] /\ at'[p] = "idle"
      /\ \A q \in Processes \ {p} : at'[q] = at[q]
  BY <1>0, Moves DEF TokenPlaces, DeleteToken
<1>3. /\ late' \subseteq Resolvers /\ current' \in 0..MaxGrants /\ undone' \in BOOLEAN
      /\ \/ late' = late /\ current' = current /\ undone' = undone
         \/ late' = late \union Renewing
  <2>1. CASE UNCHANGED <<current, late, undone>>
    BY <2>1 DEF TokenInv, TokenType
  <2>2. CASE current' = 0 /\ late' = late \union Renewing /\ undone' = FALSE
    <3>1. 0 \in 0..MaxGrants /\ Renewing \subseteq Resolvers
      BY TokenConstants DEF Renewing
    <3> QED
      BY <2>2, <3>1 DEF TokenInv, TokenType
  <2> QED
    BY <2>1, <2>2 DEF DeleteToken
<1>4. TokenType'
  BY <1>1, <1>2, <1>3 DEF TokenInv, TokenType, DeleteToken
<1>5. AllKept'
  BY <1>1 DEF TokenInv, AllKept, Kept, DeleteToken
<1>6. InTime'
  BY <1>2, <1>3 DEF TokenInv, InTime, DeleteToken, Processes, Renewing
<1> QED
  BY <1>1, <1>4, <1>5, <1>6 DEF TokenInv, RowIsCurrent

LEMMA AgeInv ==
  ASSUME TokenInv, Age
  PROVE  TokenInv'
<1>1. PICK r \in rows : rows' = (rows \ {r}) \union {[r EXCEPT !.bundle.age = Older(@)]}
  BY DEF Age
<1>2. PICK new : new = [r EXCEPT !.bundle.age = Older(@)]
  OBVIOUS
<1>3. /\ new \in [id: RowIds, bundle: Bundles] /\ new.id = r.id
      /\ new.bundle.grant = r.bundle.grant /\ new.bundle.renew = r.bundle.renew
  BY <1>2 DEF TokenInv, TokenType, Bundles, Ages, Older
<1>4. /\ rows' \subseteq [id: RowIds, bundle: Bundles]
      /\ \A x, y \in rows' : x.id = y.id => x = y
      /\ new \notin rows \ {r}
  BY <1>1, <1>2, <1>3 DEF TokenInv, TokenType
<1>5. IsFiniteSet(rows') /\ Cardinality(rows') = Cardinality(rows)
  <2>1. IsFiniteSet(rows \ {r}) /\ Cardinality(rows \ {r}) = Cardinality(rows) - 1
    BY FS_RemoveElement DEF TokenInv, TokenType
  <2>2. /\ IsFiniteSet((rows \ {r}) \union {new})
        /\ Cardinality((rows \ {r}) \union {new}) = Cardinality(rows \ {r}) + 1
    BY <1>4, <2>1, FS_AddElement
  <2>3. Cardinality(rows) \in Nat
    BY FS_CardinalityType DEF TokenInv, TokenType
  <2> QED
    BY <1>1, <1>2, <2>1, <2>2, <2>3
<1>6. TokenType'
  BY <1>4, <1>5 DEF TokenInv, TokenType, Age
<1>7. AllKept'
  BY <1>1, <1>2, <1>3 DEF TokenInv, AllKept, Kept, Age
<1>8. RowIsCurrent'
  BY <1>1, <1>2, <1>3, <1>5 DEF TokenInv, RowIsCurrent, Age
<1>9. InTime'
  BY DEF TokenInv, InTime, Age
<1> QED
  BY <1>6, <1>7, <1>8, <1>9 DEF TokenInv

LEMMA RequestInv ==
  ASSUME TokenInv, NEW p \in Requests, RequestStep(p)
  PROVE  TokenInv'
<1>0. p \in Processes
  BY DEF Processes
<1>1. CASE DisconnectIntegration(p) \/ RequestFailed(p)
  <2>1. Quiet
    BY <1>0, <1>1, Moves DEF Quiet, DisconnectIntegration, RequestFailed, TokenPlaces
  <2> QED
    BY <2>1, QuietInv
<1> QED
  BY <1>0, <1>1, StoreInv, LookInv, WriteInv, DeleteTokenInv DEF RequestStep

LEMMA ResolveInv ==
  ASSUME TokenInv, NEW p \in Resolvers, ResolveStep(p)
  PROVE  TokenInv'
<1>0. p \in Processes
  BY DEF Processes
<1> QED
  BY <1>0, ReadInv, RefreshInv, LookInv, WriteInv DEF ResolveStep

\* Handing a handler on, or freeing it, is quiet.
LEMMA OntoQuiet ==
  ASSUME TokenInv, NEW h, NEW place \in TokenPlaces \ {"refresh", "look", "write"}, Onto(h, place)
  PROVE  Quiet
BY DEF TokenInv, TokenType, Onto, Go, Quiet

\* Whatever a caller or a tool function does besides resolving is quiet.
LEMMA CallsQuiet ==
  ASSUME TokenInv,
         \/ \E c \in Callers : CallerStep(c) \/ \E k \in Keys : CallTool(c, k)
         \/ \E h \in Handlers : HandlerStep(h)
         \/ FaultStep
  PROVE  Quiet
<1>1. UNCHANGED tokenVars => Quiet
  BY DEF tokenVars, Quiet, TokenInv, TokenType
<1>2. ASSUME NEW h, Free(h) PROVE Quiet
  BY <1>2 DEF TokenInv, TokenType, Free, Go, Quiet, TokenPlaces
<1>3. ASSUME NEW h, NEW a, Answer(h, a) PROVE Quiet
  BY <1>3, OntoQuiet DEF Answer, TokenPlaces
<1>4. ASSUME NEW h, HandlerStep(h) PROVE Quiet
  <2>1. CASE Dropped(h)
    BY <1>2, <2>1 DEF Dropped
  <2>2. CASE \E place \in {"check", "act"} : Onto(h, place)
    BY <2>2, OntoQuiet DEF TokenPlaces
  <2>3. CASE \E a : Answer(h, a)
    BY <1>3, <2>3
  <2>4. (\E a : Landed(h, a)) => \E a : Answer(h, a)
    BY DEF Landed
  <2>5. CASE Fails(h) \/ SearchEmail(h) \/ GetQuote(h) \/ SubmitRefused(h)
    BY <1>3, <2>5 DEF Fails, SearchEmail, GetQuote, SubmitRefused
  <2>6. CASE ResolveEvent(h) \/ ClashOrNone(h)
    BY <2>2, <2>3, <2>6 DEF ResolveEvent, ClashOrNone
  <2>7. CASE CreateEvent(h) \/ UpdateEvent(h) \/ DeleteEvent(h)
    BY <2>3, <2>4, <2>7 DEF CreateEvent, UpdateEvent, DeleteEvent
  <2>8. CASE SendEmail(h) \/ CommentOnPr(h) \/ Submit(h)
    BY <2>3, <2>4, <2>8 DEF SendEmail, CommentOnPr, Submit
  <2>9. CASE RetryComment(h)
    BY <1>1, <2>9 DEF RetryComment
  <2> QED
    BY <1>4, <2>1, <2>5, <2>6, <2>7, <2>8, <2>9 DEF HandlerStep
<1>5. ASSUME NEW c, CallerStep(c) PROVE Quiet
  <2>1. CASE Invoke(c)
    <3>1. PICK h : Go(h, "token") \/ Go(h, "resolve")
      BY <2>1 DEF Invoke
    <3> QED
      BY <2>1, <3>1 DEF Invoke, Go, Quiet, TokenInv, TokenType, TokenPlaces
  <2>2. CASE Receive(c)
    BY <1>2, <2>2 DEF Receive
  <2>3. CASE StoreResult(c)
    BY <1>1, <2>3 DEF StoreResult
  <2> QED
    BY <1>5, <2>1, <2>2, <2>3 DEF CallerStep
<1>6. ASSUME NEW c, NEW k, CallTool(c, k) PROVE Quiet
  BY <1>1, <1>6 DEF CallTool
<1>7. CASE FaultStep
  BY <1>1, <1>7 DEF FaultStep, CacheExpiry, LoseAnswer, AbandonCall
<1> QED
  BY <1>4, <1>5, <1>6, <1>7

LEMMA TokenStepInv == TokenInv /\ [Next]_vars => TokenInv'
<1> SUFFICES ASSUME TokenInv, [Next]_vars PROVE TokenInv'
  OBVIOUS
<1>1. CASE TokenStep
  BY <1>1, ResolveInv, RequestInv, AgeInv DEF TokenStep, Handlers
<1>2. CASE UNCHANGED vars
  <2>1. Quiet
    BY <1>2 DEF vars, tokenVars, Quiet, TokenInv, TokenType
  <2> QED
    BY <2>1, QuietInv
<1>3. CASE \/ \E c \in Callers : CallerStep(c) \/ \E k \in Keys : CallTool(c, k)
           \/ \E h \in Handlers : HandlerStep(h)
           \/ FaultStep
  BY <1>3, CallsQuiet, QuietInv
<1> QED
  BY <1>1, <1>2, <1>3 DEF Next

THEOREM TokensInv == Spec => []TokenInv
<1>1. Init => TokenInv
  BY TokenInitInv DEF Init
<1> QED
  BY <1>1, TokenStepInv, PTL DEF Spec

(* _refresh_google_token packs the refresh token again, for any number of    *)
(* calls that refresh at once and any order of saving and disconnecting.     *)
THEOREM RenewalIsKept == Spec => []RenewalKept
<1>1. TokenInv => RenewalKept
  BY DEF TokenInv, AllKept, Kept, RenewalKept
<1> QED
  BY <1>1, TokensInv, PTL

(* The row is what the user last saved or nothing after a disconnect, but    *)
(* for a refresh begun before and two first saves at once, whoever and how   *)
(* many save, disconnect and refresh.                                        *)
THEOREM RowStaysCurrent == Spec => []RowIsCurrent
<1>1. TokenInv => RowIsCurrent
  BY DEF TokenInv
<1> QED
  BY <1>1, TokensInv, PTL
==============================================================================
