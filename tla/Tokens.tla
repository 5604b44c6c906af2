------------------------------- MODULE Tokens -------------------------------
(***************************************************************************)
(* The rows of integration_tokens for one user and one Google connection:  *)
(* saved and deleted by the requests of app/api/integrations.py, read and  *)
(* refreshed by every tool call (app/mcp/servers/_shared.py).              *)
(*                                                                         *)
(* The table has no unique constraint.  Each repository call is one        *)
(* transaction, save_token a look and a write; nothing locks across them,  *)
(* and a refresh lies between reading a row and saving it again.           *)
(* FERNET_KEY is taken to be configured: every process can open every row. *)
(***************************************************************************)
EXTENDS Naturals, FiniteSets

CONSTANTS
    Resolvers,   \* calls of resolve_user_token
    Requests,    \* requests to the integrations API
    MaxGrants,   \* bound: connections the user makes
    MaxRows      \* bound: rows saved side by side

ASSUME TokenConstants ==
    /\ Resolvers \intersect Requests = {}
    /\ MaxGrants \in Nat /\ MaxRows \in Nat \ {0}

Processes == Resolvers \union Requests
Grants    == 1..MaxGrants
RowIds    == 1..MaxRows
\* By expires_at: over 300 s off, over 60 s, within the 60 s skew, past; or none given.
Ages      == {"fresh", "expiring", "skewed", "expired", "endless"}
\* An unpacked token: the connection it comes from, its age, and whether it can be renewed.
Bundles   == [grant: 0..MaxGrants, age: Ages, renew: BOOLEAN]
NoBundle  == [grant |-> 0, age |-> "endless", renew |-> FALSE]

VARIABLES
    rows,      \* the rows: id and bundle
    at,        \* per process: where it is
    bundle,    \* per process: the bundle it is about to save
    target,    \* per process: the row save_token found, 0 for none
    granted,   \* connections made so far
    renewable, \* those that came with a refresh token
    \* observations, read by the properties only
    current,   \* the connection last saved, 0 once disconnected
    late,      \* resolvers whose row was replaced or deleted since they read it
    undone     \* a late resolver has saved its row, and nobody has saved or deleted since

tokenVars == <<rows, at, bundle, target, granted, renewable, current, late, undone>>

(* Not connected, or connected some time ago.                                *)
TokenInit ==
    /\ \/ rows = {} /\ granted = 0 /\ renewable = {}
       \/ \E b \in [grant: Grants, age: Ages, renew: BOOLEAN] :
             /\ rows = {[id |-> 1, bundle |-> b]} /\ granted = b.grant
             /\ renewable = IF b.renew THEN {b.grant} ELSE {}
    /\ current = granted /\ late = {} /\ undone = FALSE
    /\ at = [p \in Processes |-> "idle"]
    /\ bundle = [p \in Processes |-> NoBundle] /\ target = [p \in Processes |-> 0]

Go(p, place) == at' = [at EXCEPT ![p] = place]
\* It needs neither its bundle nor its row any more.
Leave(p, place) ==
    /\ Go(p, place)
    /\ bundle' = [bundle EXCEPT ![p] = NoBundle] /\ target' = [target EXCEPT ![p] = 0]

-----------------------------------------------------------------------------
(* resolve_user_token.                                                       *)

\* _is_expired, with its skew; no expires_at means never.
IsExpired(b) == b.age \in {"skewed", "expired"}

(* get_token reads the one row: none is a 403, two raise.  An expired token  *)
(* with a refresh token is renewed, any other handed out as it is.           *)
Read(p) ==
    /\ at[p] = "resolve"
    /\ \/ Cardinality(rows) # 1 /\ Go(p, "refused") /\ UNCHANGED bundle
       \/ \E r \in rows :
             /\ Cardinality(rows) = 1
             /\ IF r.bundle.renew /\ IsExpired(r.bundle)
                THEN Go(p, "refresh") /\ bundle' = [bundle EXCEPT ![p] = r.bundle]
                ELSE Go(p, "token") /\ UNCHANGED bundle
    /\ UNCHANGED <<rows, target, granted, renewable, current, late, undone>>

\* Mutant of Renewed: the refresh token is not saved again.
RenewedOnce(b) == [b EXCEPT !.age = "fresh", !.renew = FALSE]
\* Google answers with an access token only: the refresh token is packed again.
Renewed(b) == [b EXCEPT !.age = "fresh"]

\* The token endpoint answers, or refuses and the call fails.
Refresh(p) ==
    /\ at[p] = "refresh"
    /\ \/ /\ Go(p, "look") /\ bundle' = [bundle EXCEPT ![p] = Renewed(@)]
          /\ UNCHANGED <<target, late>>
       \/ Leave(p, "refused") /\ late' = late \ {p}
    /\ UNCHANGED <<rows, granted, renewable, current, undone>>

-----------------------------------------------------------------------------
(* save_token: look for the row, then write it in the same transaction.      *)

\* scalar_one_or_none raises when there are two.
Look(p) ==
    /\ at[p] = "look"
    /\ IF Cardinality(rows) > 1
       THEN Leave(p, "refused") /\ late' = late \ {p}
       ELSE /\ Go(p, "write")
            /\ target' = [target EXCEPT ![p] = IF rows = {} THEN 0 ELSE (CHOOSE r \in rows : TRUE).id]
            /\ UNCHANGED <<bundle, late>>
    /\ UNCHANGED <<rows, granted, renewable, current, undone>>

\* Resolvers that are renewing what a change of the rows has just replaced or deleted.
Renewing == {p \in Resolvers : at[p] \in {"refresh", "look", "write"}}

\* Mutant of Saved: a second row instead of an update.
SavedBeside(p, id) == rows \union {[id |-> id, bundle |-> bundle[p]]}
\* The rows after p has updated the one it found or inserted one.
Saved(p, id) == {r \in rows : r.id # target[p]} \union {[id |-> id, bundle |-> bundle[p]]}

(* The update of a row that has been deleted meanwhile fails; an insert does *)
(* not notice that another one was quicker.                                  *)
Write(p) ==
    /\ at[p] = "write"
    /\ \/ /\ target[p] # 0 /\ \A r \in rows : r.id # target[p]
          /\ Leave(p, "refused")
          /\ late' = late \ {p} /\ UNCHANGED <<rows, current, undone>>
       \/ \E id \in RowIds :
             /\ IF target[p] = 0 THEN \A r \in rows : r.id # id
                ELSE id = target[p] /\ \E r \in rows : r.id = id
             /\ rows' = Saved(p, id)
             /\ IF p \in Resolvers
                THEN /\ Leave(p, "token")
                     /\ undone' = (undone \/ p \in late) /\ late' = late \ {p}
                     /\ UNCHANGED current
                ELSE /\ Leave(p, "idle")
                     /\ current' = bundle[p].grant
                     /\ undone' = FALSE /\ late' = late \union Renewing
    /\ UNCHANGED <<granted, renewable>>

-----------------------------------------------------------------------------
(* The integrations API.                                                     *)

\* POST /v1/integrations/{provider}/token, with or without refresh token and lifetime.
StoreIntegrationToken(p) ==
    /\ at[p] = "idle" /\ granted < MaxGrants
    /\ granted' = granted + 1
    /\ \E renew \in BOOLEAN, age \in {"fresh", "endless"} :
          /\ bundle' = [bundle EXCEPT ![p] = [grant |-> granted', age |-> age, renew |-> renew]]
          /\ renewable' = IF renew THEN renewable \union {granted'} ELSE renewable
    /\ Go(p, "look")
    /\ UNCHANGED <<rows, target, current, late, undone>>

\* DELETE /v1/integrations/{provider}: a row is there when the request looks for it,
DisconnectIntegration(p) ==
    /\ at[p] = "idle" /\ rows # {}
    /\ Go(p, "matched")
    /\ UNCHANGED <<rows, bundle, target, granted, renewable, current, late, undone>>

\* Mutant of Deleted: one row of the user's.
DeletedOne == rows \ {CHOOSE r \in rows : TRUE}
Deleted == {}

\* and delete_token deletes all of them; none left to delete is a 404.
DeleteToken(p) ==
    /\ at[p] = "matched"
    /\ rows' = IF rows = {} THEN {} ELSE Deleted
    /\ IF rows = {} THEN UNCHANGED <<current, late, undone>>
       ELSE current' = 0 /\ late' = late \union Renewing /\ undone' = FALSE
    /\ Go(p, "idle")
    /\ UNCHANGED <<bundle, target, granted, renewable>>

\* A request that failed is answered with an error.
RequestFailed(p) ==
    /\ p \in Requests /\ at[p] = "refused" /\ Go(p, "idle")
    /\ UNCHANGED <<rows, bundle, target, granted, renewable, current, late, undone>>

\* Time passes over a row's token.
Older(age) ==
    CASE age = "fresh" -> "expiring" [] age = "expiring" -> "skewed"
      [] age = "skewed" -> "expired" [] OTHER -> age
Age ==
    /\ \E r \in rows :
          /\ Older(r.bundle.age) # r.bundle.age
          /\ rows' = (rows \ {r}) \union {[r EXCEPT !.bundle.age = Older(@)]}
    /\ UNCHANGED <<at, bundle, target, granted, renewable, current, late, undone>>

ResolveStep(p) == Read(p) \/ Refresh(p) \/ Look(p) \/ Write(p)
RequestStep(p) ==
    \/ StoreIntegrationToken(p) \/ DisconnectIntegration(p)
    \/ Look(p) \/ Write(p) \/ DeleteToken(p) \/ RequestFailed(p)

-----------------------------------------------------------------------------
(* Properties.                                                               *)

(* integrations.py: the row is what the user last saved, and gone once the   *)
(* user has disconnected.  Only a refresh begun before that may bring the    *)
(* older connection back, and only two first saves at once leave two rows.   *)
RowIsCurrent ==
    Cardinality(rows) > 1 \/ undone \/ \A r \in rows : r.bundle.grant = current

(* _refresh_google_token: a connection that came with a refresh token can be *)
(* renewed for ever, however often, and by however many calls at once, it is.*)
RenewalKept ==
    \A r \in rows : r.bundle.grant \in renewable => r.bundle.renew
=============================================================================
