----------------------------- MODULE MCPlanning -----------------------------
(* Planning for TLC: one step of every kind the lookups tell apart.          *)
EXTENDS Planning, TLC

Step(t, a, c, b) == [tool |-> t, action |-> a, confidence |-> c, big |-> b]
SomeServed == {<<"google", "search_email">>, <<"google", "send_email">>,
               <<"google", "create_event">>, <<"google", "delete_event">>}
SomeRetired == {<<"calendar", "delete_event">>}
SomeSteps ==
    {Step("google", "search_email", "low", FALSE), Step("google", "send_email", "high", FALSE),
     Step("google", "create_event", "medium", TRUE), Step("google", "delete_event", "high", FALSE),
     Step("delete_event", "google", "high", FALSE), Step("calendar", "delete_event", "high", FALSE),
     Step("finnhub", "buy", "high", FALSE), Step("made", "up", "high", FALSE)}
SomePast == {[id |-> "p1", user |-> "u1", success |-> TRUE],
             [id |-> "p2", user |-> "u1", success |-> FALSE],
             [id |-> "p3", user |-> "u2", success |-> TRUE],
             [id |-> "p4", user |-> "u1", success |-> TRUE]}
ThePolicy == {<<"google", "delete_event">>}
TheReads  == {<<"google", "search_email">>}
TheSend   == <<"google", "send_email">>
TheWrites == {<<"google", "create_event">>}
TheDenied == {<<"finnhub", "buy">>}
(* Two runs may retrieve at once, and one after the other is over; one goes  *)
(* further before the other has begun.                                       *)
Retrieving == {"idle", "route", "search", "broaden", "plan", "done", "failed"}
OnePlans ==
    \/ \A r \in Runs : run[r].at \in Retrieving
    \/ \E r \in Runs : \A q \in Runs \ {r} : run[q].at = "idle"
Interchangeable == Permutations(Runs)
=============================================================================
