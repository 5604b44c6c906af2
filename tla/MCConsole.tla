----------------------------- MODULE MCConsole -----------------------------
(* Console for TLC.                                                          *)
EXTENDS Console

Used == {p \in Posts : post[p].at # "idle"}
\* Posts are interchangeable: they are used in their order.
InOrder == \A p \in Used : \A q \in 1..p : q \in Used

(* Either requests of every kind meet at the door, and the first run does    *)
(* not move; or the page and its run go on, with a prompt more, while Redis  *)
(* counts and the window lasts.                                              *)
AtTheDoor ==
    /\ at = "plan" /\ worker = "task" /\ retries = 0 /\ phase = "working" /\ state = Empty
    /\ place = "ready" /\ shown = Nothing
    /\ (window = 0 /\ lasting = {}) \/ (\A k \in Keys : idem[k] = NoKey /\ k \notin expired)
OnThePage ==
    /\ Cardinality(Used) <= 2 /\ \A p \in Used : post[p].key = NoKey
    /\ (\E p \in Used : Handling(p)) => at \in {"plan", "paused", "over", "lost"}
    /\ window = 0 /\ lasting = {}
    /\ \A c \in DOMAIN count : count[c] = Cardinality({p \in Posts : c \in counted[p]})
OneAtATime == InOrder /\ (AtTheDoor \/ OnThePage)
=============================================================================
