---------------------------- MODULE SessionTable ----------------------------
(***************************************************************************)
(* What a command that keeps sessions (/soundpad, /joineffect, /search,    *)
(* /add) promises of its table: a session is opened once under an id of    *)
(* its own, it may be ended by a click or to make room for a new one,      *)
(* there are never more than cap of them, and an ended one stays ended.    *)
(***************************************************************************)
EXTENDS Integers, FiniteSets

CONSTANT Uids       \* ids of sessions; none is drawn twice

VARIABLES
    live, gone,
    cap             \* the most sessions at one time, which never changes

vars == <<live, gone, cap>>

Init == live = {} /\ gone = {} /\ cap \in Nat \ {0}

\* A new session; the sessions outside kept make room for it.
Open(u, kept) ==
    /\ u \notin live \cup gone
    /\ Cardinality(kept) < cap
    /\ live' = kept \cup {u}
    /\ gone' = gone \cup (live \ kept)

Close(u) ==
    /\ u \in live
    /\ live' = live \ {u}
    /\ gone' = gone \cup {u}

Next ==
    /\ \E u \in Uids : Close(u) \/ \E kept \in SUBSET live : Open(u, kept)
    /\ UNCHANGED cap

Spec == Init /\ [][Next]_vars

TableOK ==
    /\ live \subseteq Uids /\ gone \subseteq Uids
    /\ live \cap gone = {}
    /\ cap \in Nat /\ IsFiniteSet(live) /\ Cardinality(live) <= cap

=============================================================================
