----------------------------- MODULE SessionLog -----------------------------
(***************************************************************************)
(* What append_event promises of a session that lives: a log of events     *)
(* that only grows, and an answer to each call that can be relied on.  An  *)
(* append stores its event and writes the parts of its state delta, in any *)
(* order; it is confirmed only when all of that has happened.  An append   *)
(* that failed promises nothing: its event may be stored, or be stored     *)
(* later, and the caller may append it again.                              *)
(***************************************************************************)
CONSTANTS
    Events,     \* the events callers append
    Delta       \* Delta[e]: the parts of the state delta of event e

VARIABLES
    log,        \* the events a reader of the whole session finds
    parts,      \* the <<part, event>> state writes that happened
    answer      \* answer[e]: what the caller of append_event(e) was told

vars == <<log, parts, answer>>

Init ==
    /\ log = {}
    /\ parts = {}
    /\ answer = [e \in Events |-> "none"]

Call(e) ==
    /\ answer[e] \in {"none", "failed"}
    /\ answer' = [answer EXCEPT ![e] = "open"]
    /\ UNCHANGED <<log, parts>>

\* Only what some caller has appended is ever stored.
Store(e) ==
    /\ answer[e] # "none"
    /\ log' = log \cup {e}
    /\ UNCHANGED <<parts, answer>>

WritePart(s, e) ==
    /\ answer[e] # "none" /\ s \in Delta[e]
    /\ parts' = parts \cup {<<s, e>>}
    /\ UNCHANGED <<log, answer>>

Confirm(e) ==
    /\ answer[e] = "open"
    /\ e \in log /\ \A s \in Delta[e] : <<s, e>> \in parts
    /\ answer' = [answer EXCEPT ![e] = "stored"]
    /\ UNCHANGED <<log, parts>>

\* Appends fail one by one, or together when their process dies.
Fail(S) ==
    /\ \A e \in S : answer[e] = "open"
    /\ answer' = [e \in Events |-> IF e \in S THEN "failed" ELSE answer[e]]
    /\ UNCHANGED <<log, parts>>

Next ==
    \/ \E e \in Events : Call(e) \/ Store(e) \/ Confirm(e)
    \/ \E e \in Events : \E s \in Delta[e] : WritePart(s, e)
    \/ \E S \in SUBSET Events : Fail(S)

Spec == Init /\ [][Next]_vars
=============================================================================
