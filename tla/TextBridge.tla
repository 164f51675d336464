----------------------------- MODULE TextBridge ------------------------------
(***************************************************************************)
(* What a bridge promises: a text crosses whole and unchanged, or it does  *)
(* not cross; every call is answered.                                      *)
(***************************************************************************)
EXTENDS Integers, Sequences

CONSTANTS NULL,
          Corresponds(_, _)  \* a string and a byte string: the same text

VARIABLES phase,             \* "idle", "asked", "answered"
          request,           \* to "create" a string or "copy" data of a text
          answer             \* the other text, or NULL

promised == << phase, request, answer >>

Nothing == [fn |-> "none", text |-> NULL]

Init == phase = "idle" /\ request = Nothing /\ answer = NULL

Ask ==
    /\ phase = "idle" /\ phase' = "asked"
    /\ request'.fn \in {"create", "copy"}
    /\ UNCHANGED answer

Cross ==
    /\ phase = "asked" /\ phase' = "answered"
    /\ NULL \notin {request.text, answer'}
    /\ \/ request.fn = "create" /\ Corresponds(answer', request.text)
       \/ request.fn = "copy"   /\ Corresponds(request.text, answer')
    /\ UNCHANGED request

Refuse == /\ phase = "asked" /\ phase' = "answered"
          /\ UNCHANGED << request, answer >>

Take ==
    /\ phase = "answered" /\ phase' = "idle"
    /\ request' = Nothing /\ answer' = NULL

Next == Ask \/ Cross \/ Refuse \/ Take

\* What crosses, and that an answer comes.
Crossings == Init /\ [][Next]_promised
Answered  == phase = "asked" ~> phase = "answered"

Spec == Crossings /\ Answered
==============================================================================
