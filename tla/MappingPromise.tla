--------------------------- MODULE MappingPromise ----------------------------
(***************************************************************************)
(* What utf8proc_map promises: every call is answered, in one step as far  *)
(* as its caller can tell, and the answer is right for what was asked.     *)
(***************************************************************************)
CONSTANTS Requests, NoRequest, NoAnswer,
          Right(_, _)        \* the request is answered rightly by the answer

VARIABLES phase,             \* "idle", "asked", "answered"
          request,           \* the options and the byte string
          answer             \* the text and the return value

promised == << phase, request, answer >>

Init == phase = "idle" /\ request = NoRequest /\ answer = NoAnswer

Ask ==
    /\ phase = "idle" /\ phase' = "asked"
    /\ request' \in Requests
    /\ UNCHANGED answer

Answer ==
    /\ phase = "asked" /\ phase' = "answered"
    /\ Right(request, answer')
    /\ UNCHANGED request

Take ==
    /\ phase = "answered" /\ phase' = "idle"
    /\ request' = NoRequest /\ answer' = NoAnswer

Next == Ask \/ Answer \/ Take

\* The answers are right, and they come.
Answers  == Init /\ [][Next]_promised
Answered == phase = "asked" ~> phase = "answered"

Spec == Answers /\ Answered
==============================================================================
