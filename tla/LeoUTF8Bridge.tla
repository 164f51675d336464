---------------------------- MODULE LeoUTF8Bridge ----------------------------
(***************************************************************************)
(* What the CoreFoundation and the Foundation bridge have in common: the   *)
(* client, its variables, the retained objects it is handed and has to     *)
(* release, and the shape of a call.  An object is a string, kept as       *)
(* UTF-16 units, or data, kept as bytes; both are immutable.               *)
(***************************************************************************)
EXTENDS LeoUTF8Status, Utf16Text, FiniteSets

CONSTANTS Places,       \* the client's variables, each an *out
          Inputs,       \* its byte strings
          Strings,      \* its own strings, some with a lone surrogate
          Addresses,    \* where objects can be
          LONG_MAX,
          NULL

ASSUME InputAssumption == Inputs \subseteq Seq(Byte) /\ LONG_MAX \in Nat
ASSUME StringAssumption == Strings \subseteq Seq(Unit)
ASSUME NullAssumption ==
    NULL \notin Places \cup Addresses /\ NULL \notin Seq(Unit)

VARIABLES pc,           \* "idle", "returned", or where in a call
          call,         \* "create" a string or "copy" data; the text; the place
          status,       \* what the last call returned
          out,          \* per place
          objects,      \* the live objects
          mine          \* the places whose object the client has yet to release

client == << pc, call, status, out, objects, mine >>

NoCall == [fn |-> "none", text |-> NULL, length |-> 0, place |-> NULL]

ClientInit ==
    /\ pc = "idle" /\ call = NoCall /\ status = OK
    /\ out = [v \in Places |-> NULL]
    /\ objects = [a \in {} |-> NULL]
    /\ mine = {}

-----------------------------------------------------------------------------
\* The strings a client can pass: its own, and those it was handed.
Known == Strings \cup {objects[out[v]].text :
                          v \in {w \in mine : objects[out[w]].kind = "string"}}

Call(fn, text, length) ==
    /\ pc = "idle" /\ pc' = fn
    /\ \E place \in {NULL} \cup (Places \ mine) :
          call' = [fn |-> fn, text |-> text, length |-> length, place |-> place]
    /\ UNCHANGED << status, out, objects, mine >>

\* A byte string of its length, or with a length no buffer has.
CallCreate == \/ \E s \in Inputs, n \in {0, LONG_MAX} :
                    Call("create", s, IF n = 0 THEN Len(s) ELSE n + 1)
              \/ Call("create", NULL, 0)
CallCopy   == \E string \in Known \cup {NULL} : Call("copy", string, 0)

\* Mutant: the output is cleared only once the text was looked at.
ClearOutputLate ==
    out' = IF NULL \in {call.place, call.text}
           THEN out ELSE [out EXCEPT ![call.place] = NULL]

\* *out = 0, before anything is looked at but the pointer itself.
ClearOutput ==
    out' = IF call.place = NULL THEN out ELSE [out EXCEPT ![call.place] = NULL]

Answer(code)   == pc' = "returned" /\ status' = code
Continue(next) == pc' = next /\ UNCHANGED status

\* LeoUTF8ValidateBytes.
ValidateBytes(s, length) ==
    CASE ~ FitsUtf8procLength(length, LONG_MAX)                  -> ERROR
      [] FitsUtf8procLength(length, LONG_MAX) /\ ~ WellFormed(s) -> INVALID
      [] OTHER                                                   -> OK

\* Mutant: *out is not assigned.
DeliverUnstored(kind, text) ==
    /\ Answer(OK)
    /\ \E a \in Addresses \ DOMAIN objects :
          objects' = [b \in DOMAIN objects \cup {a} |->
                         IF b = a THEN [kind |-> kind, text |-> text]
                         ELSE objects[b]]
    /\ UNCHANGED out

\* A new object, retained once, stored in the caller's variable.
Deliver(kind, text) ==
    /\ Answer(OK)
    /\ \E a \in Addresses \ DOMAIN objects :
          /\ objects' = [b \in DOMAIN objects \cup {a} |->
                            IF b = a THEN [kind |-> kind, text |-> text]
                            ELSE objects[b]]
          /\ out' = [out EXCEPT ![call.place] = a]

\* No object: the framework is out of memory.
Undelivered(code) == Answer(code) /\ UNCHANGED << out, objects >>

-----------------------------------------------------------------------------
\* The client takes note of the status: with LEO_UTF8_OK the object is its own.
ClientReturn ==
    /\ pc = "returned" /\ pc' = "idle" /\ call' = NoCall
    /\ mine' = IF status = OK THEN mine \cup {call.place} ELSE mine
    /\ UNCHANGED << status, out, objects >>

\* CFRelease(*out) or [*out release].
ClientRelease ==
    /\ pc = "idle"
    /\ \E v \in mine : /\ objects' = [a \in DOMAIN objects \ {out[v]} |-> objects[a]]
                       /\ mine' = mine \ {v}
    /\ UNCHANGED << pc, call, status, out >>

-----------------------------------------------------------------------------
(* Correctness.                                                            *)

ClientTypeOK ==
    /\ call \in [fn : {"none", "create", "copy"},
                 text : {NULL} \cup Seq(Unit), length : Nat,
                 place : {NULL} \cup Places]
    /\ status \in Status
    /\ out \in [Places -> Addresses \cup {NULL}]
    /\ DOMAIN objects \subseteq Addresses /\ mine \subseteq Places

Pending == IF pc = "returned" /\ status = OK THEN {out[call.place]} ELSE {}

\* Every live object has exactly one holder: a place the client has yet to
\* release, or the call that is about to return it.  Nothing leaks, nothing is
\* released twice, whatever fails in between.
OneHolderPerObject ==
    /\ DOMAIN objects = {out[v] : v \in mine} \cup Pending
    /\ \A v \in mine : out[v] \notin Pending
    /\ \A v \in mine, w \in mine : v # w => out[v] # out[w]

\* With LEO_UTF8_OK *out is a live object of the kind asked for; with any other
\* status it is NULL, whatever an earlier call left there.
StatusTellsOutput ==
    (pc = "returned" /\ call.place # NULL) =>
        IF status = OK
        THEN /\ out[call.place] \in DOMAIN objects
             /\ objects[out[call.place]].kind =
                   (IF call.fn = "create" THEN "string" ELSE "data")
        ELSE out[call.place] = NULL

-----------------------------------------------------------------------------
(* The abstraction.                                                        *)

\* A string and a byte string that are the same text.
SameText(string, bytes) == WellFormed(bytes) /\ ToUnits(bytes) = string

\* How far the client is with its call, what it asked for, and the text of the
\* object it is being given.
Phase    == CASE pc = "idle"     -> "idle"
              [] pc = "returned" -> "answered"
              [] OTHER           -> "asked"
Request  == [fn |-> call.fn, text |-> call.text]
Received == IF Pending = {} THEN NULL ELSE objects[out[call.place]].text

\* A bridge implements TextBridge: a text crosses whole and unchanged, its NULs
\* included, or not at all, and every call is answered.
Bridge == INSTANCE TextBridge WITH
    Corresponds <- SameText, phase <- Phase, request <- Request, answer <- Received

Promised == Bridge!Spec
==============================================================================
