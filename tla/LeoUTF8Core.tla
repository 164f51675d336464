----------------------------- MODULE LeoUTF8Core -----------------------------
(***************************************************************************)
(* The mapping half of LeoUTF8Core as a client meets it: the six           *)
(* normalisation and case-folding functions, LeoUTF8MapBytes under them,   *)
(* LeoUTF8Free, the client's output variables and the heap the results     *)
(* live in.  The engine, utf8proc_map, is what the promise of              *)
(* UnicodeNormalForms makes of it: a text in fresh memory, or an error.    *)
(* Texts, lengths and addresses are abstract; what is kept is who holds    *)
(* which memory, and what a status says of it.                             *)
(***************************************************************************)
EXTENDS LeoUTF8Status, FiniteSets

CONSTANTS Places,         \* the client's variables: each an *out, an *outLen
          Texts,          \* arguments, by identity
          Malformed,      \* those that are not well-formed UTF-8
          TooLong,        \* those that overflow utf8proc's word count first
          Oversized,      \* those of a length beyond LONG_MAX: no C string is
          ResultLength,   \* options and text to the length of the mapped text
          Leftovers,      \* what a length variable may hold before a call
          Addresses,      \* what malloc can return
          NULL

ASSUME TextAssumption ==
    /\ Malformed \subseteq Texts /\ TooLong \subseteq Texts
    /\ Oversized \subseteq Texts
    /\ ResultLength \in [Options \X Texts -> Nat]
ASSUME LeftoverAssumption == Leftovers \subseteq Nat
ASSUME NullAssumption == NULL \notin Texts \cup Places \cup Addresses

VARIABLES pc,            \* "idle", "map", "engine", "mapped", "returned"
          call,          \* the arguments of the call
          mapped, rc,    \* LeoUTF8MapBytes's locals: the engine's answer
          status,        \* what the last call returned
          out, outLen,   \* per place
          heap,          \* the live allocations and the text in each
          mine           \* the places whose memory the client has yet to free

vars == << pc, call, mapped, rc, status, out, outLen, heap, mine >>

NoCall == [options |-> COMPOSE, text |-> NULL, place |-> NULL,
           wantLen |-> FALSE, cString |-> FALSE]

Init ==
    /\ pc = "idle" /\ call = NoCall
    /\ mapped = NULL /\ rc = 0 /\ status = OK
    /\ out = [v \in Places |-> NULL] /\ outLen = [v \in Places |-> 0]
    /\ heap = [a \in {} |-> NULL]
    /\ mine = {}

\* The client sets the variables of a place, or declares them and leaves there
\* what the memory held before, an address it may not use included.
Prepare ==
    /\ pc = "idle"
    /\ \E v \in Places \ mine, p \in Addresses \cup {NULL}, n \in Leftovers :
          /\ out' = [out EXCEPT ![v] = p]
          /\ outLen' = [outLen EXCEPT ![v] = n]
    /\ UNCHANGED << pc, call, mapped, rc, status, heap, mine >>

\* A client frees what a place holds before it uses the place again.
Arguments(isCString) ==
    [options : Options, cString : {isCString}, wantLen : BOOLEAN,
     text  : {NULL} \cup IF isCString THEN Texts \ Oversized ELSE Texts,
     place : {NULL} \cup (Places \ mine)]

\* LeoUTF8NormalizeNFCBytes, LeoUTF8NormalizeNFDBytes, LeoUTF8CaseFoldBytes.
CallBytes ==
    /\ pc = "idle" /\ pc' = "map"
    /\ call' \in Arguments(FALSE)
    /\ UNCHANGED << mapped, rc, status, out, outLen, heap, mine >>

\* LeoUTF8NormalizeNFC, LeoUTF8NormalizeNFD, LeoUTF8CaseFold: a NULL string is
\* refused here, before the other arguments are looked at.
CallCString ==
    /\ pc = "idle"
    /\ call' \in Arguments(TRUE)
    /\ IF call'.text = NULL THEN pc' = "returned" /\ status' = INVALID
                            ELSE pc' = "map" /\ UNCHANGED status
    /\ UNCHANGED << mapped, rc, out, outLen, heap, mine >>

-----------------------------------------------------------------------------
(* LeoUTF8MapBytes.                                                        *)

\* Mutant: the outputs are left as they are when the text is refused.
EnterUncleared ==
    /\ pc = "map"
    /\ IF call.place = NULL \/ call.text = NULL \/ call.text \in Oversized
       THEN /\ pc' = "returned"
            /\ status' = IF call.place # NULL /\ call.text # NULL
                         THEN ERROR ELSE INVALID
            /\ UNCHANGED << out, outLen >>
       ELSE /\ pc' = "engine" /\ UNCHANGED status
            /\ out' = [out EXCEPT ![call.place] = NULL]
            /\ outLen' = IF call.wantLen
                         THEN [outLen EXCEPT ![call.place] = 0] ELSE outLen
    /\ UNCHANGED << call, mapped, rc, heap, mine >>

\* Mutant: *outLen is left to the success.
EnterKeepingLength ==
    /\ pc = "map" /\ UNCHANGED outLen
    /\ out' = IF call.place = NULL THEN out ELSE [out EXCEPT ![call.place] = NULL]
    /\ IF call.place = NULL \/ call.text = NULL \/ call.text \in Oversized
       THEN /\ pc' = "returned"
            /\ status' = IF call.place # NULL /\ call.text # NULL
                         THEN ERROR ELSE INVALID
       ELSE pc' = "engine" /\ UNCHANGED status
    /\ UNCHANGED << call, mapped, rc, heap, mine >>

\* The argument checks and, between them, *out = 0 and *outLen = 0.
Enter ==
    /\ pc = "map"
    /\ IF call.place = NULL
       THEN UNCHANGED << out, outLen >>
       ELSE /\ out' = [out EXCEPT ![call.place] = NULL]
            /\ outLen' = IF call.wantLen
                         THEN [outLen EXCEPT ![call.place] = 0] ELSE outLen
    /\ IF call.place = NULL \/ call.text = NULL \/ call.text \in Oversized
       THEN /\ pc' = "returned"
            /\ status' = IF call.place # NULL /\ call.text # NULL
                         THEN ERROR ELSE INVALID
       ELSE pc' = "engine" /\ UNCHANGED status
    /\ UNCHANGED << call, mapped, rc, heap, mine >>

\* utf8proc_map succeeds: the text is in memory nobody else holds.
EngineMaps ==
    /\ pc = "engine" /\ pc' = "mapped"
    /\ call.text \notin Malformed \cup TooLong
    /\ mapped' \in Addresses \ DOMAIN heap
    /\ heap' = [a \in DOMAIN heap \cup {mapped'} |->
                   IF a = mapped' THEN << call.options, call.text >> ELSE heap[a]]
    /\ rc' = ResultLength[<< call.options, call.text >>]
    /\ UNCHANGED << call, status, out, outLen, mine >>

\* Mutant: it fails and does not free the buffer it was working in.
EngineFailsLeaking ==
    /\ pc = "engine" /\ pc' = "mapped"
    /\ rc' = CASE call.text \in TooLong -> UTF8PROC_ERROR_OVERFLOW
               [] call.text \in Malformed \ TooLong -> UTF8PROC_ERROR_INVALIDUTF8
               [] OTHER -> UTF8PROC_ERROR_NOMEM
    /\ \E a \in Addresses \ DOMAIN heap :
          heap' = [b \in DOMAIN heap \cup {a} |->
                      IF b = a THEN << call.options, call.text >> ELSE heap[b]]
    /\ UNCHANGED << call, mapped, status, out, outLen, mine >>

\* It fails, leaving `mapped` NULL and no memory behind; it may run out of
\* memory on any text it can measure.
EngineFails ==
    /\ pc = "engine" /\ pc' = "mapped"
    /\ rc' = CASE call.text \in TooLong -> UTF8PROC_ERROR_OVERFLOW
               [] call.text \in Malformed \ TooLong -> UTF8PROC_ERROR_INVALIDUTF8
               [] OTHER -> UTF8PROC_ERROR_NOMEM
    /\ UNCHANGED << call, mapped, status, out, outLen, heap, mine >>

\* Mutant: the outputs are stored whatever rc says.
DeliverUnchecked ==
    /\ pc = "mapped" /\ pc' = "returned"
    /\ out' = [out EXCEPT ![call.place] = mapped]
    /\ outLen' = IF call.wantLen
                 THEN [outLen EXCEPT ![call.place] = rc] ELSE outLen
    /\ status' = LeoUTF8StatusFromUtf8proc(rc)
    /\ mapped' = NULL /\ rc' = 0
    /\ UNCHANGED << call, heap, mine >>

\* Mutant: the pointer is only handed out together with the length.
DeliverTogether ==
    /\ pc = "mapped" /\ pc' = "returned"
    /\ IF rc < 0 \/ ~ call.wantLen
       THEN UNCHANGED << out, outLen >>
       ELSE /\ out' = [out EXCEPT ![call.place] = mapped]
            /\ outLen' = [outLen EXCEPT ![call.place] = rc]
    /\ status' = LeoUTF8StatusFromUtf8proc(rc)
    /\ mapped' = NULL /\ rc' = 0
    /\ UNCHANGED << call, heap, mine >>

\* What follows the engine's return.  The locals are gone.
Deliver ==
    /\ pc = "mapped" /\ pc' = "returned"
    /\ IF rc < 0
       THEN UNCHANGED << out, outLen >>
       ELSE /\ out' = [out EXCEPT ![call.place] = mapped]
            /\ outLen' = IF call.wantLen
                         THEN [outLen EXCEPT ![call.place] = rc] ELSE outLen
    /\ status' = LeoUTF8StatusFromUtf8proc(rc)
    /\ mapped' = NULL /\ rc' = 0
    /\ UNCHANGED << call, heap, mine >>

-----------------------------------------------------------------------------
\* The client takes note of the status: with LEO_UTF8_OK the memory is its own.
Return ==
    /\ pc = "returned" /\ pc' = "idle"
    /\ mine' = IF status = OK THEN mine \cup {call.place} ELSE mine
    /\ call' = NoCall
    /\ UNCHANGED << mapped, rc, status, out, outLen, heap >>

\* LeoUTF8Free(*out) of memory the client owns.  The pointer dangles after it.
LeoUTF8Free ==
    /\ pc = "idle"
    /\ \E v \in mine :
          /\ heap' = [a \in DOMAIN heap \ {out[v]} |-> heap[a]]
          /\ mine' = mine \ {v}
    /\ UNCHANGED << pc, call, mapped, rc, status, out, outLen >>

Run == Enter \/ EngineMaps \/ EngineFails \/ Deliver

Next == Prepare \/ CallBytes \/ CallCString \/ Run \/ Return \/ LeoUTF8Free

Spec == Init /\ [][Next]_vars

-----------------------------------------------------------------------------
(* Correctness.                                                            *)

TypeOK ==
    /\ pc \in {"idle", "map", "engine", "mapped", "returned"}
    /\ call \in [options : Options, cString : BOOLEAN, wantLen : BOOLEAN,
                 text : {NULL} \cup Texts, place : {NULL} \cup Places]
    /\ mapped \in Addresses \cup {NULL} /\ rc \in Int
    /\ status \in Status
    /\ out \in [Places -> Addresses \cup {NULL}]
    /\ outLen \in [Places -> Nat]
    /\ DOMAIN heap \subseteq Addresses
    /\ \A a \in DOMAIN heap : heap[a] \in Options \X Texts
    /\ mine \subseteq Places

\* Memory on its way to the client.
Pending == CASE pc = "mapped" /\ rc >= 0         -> {mapped}
             [] pc = "returned" /\ status = OK   -> {out[call.place]}
             [] OTHER                            -> {}

\* Every live allocation has exactly one holder - one place the client has yet
\* to free, or the call that is about to hand it over - and every such place
\* holds a live one.  Nothing leaks, nothing is freed twice, and no two places
\* share memory, whatever calls fail in between.
OneHolderPerAllocation ==
    /\ DOMAIN heap = {out[v] : v \in mine} \cup Pending
    /\ \A v \in mine : out[v] \notin Pending
    /\ \A v \in mine, w \in mine : v # w => out[v] # out[w]

\* The call looked at its output arguments.
ReachedMapBytes == ~ (call.cString /\ call.text = NULL)

\* The status tells the truth about the outputs: with LEO_UTF8_OK *out is live
\* memory holding the mapped text and *outLen its length; with any other, *out
\* is NULL and *outLen 0, whatever an earlier call left in them.
StatusTellsOutputs ==
    (pc = "returned" /\ ReachedMapBytes /\ call.place # NULL) =>
        LET p == out[call.place]
            n == outLen[call.place]
        IN  IF status = OK
            THEN /\ p \in DOMAIN heap /\ heap[p] = << call.options, call.text >>
                 /\ call.wantLen => n = ResultLength[<< call.options, call.text >>]
            ELSE p = NULL /\ (call.wantLen => n = 0)

\* The status says why: LEO_UTF8_OK only for well-formed text of a length the
\* engine can represent and map, LEO_UTF8_INVALID only for a NULL argument or
\* malformed text, and running out of memory is never taken for either.
StatusTellsText ==
    (pc = "returned" /\ call.text # NULL /\ call.place # NULL) =>
        CASE status = OK      -> call.text \notin Malformed \cup TooLong \cup Oversized
          [] status = INVALID -> call.text \in Malformed \ (TooLong \cup Oversized)
          [] status = ERROR   -> call.text \in TooLong \cup Oversized
          [] OTHER            -> call.text \notin Malformed \cup TooLong \cup Oversized

\* What the documentation of the C-string functions says of every failure:
\* *out is NULL and, if outLen is provided, *outLen is 0.
FailureClearsOutputs ==
    (pc = "returned" /\ status # OK /\ call.place # NULL) =>
        /\ out[call.place] = NULL
        /\ call.wantLen => outLen[call.place] = 0
==============================================================================
