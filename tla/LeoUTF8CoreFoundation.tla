----------------------- MODULE LeoUTF8CoreFoundation ------------------------
(***************************************************************************)
(* The CoreFoundation bridge: LeoUTF8CreateCFStringFromBytes and           *)
(* LeoUTF8CopyUTF8DataFromCFString, with the buffer the latter converts    *)
(* into between two calls of CFStringGetBytes.  Any allocation may fail.   *)
(***************************************************************************)
EXTENDS LeoUTF8Bridge

VARIABLES usedBytes,    \* LeoUTF8CopyUTF8DataFromCFString's locals, gone when it
          buffer        \* returns; the bytes at the malloced address, or NULL

locals == << usedBytes, buffer >>
vars   == << client, locals >>

Init == ClientInit /\ usedBytes = 0 /\ buffer = NULL

\* LeoUTF8SizeToCFIndex.
FitsCFIndex(length) == length <= LONG_MAX

\* LeoUTF8CreateCFStringFromBytes, up to the call of CFStringCreateWithBytes.
CreateCFStringFromBytes ==
    /\ pc = "create"
    /\ ClearOutput
    /\ LET code == IF NULL \in {call.place, call.text} THEN INVALID
                   ELSE ValidateBytes(call.text, call.length)
       IN  CASE code # OK                                    -> Answer(code)
             [] code = OK /\ ~ FitsCFIndex(call.length)      -> Answer(ERROR)
             [] OTHER                                        -> Continue("make")
    /\ UNCHANGED << call, objects, mine, locals >>

\* CFStringCreateWithBytes, and what is made of its answer.
MakeCFString ==
    /\ pc = "make"
    /\ \/ Deliver("string", ToUnits(call.text))
       \/ Undelivered(ERROR)
    /\ UNCHANGED << call, mine, locals >>

\* Mutant: the converted units are not compared with those of the string.
WholeUnchecked(converted) == TRUE

\* convertedChars = charCount.
Whole(converted) == converted.units = Len(call.text)

\* LeoUTF8CopyUTF8DataFromCFString, up to the end of the measuring pass.
CopyUTF8DataFromCFString ==
    /\ pc = "copy"
    /\ ClearOutput
    /\ IF NULL \in {call.place, call.text}
       THEN Answer(INVALID) /\ UNCHANGED usedBytes
       ELSE LET measured == Conversion(call.text, Unbounded(call.text))
            IN  IF Whole(measured)
                THEN Continue("fill") /\ usedBytes' = Len(measured.bytes)
                ELSE Answer(ERROR) /\ UNCHANGED usedBytes
    /\ UNCHANGED << call, objects, mine, buffer >>

\* Mutant: the units converted are taken for the bytes written.
FillConfused ==
    /\ pc = "fill"
    /\ LET converted == Conversion(call.text, usedBytes)
       IN  \/ usedBytes = 0 /\ Continue("data") /\ UNCHANGED locals
           \/ usedBytes > 0 /\ Answer(NO_MEMORY) /\ usedBytes' = 0 /\ buffer' = NULL
           \/ /\ usedBytes > 0
              /\ Continue("data")
              /\ buffer' = converted.bytes
              /\ usedBytes' = converted.units
    /\ UNCHANGED << call, out, objects, mine >>

\* Mutant: one byte for each unit of the string.
FillTooSmall ==
    /\ pc = "fill"
    /\ LET converted == Conversion(call.text, Len(call.text))
       IN  IF Whole(converted)
           THEN /\ Continue("data")
                /\ buffer' = IF usedBytes = 0 THEN NULL ELSE converted.bytes
                /\ usedBytes' = Len(converted.bytes)
           ELSE Answer(ERROR) /\ buffer' = NULL /\ usedBytes' = 0
    /\ UNCHANGED << call, out, objects, mine >>

\* The buffer, when one is needed, and the pass that fills it.
Fill ==
    /\ pc = "fill"
    /\ LET converted == Conversion(call.text, usedBytes)
       IN  \/ usedBytes = 0 /\ Continue("data") /\ UNCHANGED locals
           \/ usedBytes > 0 /\ Answer(NO_MEMORY) /\ usedBytes' = 0 /\ buffer' = NULL
           \/ /\ usedBytes > 0
              /\ IF Whole(converted)
                 THEN /\ Continue("data")
                      /\ buffer' = converted.bytes
                      /\ usedBytes' = Len(converted.bytes)
                 ELSE Answer(ERROR) /\ buffer' = NULL /\ usedBytes' = 0
    /\ UNCHANGED << call, out, objects, mine >>

\* Mutant: out of memory, the buffer is left behind.
MakeCFDataLeaking ==
    /\ pc = "data"
    /\ \/ /\ Deliver("data", IF buffer = NULL THEN << >> ELSE buffer)
          /\ buffer' = NULL
       \/ Undelivered(NO_MEMORY) /\ UNCHANGED buffer
    /\ usedBytes' = 0
    /\ UNCHANGED << call, mine >>

\* CFDataCreate copies the first usedBytes bytes; the buffer is freed before
\* its answer is looked at.
MakeCFData ==
    /\ pc = "data"
    /\ \/ Deliver("data", IF buffer = NULL THEN << >>
                          ELSE SubSeq(buffer, 1, usedBytes))
       \/ Undelivered(NO_MEMORY)
    /\ buffer' = NULL /\ usedBytes' = 0
    /\ UNCHANGED << call, mine >>

Run == \/ CreateCFStringFromBytes \/ MakeCFString
       \/ CopyUTF8DataFromCFString \/ Fill \/ MakeCFData

Client == CallCreate \/ CallCopy \/ ClientReturn \/ ClientRelease

Next == Run \/ (Client /\ UNCHANGED locals)

\* A call that was entered goes on: nothing in it waits.
Spec == Init /\ [][Next]_vars /\ WF_vars(Run)

-----------------------------------------------------------------------------
(* Correctness.                                                            *)

\* The variables keep their types, and the buffer holds usedBytes bytes.
TypeOK ==
    /\ pc \in {"idle", "create", "make", "copy", "fill", "data", "returned"}
    /\ ClientTypeOK
    /\ usedBytes \in Nat
    /\ buffer \in {NULL} \cup [1 .. usedBytes -> Byte]

\* The temporary buffer lives while CFDataCreate reads it, no way out of the
\* call leaves it behind, and a NULL buffer is only ever read for no bytes.
BufferLivesInCall ==
    /\ buffer # NULL => pc = "data"
    /\ pc = "data" /\ buffer = NULL => usedBytes = 0

\* The status says why: malformed bytes are LEO_UTF8_INVALID, a string that
\* converts only in part is LEO_UTF8_ERROR, and running out of memory for the
\* copy is taken for neither.
StatusTellsText ==
    (pc = "returned" /\ NULL \notin {call.place, call.text}) =>
        IF call.fn = "create"
        THEN /\ status \in {OK, INVALID, ERROR}
             /\ status = INVALID => ~ WellFormed(call.text)
             /\ status = OK => WellFormed(call.text)
        ELSE /\ status \in {OK, NO_MEMORY, ERROR}
             /\ (status = ERROR) = ~ Convertible(call.text)
==============================================================================
