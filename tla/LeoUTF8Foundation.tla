-------------------------- MODULE LeoUTF8Foundation -------------------------
(***************************************************************************)
(* The Foundation bridge: LeoUTF8CreateNSStringFromBytes and               *)
(* LeoUTF8CopyUTF8DataFromNSString, which takes the bytes and their length *)
(* from two different methods of the string.                               *)
(***************************************************************************)
EXTENDS LeoUTF8Bridge

VARIABLE utf8           \* the C string UTF8String answered, NUL included

vars == << client, utf8 >>

Init == ClientInit /\ utf8 = NULL

\* LeoUTF8CreateNSStringFromBytes, up to the initialisation of the string.
CreateNSStringFromBytes ==
    /\ pc = "create"
    /\ ClearOutput
    /\ LET code == IF NULL \in {call.place, call.text} THEN INVALID
                   ELSE ValidateBytes(call.text, call.length)
       IN  IF code = OK THEN Continue("make") ELSE Answer(code)
    /\ UNCHANGED << call, objects, mine, utf8 >>

\* initWithBytes:length:encoding:, and what is made of its answer.
MakeNSString ==
    /\ pc = "make"
    /\ \/ Deliver("string", ToUnits(call.text))
       \/ Undelivered(INVALID)
    /\ UNCHANGED << call, mine, utf8 >>

\* Mutant: UTF8String's answer is not checked.
CopyUTF8DataUnchecked ==
    /\ pc = "copy"
    /\ ClearOutput
    /\ IF NULL \in {call.place, call.text} \/ ~ Convertible(call.text)
       THEN Answer(INVALID) /\ UNCHANGED utf8
       ELSE /\ Continue("data")
            /\ utf8' \in {NULL, Append(ToBytes(call.text), 0)}
    /\ UNCHANGED << call, objects, mine >>

\* LeoUTF8CopyUTF8DataFromNSString, up to UTF8String; the bytes that method
\* answers are autoreleased and not the function's to free.
CopyUTF8DataFromNSString ==
    /\ pc = "copy"
    /\ ClearOutput
    /\ IF NULL \in {call.place, call.text} \/ ~ Convertible(call.text)
       THEN Answer(INVALID) /\ UNCHANGED utf8
       ELSE \/ Answer(ERROR) /\ UNCHANGED utf8
            \/ Continue("data") /\ utf8' = Append(ToBytes(call.text), 0)
    /\ UNCHANGED << call, objects, mine >>

\* Mutant: the bytes are measured as a C string.
CLength(string) ==
    CHOOSE n \in 0 .. Len(utf8) - 1 :
       utf8[n + 1] = 0 /\ \A k \in 1 .. n : utf8[k] # 0

\* lengthOfBytesUsingEncoding:
LengthOfBytes(string) == Len(ToBytes(string))

\* Mutant: data the autorelease pool holds, not the client.
MakeNSDataAutoreleased ==
    /\ pc = "data"
    /\ \/ /\ Answer(OK)
          /\ \E a \in Addresses \ DOMAIN objects :
                out' = [out EXCEPT ![call.place] = a]
          /\ UNCHANGED objects
       \/ Undelivered(NO_MEMORY)
    /\ utf8' = NULL
    /\ UNCHANGED << call, mine >>

\* initWithBytes:length: copies that many of the bytes.
MakeNSData ==
    /\ pc = "data"
    /\ \/ Deliver("data", SubSeq(utf8, 1, LengthOfBytes(call.text)))
       \/ Undelivered(NO_MEMORY)
    /\ utf8' = NULL
    /\ UNCHANGED << call, mine >>

Run == \/ CreateNSStringFromBytes \/ MakeNSString
       \/ CopyUTF8DataFromNSString \/ MakeNSData

Client == CallCreate \/ CallCopy \/ ClientReturn \/ ClientRelease

Next == Run \/ (Client /\ UNCHANGED utf8)

\* A call that was entered goes on: nothing in it waits.
Spec == Init /\ [][Next]_vars /\ WF_vars(Run)

-----------------------------------------------------------------------------
(* Correctness.                                                            *)

\* The variables keep their types: between UTF8String and the NSData there are
\* bytes to copy.
TypeOK ==
    /\ pc \in {"idle", "create", "make", "copy", "data", "returned"}
    /\ ClientTypeOK
    /\ utf8 \in (IF pc = "data" THEN Seq(Byte) ELSE {NULL})

\* What docs/api/LeoUTF8Foundation.md says of LEO_UTF8_INVALID: it is the answer
\* to a NULL argument, to malformed UTF-8 and to a string that has no UTF-8;
\* Foundation's own failures are LEO_UTF8_ERROR or LEO_UTF8_NO_MEMORY.
InvalidBlamesCaller ==
    (pc = "returned" /\ status = INVALID) =>
        \/ call.place = NULL \/ call.text = NULL
        \/ call.fn = "create" /\ ~ WellFormed(call.text)
        \/ call.fn = "copy" /\ ~ Convertible(call.text)
==============================================================================
