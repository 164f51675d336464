--------------------- MODULE LeoUTF8CoreFoundationProofs ---------------------
(***************************************************************************)
(* The CoreFoundation bridge hands out every object once, and each is the  *)
(* text that was asked for, whole and unchanged; the C programs that live  *)
(* on it release every object they were handed.                            *)
(***************************************************************************)
EXTENDS CoreFoundationClients, LeoUTF8BridgeProofs

LEMMA CreateBridge == ASSUME BridgeInv, CreateCFStringFromBytes PROVE BridgeInv'
<1>1. pc = "create" /\ ClearOutput /\ UNCHANGED << call, objects, mine >>
  BY DEF CreateCFStringFromBytes
<1>2. \/ pc' = "returned" /\ status' # OK
      \/ pc' = "make" /\ call.place # NULL
  BY Zenon DEF CreateCFStringFromBytes, Answer, Continue, INVALID, ERROR, OK
<1>3. call.place \in {NULL} \cup Places
  BY DEF BridgeInv, Shape
<1> QED
  BY <1>1, <1>2, <1>3, QuietBridge DEF CreateSteps, CopySteps, MakingSteps

LEMMA MakeBridge == ASSUME BridgeInv, MakeCFString PROVE BridgeInv'
<1>1. pc = "make" /\ UNCHANGED << call, mine >>
  BY DEF MakeCFString
<1>2. CASE Deliver("string", ToUnits(call.text))
  BY <1>1, <1>2, DeliverBridge
<1>3. CASE Undelivered(ERROR)
  <2>1. pc' = "returned" /\ status' # OK /\ UNCHANGED << out, objects >>
    BY <1>3 DEF Undelivered, Answer, ERROR, OK
  <2> QED
    BY <1>1, <2>1, QuietBridge DEF CreateSteps, CopySteps, MakingSteps
<1> QED
  BY <1>2, <1>3 DEF MakeCFString

LEMMA CopyBridge ==
    ASSUME BridgeInv, CopyUTF8DataFromCFString PROVE BridgeInv'
<1>1. pc = "copy" /\ ClearOutput /\ UNCHANGED << call, objects, mine >>
  BY DEF CopyUTF8DataFromCFString
<1>2. \/ pc' = "returned" /\ status' # OK
      \/ pc' = "fill" /\ call.place # NULL
  BY DEF CopyUTF8DataFromCFString, Answer, Continue, INVALID, ERROR, OK
<1>3. call.place \in {NULL} \cup Places
  BY DEF BridgeInv, Shape
<1> QED
  BY <1>1, <1>2, <1>3, QuietBridge DEF CreateSteps, CopySteps, MakingSteps

LEMMA FillBridge == ASSUME BridgeInv, Fill PROVE BridgeInv'
<1>1. pc = "fill" /\ UNCHANGED << call, out, objects, mine >>
  BY DEF Fill
<1>2. \/ pc' = "returned" /\ status' # OK
      \/ pc' = "data"
  BY DEF Fill, Answer, Continue, NO_MEMORY, ERROR, OK
<1>3. call.place \in Places
  BY <1>1 DEF BridgeInv, CallInProgress, MakingSteps
<1> QED
  BY <1>1, <1>2, <1>3, QuietBridge DEF CreateSteps, CopySteps, MakingSteps

LEMMA DataBridge == ASSUME BridgeInv, MakeCFData PROVE BridgeInv'
<1>1. pc = "data" /\ UNCHANGED << call, mine >>
  BY DEF MakeCFData
<1>2. CASE Undelivered(NO_MEMORY)
  <2>1. pc' = "returned" /\ status' # OK /\ UNCHANGED << out, objects >>
    BY <1>2 DEF Undelivered, Answer, NO_MEMORY, OK
  <2> QED
    BY <1>1, <2>1, QuietBridge DEF CreateSteps, CopySteps, MakingSteps
<1>3. CASE \E text : Deliver("data", text)
  BY <1>1, <1>3, DeliverBridge
<1> QED
  BY <1>2, <1>3 DEF MakeCFData

LEMMA NextBridge == ASSUME BridgeInv, [Next]_vars PROVE BridgeInv'
<1>1. CASE Run
  BY <1>1, CreateBridge, MakeBridge, CopyBridge, FillBridge, DataBridge DEF Run
<1>2. CASE Client
  BY <1>2, ClientBridge DEF Client
<1>3. CASE UNCHANGED vars
  BY <1>3, StutterBridge DEF vars
<1> QED
  BY <1>1, <1>2, <1>3 DEF Next

LEMMA BridgeAlways == Spec => []BridgeInv
<1>1. Init => BridgeInv
  BY InitBridge DEF Init
<1>2. BridgeInv /\ [Next]_vars => BridgeInv'
  BY NextBridge
<1> QED
  BY <1>1, <1>2, PTL DEF Spec

\* Every live object has exactly one holder, for any texts, any number of
\* variables and however often CoreFoundation fails: LeoUTF8CreateCFStringFromBytes
\* and LeoUTF8CopyUTF8DataFromCFString leak nothing and share nothing.
THEOREM ObjectsHeldOnce == Spec => []OneHolderPerObject
<1>1. BridgeInv => OneHolderPerObject
  BY DEF BridgeInv
<1> QED
  BY <1>1, BridgeAlways, PTL

\* LEO_UTF8_OK comes with a live object of the kind asked for, every other
\* status with NULL.
THEOREM OutputsTrue == Spec => []StatusTellsOutput
<1>1. BridgeInv => StatusTellsOutput
  BY DEF BridgeInv
<1> QED
  BY <1>1, BridgeAlways, PTL

-----------------------------------------------------------------------------
(* Texts, the buffer and the status.                                       *)

\* The converted bytes wait in the buffer, all of them; there is none for an
\* empty string.
BufferInv ==
    /\ pc \in {"idle", "create", "make", "copy", "fill", "data", "returned"}
    /\ usedBytes \in Nat
    /\ pc # "data" => buffer = NULL
    /\ pc = "fill" =>
          LET measured == Conversion(call.text, Unbounded(call.text))
          IN  measured.units = Len(call.text) /\ usedBytes = Len(measured.bytes)
    /\ (pc = "data" /\ buffer = NULL) => usedBytes = 0 /\ SameText(call.text, << >>)
    /\ (pc = "data" /\ buffer # NULL) =>
          /\ buffer \in Seq(Byte) /\ usedBytes = Len(buffer)
          /\ SameText(call.text, buffer)

CallInv == BridgeInv /\ TextInv /\ BufferInv /\ StatusTellsText

\* What CopyUTF8DataFromCFString asks for: a text whose units are known.
LEMMA TextAsked ==
    ASSUME CallInv, pc \in CreateSteps \cup CopySteps
    PROVE  /\ pc \in CreateSteps => /\ call.fn = "create"
                                    /\ call.text \in {NULL} \cup Seq(Byte)
           /\ pc \in CopySteps => /\ call.fn = "copy"
                                  /\ call.text \in {NULL} \cup Seq(Unit)
           /\ NULL \notin Seq(Unit) /\ NULL \notin Seq(Byte)
           /\ pc \in MakingSteps => call.place # NULL /\ call.text # NULL
<1>1. NULL \notin Seq(Unit) /\ NULL \notin Seq(Byte)
  BY NullAssumption, BytesAreUnits
<1>2. /\ pc \in CreateSteps => call.fn = "create"
      /\ pc \in CopySteps => call.fn = "copy"
      /\ pc \in MakingSteps => call.place # NULL
  BY NullAssumption DEF CallInv, BridgeInv, CallInProgress
<1>3. /\ pc \in CreateSteps => call.text \in {NULL} \cup Seq(Byte)
      /\ call.text \in {NULL} \cup Seq(Unit)
      /\ pc \in MakingSteps => call.text # NULL
  BY DEF CallInv, TextInv, CallChecked, CallTyped, MakingSteps
<1> QED
  BY <1>1, <1>2, <1>3

LEMMA CreateTexts ==
    ASSUME CallInv, CreateCFStringFromBytes
    PROVE  /\ TextInv' /\ BufferInv' /\ StatusTellsText'
           /\ Bridge!Refuse \/ UNCHANGED Bridge!promised
<1>1. /\ pc = "create" /\ UNCHANGED << call, objects, mine, usedBytes, buffer >>
      /\ usedBytes \in Nat /\ buffer = NULL
  BY DEF CreateCFStringFromBytes, locals, CallInv, BufferInv
<1>2. /\ pc \in CreateSteps \cup CopySteps /\ call.fn = "create"
      /\ call.text \in {NULL} \cup Seq(Byte)
  BY <1>1, TextAsked DEF CreateSteps
<1>3. \/ /\ pc' = "returned" /\ status' \in {INVALID, ERROR}
         /\ (status' = INVALID /\ NULL \notin {call.place, call.text})
              => ~ WellFormed(call.text)
      \/ /\ pc' = "make" /\ status' = status /\ call.text # NULL
         /\ WellFormed(call.text)
  <2> DEFINE code == IF NULL \in {call.place, call.text} THEN INVALID
                     ELSE ValidateBytes(call.text, call.length)
  <2>1. \/ code # OK /\ Answer(code)
        \/ code = OK /\ Answer(ERROR)
        \/ code = OK /\ Continue("make")
    BY Zenon DEF CreateCFStringFromBytes
  <2>2. /\ code \in {OK, INVALID, ERROR}
        /\ (code = INVALID /\ NULL \notin {call.place, call.text})
              => ~ WellFormed(call.text)
        /\ code = OK => call.text # NULL /\ WellFormed(call.text)
    BY Zenon DEF ValidateBytes, OK, INVALID, ERROR
  <2> HIDE DEF code
  <2> QED
    BY <2>1, <2>2 DEF Answer, Continue, OK, INVALID, ERROR
<1>4. CallChecked'
  BY <1>1, <1>2, <1>3 DEF CallChecked, CreateSteps
<1>5. TextInv' /\ (Bridge!Refuse \/ UNCHANGED Bridge!promised)
  <2>1. \/ pc' = "returned" /\ status' \in Status \ {OK}
        \/ pc' \in MakingSteps /\ UNCHANGED status
    BY <1>3 DEF MakingSteps, Status, OK, INVALID, ERROR
  <2> QED
    BY <1>1, <1>2, <1>4, <2>1, QuietTexts DEF CallInv
<1>6. BufferInv'
  BY <1>1, <1>3 DEF BufferInv
<1>7. StatusTellsText'
  BY <1>1, <1>2, <1>3 DEF StatusTellsText, OK, INVALID, ERROR
<1> QED
  BY <1>5, <1>6, <1>7

LEMMA MakeTexts ==
    ASSUME CallInv, MakeCFString
    PROVE  /\ TextInv' /\ BufferInv' /\ StatusTellsText'
           /\ Bridge!Cross \/ Bridge!Refuse \/ UNCHANGED Bridge!promised
<1>1. /\ pc = "make" /\ UNCHANGED << call, mine, usedBytes, buffer >>
      /\ usedBytes \in Nat /\ buffer = NULL
  BY DEF MakeCFString, locals, CallInv, BufferInv
<1>2. /\ call.fn = "create" /\ call.text \in Seq(Byte) /\ WellFormed(call.text)
      /\ pc \in CreateSteps \cup CopySteps
  BY <1>1, TextAsked
     DEF CreateSteps, MakingSteps, CallInv, TextInv, CallChecked
<1>3. CASE Deliver("string", ToUnits(call.text))
  <2>1. ToUnits(call.text) \in Seq(Unit) /\ SameText(ToUnits(call.text), call.text)
    BY <1>2, ToUnitsString DEF SameText
  <2>2. TextInv' /\ Bridge!Cross
    BY <1>1, <1>3, <2>1, DeliverTexts DEF CallInv
  <2>3. pc' = "returned" /\ status' = OK
    BY <1>3 DEF Deliver, Answer
  <2>4. BufferInv' /\ StatusTellsText'
    BY <1>1, <1>2, <2>3 DEF BufferInv, StatusTellsText, OK, INVALID
  <2> QED
    BY <2>2, <2>4
<1>4. CASE Undelivered(ERROR)
  <2>1. pc' = "returned" /\ status' = ERROR /\ UNCHANGED objects
    BY <1>4 DEF Undelivered, Answer
  <2>2. CallChecked'
    BY <1>1, <1>2, <2>1 DEF CallChecked, CreateSteps
  <2>3. TextInv' /\ (Bridge!Refuse \/ UNCHANGED Bridge!promised)
    BY <1>1, <1>2, <2>1, <2>2, QuietTexts DEF CallInv, Status, OK, ERROR
  <2>4. BufferInv' /\ StatusTellsText'
    BY <1>1, <1>2, <2>1
       DEF BufferInv, StatusTellsText, OK, INVALID, ERROR
  <2> QED
    BY <2>3, <2>4
<1> QED
  BY <1>3, <1>4 DEF MakeCFString

LEMMA CopyTexts ==
    ASSUME CallInv, CopyUTF8DataFromCFString
    PROVE  /\ TextInv' /\ BufferInv' /\ StatusTellsText'
           /\ Bridge!Refuse \/ UNCHANGED Bridge!promised
<1> DEFINE measured == Conversion(call.text, Unbounded(call.text))
<1>1. /\ pc = "copy" /\ UNCHANGED << call, objects, mine, buffer >>
      /\ usedBytes \in Nat /\ buffer = NULL
  BY DEF CopyUTF8DataFromCFString, CallInv, BufferInv
<1>2. /\ pc \in CreateSteps \cup CopySteps /\ call.fn = "copy"
      /\ call.text \in {NULL} \cup Seq(Unit)
  BY <1>1, TextAsked DEF CopySteps
<1>3. CASE NULL \in {call.place, call.text}
  <2>1. pc' = "returned" /\ status' = INVALID /\ UNCHANGED usedBytes
    BY <1>3 DEF CopyUTF8DataFromCFString, Answer
  <2>2. CallChecked'
    BY <1>1, <1>2, <2>1 DEF CallChecked, CreateSteps
  <2>3. TextInv' /\ (Bridge!Refuse \/ UNCHANGED Bridge!promised)
    BY <1>1, <1>2, <2>1, <2>2, QuietTexts DEF CallInv, Status, OK, INVALID
  <2>4. BufferInv' /\ StatusTellsText'
    BY <1>1, <1>3, <2>1 DEF BufferInv, StatusTellsText
  <2> QED
    BY <2>3, <2>4
<1>4. CASE NULL \notin {call.place, call.text}
  <2>1. call.text \in Seq(Unit) /\ call.text # NULL
    BY <1>2, <1>4
  <2>2. /\ measured.units = Len(call.text) <=> Convertible(call.text)
        /\ measured.bytes \in Seq(Byte)
    BY <2>1, TwoPassesWhole, UnboundedEnough, WholeConversion
  <2>3. Len(measured.bytes) \in Nat
    BY <2>2, LenProperties
  <2>4. IF Whole(measured)
        THEN Continue("fill") /\ usedBytes' = Len(measured.bytes)
        ELSE Answer(ERROR) /\ UNCHANGED usedBytes
    BY <1>4 DEF CopyUTF8DataFromCFString
  <2> HIDE DEF measured
  <2>5. CASE Convertible(call.text)
    <3>1. /\ pc' = "fill" /\ UNCHANGED status /\ usedBytes' = Len(measured.bytes)
          /\ measured.units = Len(call.text)
      BY <2>2, <2>4, <2>5 DEF Whole, Continue
    <3>2. CallChecked'
      BY <1>1, <1>2, <2>1, <2>5, <3>1 DEF CallChecked, CreateSteps
    <3>3. TextInv' /\ (Bridge!Refuse \/ UNCHANGED Bridge!promised)
      BY <1>1, <1>2, <3>1, <3>2, QuietTexts DEF CallInv, MakingSteps
    <3>4. BufferInv' /\ StatusTellsText'
      BY <1>1, <2>3, <3>1 DEF BufferInv, StatusTellsText, measured
    <3> QED
      BY <3>3, <3>4
  <2>6. CASE ~ Convertible(call.text)
    <3>1. pc' = "returned" /\ status' = ERROR /\ UNCHANGED usedBytes
      BY <2>2, <2>4, <2>6 DEF Whole, Answer
    <3>2. CallChecked'
      BY <1>1, <1>2, <3>1 DEF CallChecked, CreateSteps
    <3>3. TextInv' /\ (Bridge!Refuse \/ UNCHANGED Bridge!promised)
      BY <1>1, <1>2, <3>1, <3>2, QuietTexts DEF CallInv, Status, OK, ERROR
    <3>4. BufferInv'
      BY <1>1, <3>1 DEF BufferInv
    <3>5. StatusTellsText'
      BY <1>1, <1>2, <2>6, <3>1 DEF StatusTellsText
    <3> QED
      BY <3>3, <3>4, <3>5
  <2> QED
    BY <2>5, <2>6
<1> QED
  BY <1>3, <1>4

LEMMA FillTexts ==
    ASSUME CallInv, Fill
    PROVE  /\ TextInv' /\ BufferInv' /\ StatusTellsText'
           /\ Bridge!Refuse \/ UNCHANGED Bridge!promised
<1> DEFINE converted == Conversion(call.text, usedBytes)
<1>1. /\ pc = "fill" /\ UNCHANGED << call, out, objects, mine >>
      /\ usedBytes \in Nat /\ buffer = NULL
  BY DEF Fill, CallInv, BufferInv
<1>2. /\ pc \in CreateSteps \cup CopySteps /\ call.fn = "copy"
      /\ call.text \in Seq(Unit) /\ call.text # NULL /\ NULL \notin Seq(Byte)
      /\ Convertible(call.text)
  BY <1>1, TextAsked
     DEF CopySteps, MakingSteps, CallInv, TextInv, CallChecked
<1>3. /\ converted.units = Len(call.text) /\ converted.bytes \in Seq(Byte)
      /\ Len(converted.bytes) <= usedBytes
      /\ SameText(call.text, converted.bytes)
  BY <1>1, <1>2, TwoPassesWhole DEF CallInv, BufferInv, SameText
<1>4. Len(converted.bytes) \in Nat
  BY <1>3, LenProperties
<1>5. \/ usedBytes = 0 /\ Continue("data") /\ UNCHANGED << usedBytes, buffer >>
      \/ usedBytes > 0 /\ Answer(NO_MEMORY) /\ usedBytes' = 0 /\ buffer' = NULL
      \/ /\ usedBytes > 0 /\ Continue("data")
         /\ buffer' = converted.bytes /\ usedBytes' = Len(converted.bytes)
  BY <1>3 DEF Fill, Whole, locals
<1> HIDE DEF converted
<1>6. CASE usedBytes = 0 /\ Continue("data") /\ UNCHANGED << usedBytes, buffer >>
  <2>1. pc' = "data" /\ UNCHANGED << status, usedBytes, buffer >>
    BY <1>6 DEF Continue
  <2>2. converted.bytes = << >>
    <3>1. Len(converted.bytes) = 0
      BY <1>3, <1>4, <1>6
    <3> QED
      BY <1>3, <3>1, EmptySeq
  <2>3. CallChecked'
    BY <1>1, <1>2, <2>1 DEF CallChecked, CreateSteps
  <2>4. TextInv' /\ (Bridge!Refuse \/ UNCHANGED Bridge!promised)
    BY <1>1, <1>2, <2>1, <2>3, QuietTexts DEF CallInv, MakingSteps
  <2>5. BufferInv'
    <3>1. SameText(call'.text, << >>)
      BY <1>1, <1>3, <2>2 
    <3> QED
      BY <1>1, <1>6, <2>1, <3>1 DEF BufferInv, SameText
  <2>6. StatusTellsText'
    BY <2>1 DEF StatusTellsText
  <2> QED
    BY <2>4, <2>5, <2>6
<1>7. CASE usedBytes > 0 /\ Answer(NO_MEMORY) /\ usedBytes' = 0 /\ buffer' = NULL
  <2>1. pc' = "returned" /\ status' = NO_MEMORY
    BY <1>7 DEF Answer
  <2>2. CallChecked'
    BY <1>1, <1>2, <2>1 DEF CallChecked, CreateSteps
  <2>3. TextInv' /\ (Bridge!Refuse \/ UNCHANGED Bridge!promised)
    BY <1>1, <1>2, <2>1, <2>2, QuietTexts DEF CallInv, Status, OK, NO_MEMORY
  <2>4. BufferInv'
    BY <1>7, <2>1 DEF BufferInv
  <2>5. StatusTellsText'
    BY <1>1, <1>2, <2>1 DEF StatusTellsText, OK, NO_MEMORY, ERROR
  <2> QED
    BY <2>3, <2>4, <2>5
<1>8. CASE /\ usedBytes > 0 /\ Continue("data")
           /\ buffer' = converted.bytes /\ usedBytes' = Len(converted.bytes)
  <2>1. pc' = "data" /\ UNCHANGED status
    BY <1>8 DEF Continue
  <2>2. CallChecked'
    BY <1>1, <1>2, <2>1 DEF CallChecked, CreateSteps
  <2>3. TextInv' /\ (Bridge!Refuse \/ UNCHANGED Bridge!promised)
    BY <1>1, <1>2, <2>1, <2>2, QuietTexts DEF CallInv, MakingSteps
  <2>4. BufferInv'
    <3>1. /\ SameText(call'.text, buffer') /\ buffer' \in Seq(Byte)
          /\ usedBytes' = Len(buffer') /\ buffer' # NULL /\ usedBytes' \in Nat
      BY <1>1, <1>2, <1>3, <1>4, <1>8
    <3> QED
      BY <2>1, <3>1 DEF BufferInv, SameText
  <2>5. StatusTellsText'
    BY <2>1 DEF StatusTellsText
  <2> QED
    BY <2>3, <2>4, <2>5
<1> QED
  BY <1>5, <1>6, <1>7, <1>8

LEMMA DataTexts ==
    ASSUME CallInv, MakeCFData
    PROVE  /\ TextInv' /\ BufferInv' /\ StatusTellsText'
           /\ Bridge!Cross \/ Bridge!Refuse \/ UNCHANGED Bridge!promised
<1> DEFINE bytes == IF buffer = NULL THEN << >> ELSE SubSeq(buffer, 1, usedBytes)
<1>1. /\ pc = "data" /\ UNCHANGED << call, mine >>
      /\ buffer' = NULL /\ usedBytes' = 0
  BY DEF MakeCFData
<1>2. /\ pc \in CreateSteps \cup CopySteps /\ call.fn = "copy"
      /\ Convertible(call.text)
  BY <1>1, TextAsked DEF CopySteps, CallInv, TextInv, CallChecked
<1>3. bytes \in Seq(Unit) /\ SameText(call.text, bytes)
  <2>1. CASE buffer = NULL
    BY <1>1, <2>1 DEF CallInv, BufferInv
  <2>2. CASE buffer # NULL
    <3>1. /\ buffer \in Seq(Byte) /\ usedBytes = Len(buffer)
          /\ SameText(call.text, buffer)
      BY <1>1, <2>2 DEF CallInv, BufferInv
    <3>2. bytes = buffer
      BY <2>2, <3>1, SubSeqFull
    <3> QED
      BY <3>1, <3>2, BytesAreUnits
  <2> QED
    BY <2>1, <2>2
<1>4. CASE Deliver("data", bytes)
  <2>1. TextInv' /\ Bridge!Cross
    BY <1>1, <1>3, <1>4, DeliverTexts DEF CallInv
  <2>2. pc' = "returned" /\ status' = OK
    BY <1>4 DEF Deliver, Answer
  <2>3. BufferInv'
    BY <1>1, <2>2 DEF BufferInv
  <2>4. StatusTellsText'
    BY <1>1, <1>2, <2>2 DEF StatusTellsText, OK, NO_MEMORY, ERROR
  <2> QED
    BY <2>1, <2>3, <2>4
<1>5. CASE Undelivered(NO_MEMORY)
  <2>1. pc' = "returned" /\ status' = NO_MEMORY /\ UNCHANGED objects
    BY <1>5 DEF Undelivered, Answer
  <2>2. CallChecked'
    BY <1>1, <1>2, <2>1 DEF CallChecked, CreateSteps
  <2>3. TextInv' /\ (Bridge!Refuse \/ UNCHANGED Bridge!promised)
    BY <1>1, <1>2, <2>1, <2>2, QuietTexts DEF CallInv, Status, OK, NO_MEMORY
  <2>4. BufferInv'
    BY <1>1, <2>1 DEF BufferInv
  <2>5. StatusTellsText'
    BY <1>1, <1>2, <2>1 DEF StatusTellsText, OK, NO_MEMORY, ERROR
  <2> QED
    BY <2>3, <2>4, <2>5
<1>6. Deliver("data", bytes) \/ Undelivered(NO_MEMORY)
  BY DEF MakeCFData
<1> QED
  BY <1>4, <1>5, <1>6

LEMMA NextTexts ==
    ASSUME CallInv, [Next]_vars
    PROVE  CallInv' /\ [Bridge!Next]_(Bridge!promised)
<1>1. BridgeInv'
  BY NextBridge DEF CallInv
<1>2. CASE Run
  BY <1>1, <1>2, CreateTexts, MakeTexts, CopyTexts, FillTexts, DataTexts
     DEF Run, CallInv, Bridge!Next
<1>3. CASE Client /\ UNCHANGED locals
  <2>1. TextInv' /\ [Bridge!Next]_(Bridge!promised)
    BY <1>3, ClientTexts DEF Client, CallInv
  <2>2. /\ \/ pc = "idle" /\ pc' \in {"idle", "create", "copy"}
           \/ pc = "returned" /\ pc' = "idle"
        /\ UNCHANGED << usedBytes, buffer >>
    BY <1>3 DEF Client, CallCreate, CallCopy, Call, ClientReturn, ClientRelease,
                locals
  <2>3. BufferInv'
    BY <2>2 DEF CallInv, BufferInv
  <2>4. StatusTellsText'
    BY <2>2 DEF StatusTellsText
  <2> QED
    BY <1>1, <2>1, <2>3, <2>4 DEF CallInv
<1>4. CASE UNCHANGED vars
  <2>1. TextInv' /\ UNCHANGED Bridge!promised
    BY <1>4, StutterTexts DEF vars, CallInv
  <2>2. BufferInv' /\ StatusTellsText'
    BY <1>4 DEF vars, client, locals, CallInv, BufferInv, StatusTellsText, SameText
  <2> QED
    BY <1>1, <2>1, <2>2 DEF CallInv
<1> QED
  BY <1>2, <1>3, <1>4 DEF Next

LEMMA InitCall == ASSUME Init PROVE CallInv /\ Bridge!Init
<1>1. BridgeInv /\ TextInv /\ Bridge!Init
  BY InitBridge, InitTexts DEF Init
<1>2. BufferInv
  BY DEF Init, ClientInit, BufferInv
<1>3. StatusTellsText
  BY DEF Init, ClientInit, StatusTellsText
<1> QED
  BY <1>1, <1>2, <1>3 DEF CallInv

LEMMA CallAlways == Spec => []CallInv
<1>1. Init => CallInv
  BY InitCall
<1>2. CallInv /\ [Next]_vars => CallInv'
  BY NextTexts
<1> QED
  BY <1>1, <1>2, PTL DEF Spec

\* The variables of LeoUTF8CopyUTF8DataFromCFString, of its sibling and of their
\* client keep their types, and the buffer holds usedBytes bytes, for any texts.
THEOREM BufferTypeCorrect == Spec => []TypeOK
<1>1. CallInv => TypeOK
  <2> SUFFICES ASSUME CallInv PROVE TypeOK
    OBVIOUS
  <2>1. ClientTypeOK
    BY DEF CallInv, BridgeInv, Shape, TextInv, CallTyped, ClientTypeOK
  <2>2. buffer \in {NULL} \cup [1 .. usedBytes -> Byte]
    <3>1. CASE buffer # NULL
      <4>1. buffer \in Seq(Byte) /\ usedBytes = Len(buffer)
        BY <3>1 DEF CallInv, BufferInv
      <4> QED
        BY <4>1, LenProperties
    <3> QED
      BY <3>1
  <2>3. /\ pc \in {"idle", "create", "make", "copy", "fill", "data", "returned"}
        /\ usedBytes \in Nat
    BY DEF CallInv, BufferInv
  <2> QED
    BY <2>1, <2>2, <2>3 DEF TypeOK
<1> QED
  BY <1>1, CallAlways, PTL

\* The temporary buffer of LeoUTF8CopyUTF8DataFromCFString lives while
\* CFDataCreate reads it and no longer, on every way out of the call.
THEOREM BufferFreed == Spec => []BufferLivesInCall
<1>1. CallInv => BufferLivesInCall
  BY DEF CallInv, BufferInv, BufferLivesInCall
<1> QED
  BY <1>1, CallAlways, PTL

\* The status says why, for any texts: only malformed bytes are
\* LEO_UTF8_INVALID, and only a string without UTF-8 is LEO_UTF8_ERROR; what the
\* second pass of CFStringGetBytes converts never falls short of the first.
THEOREM StatusTruthful == Spec => []StatusTellsText
<1>1. CallInv => StatusTellsText
  BY DEF CallInv
<1> QED
  BY <1>1, CallAlways, PTL

\* The safety part of the refinement of TextBridge: every object a caller gets
\* from CoreFoundation is the text it gave, whole and unchanged.
THEOREM TextsCrossWhole == Spec => Bridge!Crossings
<1>1. Init => Bridge!Init
  BY InitCall
<1>2. CallInv /\ [Next]_vars => [Bridge!Next]_(Bridge!promised)
  BY NextTexts
<1> QED
  BY <1>1, <1>2, CallAlways, PTL DEF Spec, Bridge!Crossings

-----------------------------------------------------------------------------
(* The programs.                                                           *)

Asking == pc # "idle"

\* What a program holds at each statement; while it asks for an object, what
\* it held before, and the place of the new one.
Holding ==
    /\ at \in {"create", "exit"} => mine = {}
    /\ at = "created" => /\ Asking => mine = {} /\ call.place = String
                                      /\ call.fn = "create"
                         /\ ~ Asking => mine = IF status = OK THEN {String} ELSE {}
    /\ at = "copy" => mine = {String}
    /\ at = "copied" =>
          /\ Asking => mine = {String} /\ call.place = Data
          /\ ~ Asking => mine = IF status = OK THEN {String, Data} ELSE {String}
    /\ at = "reject" => mine = {String, Data}
    /\ at = "rejected" =>
          /\ Asking => mine = {String, Data} /\ call.place = InvalidString
          /\ ~ Asking => mine = IF status = OK THEN Places ELSE {String, Data}
    /\ at = "leave" => mine = {toRelease[i] : i \in 1 .. Len(toRelease)}

\* Its calls are the library's business; in between, it knows from the status
\* what is in its variables.
ProgramInv ==
    /\ BridgeInv
    /\ objects = [a \in DOMAIN objects |-> objects[a]]
    /\ at \in {"create", "created", "copy", "copied", "reject", "rejected",
               "leave", "exit"}
    /\ at \notin {"created", "copied", "rejected"} => pc = "idle"
    /\ (at \in {"created", "copy"} /\ ~ Asking /\ (at = "created" => status = OK)) =>
          objects[out[String]].kind = "string"
    /\ (at = "rejected" /\ ~ Asking /\ status # OK) => out[InvalidString] = NULL
    /\ toRelease \in Seq(Places)
    /\ \A i \in 1 .. Len(toRelease), j \in 1 .. Len(toRelease) :
          i # j => toRelease[i] # toRelease[j]
    /\ Holding

LEMMA Variables ==
    /\ String \in Places /\ Data \in Places /\ InvalidString \in Places
    /\ Places = {String, Data, InvalidString}
    /\ String # Data /\ String # InvalidString /\ Data # InvalidString
    /\ NULL \notin Places
BY VariableAssumption, NullAssumption

LEMMA InitProgram == ASSUME ClientsInit PROVE ProgramInv
<1>1. BridgeInv /\ pc = "idle" /\ mine = {}
  BY InitBridge DEF ClientsInit, Init, ClientInit
<1>2. objects = [a \in DOMAIN objects |-> objects[a]]
  BY DEF ClientsInit, Init, ClientInit
<1>3. at = "create" /\ toRelease = << >>
  BY DEF ClientsInit, ProgramInit
<1> QED
  BY <1>1, <1>2, <1>3 DEF ProgramInv, Holding, Asking

LEMMA ProgramStutter == ASSUME ProgramInv, UNCHANGED allVars PROVE ProgramInv'
<1>1. UNCHANGED client /\ UNCHANGED clientVars
  BY DEF allVars, vars
<1>2. BridgeInv'
  BY <1>1, StutterBridge DEF ProgramInv
<1> QED
  BY <1>1, <1>2 DEF ProgramInv, Holding, Asking, client, clientVars

\* Between its calls a program only goes on to another statement.
LEMMA LooksAway ==
    ASSUME ProgramInv, UNCHANGED << client, locals >> PROVE BridgeInv' /\ [Next]_vars
BY StutterBridge DEF ProgramInv, vars

\* It asks for an object in a variable it holds nothing in.
LEMMA AskProgram ==
    ASSUME ProgramInv, UNCHANGED locals, NEW fn \in {"create", "copy"}, NEW text,
           NEW length, NEW place \in Places \ mine, NEW next,
           Ask(fn, text, length, place, next),
           \/ fn = "create" /\ text \in Inputs /\ length = Len(text)
           \/ fn = "copy" /\ text \in Known /\ length = 0
    PROVE  /\ BridgeInv' /\ [Next]_vars
           /\ pc' # "idle" /\ call'.place = place /\ call'.fn = fn /\ at' = next
           /\ mine' = mine /\ objects' = objects /\ toRelease' = toRelease
<1>1. /\ pc = "idle" /\ pc' = fn /\ at' = next
      /\ call' = [fn |-> fn, text |-> text, length |-> length, place |-> place]
      /\ UNCHANGED << status, out, objects, mine, program, toRelease, exit >>
  BY DEF Ask
<1>2. Call(fn, text, length)
  BY <1>1 DEF Call
<1>3. CallCreate \/ CallCopy
  BY <1>2 DEF CallCreate, CallCopy
<1>4. BridgeInv'
  BY <1>3, ClientBridge DEF ProgramInv
<1> QED
  BY <1>1, <1>3, <1>4 DEF Next, Client

LEMMA CreateStringProgram ==
    ASSUME ProgramInv, CreateString, UNCHANGED locals PROVE ProgramInv' /\ [Next]_vars
<1>1. at = "create" /\ mine = {} /\ Strasse \in Inputs
      /\ Ask("create", Strasse, Len(Strasse), String, "created")
  BY ProgramAssumption DEF CreateString, AskCreate, ProgramInv, Holding
<1>2. String \in Places \ mine
  BY <1>1, Variables
<1>3. /\ BridgeInv' /\ [Next]_vars
      /\ pc' # "idle" /\ call'.place = String /\ call'.fn = "create"
      /\ at' = "created"
      /\ mine' = mine /\ objects' = objects /\ toRelease' = toRelease
  BY <1>1, <1>2, AskProgram
<1> QED
  BY <1>1, <1>3 DEF ProgramInv, Holding, Asking

LEMMA CopyDataProgram ==
    ASSUME ProgramInv, CopyData, UNCHANGED locals PROVE ProgramInv' /\ [Next]_vars
<1>1. at = "copy" /\ mine = {String} /\ pc = "idle"
      /\ objects[out[String]].kind = "string"
      /\ Ask("copy", TextOf(String), 0, Data, "copied")
  BY DEF CopyData, ProgramInv, Holding, Asking
<1>2. Data \in Places \ mine
  BY <1>1, Variables
<1>3. TextOf(String) \in Known
  BY <1>1 DEF Known, TextOf
<1>4. /\ BridgeInv' /\ [Next]_vars
      /\ pc' # "idle" /\ call'.place = Data /\ at' = "copied"
      /\ mine' = mine /\ objects' = objects /\ toRelease' = toRelease
  BY <1>1, <1>2, <1>3, AskProgram
<1> QED
  BY <1>1, <1>4 DEF ProgramInv, Holding, Asking

LEMMA RejectProgram ==
    ASSUME ProgramInv, RejectInvalid, UNCHANGED locals
    PROVE  ProgramInv' /\ [Next]_vars
<1>1. at = "reject" /\ mine = {String, Data} /\ invalidUtf8 \in Inputs
      /\ Ask("create", invalidUtf8, Len(invalidUtf8), InvalidString, "rejected")
  BY ProgramAssumption DEF RejectInvalid, AskCreate, ProgramInv, Holding
<1>2. InvalidString \in Places \ mine
  BY <1>1, Variables
<1>3. /\ BridgeInv' /\ [Next]_vars
      /\ pc' # "idle" /\ call'.place = InvalidString /\ at' = "rejected"
      /\ mine' = mine /\ objects' = objects /\ toRelease' = toRelease
  BY <1>1, <1>2, AskProgram
<1> QED
  BY <1>1, <1>3 DEF ProgramInv, Holding, Asking

\* On the way out it releases what it holds, each once.
LEMMA LeaveProgram ==
    ASSUME ProgramInv, pc = "idle", UNCHANGED << client, locals >>, NEW code,
           NEW places \in Seq(Places), Leave(code, places),
           mine = {places[i] : i \in 1 .. Len(places)},
           \A i \in 1 .. Len(places), j \in 1 .. Len(places) :
              i # j => places[i] # places[j]
    PROVE  ProgramInv' /\ [Next]_vars
<1>1. /\ at' = "leave" /\ toRelease' = places
      /\ UNCHANGED << pc, call, status, out, objects, mine >>
  BY DEF Leave, client
<1>2. BridgeInv' /\ [Next]_vars
  BY LooksAway
<1> QED
  BY <1>1, <1>2 DEF ProgramInv, Holding, Asking

LEMMA WaysOut ==
    /\ << >> \in Seq(Places) /\ << String >> \in Seq(Places)
    /\ << Data, String >> \in Seq(Places)
    /\ << Data, String, InvalidString >> \in Seq(Places)
    /\ {} = {<< >>[i] : i \in 1 .. Len(<< >>)}
    /\ {String} = {<< String >>[i] : i \in 1 .. Len(<< String >>)}
    /\ {String, Data} =
          {<< Data, String >>[i] : i \in 1 .. Len(<< Data, String >>)}
    /\ Places = {<< Data, String, InvalidString >>[i] :
                    i \in 1 .. Len(<< Data, String, InvalidString >>)}
<1>1. /\ Len(<< String >>) = 1 /\ Len(<< Data, String >>) = 2 /\ Len(<< >>) = 0
      /\ Len(<< Data, String, InvalidString >>) = 3
  OBVIOUS
<1>2. 1 .. 0 = {} /\ 1 .. 1 = {1} /\ 1 .. 2 = {1, 2} /\ 1 .. 3 = {1, 2, 3}
  OBVIOUS
<1> QED
  BY <1>1, <1>2, Variables

LEMMA LeaveTwo ==
    ASSUME ProgramInv, pc = "idle", UNCHANGED << client, locals >>, NEW code,
           Leave(code, << Data, String >>), mine = {String, Data}
    PROVE  ProgramInv' /\ [Next]_vars
<1>1. \A i \in 1 .. Len(<< Data, String >>), j \in 1 .. Len(<< Data, String >>) :
          i # j => << Data, String >>[i] # << Data, String >>[j]
  BY Variables
<1> QED
  BY <1>1, LeaveProgram, WaysOut

LEMMA CreatedProgram ==
    ASSUME ProgramInv, Created, UNCHANGED locals PROVE ProgramInv' /\ [Next]_vars
<1>1. /\ at = "created" /\ pc = "idle" /\ UNCHANGED client
      /\ mine = IF status = OK THEN {String} ELSE {}
  BY DEF Created, Looks, ProgramInv, Holding, Asking
<1>2. CASE status = OK
  <2>1. at' = "copy" /\ toRelease' = toRelease /\ UNCHANGED client
    BY <1>1, <1>2 DEF Created, Proceed
  <2>2. BridgeInv' /\ [Next]_vars
    BY <1>1, LooksAway
  <2> QED
    BY <1>1, <1>2, <2>1, <2>2 DEF ProgramInv, Holding, Asking, client
<1>3. CASE status # OK
  <2>1. Leave(1, << >>) /\ mine = {}
    BY <1>1, <1>3 DEF Created
  <2> QED
    BY <1>1, <2>1, LeaveProgram, WaysOut
<1> QED
  BY <1>2, <1>3

LEMMA CopiedProgram ==
    ASSUME ProgramInv, CopiedData, UNCHANGED locals PROVE ProgramInv' /\ [Next]_vars
<1>1. PICK expected : Copied(expected)
  BY Zenon DEF CopiedData
<1>2. /\ at = "copied" /\ pc = "idle" /\ UNCHANGED client
      /\ mine = IF status = OK THEN {String, Data} ELSE {String}
  BY <1>1 DEF Copied, Looks, ProgramInv, Holding, Asking
<1>3. CASE status # OK
  <2>1. Leave(1, << String >>) /\ mine = {String}
    BY <1>1, <1>2, <1>3 DEF Copied
  <2>2. \A i, j \in 1 .. Len(<< String >>) : i = j
    OBVIOUS
  <2> QED
    BY <1>2, <2>1, <2>2, LeaveProgram, WaysOut
<1>4. CASE status = OK
  <2>1. mine = {String, Data}
    BY <1>2, <1>4
  <2>2. \/ at' = "reject" /\ toRelease' = toRelease
        \/ \E code \in {0, 1} : Leave(code, << Data, String >>)
    BY <1>1, <1>4 DEF Copied, Proceed
  <2>3. CASE at' = "reject" /\ toRelease' = toRelease
    <3>1. BridgeInv' /\ [Next]_vars
      BY <1>2, LooksAway
    <3> QED
      BY <1>2, <2>1, <2>3, <3>1 DEF ProgramInv, Holding, Asking, client
  <2>4. CASE \E code \in {0, 1} : Leave(code, << Data, String >>)
    BY <1>2, <2>1, <2>4, LeaveTwo
  <2> QED
    BY <2>2, <2>3, <2>4
<1> QED
  BY <1>3, <1>4

LEMMA ExpectInvalidProgram ==
    ASSUME ProgramInv, ExpectInvalid, UNCHANGED locals
    PROVE  ProgramInv' /\ [Next]_vars
<1>1. /\ at = "rejected" /\ pc = "idle" /\ UNCHANGED client
      /\ mine = IF status = OK THEN Places ELSE {String, Data}
      /\ status # OK => out[InvalidString] = NULL
  BY DEF ExpectInvalid, Looks, ProgramInv, Holding, Asking
<1>2. status = OK => out[InvalidString] # NULL
  <2>1. status = OK => out[InvalidString] \in DOMAIN objects
    BY <1>1, Variables DEF ProgramInv, BridgeInv, OneHolderPerObject
  <2>2. NULL \notin DOMAIN objects
    BY NullAssumption DEF ProgramInv, BridgeInv, Shape
  <2> QED
    BY <2>1, <2>2
<1>3. CASE status # OK
  <2>1. \E code \in {0, 1} : Leave(code, << Data, String >>)
    BY <1>1, <1>3 DEF ExpectInvalid
  <2> QED
    BY <1>1, <1>3, <2>1, LeaveTwo
<1>4. CASE status = OK
  <2>1. Leave(1, << Data, String, InvalidString >>) /\ mine = Places
    BY <1>1, <1>2, <1>4 DEF ExpectInvalid, OK, INVALID
  <2>2. \A i \in 1 .. Len(<< Data, String, InvalidString >>),
           j \in 1 .. Len(<< Data, String, InvalidString >>) :
              i # j => << Data, String, InvalidString >>[i]
                          # << Data, String, InvalidString >>[j]
    BY Variables
  <2> QED
    BY <1>1, <2>1, <2>2, LeaveProgram, WaysOut
<1> QED
  BY <1>3, <1>4

LEMMA ReleaseProgram ==
    ASSUME ProgramInv, Release, UNCHANGED locals PROVE ProgramInv' /\ [Next]_vars
<1>1. /\ at = "leave" /\ toRelease # << >> /\ toRelease' = Tail(toRelease)
      /\ pc = "idle" /\ at' = at
      /\ UNCHANGED << pc, call, status, out >>
      /\ objects' = [a \in DOMAIN objects \ {out[Head(toRelease)]} |-> objects[a]]
      /\ mine' = mine \ {Head(toRelease)}
      /\ mine = {toRelease[i] : i \in 1 .. Len(toRelease)}
      /\ toRelease \in Seq(Places)
      /\ \A i \in 1 .. Len(toRelease), j \in 1 .. Len(toRelease) :
            i # j => toRelease[i] # toRelease[j]
  BY DEF Release, ReleaseNext, ReleaseObject, ProgramInv, Holding
<1>2. Head(toRelease) = toRelease[1] /\ 1 \in 1 .. Len(toRelease)
      /\ toRelease' \in Seq(Places) /\ Len(toRelease') = Len(toRelease) - 1
      /\ \A i \in 1 .. Len(toRelease') : toRelease'[i] = toRelease[i + 1]
  BY <1>1
<1>3. ClientRelease
  BY <1>1, <1>2 DEF ClientRelease
<1>4. BridgeInv' /\ [Next]_vars
  BY <1>3, ClientBridge DEF ProgramInv, Next, Client
<1>5. \A i \in 1 .. Len(toRelease'), j \in 1 .. Len(toRelease') :
          i # j => toRelease'[i] # toRelease'[j]
  BY <1>1, <1>2
<1>6. mine' = {toRelease'[i] : i \in 1 .. Len(toRelease')}
  <2>1. Len(toRelease) \in Nat
    BY <1>1
  <2>2. \A i \in 1 .. Len(toRelease) : i # 1 =>
            i - 1 \in 1 .. Len(toRelease') /\ toRelease[i] = toRelease'[i - 1]
    BY <1>2, <2>1
  <2>3. \A i \in 1 .. Len(toRelease') :
            i + 1 \in 1 .. Len(toRelease) /\ i + 1 # 1
    BY <1>2, <2>1
  <2>4. \A x : x \in mine' => x \in {toRelease'[i] : i \in 1 .. Len(toRelease')}
    BY <1>1, <1>2, <2>2
  <2>5. \A x : x \in {toRelease'[i] : i \in 1 .. Len(toRelease')} => x \in mine'
    BY <1>1, <1>2, <2>3
  <2> QED
    BY <2>4, <2>5
<1>7. objects' = [a \in DOMAIN objects' |-> objects'[a]]
  BY <1>1
<1> QED
  BY <1>1, <1>2, <1>4, <1>5, <1>6, <1>7 DEF ProgramInv, Holding, Asking

LEMMA ExitProgram ==
    ASSUME ProgramInv, Exit, UNCHANGED locals PROVE ProgramInv' /\ [Next]_vars
<1>1. /\ at = "leave" /\ toRelease = << >> /\ at' = "exit"
      /\ UNCHANGED << client, toRelease >>
      /\ mine = {toRelease[i] : i \in 1 .. Len(toRelease)}
  BY DEF Exit, ProgramInv, Holding
<1>2. mine = {}
  BY <1>1
<1>3. BridgeInv' /\ [Next]_vars
  BY <1>1, LooksAway
<1> QED
  BY <1>1, <1>2, <1>3 DEF ProgramInv, Holding, Asking, client

LEMMA ReturnsProgram ==
    ASSUME ProgramInv, Returns, UNCHANGED locals PROVE ProgramInv' /\ [Next]_vars
<1>1. /\ pc = "returned" /\ pc' = "idle"
      /\ mine' = IF status = OK THEN mine \cup {call.place} ELSE mine
      /\ UNCHANGED << status, out, objects, program, at, toRelease, exit >>
  BY DEF Returns, ClientReturn, clientVars
<1>2. ClientReturn
  BY DEF Returns
<1>3. BridgeInv' /\ [Next]_vars
  BY <1>2, ClientBridge DEF ProgramInv, Next, Client
<1>4. at \in {"created", "copied", "rejected"}
  BY <1>1 DEF ProgramInv
<1>5. call.place # NULL => IF status = OK
                           THEN objects[out[call.place]].kind =
                                   (IF call.fn = "create" THEN "string" ELSE "data")
                           ELSE out[call.place] = NULL
  BY <1>1 DEF ProgramInv, BridgeInv, StatusTellsOutput
<1>6. CASE at = "created"
  BY <1>1, <1>3, <1>5, <1>6, Variables DEF ProgramInv, Holding, Asking
<1>7. CASE at = "copied"
  BY <1>1, <1>3, <1>7, Variables DEF ProgramInv, Holding, Asking
<1>8. CASE at = "rejected"
  BY <1>1, <1>3, <1>5, <1>8, Variables DEF ProgramInv, Holding, Asking
<1> QED
  BY <1>4, <1>6, <1>7, <1>8

LEMMA RunProgram ==
    ASSUME ProgramInv, Run, UNCHANGED clientVars PROVE ProgramInv' /\ [Next]_vars
<1>1. BridgeInv' /\ [Next]_vars
  BY NextBridge DEF ProgramInv, Next
<1>2. pc # "idle" /\ pc' # "idle" /\ UNCHANGED << call, mine >>
  BY DEF Run, CreateCFStringFromBytes, MakeCFString, CopyUTF8DataFromCFString,
         Fill, MakeCFData, Answer, Continue, Deliver, Undelivered
<1>3. objects' = [a \in DOMAIN objects' |-> objects'[a]]
  <2>1. ASSUME NEW kind, NEW text, Deliver(kind, text)
        PROVE  objects' = [a \in DOMAIN objects' |-> objects'[a]]
    BY <2>1 DEF Deliver
  <2>2. ASSUME objects' = objects
        PROVE  objects' = [a \in DOMAIN objects' |-> objects'[a]]
    BY <2>2 DEF ProgramInv
  <2> QED
    BY <2>1, <2>2 DEF Run, CreateCFStringFromBytes, MakeCFString,
       CopyUTF8DataFromCFString, Fill, MakeCFData, Undelivered
<1> QED
  BY <1>1, <1>2, <1>3 DEF ProgramInv, Holding, Asking, clientVars

LEMMA ProgramStep ==
    ASSUME ProgramInv, [ClientsNext]_allVars PROVE ProgramInv' /\ [Next]_vars
<1>1. CASE UNCHANGED allVars
  BY <1>1, ProgramStutter DEF allVars
<1>2. CASE Program /\ UNCHANGED locals
  BY <1>2, CreateStringProgram, CreatedProgram, CopyDataProgram, CopiedProgram,
     RejectProgram, ExpectInvalidProgram, ReleaseProgram, ExitProgram,
     ReturnsProgram DEF Program
<1>3. CASE Run /\ UNCHANGED clientVars
  BY <1>3, RunProgram
<1> QED
  BY <1>1, <1>2, <1>3 DEF ClientsNext

LEMMA ProgramAlways == ClientsSpec => []ProgramInv
<1>1. ProgramInv /\ [ClientsNext]_allVars => ProgramInv'
  BY ProgramStep
<1> QED
  BY <1>1, InitProgram, PTL DEF ClientsSpec

\* The probe, the example and the consumer's probe are clients such as
\* LeoUTF8CoreFoundation expects: they pass live strings, no variable that
\* holds an object, and release an object once.
THEOREM ProgramsAreLawful == ClientsSpec => Init /\ [][Next]_vars
<1>1. ClientsInit => Init
  BY DEF ClientsInit
<1>2. ProgramInv /\ [ClientsNext]_allVars => [Next]_vars
  BY ProgramStep
<1> QED
  BY <1>1, <1>2, ProgramAlways, PTL DEF ClientsSpec

\* Whatever CoreFoundation fails to make, a program has released every object
\* it was handed when it exits.
THEOREM ProgramsHoldNothing == ClientsSpec => []NothingHeldAtExit
<1>1. ProgramInv => NothingHeldAtExit
  BY DEF ProgramInv, Holding, NothingHeldAtExit, BridgeInv, OneHolderPerObject,
         Pending
<1> QED
  BY <1>1, ProgramAlways, PTL
==============================================================================
