----------------------- MODULE LeoUTF8FoundationProofs -----------------------
(***************************************************************************)
(* The Foundation bridge hands out every object once, and each is the text *)
(* that was asked for, whole and unchanged.                                *)
(***************************************************************************)
EXTENDS LeoUTF8Foundation, LeoUTF8BridgeProofs

LEMMA CreateBridge == ASSUME BridgeInv, CreateNSStringFromBytes PROVE BridgeInv'
<1>1. pc = "create" /\ ClearOutput /\ UNCHANGED << call, objects, mine >>
  BY DEF CreateNSStringFromBytes
<1>2. \/ pc' = "returned" /\ status' # OK
      \/ pc' = "make" /\ call.place # NULL
  BY DEF CreateNSStringFromBytes, Answer, Continue, INVALID, OK
<1>3. call.place \in {NULL} \cup Places
  BY DEF BridgeInv, Shape
<1> QED
  BY <1>1, <1>2, <1>3, QuietBridge DEF CreateSteps, CopySteps, MakingSteps

LEMMA MakeBridge == ASSUME BridgeInv, MakeNSString PROVE BridgeInv'
<1>1. pc = "make" /\ UNCHANGED << call, mine >>
  BY DEF MakeNSString
<1>2. CASE Deliver("string", ToUnits(call.text))
  BY <1>1, <1>2, DeliverBridge
<1>3. CASE Undelivered(INVALID)
  <2>1. pc' = "returned" /\ status' # OK /\ UNCHANGED << out, objects >>
    BY <1>3 DEF Undelivered, Answer, INVALID, OK
  <2> QED
    BY <1>1, <2>1, QuietBridge DEF CreateSteps, CopySteps, MakingSteps
<1> QED
  BY <1>2, <1>3 DEF MakeNSString

LEMMA CopyBridge ==
    ASSUME BridgeInv, CopyUTF8DataFromNSString PROVE BridgeInv'
<1>1. pc = "copy" /\ ClearOutput /\ UNCHANGED << call, objects, mine >>
  BY DEF CopyUTF8DataFromNSString
<1>2. \/ pc' = "returned" /\ status' # OK
      \/ pc' = "data" /\ call.place # NULL
  BY DEF CopyUTF8DataFromNSString, Answer, Continue, INVALID, ERROR, OK
<1>3. call.place \in {NULL} \cup Places
  BY DEF BridgeInv, Shape
<1> QED
  BY <1>1, <1>2, <1>3, QuietBridge DEF CreateSteps, CopySteps, MakingSteps

LEMMA DataBridge == ASSUME BridgeInv, MakeNSData PROVE BridgeInv'
<1>1. pc = "data" /\ UNCHANGED << call, mine >>
  BY DEF MakeNSData
<1>2. CASE Undelivered(NO_MEMORY)
  <2>1. pc' = "returned" /\ status' # OK /\ UNCHANGED << out, objects >>
    BY <1>2 DEF Undelivered, Answer, NO_MEMORY, OK
  <2> QED
    BY <1>1, <2>1, QuietBridge DEF CreateSteps, CopySteps, MakingSteps
<1>3. CASE \E text : Deliver("data", text)
  BY <1>1, <1>3, DeliverBridge
<1> QED
  BY <1>2, <1>3 DEF MakeNSData

LEMMA NextBridge == ASSUME BridgeInv, [Next]_vars PROVE BridgeInv'
<1>1. CASE Run
  BY <1>1, CreateBridge, MakeBridge, CopyBridge, DataBridge DEF Run
<1>2. CASE Client
  BY <1>2, ClientBridge DEF Client
<1>3. CASE UNCHANGED vars
  BY <1>3, StutterBridge DEF vars
<1> QED
  BY <1>1, <1>2, <1>3 DEF Next

LEMMA BridgeAlways == Spec => []BridgeInv
<1>1. Init => BridgeInv
  BY InitBridge DEF Init
<1>2. BridgeInv /\ [Next]_vars => BridgeInv'
  BY NextBridge
<1> QED
  BY <1>1, <1>2, PTL DEF Spec

\* Every live object has exactly one holder, for any texts, any number of
\* variables and however often Foundation fails: LeoUTF8CreateNSStringFromBytes
\* and LeoUTF8CopyUTF8DataFromNSString leak nothing and share nothing.
THEOREM ObjectsHeldOnce == Spec => []OneHolderPerObject
<1>1. BridgeInv => OneHolderPerObject
  BY DEF BridgeInv
<1> QED
  BY <1>1, BridgeAlways, PTL

\* LEO_UTF8_OK comes with a live object of the kind asked for, every other
\* status with nil.
THEOREM OutputsTrue == Spec => []StatusTellsOutput
<1>1. BridgeInv => StatusTellsOutput
  BY DEF BridgeInv
<1> QED
  BY <1>1, BridgeAlways, PTL

-----------------------------------------------------------------------------
(* Texts.                                                                  *)

\* The bytes UTF8String answered are the string's, with a NUL after them.
BytesInv ==
    /\ pc \in {"idle", "create", "make", "copy", "data", "returned"}
    /\ pc # "data" => utf8 = NULL
    /\ pc = "data" => utf8 = Append(ToBytes(call.text), 0)

CallInv == BridgeInv /\ TextInv /\ BytesInv

\* A string that has UTF-8 has it in ToBytes.
LEMMA ToBytesWhole ==
    ASSUME NEW string \in Seq(Unit), Convertible(string)
    PROVE  ToBytes(string) \in Seq(Byte) /\ SameText(string, ToBytes(string))
<1>1. /\ Unbounded(string) \in Nat
      /\ Conversion(string, Unbounded(string)).units = Len(string)
  BY UnboundedEnough
<1> QED
  BY <1>1, WholeConversion DEF ToBytes, SameText

LEMMA CreateTexts ==
    ASSUME CallInv, CreateNSStringFromBytes
    PROVE  TextInv' /\ BytesInv' /\ (Bridge!Refuse \/ UNCHANGED Bridge!promised)
<1>1. /\ pc = "create" /\ UNCHANGED << call, objects, mine, utf8 >>
      /\ utf8 = NULL
  BY DEF CreateNSStringFromBytes, CallInv, BytesInv
<1>2. /\ pc \in CreateSteps \cup CopySteps
      /\ call.text \in {NULL} \cup Seq(Byte)
  BY <1>1 DEF CreateSteps, CallInv, TextInv, CallChecked
<1>3. \/ pc' = "returned" /\ status' \in {INVALID, ERROR}
      \/ /\ pc' = "make" /\ status' = status /\ call.text # NULL
         /\ WellFormed(call.text)
  <2> DEFINE code == IF NULL \in {call.place, call.text} THEN INVALID
                     ELSE ValidateBytes(call.text, call.length)
  <2>1. \/ code # OK /\ Answer(code)
        \/ code = OK /\ Continue("make")
    BY Zenon DEF CreateNSStringFromBytes
  <2>2. /\ code \in {OK, INVALID, ERROR}
        /\ code = OK => call.text # NULL /\ WellFormed(call.text)
    BY Zenon DEF ValidateBytes, OK, INVALID, ERROR
  <2> HIDE DEF code
  <2> QED
    BY <2>1, <2>2 DEF Answer, Continue, OK, INVALID, ERROR
<1>4. CallChecked'
  BY <1>1, <1>2, <1>3 DEF CallChecked, CreateSteps
<1>5. \/ pc' = "returned" /\ status' \in Status \ {OK}
      \/ pc' \in MakingSteps /\ UNCHANGED status
  BY <1>3 DEF MakingSteps, Status, OK, INVALID, ERROR
<1>6. TextInv' /\ (Bridge!Refuse \/ UNCHANGED Bridge!promised)
  BY <1>1, <1>2, <1>4, <1>5, QuietTexts DEF CallInv
<1>7. BytesInv'
  BY <1>1, <1>3 DEF BytesInv
<1> QED
  BY <1>6, <1>7

LEMMA MakeTexts ==
    ASSUME CallInv, MakeNSString
    PROVE  /\ TextInv' /\ BytesInv'
           /\ Bridge!Cross \/ Bridge!Refuse \/ UNCHANGED Bridge!promised
<1>1. /\ pc = "make" /\ UNCHANGED << call, mine, utf8 >> /\ utf8 = NULL
  BY DEF MakeNSString, CallInv, BytesInv
<1>2. /\ call.text \in Seq(Byte) /\ WellFormed(call.text)
      /\ pc \in CreateSteps \cup CopySteps
  BY <1>1 DEF CreateSteps, CallInv, TextInv, CallChecked
<1>3. CASE Deliver("string", ToUnits(call.text))
  <2>1. ToUnits(call.text) \in Seq(Unit) /\ SameText(ToUnits(call.text), call.text)
    BY <1>2, ToUnitsString DEF SameText
  <2>2. TextInv' /\ Bridge!Cross
    BY <1>1, <1>3, <2>1, DeliverTexts DEF CallInv
  <2>3. BytesInv'
    BY <1>1, <1>3 DEF BytesInv, Deliver, Answer
  <2> QED
    BY <2>2, <2>3
<1>4. CASE Undelivered(INVALID)
  <2>1. pc' = "returned" /\ status' = INVALID /\ UNCHANGED objects
    BY <1>4 DEF Undelivered, Answer
  <2>2. CallChecked'
    BY <1>1, <1>2, <2>1 DEF CallChecked, CreateSteps
  <2>3. TextInv' /\ (Bridge!Refuse \/ UNCHANGED Bridge!promised)
    BY <1>1, <1>2, <2>1, <2>2, QuietTexts DEF CallInv, Status, OK, INVALID
  <2>4. BytesInv'
    BY <1>1, <2>1 DEF BytesInv
  <2> QED
    BY <2>3, <2>4
<1> QED
  BY <1>3, <1>4 DEF MakeNSString

LEMMA CopyTexts ==
    ASSUME CallInv, CopyUTF8DataFromNSString
    PROVE  TextInv' /\ BytesInv' /\ (Bridge!Refuse \/ UNCHANGED Bridge!promised)
<1>1. /\ pc = "copy" /\ UNCHANGED << call, objects, mine >> /\ utf8 = NULL
      /\ pc \in CreateSteps \cup CopySteps
  BY DEF CopyUTF8DataFromNSString, CallInv, BytesInv, CopySteps
<1>2. \/ pc' = "returned" /\ status' \in {INVALID, ERROR} /\ UNCHANGED utf8
      \/ /\ call.text # NULL /\ Convertible(call.text)
         /\ pc' = "data" /\ status' = status
         /\ utf8' = Append(ToBytes(call.text), 0)
  BY DEF CopyUTF8DataFromNSString, Answer, Continue
<1>3. CallChecked'
  BY <1>1, <1>2 DEF CallChecked, CreateSteps
<1>4. \/ pc' = "returned" /\ status' \in Status \ {OK}
      \/ pc' \in MakingSteps /\ UNCHANGED status
  BY <1>2 DEF MakingSteps, Status, OK, INVALID, ERROR
<1>5. TextInv' /\ (Bridge!Refuse \/ UNCHANGED Bridge!promised)
  BY <1>1, <1>3, <1>4, QuietTexts DEF CallInv
<1>6. BytesInv'
  BY <1>1, <1>2 DEF BytesInv
<1> QED
  BY <1>5, <1>6

\* lengthOfBytesUsingEncoding: counts the bytes before the last NUL, and no others.
LEMMA BytesBeforeNul ==
    ASSUME NEW bytes \in Seq(Byte)
    PROVE  /\ SubSeq(Append(bytes, 0), 1, Len(bytes)) = bytes
           /\ Append(bytes, 0) \in Seq(Byte)
<1>1. 0 \in Byte
  BY SMT DEF Byte
<1>2. SubSeq(Append(bytes, 0), 1, Len(bytes)) = bytes
  BY SMT
<1> QED
  BY <1>1, <1>2

LEMMA DataTexts ==
    ASSUME CallInv, MakeNSData
    PROVE  /\ TextInv' /\ BytesInv'
           /\ Bridge!Cross \/ Bridge!Refuse \/ UNCHANGED Bridge!promised
<1> DEFINE bytes == SubSeq(utf8, 1, LengthOfBytes(call.text))
<1>1. /\ pc = "data" /\ UNCHANGED << call, mine >> /\ utf8' = NULL
      /\ pc \in CreateSteps \cup CopySteps
  BY DEF MakeNSData, CopySteps
<1>2. /\ call.text # NULL /\ Convertible(call.text) /\ call.text \in Seq(Unit)
      /\ utf8 = Append(ToBytes(call.text), 0)
  BY <1>1 DEF CallInv, TextInv, CallChecked, CallTyped, BytesInv
<1>3. bytes \in Seq(Unit) /\ SameText(call.text, bytes)
  <2>1. ToBytes(call.text) \in Seq(Byte) /\ SameText(call.text, ToBytes(call.text))
    BY <1>2, ToBytesWhole
  <2>2. bytes = ToBytes(call.text)
    BY <1>2, <2>1, BytesBeforeNul DEF LengthOfBytes
  <2> QED
    BY <2>1, <2>2, BytesAreUnits
<1>4. CASE Deliver("data", bytes)
  <2>1. TextInv' /\ Bridge!Cross
    BY <1>1, <1>3, <1>4, DeliverTexts DEF CallInv
  <2>2. BytesInv'
    BY <1>1, <1>4 DEF BytesInv, Deliver, Answer
  <2> QED
    BY <2>1, <2>2
<1>5. CASE Undelivered(NO_MEMORY)
  <2>1. pc' = "returned" /\ status' = NO_MEMORY /\ UNCHANGED objects
    BY <1>5 DEF Undelivered, Answer
  <2>2. CallChecked'
    BY <1>1, <1>2, <2>1 DEF CallChecked, CreateSteps
  <2>3. TextInv' /\ (Bridge!Refuse \/ UNCHANGED Bridge!promised)
    BY <1>1, <2>1, <2>2, QuietTexts DEF CallInv, Status, OK, NO_MEMORY
  <2>4. BytesInv'
    BY <1>1, <2>1 DEF BytesInv
  <2> QED
    BY <2>3, <2>4
<1>6. Deliver("data", bytes) \/ Undelivered(NO_MEMORY)
  BY DEF MakeNSData
<1> QED
  BY <1>4, <1>5, <1>6

LEMMA NextTexts ==
    ASSUME CallInv, [Next]_vars
    PROVE  CallInv' /\ [Bridge!Next]_(Bridge!promised)
<1>1. BridgeInv'
  BY NextBridge DEF CallInv
<1>2. CASE Run
  BY <1>1, <1>2, CreateTexts, MakeTexts, CopyTexts, DataTexts
     DEF Run, CallInv, Bridge!Next
<1>3. CASE Client /\ UNCHANGED utf8
  <2>1. TextInv' /\ [Bridge!Next]_(Bridge!promised)
    BY <1>3, ClientTexts DEF Client, CallInv
  <2>2. \/ pc = "idle" /\ pc' \in {"idle", "create", "copy"}
        \/ pc = "returned" /\ pc' = "idle"
    BY <1>3 DEF Client, CallCreate, CallCopy, Call, ClientReturn, ClientRelease
  <2>3. BytesInv'
    BY <1>3, <2>2 DEF CallInv, BytesInv
  <2> QED
    BY <1>1, <2>1, <2>3 DEF CallInv
<1>4. CASE UNCHANGED vars
  <2>1. TextInv' /\ UNCHANGED Bridge!promised
    BY <1>4, StutterTexts DEF vars, CallInv
  <2>2. BytesInv'
    BY <1>4 DEF vars, client, CallInv, BytesInv
  <2> QED
    BY <1>1, <2>1, <2>2 DEF CallInv
<1> QED
  BY <1>2, <1>3, <1>4 DEF Next

LEMMA InitCall == ASSUME Init PROVE CallInv /\ Bridge!Init
<1>1. BridgeInv /\ TextInv /\ Bridge!Init
  BY InitBridge, InitTexts DEF Init
<1>2. BytesInv
  BY DEF Init, ClientInit, BytesInv
<1> QED
  BY <1>1, <1>2 DEF CallInv

LEMMA CallAlways == Spec => []CallInv
<1>1. Init => CallInv
  BY InitCall
<1>2. CallInv /\ [Next]_vars => CallInv'
  BY NextTexts
<1> QED
  BY <1>1, <1>2, PTL DEF Spec

\* The variables of LeoUTF8CopyUTF8DataFromNSString, of its sibling and of their
\* client keep their types: whenever NSData is made there are bytes to copy.
THEOREM BytesTypeCorrect == Spec => []TypeOK
<1>1. CallInv => TypeOK
  <2> SUFFICES ASSUME CallInv PROVE TypeOK
    OBVIOUS
  <2>1. ClientTypeOK
    BY DEF CallInv, BridgeInv, Shape, TextInv, CallTyped, ClientTypeOK
  <2>2. utf8 \in (IF pc = "data" THEN Seq(Byte) ELSE {NULL})
    <3>1. CASE pc = "data"
      <4>1. Convertible(call.text) /\ call.text \in Seq(Unit)
        BY <3>1 DEF CallInv, TextInv, CallChecked, CallTyped
      <4>2. ToBytes(call.text) \in Seq(Byte)
        BY <4>1, ToBytesWhole
      <4>3. utf8 \in Seq(Byte)
        BY <3>1, <4>2, BytesBeforeNul DEF CallInv, BytesInv
      <4> QED
        BY <3>1, <4>3
    <3>2. CASE pc # "data"
      BY <3>2 DEF CallInv, BytesInv
    <3> QED
      BY <3>1, <3>2
  <2>3. pc \in {"idle", "create", "make", "copy", "data", "returned"}
    BY DEF CallInv, BytesInv
  <2> QED
    BY <2>1, <2>2, <2>3 DEF TypeOK
<1> QED
  BY <1>1, CallAlways, PTL

\* The safety part of the refinement of TextBridge: every object a caller gets
\* from Foundation is the text it gave, whole and unchanged, its NULs included,
\* although the bytes and their length come from two methods of the string.
THEOREM TextsCrossWhole == Spec => Bridge!Crossings
<1>1. Init => Bridge!Init
  BY InitCall
<1>2. CallInv /\ [Next]_vars => [Bridge!Next]_(Bridge!promised)
  BY NextTexts
<1> QED
  BY <1>1, <1>2, CallAlways, PTL DEF Spec, Bridge!Crossings
==============================================================================
