-------------------------- MODULE LeoUTF8CoreProofs --------------------------
(***************************************************************************)
(* Ownership of the memory LeoUTF8Core hands out, for any number of output *)
(* variables, any texts and any heap; and the C programs that live on it.  *)
(***************************************************************************)
EXTENDS CoreClients, TLAPS

\* What a call carries from step to step: the place is one the client has
\* nothing to free in; once the engine is called, the place is a real one and
\* has been cleared; what the engine delivers is in the heap.
CallInProgress ==
    /\ pc # "idle" => call.place \notin mine
    /\ pc \in {"engine", "mapped"} =>
          /\ call.place \in Places /\ call.text \in Texts
          /\ call.text \notin Oversized
          /\ ReachedMapBytes
          /\ out[call.place] = NULL
          /\ call.wantLen => outLen[call.place] = 0
    /\ (pc = "mapped" /\ rc >= 0) =>
          /\ mapped \in DOMAIN heap
          /\ heap[mapped] = << call.options, call.text >>
          /\ rc = ResultLength[<< call.options, call.text >>]
    /\ (pc = "returned" /\ status = OK) =>
          call.place \in Places /\ out[call.place] \in DOMAIN heap

IInv == /\ TypeOK
        /\ CallInProgress
        /\ OneHolderPerAllocation
        /\ StatusTellsOutputs

Shape == /\ call.options \in Options /\ call.wantLen \in BOOLEAN
         /\ call.text \in {NULL} \cup Texts
         /\ call.place \in {NULL} \cup Places

LEMMA CallShape == ASSUME TypeOK PROVE Shape
BY DEF TypeOK, Shape

LEMMA InitIInv == Init => IInv
<1> SUFFICES ASSUME Init PROVE IInv
  OBVIOUS
<1>1. TypeOK
  BY SMT DEF Init, TypeOK, NoCall, Options, Status
<1>2. CallInProgress /\ OneHolderPerAllocation /\ StatusTellsOutputs
  BY DEF Init, CallInProgress, OneHolderPerAllocation, StatusTellsOutputs,
         Pending
<1> QED
  BY <1>1, <1>2 DEF IInv

-----------------------------------------------------------------------------
(* Beginning a call.                                                       *)

LEMMA ArgumentsShape ==
    ASSUME NEW isCString \in BOOLEAN, NEW args \in Arguments(isCString)
    PROVE  /\ args \in [options : Options, cString : BOOLEAN,
                        wantLen : BOOLEAN, text : {NULL} \cup Texts,
                        place : {NULL} \cup Places]
           /\ args.cString = isCString
           /\ args.place \in {NULL} \cup (Places \ mine)
BY SMT DEF Arguments

LEMMA NullNotMine == ASSUME TypeOK PROVE NULL \notin mine
BY NullAssumption DEF TypeOK

LEMMA BeginIInv ==
    ASSUME IInv, NEW isCString \in BOOLEAN, call' \in Arguments(isCString),
           pc = "idle",
           \/ pc' = "map" /\ status' = status
           \/ /\ isCString /\ call'.text = NULL
              /\ pc' = "returned" /\ status' = INVALID,
           UNCHANGED << mapped, rc, out, outLen, heap, mine >>
    PROVE  IInv'
<1>1. /\ call' \in [options : Options, cString : BOOLEAN, wantLen : BOOLEAN,
                    text : {NULL} \cup Texts, place : {NULL} \cup Places]
      /\ call'.cString = isCString
      /\ call'.place \in {NULL} \cup (Places \ mine)
  BY ArgumentsShape
<1>2. call'.place \notin mine'
  BY <1>1, NullNotMine DEF IInv
<1>3. status' \in Status /\ pc' \in {"map", "returned"}
      /\ (pc' = "returned" => status' = INVALID)
  BY DEF IInv, TypeOK, Status
<1>4. TypeOK'
  BY <1>1, <1>3 DEF IInv, TypeOK
<1>5. INVALID # OK
  BY DEF INVALID, OK
<1>6. CallInProgress'
  BY <1>2, <1>3, <1>5 DEF CallInProgress
<1>7. Pending' = {} /\ Pending = {}
  BY <1>3, <1>5 DEF Pending
<1>8. OneHolderPerAllocation'
  BY <1>7 DEF IInv, OneHolderPerAllocation
<1>9. StatusTellsOutputs'
  <2>1. pc' = "returned" => ~ ReachedMapBytes'
    BY <1>1, <1>3 DEF ReachedMapBytes
  <2> QED
    BY <2>1 DEF StatusTellsOutputs
<1> QED
  BY <1>4, <1>6, <1>8, <1>9 DEF IInv

LEMMA PrepareIInv == ASSUME IInv, Prepare PROVE IInv'
<1>1. PICK v \in Places \ mine, a \in Addresses \cup {NULL}, n \in Leftovers :
          /\ out' = [out EXCEPT ![v] = a]
          /\ outLen' = [outLen EXCEPT ![v] = n]
  BY DEF Prepare
<1>2. /\ pc = "idle" /\ pc' = "idle"
      /\ UNCHANGED << call, mapped, rc, status, heap, mine >>
  BY DEF Prepare
<1>3. TypeOK /\ OneHolderPerAllocation /\ mine \subseteq Places
  BY DEF IInv, TypeOK
<1>4. /\ out' \in [Places -> Addresses \cup {NULL}]
      /\ outLen' \in [Places -> Nat]
      /\ \A w \in mine : out'[w] = out[w]
  BY <1>1, <1>3, LeftoverAssumption DEF TypeOK
<1>5. TypeOK'
  BY <1>2, <1>3, <1>4 DEF TypeOK
<1>6. Pending = {} /\ Pending' = {}
  BY <1>2 DEF Pending
<1>7. OneHolderPerAllocation'
  <2>1. {out'[w] : w \in mine} = {out[w] : w \in mine}
    BY <1>4
  <2> QED
    BY <1>2, <1>3, <1>4, <1>6, <2>1 DEF OneHolderPerAllocation
<1> QED
  BY <1>2, <1>5, <1>7 DEF IInv, CallInProgress, StatusTellsOutputs

LEMMA CallBytesIInv == ASSUME IInv, CallBytes PROVE IInv'
<1>1. FALSE \in BOOLEAN
  OBVIOUS
<1>2. /\ call' \in Arguments(FALSE)
      /\ pc = "idle" /\ pc' = "map" /\ status' = status
      /\ UNCHANGED << mapped, rc, out, outLen, heap, mine >>
  BY DEF CallBytes
<1> QED
  BY Zenon, <1>1, <1>2, BeginIInv

LEMMA CallCStringIInv == ASSUME IInv, CallCString PROVE IInv'
<1>1. TRUE \in BOOLEAN
  OBVIOUS
<1>2. /\ call' \in Arguments(TRUE)
      /\ pc = "idle"
      /\ \/ pc' = "map" /\ status' = status
         \/ TRUE /\ call'.text = NULL /\ pc' = "returned" /\ status' = INVALID
      /\ UNCHANGED << mapped, rc, out, outLen, heap, mine >>
  BY Zenon DEF CallCString
<1> QED
  BY Zenon, <1>1, <1>2, BeginIInv

-----------------------------------------------------------------------------
(* LeoUTF8MapBytes.                                                        *)

LEMMA EnterIInv == ASSUME IInv, Enter PROVE IInv'
<1>0. /\ pc = "map"
      /\ pc' \in {"returned", "engine"}
      /\ UNCHANGED << call, mapped, rc, heap, mine >>
  BY DEF Enter
<1>1. /\ out \in [Places -> Addresses \cup {NULL}]
      /\ outLen \in [Places -> Nat]
      /\ Shape /\ call.place \notin mine /\ TypeOK
  BY <1>0, CallShape DEF IInv, CallInProgress, TypeOK
<1>2. pc' = "returned" => status' \in {ERROR, INVALID}
  BY DEF Enter
<1>3. pc' = "engine" => /\ status' = status
                        /\ call.place \in Places /\ call.text \in Texts
                        /\ call.text \notin Oversized
  BY <1>1 DEF Enter, Shape
<1>4. CASE call.place = NULL
  <2>1. pc' = "returned" /\ UNCHANGED << out, outLen >>
    BY <1>4 DEF Enter
  <2>2. status' \in Status /\ status' # OK
    BY <1>2, <2>1 DEF Status, OK, ERROR, INVALID
  <2>3. TypeOK'
    BY <1>0, <1>1, <2>1, <2>2 DEF TypeOK
  <2>4. CallInProgress'
    BY <1>0, <1>1, <2>1, <2>2 DEF CallInProgress
  <2>5. OneHolderPerAllocation'
    BY <1>0, <2>1, <2>2 DEF IInv, OneHolderPerAllocation, Pending
  <2>6. StatusTellsOutputs'
    BY <1>0, <1>4 DEF StatusTellsOutputs
  <2> QED
    BY <2>3, <2>4, <2>5, <2>6 DEF IInv
<1>5. CASE call.place # NULL
  <2>1. /\ out' = [out EXCEPT ![call.place] = NULL]
        /\ outLen' = IF call.wantLen
                     THEN [outLen EXCEPT ![call.place] = 0] ELSE outLen
        /\ call.place \in Places
    BY <1>1, <1>5 DEF Enter, Shape
  <2>2. /\ out' \in [Places -> Addresses \cup {NULL}]
        /\ outLen' \in [Places -> Nat]
        /\ out'[call.place] = NULL
        /\ call.wantLen => outLen'[call.place] = 0
    BY SMT, <1>1, <2>1
  <2>3. status' \in Status /\ (pc' = "returned" => status' # OK)
    BY <1>0, <1>1, <1>2, <1>3 DEF TypeOK, Status, OK, ERROR, INVALID
  <2>4. TypeOK'
    BY <1>0, <1>1, <2>2, <2>3 DEF TypeOK
  <2>5. pc' = "engine" => ReachedMapBytes'
    BY <1>0, <1>3, NullAssumption DEF ReachedMapBytes
  <2>6. CallInProgress'
    BY <1>0, <1>1, <1>3, <2>2, <2>3, <2>5 DEF CallInProgress
  <2>7. \A v \in mine : out'[v] = out[v]
    BY <1>1, <2>1 DEF TypeOK
  <2>8. Pending = {} /\ Pending' = {}
    BY <1>0, <2>3 DEF Pending
  <2>9. OneHolderPerAllocation'
    <3>1. {out'[v] : v \in mine} = {out[v] : v \in mine}
      BY <2>7
    <3> QED
      BY <1>0, <2>7, <2>8, <3>1 DEF IInv, OneHolderPerAllocation
  <2>10. StatusTellsOutputs'
    BY <1>0, <2>2, <2>3 DEF StatusTellsOutputs
  <2> QED
    BY <2>4, <2>6, <2>9, <2>10 DEF IInv
<1> QED
  BY <1>4, <1>5

LEMMA EngineMapsIInv == ASSUME IInv, EngineMaps PROVE IInv'
<1>0. /\ pc = "engine" /\ pc' = "mapped"
      /\ mapped' \in Addresses /\ mapped' \notin DOMAIN heap
      /\ DOMAIN heap' = DOMAIN heap \cup {mapped'}
      /\ heap'[mapped'] = << call.options, call.text >>
      /\ \A a \in DOMAIN heap : heap'[a] = heap[a]
      /\ rc' = ResultLength[<< call.options, call.text >>]
      /\ UNCHANGED << call, status, out, outLen, mine >>
  BY DEF EngineMaps
<1>1. TypeOK /\ CallInProgress /\ OneHolderPerAllocation /\ Shape
  BY CallShape DEF IInv
<1>2. call.options \in Options /\ call.text \in Texts
  BY <1>0, <1>1 DEF Shape, CallInProgress
<1>3. rc' \in Nat
  BY <1>0, <1>2, TextAssumption
<1>4. TypeOK'
  <2>1. DOMAIN heap' \subseteq Addresses
    BY <1>0, <1>1 DEF TypeOK
  <2>2. \A a \in DOMAIN heap' : heap'[a] \in Options \X Texts
    BY <1>0, <1>1, <1>2 DEF TypeOK
  <2>3. rc' \in Int
    BY SMT, <1>3
  <2> QED
    BY <1>0, <1>1, <2>1, <2>2, <2>3 DEF TypeOK
<1>5. CallInProgress'
  BY <1>0, <1>1 DEF CallInProgress, ReachedMapBytes
<1>6. Pending = {} /\ Pending' = {mapped'}
  BY SMT, <1>0, <1>3 DEF Pending
<1>7. OneHolderPerAllocation'
  <2>1. DOMAIN heap = {out[v] : v \in mine}
    BY <1>1, <1>6 DEF OneHolderPerAllocation
  <2>2. \A v \in mine : out[v] # mapped'
    BY <1>0, <2>1
  <2> QED
    BY <1>0, <1>1, <1>6, <2>1, <2>2 DEF OneHolderPerAllocation
<1>8. StatusTellsOutputs'
  BY <1>0 DEF StatusTellsOutputs
<1> QED
  BY <1>4, <1>5, <1>7, <1>8 DEF IInv

LEMMA EngineFailsIInv == ASSUME IInv, EngineFails PROVE IInv'
<1>0. /\ pc = "engine" /\ pc' = "mapped"
      /\ UNCHANGED << call, mapped, status, out, outLen, heap, mine >>
  BY DEF EngineFails
<1>1. rc' \in Int /\ ~ (rc' >= 0)
  BY SMT DEF EngineFails, UTF8PROC_ERROR_OVERFLOW, UTF8PROC_ERROR_INVALIDUTF8,
             UTF8PROC_ERROR_NOMEM
<1>2. TypeOK'
  BY <1>0, <1>1 DEF IInv, TypeOK
<1>3. CallInProgress'
  BY <1>0, <1>1 DEF IInv, CallInProgress, ReachedMapBytes
<1>4. Pending = {} /\ Pending' = {}
  BY <1>0, <1>1 DEF Pending
<1>5. OneHolderPerAllocation'
  BY <1>0, <1>4 DEF IInv, OneHolderPerAllocation
<1>6. StatusTellsOutputs'
  BY <1>0 DEF StatusTellsOutputs
<1> QED
  BY <1>2, <1>3, <1>5, <1>6 DEF IInv

LEMMA DeliverIInv == ASSUME IInv, Deliver PROVE IInv'
<1>0. /\ pc = "mapped" /\ pc' = "returned"
      /\ mapped' = NULL /\ rc' = 0
      /\ status' = LeoUTF8StatusFromUtf8proc(rc)
      /\ UNCHANGED << call, heap, mine >>
  BY DEF Deliver
<1>1. /\ TypeOK /\ CallInProgress /\ OneHolderPerAllocation
      /\ call.place \in Places /\ call.place \notin mine
      /\ out[call.place] = NULL
      /\ call.wantLen => outLen[call.place] = 0
      /\ out \in [Places -> Addresses \cup {NULL}]
      /\ outLen \in [Places -> Nat]
      /\ rc \in Int /\ mine \subseteq Places
  BY <1>0 DEF IInv, CallInProgress, TypeOK
<1>2. /\ status' \in Status
      /\ rc >= 0 => status' = OK
      /\ rc < 0 => status' # OK
  BY SMT, <1>0, <1>1 DEF LeoUTF8StatusFromUtf8proc, Status, OK, INVALID,
                         NO_MEMORY, ERROR, UTF8PROC_ERROR_NOMEM,
                         UTF8PROC_ERROR_INVALIDUTF8
<1>3. mapped' \in Addresses \cup {NULL} /\ rc' \in Int
  BY SMT, <1>0
<1>4. CASE rc < 0
  <2>0. ~ (rc >= 0)
    BY SMT, <1>1, <1>4
  <2>1. UNCHANGED << out, outLen >> /\ status' # OK
    BY <1>2, <1>4 DEF Deliver
  <2>2. TypeOK'
    BY <1>0, <1>1, <1>2, <1>3, <2>1 DEF TypeOK
  <2>3. CallInProgress'
    BY <1>0, <1>1, <2>1 DEF CallInProgress
  <2>4. Pending = {} /\ Pending' = {}
    BY <1>0, <2>0, <2>1 DEF Pending
  <2>5. OneHolderPerAllocation'
    BY <1>0, <1>1, <2>1, <2>4 DEF OneHolderPerAllocation
  <2>6. StatusTellsOutputs'
    BY <1>0, <1>1, <2>1 DEF StatusTellsOutputs
  <2> QED
    BY <2>2, <2>3, <2>5, <2>6 DEF IInv
<1>5. CASE ~ (rc < 0)
  <2>1. /\ out' = [out EXCEPT ![call.place] = mapped]
        /\ outLen' = IF call.wantLen
                     THEN [outLen EXCEPT ![call.place] = rc] ELSE outLen
    BY <1>5 DEF Deliver
  <2>2. rc \in Nat /\ rc >= 0 /\ status' = OK
    BY SMT, <1>1, <1>2, <1>5
  <2>3. /\ mapped \in DOMAIN heap
        /\ heap[mapped] = << call.options, call.text >>
        /\ rc = ResultLength[<< call.options, call.text >>]
    BY <1>0, <1>1, <2>2 DEF CallInProgress
  <2>4. mapped \in Addresses
    BY <1>1, <2>3 DEF TypeOK
  <2>5. /\ out' \in [Places -> Addresses \cup {NULL}]
        /\ outLen' \in [Places -> Nat]
        /\ out'[call.place] = mapped
        /\ call.wantLen => outLen'[call.place] = rc
    BY SMT, <1>1, <2>1, <2>2, <2>4
  <2>6. TypeOK'
    BY <1>0, <1>1, <1>2, <1>3, <2>5 DEF TypeOK
  <2>7. CallInProgress'
    BY <1>0, <1>1, <2>3, <2>5 DEF CallInProgress
  <2>8. Pending = {mapped} /\ Pending' = {mapped}
    BY <1>0, <2>2, <2>5 DEF Pending
  <2>9. \A v \in mine : out'[v] = out[v]
    BY <1>1, <2>1
  <2>10. OneHolderPerAllocation'
    <3>1. {out'[v] : v \in mine} = {out[v] : v \in mine}
      BY <2>9
    <3> QED
      BY <1>0, <1>1, <2>8, <2>9, <3>1 DEF OneHolderPerAllocation
  <2>11. StatusTellsOutputs'
    BY <1>0, <2>2, <2>3, <2>5 DEF StatusTellsOutputs
  <2> QED
    BY <2>6, <2>7, <2>10, <2>11 DEF IInv
<1> QED
  BY <1>4, <1>5

-----------------------------------------------------------------------------
(* Between calls.                                                          *)

LEMMA ReturnIInv == ASSUME IInv, Return PROVE IInv'
<1>0. /\ pc = "returned" /\ pc' = "idle" /\ call' = NoCall
      /\ mine' = IF status = OK THEN mine \cup {call.place} ELSE mine
      /\ UNCHANGED << mapped, rc, status, out, outLen, heap >>
  BY DEF Return
<1>1. /\ TypeOK /\ CallInProgress /\ OneHolderPerAllocation
      /\ mine \subseteq Places /\ call.place \notin mine
  BY <1>0 DEF IInv, CallInProgress, TypeOK
<1>2. status = OK => call.place \in Places
  BY <1>0, <1>1 DEF CallInProgress
<1>3. TypeOK'
  <2>1. mine' \subseteq Places
    BY <1>0, <1>1, <1>2
  <2>2. NoCall \in [options : Options, cString : BOOLEAN, wantLen : BOOLEAN,
                    text : {NULL} \cup Texts, place : {NULL} \cup Places]
    BY SMT DEF NoCall, Options
  <2> QED
    BY <1>0, <1>1, <2>1, <2>2 DEF TypeOK
<1>4. CallInProgress'
  BY <1>0 DEF CallInProgress
<1>5. Pending' = {}
  BY <1>0 DEF Pending
<1>6. OneHolderPerAllocation'
  <2>1. CASE status = OK
    <3>1. Pending = {out[call.place]}
      BY <1>0, <2>1 DEF Pending
    <3>2. DOMAIN heap = {out[v] : v \in mine'}
      BY <1>0, <1>1, <2>1, <3>1 DEF OneHolderPerAllocation
    <3>3. \A v \in mine', w \in mine' : v # w => out[v] # out[w]
      BY <1>0, <1>1, <2>1, <3>1 DEF OneHolderPerAllocation
    <3> QED
      BY <1>0, <1>5, <3>2, <3>3 DEF OneHolderPerAllocation
  <2>2. CASE status # OK
    <3>1. Pending = {}
      BY <1>0, <2>2 DEF Pending
    <3> QED
      BY <1>0, <1>1, <1>5, <2>2, <3>1 DEF OneHolderPerAllocation
  <2> QED
    BY <2>1, <2>2
<1>7. StatusTellsOutputs'
  BY <1>0 DEF StatusTellsOutputs
<1> QED
  BY <1>3, <1>4, <1>6, <1>7 DEF IInv

LEMMA LeoUTF8FreeIInv == ASSUME IInv, LeoUTF8Free PROVE IInv'
<1>1. PICK v \in mine :
          /\ heap' = [a \in DOMAIN heap \ {out[v]} |-> heap[a]]
          /\ mine' = mine \ {v}
  BY DEF LeoUTF8Free
<1>2. /\ pc = "idle" /\ pc' = "idle"
      /\ UNCHANGED << call, mapped, rc, status, out, outLen >>
  BY DEF LeoUTF8Free
<1>3. TypeOK /\ OneHolderPerAllocation
  BY DEF IInv
<1>4. /\ DOMAIN heap' = DOMAIN heap \ {out[v]}
      /\ \A a \in DOMAIN heap' : heap'[a] = heap[a]
  BY <1>1
<1>5. TypeOK'
  BY <1>1, <1>2, <1>3, <1>4 DEF TypeOK
<1>6. Pending = {} /\ Pending' = {}
  BY <1>2 DEF Pending
<1>7. DOMAIN heap' = {out[w] : w \in mine'}
  BY <1>1, <1>3, <1>4, <1>6 DEF OneHolderPerAllocation
<1>8. OneHolderPerAllocation'
  BY <1>1, <1>2, <1>3, <1>6, <1>7 DEF OneHolderPerAllocation
<1> QED
  BY <1>2, <1>5, <1>8 DEF IInv, CallInProgress, StatusTellsOutputs

LEMMA StutterIInv == ASSUME IInv, UNCHANGED vars PROVE IInv'
BY DEF IInv, vars, TypeOK, CallInProgress, OneHolderPerAllocation,
       StatusTellsOutputs, ReachedMapBytes, Pending

LEMMA NextIInv == IInv /\ [Next]_vars => IInv'
BY PrepareIInv, CallBytesIInv, CallCStringIInv, EnterIInv, EngineMapsIInv, EngineFailsIInv,
   DeliverIInv, ReturnIInv, LeoUTF8FreeIInv, StutterIInv DEF Next, Run

LEMMA SpecIInv == Spec => []IInv
BY InitIInv, NextIInv, PTL DEF Spec

-----------------------------------------------------------------------------
(* What the client may rely on.                                            *)

\* The variables of the six mapping functions keep their types; in
\* particular *outLen never holds an error code converted to a length.
THEOREM CoreTypeCorrect == Spec => []TypeOK
<1>1. IInv => TypeOK
  BY DEF IInv
<1> QED
  BY <1>1, SpecIInv, PTL

\* Whatever sequence of calls, failures and frees a client makes, every live
\* allocation has exactly one holder: nothing leaks, nothing can be freed
\* twice, no two outputs share memory.
THEOREM NothingLeaks == Spec => []OneHolderPerAllocation
<1>1. IInv => OneHolderPerAllocation
  BY DEF IInv
<1> QED
  BY <1>1, SpecIInv, PTL

\* LEO_UTF8_OK comes with live memory holding the mapped text and its length,
\* any other status of LeoUTF8MapBytes with NULL and 0.
THEOREM StatusReliable == Spec => []StatusTellsOutputs
<1>1. IInv => StatusTellsOutputs
  BY DEF IInv
<1> QED
  BY <1>1, SpecIInv, PTL

-----------------------------------------------------------------------------
(* Why a call failed.                                                      *)

\* The engine's answer is about the text it was given.
EngineAnswers ==
    pc = "mapped" =>
        CASE rc >= 0                        -> call.text \notin Malformed \cup TooLong
          [] rc = UTF8PROC_ERROR_OVERFLOW   -> call.text \in TooLong
          [] rc = UTF8PROC_ERROR_INVALIDUTF8 -> call.text \in Malformed \ TooLong
          [] OTHER -> /\ rc = UTF8PROC_ERROR_NOMEM
                      /\ call.text \notin Malformed \cup TooLong

ReasonInv == IInv /\ EngineAnswers /\ StatusTellsText

LEMMA EngineReason ==
    ASSUME ReasonInv, EngineMaps \/ EngineFails
    PROVE  EngineAnswers' /\ StatusTellsText'
<1>1. pc = "engine" /\ pc' = "mapped" /\ call' = call
  BY DEF EngineMaps, EngineFails
<1>2. call.text \in Texts /\ call.options \in Options
  BY <1>1, CallShape DEF ReasonInv, IInv, CallInProgress, Shape
<1>3. CASE EngineMaps
  <2>1. rc' = ResultLength[<< call.options, call.text >>]
        /\ call.text \notin Malformed \cup TooLong
    BY <1>3 DEF EngineMaps
  <2>2. rc' >= 0 /\ rc' # UTF8PROC_ERROR_OVERFLOW
        /\ rc' # UTF8PROC_ERROR_INVALIDUTF8
    BY SMT, <1>2, <2>1, TextAssumption
       DEF UTF8PROC_ERROR_OVERFLOW, UTF8PROC_ERROR_INVALIDUTF8
  <2> QED
    BY <1>1, <2>1, <2>2 DEF EngineAnswers, StatusTellsText
<1>4. CASE EngineFails
  <2>1. EngineAnswers'
    BY SMT, <1>1, <1>4 DEF EngineFails, EngineAnswers, UTF8PROC_ERROR_NOMEM,
       UTF8PROC_ERROR_OVERFLOW, UTF8PROC_ERROR_INVALIDUTF8
  <2> QED
    BY <1>1, <2>1 DEF StatusTellsText
<1> QED
  BY <1>3, <1>4

LEMMA DeliverReason ==
    ASSUME ReasonInv, Deliver
    PROVE  EngineAnswers' /\ StatusTellsText'
<1>1. /\ pc = "mapped" /\ pc' = "returned" /\ call' = call
      /\ status' = LeoUTF8StatusFromUtf8proc(rc)
      /\ call.text \notin Oversized /\ rc \in Int
  BY DEF Deliver, ReasonInv, IInv, CallInProgress, TypeOK
<1>2. EngineAnswers
  BY DEF ReasonInv
<1>3. StatusTellsText'
  BY SMT, <1>1, <1>2
     DEF StatusTellsText, EngineAnswers, LeoUTF8StatusFromUtf8proc,
         OK, INVALID, NO_MEMORY, ERROR, UTF8PROC_ERROR_NOMEM,
         UTF8PROC_ERROR_OVERFLOW, UTF8PROC_ERROR_INVALIDUTF8
<1> QED
  BY <1>1, <1>3 DEF EngineAnswers

LEMMA EnterReason ==
    ASSUME ReasonInv, Enter
    PROVE  EngineAnswers' /\ StatusTellsText'
<1>1. /\ pc' \in {"returned", "engine"} /\ call' = call
      /\ (pc' = "returned" /\ call.text # NULL /\ call.place # NULL) =>
            call.text \in Oversized /\ status' = ERROR
  BY DEF Enter
<1> QED
  BY <1>1 DEF EngineAnswers, StatusTellsText, OK, INVALID, NO_MEMORY, ERROR

LEMMA OtherReason ==
    ASSUME ReasonInv,
           \/ Prepare \/ CallBytes \/ CallCString \/ Return
           \/ LeoUTF8Free \/ UNCHANGED vars
    PROVE  EngineAnswers' /\ StatusTellsText'
<1>1. CASE CallBytes \/ CallCString
  BY <1>1 DEF CallBytes, CallCString, EngineAnswers, StatusTellsText
<1>2. CASE Prepare \/ Return \/ LeoUTF8Free
  BY <1>2 DEF Prepare, Return, LeoUTF8Free, EngineAnswers, StatusTellsText
<1>3. CASE UNCHANGED vars
  BY <1>3 DEF vars, ReasonInv, EngineAnswers, StatusTellsText
<1> QED
  BY <1>1, <1>2, <1>3

\* LEO_UTF8_INVALID is said of malformed text only, LEO_UTF8_ERROR of text
\* that is too long only, and LEO_UTF8_NO_MEMORY of neither.
THEOREM StatusHonest == Spec => []StatusTellsText
<1>1. Init => ReasonInv
  BY InitIInv DEF Init, ReasonInv, EngineAnswers, StatusTellsText
<1>2. ReasonInv /\ [Next]_vars => ReasonInv'
  <2>1. ReasonInv /\ [Next]_vars => IInv'
    BY NextIInv DEF ReasonInv
  <2>2. ReasonInv /\ [Next]_vars => EngineAnswers' /\ StatusTellsText'
    BY EngineReason, DeliverReason, EnterReason, OtherReason DEF Next, Run
  <2> QED
    BY <2>1, <2>2 DEF ReasonInv
<1>3. ReasonInv => StatusTellsText
  BY DEF ReasonInv
<1> QED
  BY <1>1, <1>2, <1>3, PTL DEF Spec

-----------------------------------------------------------------------------
(* The programs.                                                           *)

ScanChecks == [kind : {"scan"}, text : {NULL} \cup Seq(Nat), expected : Status,
               exactly : SUBSET Nat]
MapChecks  == [kind : {"map", "refused map"}, options : Options,
               cString : BOOLEAN, text : Texts \ Oversized]
Checks     == ScanChecks \cup MapChecks

\* Where a program is says what it asked for and what it holds: nothing but
\* what the call it is looking at has given it.
ClientInv ==
    /\ IInv
    /\ program \in Seq(Checks)
    /\ heap = [a \in DOMAIN heap |-> heap[a]]
    /\ at \in {"check", "declared", "waiting", "answered", "exit"}
    /\ at # "answered" => mine = {}
    /\ at # "waiting" => pc = "idle"
    /\ at \notin {"check", "exit"} => program # << >> /\ Check \in MapChecks
    /\ at = "waiting" => /\ pc # "idle" /\ ReachedMapBytes
                         /\ call.place = pair
    /\ at = "answered" => mine = IF status = OK THEN {pair} ELSE {}
    /\ (at = "answered" /\ status # OK) => out[pair] = NULL

LEMMA PairShape == pair \in Places
BY ProgramAssumption DEF pair

LEMMA ScansShape ==
    ASSUME NEW text \in {NULL} \cup Seq(Nat), NEW n \in Nat
    PROVE  /\ Scans(text, OK) \in ScanChecks
           /\ Scans(text, INVALID) \in ScanChecks
           /\ Counts(text, n) \in ScanChecks
BY SMT DEF Scans, Counts, ScanChecks, Status

LEMMA MapsShape ==
    ASSUME NEW options \in Options, NEW cString \in BOOLEAN,
           NEW text \in Texts \ Oversized
    PROVE  /\ Maps(options, cString, text) \in MapChecks
           /\ RefusesToMap(text) \in MapChecks
<1>1. Maps(options, cString, text) \in MapChecks
  BY SMT DEF Maps, MapChecks
<1>2. RefusesToMap(text) \in MapChecks
  BY SMT DEF RefusesToMap, MapChecks, Options
<1> QED
  BY <1>1, <1>2

LEMMA LineOfChecks ==
    ASSUME NEW S, NEW a \in S, NEW b \in S, NEW c \in S, NEW d \in S,
           NEW e \in S, NEW f \in S, NEW g \in S
    PROVE  /\ << a, b, c, d, e, f, g >> \in Seq(S)
           /\ << a, b, c >> \in Seq(S)
OBVIOUS

LEMMA TwoChecks ==
    ASSUME NEW S, NEW a \in S, NEW b \in S PROVE << a, b >> \in Seq(S)
OBVIOUS

LEMMA ProgramsShape ==
    Probe \in Seq(Checks) /\ Example \in Seq(Checks) /\ Consumer \in Seq(Checks)
<1>1. /\ Sample \in Seq(Nat) /\ Strasse \in Seq(Nat) /\ WithNul \in Seq(Nat)
      /\ Overlong \in Seq(Nat) /\ << 128 >> \in Seq(Nat)
      /\ << 195 >> \in Seq(Nat) /\ << 226, 130 >> \in Seq(Nat)
  BY SMT DEF Sample, Strasse, WithNul, Overlong
<1>2. /\ \A text \in {NULL} \cup Seq(Nat), n \in Nat :
            /\ Scans(text, OK) \in Checks /\ Scans(text, INVALID) \in Checks
            /\ Counts(text, n) \in Checks
      /\ \A options \in Options, cString \in BOOLEAN, text \in Texts \ Oversized :
            /\ Maps(options, cString, text) \in Checks
            /\ RefusesToMap(text) \in Checks
  BY ScansShape, MapsShape DEF Checks
<1>3. /\ Sample \in Texts \ Oversized /\ Strasse \in Texts \ Oversized
      /\ Overlong \in Texts \ Oversized
      /\ COMPOSE \in Options /\ DECOMPOSE \in Options /\ CASEFOLD \in Options
  BY ProgramAssumption DEF Options
<1>4. /\ Maps(COMPOSE, TRUE, Sample) \in Checks
      /\ Maps(DECOMPOSE, TRUE, Sample) \in Checks
      /\ Maps(CASEFOLD, TRUE, Sample) \in Checks
      /\ Maps(CASEFOLD, FALSE, Strasse) \in Checks
      /\ RefusesToMap(Overlong) \in Checks
  BY <1>2, <1>3
<1>5. /\ Scans(Sample, OK) \in Checks /\ Scans(WithNul, OK) \in Checks
      /\ Scans(Strasse, OK) \in Checks
      /\ Scans(NULL, INVALID) \in Checks /\ Scans(<< 128 >>, INVALID) \in Checks
      /\ Scans(<< 195 >>, INVALID) \in Checks
      /\ Scans(<< 226, 130 >>, INVALID) \in Checks
      /\ Scans(Overlong, INVALID) \in Checks
  BY <1>1, <1>2
<1>6. Counts(WithNul, 3) \in Checks /\ Counts(Strasse, 6) \in Checks
  BY <1>1, <1>2
<1>7. RunValidChecks \in Seq(Checks)
  BY <1>4, <1>5, <1>6, LineOfChecks, Zenon DEF RunValidChecks
<1>8. RunInvalidChecks \in Seq(Checks)
  BY <1>4, <1>5 DEF RunInvalidChecks
<1>9. Probe \in Seq(Checks)
  BY <1>7, <1>8 DEF Probe
<1>10. Example \in Seq(Checks)
  BY <1>4, <1>5, LineOfChecks, Zenon DEF Example
<1>11. Consumer \in Seq(Checks)
  BY <1>5, <1>6, TwoChecks, Zenon DEF Consumer
<1> QED
  BY <1>9, <1>10, <1>11

LEMMA InitClient == ASSUME ClientsInit PROVE ClientInv
<1>1. IInv
  BY InitIInv DEF ClientsInit
<1>2. heap = [a \in DOMAIN heap |-> heap[a]] /\ pc = "idle" /\ mine = {}
  BY DEF ClientsInit, Init
<1> QED
  BY <1>1, <1>2, ProgramsShape DEF ClientsInit, ClientInv

\* The program looks at what it was given and goes on to its next check, or
\* leaves; it holds nothing then.
LEMMA MovesOn ==
    ASSUME ClientInv, at \in {"check", "answered"}, pc = "idle",
           \/ Pass /\ program # << >>
           \/ \E code \in {0, 1} : Leave(code),
           mine' = {}, pc' = "idle", IInv',
           heap' = [a \in DOMAIN heap' |-> heap'[a]]
    PROVE  ClientInv'
<1>1. program' \in Seq(Checks) /\ at' \in {"check", "exit"}
  BY DEF ClientInv, Pass, Leave
<1> QED
  BY <1>1 DEF ClientInv

LEMMA ScanClient == ASSUME ClientInv, Scan PROVE ClientInv' /\ [Next]_vars
<1>1. at = "check" /\ program # << >> /\ UNCHANGED vars /\ (Pass \/ Leave(1))
  BY DEF Scan
<1>2. pc = "idle" /\ pc' = "idle" /\ mine' = {} /\ heap' = heap
  BY <1>1 DEF ClientInv, vars
<1>3. IInv'
  BY <1>1, StutterIInv DEF ClientInv
<1> QED
  BY <1>1, <1>2, <1>3, MovesOn DEF ClientInv

LEMMA FinishClient == ASSUME ClientInv, Finish PROVE ClientInv' /\ [Next]_vars
<1>1. at = "check" /\ UNCHANGED vars /\ Leave(0)
  BY DEF Finish
<1>2. pc = "idle" /\ pc' = "idle" /\ mine' = {} /\ heap' = heap
  BY <1>1 DEF ClientInv, vars
<1>3. IInv'
  BY <1>1, StutterIInv DEF ClientInv
<1> QED
  BY <1>1, <1>2, <1>3, MovesOn DEF ClientInv

LEMMA DeclareClient ==
    ASSUME ClientInv, Declare PROVE ClientInv' /\ [Next]_vars
<1>1. /\ at = "check" /\ at' = "declared" /\ pc = "idle" /\ mine = {}
      /\ program # << >> /\ Check.kind # "scan"
      /\ UNCHANGED << pc, call, mapped, rc, status, heap, mine, program >>
  BY DEF Declare, ClientInv
<1>2. Prepare
  <2>1. PICK n \in Leftovers : outLen' = [outLen EXCEPT ![pair] = n]
    <3>1. 0 \in Leftovers /\ 12345 \in Leftovers
      BY ProgramAssumption
    <3> DEFINE length == IF Check.kind = "map" THEN 0 ELSE 12345
    <3>2. length \in Leftovers
      BY <3>1
    <3>3. outLen' = [outLen EXCEPT ![pair] = length]
      BY DEF Declare
    <3> HIDE DEF length
    <3> QED
      BY <3>2, <3>3
  <2>2. pair \in Places \ mine /\ NULL \in Addresses \cup {NULL}
        /\ out' = [out EXCEPT ![pair] = NULL]
    BY <1>1, PairShape DEF Declare
  <2> QED
    BY <1>1, <2>1, <2>2 DEF Prepare
<1>3. IInv'
  BY <1>2, PrepareIInv DEF ClientInv
<1>4. Check \in Checks
  BY <1>1 DEF ClientInv, Check
<1>5. Check' = Check /\ Check \in MapChecks
  BY <1>1, <1>4 DEF Check, Checks, ScanChecks
<1> QED
  BY <1>1, <1>2, <1>3, <1>5 DEF ClientInv, Next

LEMMA AskClient == ASSUME ClientInv, Ask PROVE ClientInv' /\ [Next]_vars
<1>1. /\ at = "declared" /\ at' = "waiting" /\ pc = "idle" /\ pc' = "map"
      /\ mine = {} /\ program # << >> /\ Check \in MapChecks
      /\ UNCHANGED << mapped, rc, status, out, outLen, heap, mine, program >>
  BY DEF Ask, ClientInv
<1>2. /\ Check.options \in Options /\ Check.cString \in BOOLEAN
      /\ Check.text \in Texts \ Oversized /\ Check.text # NULL
  BY <1>1, NullAssumption DEF MapChecks
<1>3. /\ call' = [options |-> Check.options, cString |-> Check.cString,
                  wantLen |-> TRUE, text |-> Check.text, place |-> pair]
      /\ call'.text # NULL /\ call'.place = pair
      /\ call' \in Arguments(Check.cString)
  BY <1>1, <1>2, PairShape DEF Ask, Arguments
<1>4. CallBytes \/ CallCString
  BY <1>1, <1>2, <1>3 DEF CallBytes, CallCString
<1>5. IInv'
  BY <1>4, CallBytesIInv, CallCStringIInv DEF ClientInv
<1>6. Check' = Check
  BY <1>1 DEF Check
<1> QED
  BY <1>1, <1>3, <1>4, <1>5, <1>6 DEF ClientInv, Next, ReachedMapBytes

LEMMA RunClient ==
    ASSUME ClientInv, Run, UNCHANGED clientVars
    PROVE  ClientInv' /\ [Next]_vars
<1>1. IInv'
  BY NextIInv DEF ClientInv, Next
<1>2. /\ at = "waiting" /\ at' = "waiting" /\ program' = program /\ mine = {}
      /\ call.place = pair /\ ReachedMapBytes
      /\ program # << >> /\ Check \in MapChecks
  BY DEF ClientInv, Run, Enter, EngineMaps, EngineFails, Deliver, clientVars
<1>3. /\ pc' \in {"engine", "mapped", "returned"} /\ call' = call /\ mine' = mine
      /\ heap' = heap \/ \E b : heap' = [a \in DOMAIN heap \cup {mapped'} |-> b[a]]
  <2>1. CASE Enter
    BY <2>1 DEF Enter
  <2>2. CASE EngineMaps
    <3>1. heap' = [a \in DOMAIN heap \cup {mapped'} |->
                      [b \in DOMAIN heap \cup {mapped'} |->
                          IF b = mapped' THEN << call.options, call.text >>
                          ELSE heap[b]][a]]
      BY <2>2 DEF EngineMaps
    <3> QED
      BY <2>2, <3>1 DEF EngineMaps
  <2>3. CASE EngineFails
    BY <2>3 DEF EngineFails
  <2>4. CASE Deliver
    BY <2>4 DEF Deliver
  <2> QED
    BY <2>1, <2>2, <2>3, <2>4 DEF Run
<1>4. heap' = [a \in DOMAIN heap' |-> heap'[a]]
  BY <1>3 DEF ClientInv
<1>5. Check' = Check /\ ReachedMapBytes'
  BY <1>2, <1>3 DEF Check, ReachedMapBytes
<1> QED
  BY <1>1, <1>2, <1>3, <1>4, <1>5 DEF ClientInv, Next

LEMMA AwaitClient == ASSUME ClientInv, Await PROVE ClientInv' /\ [Next]_vars
<1>1. /\ at = "waiting" /\ at' = "answered" /\ Return
      /\ UNCHANGED << program, status, out, heap >>
      /\ pc = "returned" /\ pc' = "idle" /\ mine = {}
      /\ mine' = IF status = OK THEN mine \cup {call.place} ELSE mine
  BY DEF Await, Return, ClientInv
<1>2. call.place = pair /\ ReachedMapBytes /\ program # << >> /\ Check \in MapChecks
  BY <1>1 DEF ClientInv
<1>3. IInv'
  BY <1>1, ReturnIInv DEF ClientInv
<1>4. pair # NULL
  BY PairShape, NullAssumption
<1>5. status # OK => out[pair] = NULL
  BY <1>1, <1>2, <1>4 DEF ClientInv, IInv, StatusTellsOutputs
<1>6. Check' = Check
  BY <1>1 DEF Check
<1> QED
  BY <1>1, <1>2, <1>3, <1>5, <1>6 DEF ClientInv, Next

\* Freeing what a call gave, or the NULL it left, is the client's right.
LEMMA FreeMappedClient ==
    ASSUME ClientInv, at = "answered", FreeMapped,
           UNCHANGED << pc, call, mapped, rc, status, out, outLen >>
    PROVE  /\ [Next]_vars /\ mine' = {} /\ pc' = "idle" /\ IInv'
           /\ heap' = [a \in DOMAIN heap' |-> heap'[a]]
<1>1. pc = "idle" /\ pc' = "idle"
  BY DEF ClientInv
<1>2. heap' = [a \in DOMAIN heap \ {out[pair]} |-> heap[a]]
      /\ mine' = mine \ {pair}
  BY DEF FreeMapped
<1>3. mine' = {} /\ heap' = [a \in DOMAIN heap' |-> heap'[a]]
  BY <1>2 DEF ClientInv
<1>4. CASE status = OK
  <2>1. pair \in mine
    BY <1>4 DEF ClientInv
  <2>2. LeoUTF8Free
    BY <1>1, <1>2, <2>1 DEF LeoUTF8Free
  <2> QED
    BY <1>1, <1>3, <2>2, LeoUTF8FreeIInv DEF ClientInv, Next
<1>5. CASE status # OK
  <2>1. out[pair] = NULL /\ mine = {} /\ NULL \notin DOMAIN heap
    BY <1>5, NullAssumption DEF ClientInv, IInv, TypeOK
  <2>2. heap' = heap
    BY <1>2, <2>1 DEF ClientInv
  <2>3. UNCHANGED vars
    BY <1>1, <1>3, <2>1, <2>2 DEF vars
  <2> QED
    BY <1>1, <1>3, <2>3, StutterIInv DEF ClientInv
<1> QED
  BY <1>4, <1>5

LEMMA PrintMappedClient ==
    ASSUME ClientInv, PrintMapped PROVE ClientInv' /\ [Next]_vars
<1>1. /\ at = "answered" /\ pc = "idle" /\ program # << >>
      /\ UNCHANGED << pc, call, mapped, rc, status, out, outLen >>
  BY DEF PrintMapped, ClientInv
<1>2. CASE status = OK
  BY <1>1, <1>2, FreeMappedClient, MovesOn DEF PrintMapped
<1>3. CASE status # OK
  <2>1. UNCHANGED vars /\ Leave(1) /\ mine' = {} /\ pc' = "idle"
    BY <1>1, <1>3 DEF PrintMapped, vars, ClientInv
  <2>2. IInv' /\ heap' = [a \in DOMAIN heap' |-> heap'[a]]
    BY <2>1, StutterIInv DEF ClientInv, vars
  <2> QED
    BY <1>1, <2>1, <2>2, MovesOn
<1> QED
  BY <1>2, <1>3

LEMMA ExpectRefusalClient ==
    ASSUME ClientInv, ExpectRefusal PROVE ClientInv' /\ [Next]_vars
<1>1. /\ at = "answered" /\ pc = "idle" /\ program # << >>
      /\ UNCHANGED << pc, call, mapped, rc, status, out, outLen >>
  BY DEF ExpectRefusal, ClientInv
<1>2. CASE Pass /\ status = INVALID /\ UNCHANGED << heap, mine >>
  <2>1. UNCHANGED vars /\ mine' = {} /\ pc' = "idle"
    BY <1>1, <1>2 DEF vars, ClientInv, INVALID, OK
  <2>2. IInv' /\ heap' = [a \in DOMAIN heap' |-> heap'[a]]
    BY <2>1, StutterIInv DEF ClientInv, vars
  <2> QED
    BY <1>1, <1>2, <2>1, <2>2, MovesOn
<1>3. CASE FreeMapped /\ Leave(1)
  BY <1>1, <1>3, FreeMappedClient, MovesOn
<1> QED
  BY <1>2, <1>3 DEF ExpectRefusal

LEMMA ClientStep ==
    ASSUME ClientInv, [ClientsNext]_allVars PROVE ClientInv' /\ [Next]_vars
<1>1. CASE UNCHANGED allVars
  <2>1. UNCHANGED << vars, clientVars >>
    BY <1>1 DEF allVars
  <2>2. IInv'
    BY <2>1, StutterIInv DEF ClientInv
  <2> QED
    BY <2>1, <2>2 DEF ClientInv, vars, clientVars, Check, ReachedMapBytes
<1>2. CASE ClientsNext
  BY <1>2, ScanClient, DeclareClient, AskClient, AwaitClient, PrintMappedClient,
     ExpectRefusalClient, FinishClient, RunClient DEF ClientsNext
<1> QED
  BY <1>1, <1>2

LEMMA ClientAlways == ClientsSpec => []ClientInv
<1>1. ClientInv /\ [ClientsNext]_allVars => ClientInv'
  BY ClientStep
<1> QED
  BY <1>1, InitClient, PTL DEF ClientsSpec

\* The probe, the example and the consumer's probe are clients such as
\* LeoUTF8Core expects: all that is proved of the library holds while they run.
THEOREM ProgramsAreLawful == ClientsSpec => LawfulClient
<1>1. ClientsInit => Init
  BY DEF ClientsInit
<1>2. ClientInv /\ [ClientsNext]_allVars => [Next]_vars
  BY ClientStep
<1> QED
  BY <1>1, <1>2, ClientAlways, PTL DEF ClientsSpec, LawfulClient, Spec

\* No way out of a program leaves memory allocated, whichever call ran out of
\* memory and whichever check failed.
THEOREM ProgramsHoldNothing == ClientsSpec => []NothingHeldAtExit
<1>1. ClientInv => NothingHeldAtExit
  BY DEF ClientInv, NothingHeldAtExit, IInv, OneHolderPerAllocation, Pending
<1> QED
  BY <1>1, ClientAlways, PTL
==============================================================================
