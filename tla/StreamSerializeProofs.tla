------------------------ MODULE StreamSerializeProofs ------------------------
(***************************************************************************)
(* Proofs about streamToCharBuffer (StreamSerialize), for every width of   *)
(* size_t and int and every set of inputs: type correctness, and, when the *)
(* Length entries are not negative and the sizes do not wrap size_t, that  *)
(* no write goes past the buffer and that the result is right.            *)
(***************************************************************************)
EXTENDS StreamSerialize, TLAPS

USE WidthAssumption, InputAssumption, SizeMaxAssumption

(* The part of the buffer before the stream data.                          *)
Pre(o) == o.header + o.dict + StreamHeaderLen

-----------------------------------------------------------------------------
LEMMA ToSizeType ==
    ASSUME NEW n \in Int
    PROVE  ToSize(n) \in 0 .. SizeMax - 1
BY DEF ToSize

LEMMA ObjectFields ==
    ASSUME NEW o \in Objects
    PROVE  /\ o.isStream \in BOOLEAN
           /\ o.length \in IntRange \cup {NotInt}
           /\ o.data \in Nat /\ o.dict \in Nat /\ o.header \in Nat
           /\ FooterLen(o) \in Nat
           /\ Pre(o) \in Nat
<1>1. /\ o.isStream \in BOOLEAN
      /\ o.length \in LengthValues \cup {NotInt}
      /\ o.data \in DataLens /\ o.dict \in DictLens
      /\ o.header \in {0} \cup RefHeaderLens
  BY DEF Objects
<1>2. o.length \in IntRange \cup {NotInt}
  BY <1>1, InputAssumption
<1>3. o.data \in Nat
  BY <1>1, InputAssumption
<1>5. o.dict \in Nat
  BY <1>1, InputAssumption
<1>6. o.header \in Nat
  <2>1. RefHeaderLens \subseteq Nat
    BY InputAssumption
  <2>2. 0 \in Nat
    OBVIOUS
  <2>3. QED
    BY <1>1, <2>1, <2>2, Zenon
<1>7. FooterLen(o) \in Nat
  BY DEF FooterLen, IndirectFooterLen
<1>8. Pre(o) \in Nat
  BY <1>5, <1>6 DEF Pre, StreamHeaderLen
<1>4. QED
  BY <1>1, <1>2, <1>3, <1>5, <1>6, <1>7, <1>8

(* TypeOK is not inductive by itself: Allocate sets bufferLen and keeps i, *)
(* which it may do only because i is still 0 before the allocation.        *)
TypeInv == TypeOK /\ (pc = "start" => i = 0)

LEMMA TypeInvInductive == TypeInv /\ [Next]_vars => TypeInv'
<1> SUFFICES ASSUME TypeInv, [Next]_vars PROVE TypeInv'
  OBVIOUS
<1>0. /\ obj \in Objects
      /\ obj.length \in IntRange \cup {NotInt}
      /\ obj.data \in Nat /\ FooterLen(obj) \in Nat /\ Pre(obj) \in Nat
  BY ObjectFields DEF TypeInv, TypeOK
<1>1. CASE NotAStream \/ LengthNotInt
  BY <1>1 DEF NotAStream, LengthNotInt, Return, TypeInv, TypeOK
<1>2. CASE Allocate
  <2>1. obj.length \in Int /\ i = 0
    BY <1>0, <1>2 DEF Allocate, IntRange, TypeInv
  <2>2. /\ ToSize(obj.length) \in 0 .. SizeMax - 1
        /\ ToSize(Pre(obj) + ToSize(obj.length) + StreamFooterLen + FooterLen(obj))
             \in 0 .. SizeMax - 1
    BY <1>0, <2>1, ToSizeType DEF StreamFooterLen
  <2>3. MaxOf(reach, Pre(obj)) \in Nat
    BY <1>0 DEF TypeInv, TypeOK, MaxOf
  <2>4. /\ bufferLen' = ToSize(obj.length)
        /\ len' = ToSize(Pre(obj) + ToSize(obj.length) + StreamFooterLen + FooterLen(obj))
        /\ copied' = Pre(obj)
        /\ reach' = MaxOf(reach, Pre(obj))
        /\ pc' = "loop"
        /\ UNCHANGED <<obj, i, ret>>
    BY <1>2 DEF Allocate, Pre
  <2>5. QED
    BY <1>0, <2>1, <2>2, <2>3, <2>4 DEF TypeInv, TypeOK
<1>3. CASE CopyByte
  BY <1>3 DEF CopyByte, TypeInv, TypeOK, MaxOf
<1>4. CASE EndLoop
  BY <1>4 DEF EndLoop, TypeInv, TypeOK
<1>5. CASE ShortData \/ ExtraData
  BY <1>5 DEF ShortData, ExtraData, Return, TypeInv, TypeOK, MaxOf
<1>6. CASE Finish
  BY <1>0, <1>6 DEF Finish, Return, TypeInv, TypeOK, MaxOf, StreamFooterLen
<1>7. CASE UNCHANGED vars
  BY <1>7 DEF vars, TypeInv, TypeOK
<1>8. QED
  BY <1>1, <1>2, <1>3, <1>4, <1>5, <1>6, <1>7 DEF Next

(* TypeOK holds in every state: every counter of streamToCharBuffer stays  *)
(* in its C type, the loop index within 0..bufferLen.                      *)
THEOREM TypeCorrect == Spec => []TypeOK
<1>1. Init => TypeInv
  BY DEF Init, TypeInv, TypeOK
<1>2. TypeInv => TypeOK
  BY DEF TypeInv
<1>3. QED
  BY <1>1, <1>2, TypeInvInductive, PTL DEF Spec

-----------------------------------------------------------------------------
(* The inputs under which the size arithmetic is exact: every int Length   *)
(* is not negative, and the whole text of every object fits in size_t.     *)
(* The stream_serialize_negative_length run shows what happens without it. *)
NoWrap ==
    \A o \in Objects :
        o.length # NotInt =>
            /\ o.length >= 0
            /\ Pre(o) + o.length + StreamFooterLen + FooterLen(o) < SizeMax

(* What each phase of the procedure has established.  It is needed because *)
(* NoOverflow and ReturnOK speak of the end of the call, while the loop    *)
(* steps keep the sizes computed at the allocation.                        *)
IInv ==
    /\ TypeInv
    /\ pc = "start" => bufferLen = 0 /\ len = 0 /\ copied = 0 /\ reach = 0 /\ ret = 0
    /\ pc \in {"loop", "check"} =>
          /\ obj.isStream /\ obj.length # NotInt
          /\ bufferLen = obj.length
          /\ copied = Pre(obj)
          /\ len = Pre(obj) + bufferLen + StreamFooterLen + FooterLen(obj)
          /\ reach <= copied + i
          /\ i <= obj.data
          /\ ret = 0
    /\ pc = "check" => (i = bufferLen \/ i = obj.data)
    /\ pc = "done" =>
          /\ ret = (IF WellFormed(obj) THEN SerializedLen(obj) ELSE 0)
          /\ reach <= len

LEMMA IInvInit == Init => IInv
BY DEF Init, IInv, TypeInv, TypeOK

LEMMA IInvInductive == NoWrap /\ IInv /\ [Next]_vars => IInv'
<1> SUFFICES ASSUME NoWrap, IInv, [Next]_vars PROVE IInv'
  OBVIOUS
<1>0. /\ obj \in Objects
      /\ obj.length \in IntRange \cup {NotInt}
      /\ obj.data \in Nat /\ FooterLen(obj) \in Nat /\ Pre(obj) \in Nat
  BY ObjectFields DEF IInv, TypeInv, TypeOK
<1>1. TypeInv'
  BY TypeInvInductive DEF IInv
<1>2. CASE NotAStream \/ LengthNotInt
  <2>1. ~WellFormed(obj)
    BY <1>2 DEF NotAStream, LengthNotInt, WellFormed
  <2>2. QED
    BY <1>1, <1>2, <2>1 DEF NotAStream, LengthNotInt, Return, IInv
<1>3. CASE Allocate
  <2>1. obj.length \in Nat /\ Pre(obj) + obj.length + StreamFooterLen + FooterLen(obj) < SizeMax
    BY <1>0, <1>3 DEF Allocate, NoWrap, IntRange
  <2>2. /\ ToSize(obj.length) = obj.length
        /\ ToSize(Pre(obj) + obj.length + StreamFooterLen + FooterLen(obj))
             = Pre(obj) + obj.length + StreamFooterLen + FooterLen(obj)
    BY <1>0, <2>1 DEF ToSize, StreamFooterLen
  <2>3. /\ bufferLen' = obj.length
        /\ len' = Pre(obj) + obj.length + StreamFooterLen + FooterLen(obj)
        /\ copied' = Pre(obj)
        /\ reach' = Pre(obj)
        /\ pc' = "loop"
        /\ UNCHANGED <<obj, i, ret>>
    BY <1>0, <1>3, <2>2 DEF Allocate, Pre, MaxOf, IInv
  <2>4. QED
    BY <1>0, <1>1, <1>3, <2>3 DEF Allocate, IInv, TypeInv
<1>4. CASE CopyByte
  BY <1>0, <1>1, <1>4 DEF CopyByte, IInv, MaxOf, TypeInv, TypeOK
<1>5. CASE EndLoop
  BY <1>1, <1>5 DEF EndLoop, IInv
<1>6. CASE ShortData
  <2>1. ~WellFormed(obj)
    BY <1>6 DEF ShortData, IInv, WellFormed
  <2>2. reach' = len
    BY <1>0, <1>6 DEF ShortData, IInv, MaxOf, TypeInv, TypeOK, StreamFooterLen
  <2>3. /\ pc' = "done" /\ obj' = obj /\ len' = len
        /\ ret' = (IF WellFormed(obj') THEN SerializedLen(obj') ELSE 0)
    BY <1>6, <2>1 DEF ShortData, Return
  <2>4. reach' <= len'
    BY <2>2, <2>3 DEF IInv, TypeInv, TypeOK
  <2>5. QED
    BY <1>1, <2>3, <2>4, Zenon DEF IInv
<1>7. CASE ExtraData
  <2>1. ~WellFormed(obj)
    BY <1>0, <1>7 DEF ExtraData, IInv, WellFormed, TypeInv, TypeOK
  <2>2. reach' = len
    BY <1>0, <1>7 DEF ExtraData, IInv, MaxOf, TypeInv, TypeOK, StreamFooterLen
  <2>3. /\ pc' = "done" /\ obj' = obj /\ len' = len
        /\ ret' = (IF WellFormed(obj') THEN SerializedLen(obj') ELSE 0)
    BY <1>7, <2>1 DEF ExtraData, Return
  <2>4. reach' <= len'
    BY <2>2, <2>3 DEF IInv, TypeInv, TypeOK
  <2>5. QED
    BY <1>1, <2>3, <2>4, Zenon DEF IInv
<1>8. CASE Finish
  <2>1. WellFormed(obj)
    BY <1>8 DEF Finish, IInv, WellFormed, TypeInv, TypeOK
  <2>2. len = SerializedLen(obj)
    BY <1>8 DEF Finish, IInv, SerializedLen, Pre
  <2>3. reach' = len
    BY <1>0, <1>8 DEF Finish, IInv, MaxOf, TypeInv, TypeOK, StreamFooterLen
  <2>4. QED
    BY <1>1, <1>8, <2>1, <2>2, <2>3 DEF Finish, Return, IInv
<1>9. CASE UNCHANGED vars
  BY <1>1, <1>9 DEF vars, IInv
<1>10. QED
  BY <1>2, <1>3, <1>4, <1>5, <1>6, <1>7, <1>8, <1>9 DEF Next

LEMMA IInvInvariant == NoWrap => (Spec => []IInv)
<1> SUFFICES ASSUME NoWrap PROVE Spec => []IInv
  OBVIOUS
<1> QED
  BY IInvInit, IInvInductive, PTL DEF Spec

-----------------------------------------------------------------------------
(* No write of streamToCharBuffer (the memcpy calls, the copy loop, the    *)
(* memset of the error paths) goes past the buffer it allocated, for any   *)
(* width and any input whose Length is not negative and whose size fits.   *)
THEOREM NoOverflowTheorem == NoWrap => (Spec => []NoOverflow)
<1> SUFFICES ASSUME NoWrap PROVE Spec => []NoOverflow
  OBVIOUS
<1>1. IInv => NoOverflow
  <2> SUFFICES ASSUME IInv PROVE NoOverflow
    OBVIOUS
  <2>0. /\ obj \in Objects
        /\ obj.data \in Nat /\ FooterLen(obj) \in Nat /\ Pre(obj) \in Nat
    BY ObjectFields DEF IInv, TypeInv, TypeOK
  <2>1. CASE pc = "start"
    BY <2>1 DEF IInv, NoOverflow
  <2>2. CASE pc \in {"loop", "check"}
    BY <2>0, <2>2 DEF IInv, TypeInv, TypeOK, NoOverflow, StreamFooterLen
  <2>3. CASE pc = "done"
    BY <2>3 DEF IInv, NoOverflow
  <2>4. QED
    BY <2>1, <2>2, <2>3 DEF IInv, TypeInv, TypeOK
<1>2. QED
  BY <1>1, IInvInvariant, PTL

(* streamToCharBuffer returns the serialised size exactly for a well-      *)
(* formed stream object and 0 for every malformed one.                     *)
THEOREM ReturnOKTheorem == NoWrap => (Spec => []ReturnOK)
<1> SUFFICES ASSUME NoWrap PROVE Spec => []ReturnOK
  OBVIOUS
<1>1. IInv => ReturnOK
  <2> SUFFICES ASSUME IInv, pc = "done" PROVE ReturnOK
    BY DEF ReturnOK
  <2>1. WellFormed(obj) => SerializedLen(obj) # 0
    <3>1. obj \in Objects /\ obj.data \in Nat /\ FooterLen(obj) \in Nat
      BY ObjectFields DEF IInv, TypeInv, TypeOK
    <3>2. obj.header \in Nat /\ obj.dict \in Nat
      BY <3>1, ObjectFields
    <3>3. QED
      BY <3>1, <3>2 DEF SerializedLen, StreamHeaderLen, StreamFooterLen
  <2>2. QED
    BY <2>1 DEF IInv, ReturnOK
<1>2. QED
  BY <1>1, IInvInvariant, PTL

=============================================================================
