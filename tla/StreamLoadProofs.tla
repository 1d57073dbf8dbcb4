-------------------------- MODULE StreamLoadProofs --------------------------
(***************************************************************************)
(* Proofs about parseStreamToContainer (StreamLoad), for every width and   *)
(* every set of inputs and in both builds: type correctness, that is,     *)
(* len is a size_t and the container never holds more than len bytes.     *)
(***************************************************************************)
EXTENDS StreamLoad, TLAPS

USE LoadWidthAssumption, LoadInputAssumption, LoadSizeAssumption

LEMMA StreamFields ==
    ASSUME NEW o \in Streams
    PROVE  /\ o.length \in LengthValues \cup {NotInt}
           /\ o.data \in Nat
           /\ o.length # NotInt => o.length \in LoadIntRange
BY DEF Streams

(* TypeOK is not inductive by itself: ReadLength sets len and keeps size,  *)
(* which is 0 until then.                                                  *)
TypeInv == TypeOK /\ (pc = "start" => size = 0)

LEMMA TypeInvInductive == TypeInv /\ [Next]_vars => TypeInv'
<1> SUFFICES ASSUME TypeInv, [Next]_vars PROVE TypeInv'
  OBVIOUS
<1>0. obj \in Streams /\ obj.data \in Nat
  BY StreamFields DEF TypeInv, TypeOK
<1>1. CASE AssertLength
  BY <1>1 DEF AssertLength, TypeInv, TypeOK
<1>2. CASE ReadLength
  <2>1. PICK v \in IF obj.length = NotInt THEN LoadIntRange ELSE {obj.length} :
               len' = v % LoadSizeMax
    BY <1>2 DEF ReadLength
  <2>2. v \in Int
    BY <1>0, <2>1, StreamFields DEF LoadIntRange
  <2>3. len' \in 0 .. LoadSizeMax - 1
    BY <2>1, <2>2
  <2>4. QED
    BY <1>2, <2>3 DEF ReadLength, TypeInv, TypeOK
<1>3. CASE ReadByte
  BY <1>3 DEF ReadByte, TypeInv, TypeOK
<1>4. CASE EndLoop \/ Check
  BY <1>4 DEF EndLoop, Check, TypeInv, TypeOK
<1>5. CASE UNCHANGED vars
  BY <1>5 DEF vars, TypeInv, TypeOK
<1>6. QED
  BY <1>1, <1>2, <1>3, <1>4, <1>5 DEF Next

(* TypeOK holds in every state: len is a size_t, and the container never  *)
(* holds more than len bytes.                                              *)
THEOREM TypeCorrect == Spec => []TypeOK
<1>1. Init => TypeInv
  BY DEF Init, TypeInv, TypeOK
<1>2. QED
  BY <1>1, TypeInvInductive, PTL DEF Spec, TypeInv

=============================================================================
