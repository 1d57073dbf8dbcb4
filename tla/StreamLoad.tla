------------------------------ MODULE StreamLoad ------------------------------
(***************************************************************************)
(* Loading the raw bytes of a stream from a document:                      *)
(* parseStreamToContainer(container, obj), src/kernel/cobject.cc, which    *)
(* the CStream constructors use to fill the buffer.                        *)
(*                                                                         *)
(* It reads the Length entry and copies bytes of the base stream into the  *)
(* container until it holds Length bytes or the data ends.  Its checks     *)
(* are asserts, so what happens on a malformed stream depends on the build *)
(* (Asserts: TRUE when asserts are compiled in, and a failing one aborts   *)
(* the program).  Without asserts, getInt() on a Length entry that is not  *)
(* an int reads the object's union field: any int may come out.            *)
(***************************************************************************)
EXTENDS Integers

CONSTANTS
    SizeWidth,      \* bits of size_t
    IntWidth,       \* bits of int
    LengthValues,   \* int values a Length entry may hold
    DataLens,       \* bytes in the file before the stream ends
    NotInt,         \* a Length entry that is missing or not an int
    Asserts         \* whether assert() is compiled in

ASSUME LoadWidthAssumption ==
    /\ IntWidth \in Nat \ {0}
    /\ SizeWidth \in Nat
    /\ IntWidth < SizeWidth
    /\ Asserts \in BOOLEAN

LoadSizeMax == 2^SizeWidth
LoadIntRange == -(2^(IntWidth - 1)) .. 2^(IntWidth - 1) - 1

(* Facts of arithmetic about the two widths (2^SizeWidth is positive and  *)
(* no smaller than 2^(IntWidth-1)), which the provers cannot derive        *)
(* without induction; TLC checks them for the widths it is given.          *)
ASSUME LoadSizeAssumption ==
    /\ LoadSizeMax \in Nat \ {0}
    /\ 2^(IntWidth - 1) \in Nat
    /\ 2^(IntWidth - 1) <= LoadSizeMax

ASSUME LoadInputAssumption ==
    /\ LengthValues \subseteq LoadIntRange
    /\ DataLens \subseteq Nat
    /\ NotInt \notin Int

Streams == [length : LengthValues \cup {NotInt}, data : DataLens]

VARIABLES
    obj,    \* the stream object read (fixed input)
    pc,     \* "start", "loop", "check", "done" or "aborted"
    len,    \* static_cast<size_t>(Length)
    size    \* container.size()

vars == <<obj, pc, len, size>>

TypeOK ==
    /\ obj \in Streams
    /\ pc \in {"start", "loop", "check", "done", "aborted"}
    /\ len \in 0 .. LoadSizeMax - 1
    /\ size \in 0 .. len

Init ==
    /\ obj \in Streams
    /\ pc = "start"
    /\ len = 0
    /\ size = 0

(* Lines 1418-1421: assert(isInt), assert(0 <= Length); a failing assert   *)
(* aborts when asserts are compiled in.                                    *)
LengthAsserted(o) == o.length # NotInt /\ o.length >= 0

AssertLength ==
    /\ pc = "start" /\ Asserts /\ ~LengthAsserted(obj)
    /\ pc' = "aborted"
    /\ UNCHANGED <<obj, len, size>>

(* Lines 1421-1432: len = (size_t)Length (getInt() of a non-int gives any  *)
(* int), then the base stream is rewound.                                  *)
ReadLength ==
    /\ pc = "start" /\ (Asserts => LengthAsserted(obj))
    /\ \E v \in IF obj.length = NotInt THEN LoadIntRange ELSE {obj.length} :
          len' = v % LoadSizeMax
    /\ pc' = "loop"
    /\ UNCHANGED <<obj, size>>

(* Mutant: the loop reads one byte past Length.                            *)
ReadByteOnePast ==
    /\ pc = "loop" /\ size <= len /\ size < obj.data
    /\ size' = size + 1
    /\ UNCHANGED <<obj, pc, len>>

(* Lines 1435-1436: one iteration of the copy loop.                        *)
ReadByte ==
    /\ pc = "loop" /\ size < len /\ size < obj.data
    /\ size' = size + 1
    /\ UNCHANGED <<obj, pc, len>>

(* Line 1434: the loop ends when the container holds len bytes or the raw   *)
(* stream returns EOF.                                                      *)
EndLoop ==
    /\ pc = "loop" /\ (size = len \/ size = obj.data)
    /\ pc' = "check"
    /\ UNCHANGED <<obj, len, size>>

(* Lines 1440-1447: a mismatch is logged; assert(len == size) aborts when  *)
(* compiled in; otherwise the container is returned as it is.              *)
Check ==
    /\ pc = "check"
    /\ pc' = IF Asserts /\ len # size THEN "aborted" ELSE "done"
    /\ UNCHANGED <<obj, len, size>>

Next == AssertLength \/ ReadLength \/ ReadByte \/ EndLoop \/ Check

(* One call: it returns or aborts, then stops.                             *)
Spec == Init /\ [][Next]_vars

-----------------------------------------------------------------------------
(* Spec section 4.5: a stream whose Length is missing, not an integer, or  *)
(* different from the bytes present fails to decode "rather than          *)
(* guessing".  So whenever parseStreamToContainer returns, the Length was *)
(* a non-negative int and the container holds exactly Length bytes, which *)
(* the CStream built from it keeps as its buffer.  (Bytes past Length are  *)
(* not in the base stream: xpdf limits it to Length when it parses.)       *)
(* In a build without asserts a short stream, or a negative Length that   *)
(* wraps to a huge len, is returned as it is.                              *)
LoadedMatchesLength ==
    pc = "done" =>
        /\ LengthAsserted(obj)
        /\ size = obj.length
=============================================================================
