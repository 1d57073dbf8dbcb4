--------------------------- MODULE StreamSerialize ---------------------------
(***************************************************************************)
(* Writing a stream object out as bytes: streamToCharBuffer(streamObject,  *)
(* ref, outputBuf, asIndirect), src/kernel/cobject.cc.                      *)
(*                                                                         *)
(* The output is                                                           *)
(*   [indirect header] dict "\nstream\n" <Length bytes> "\nendstream"      *)
(*   [indirect footer]                                                     *)
(* written into one buffer allocated up front from the Length entry.  The *)
(* contents of the bytes are abstracted away: the model keeps the sizes,   *)
(* the allocation, the write cursor and the end of the furthest write.     *)
(* size_t and int keep their widths (SizeWidth, IntWidth bits), so a       *)
(* conversion of a negative int to size_t and the sums built from it wrap  *)
(* as in the build.                                                        *)
(*                                                                         *)
(* The input is one stream object, chosen in Init: whether it is a stream, *)
(* its Length entry (an int or NotInt), the number of bytes its base       *)
(* stream really holds, and the lengths of the dictionary string and of    *)
(* the indirect header (0 when asIndirect is false).                       *)
(***************************************************************************)
EXTENDS Integers

CONSTANTS
    SizeWidth,      \* bits of size_t
    IntWidth,       \* bits of int
    LengthValues,   \* int values a Length entry may hold
    DataLens,       \* bytes the base stream holds before EOF
    DictLens,       \* lengths of the dictionary's string form
    RefHeaderLens,  \* lengths of "<num> <gen> obj \n"
    NotInt          \* a Length entry that is not an int

ASSUME WidthAssumption ==
    /\ IntWidth \in Nat \ {0}
    /\ SizeWidth \in Nat
    /\ IntWidth < SizeWidth

SizeMax == 2^SizeWidth
IntRange == -(2^(IntWidth - 1)) .. 2^(IntWidth - 1) - 1

(* 2^SizeWidth is a positive natural (a fact of arithmetic the provers     *)
(* cannot derive without induction, so it is stated here and TLC checks it *)
(* for the widths it is given).                                             *)
ASSUME SizeMaxAssumption == SizeMax \in Nat \ {0}

ASSUME InputAssumption ==
    /\ LengthValues \subseteq IntRange
    /\ DataLens \subseteq Nat
    /\ DictLens \subseteq Nat
    /\ RefHeaderLens \subseteq Nat \ {0}
    /\ NotInt \notin Int

(* Lengths of the literal parts: CSTREAM_HEADER "\nstream\n", CSTREAM_FOOTER *)
(* "\nendstream", INDIRECT_FOOTER "\nendobj".                               *)
StreamHeaderLen == 8
StreamFooterLen == 10
IndirectFooterLen == 7

(* (size_t) of an int, and size_t addition: arithmetic modulo 2^SizeWidth. *)
ToSize(n) == n % SizeMax

(* C's !x on an int: 1 if x is 0, else 0.                                  *)
CNot(x) == IF x = 0 THEN 1 ELSE 0

Objects ==
    [isStream : BOOLEAN, length : LengthValues \cup {NotInt}, data : DataLens,
     dict : DictLens, header : {0} \cup RefHeaderLens]

FooterLen(o) == IF o.header = 0 THEN 0 ELSE IndirectFooterLen

VARIABLES
    obj,        \* the stream object being written (fixed input)
    pc,         \* "start", "loop", "check" or "done"
    bufferLen,  \* (size_t) Length
    len,        \* the size computed and allocated
    copied,     \* bytes placed before the stream data
    i,          \* stream bytes copied so far
    reach,      \* end of the furthest byte written into buf
    ret         \* the return value once done

vars == <<obj, pc, bufferLen, len, copied, i, reach, ret>>

MaxOf(a, b) == IF a >= b THEN a ELSE b

TypeOK ==
    /\ obj \in Objects
    /\ pc \in {"start", "loop", "check", "done"}
    /\ bufferLen \in 0 .. SizeMax - 1
    /\ len \in 0 .. SizeMax - 1
    /\ copied \in Nat
    /\ i \in 0 .. bufferLen
    /\ reach \in Nat
    /\ ret \in 0 .. SizeMax - 1

Init ==
    /\ obj \in Objects
    /\ pc = "start"
    /\ bufferLen = 0 /\ len = 0 /\ copied = 0 /\ i = 0 /\ reach = 0 /\ ret = 0

Return(r) == /\ ret' = r /\ pc' = "done"

(* Not a stream (lines 1201-1205), or Length not an int (1229-1235):       *)
(* return 0 before anything is allocated.                                  *)
NotAStream ==
    /\ pc = "start" /\ ~obj.isStream
    /\ Return(0)
    /\ UNCHANGED <<obj, bufferLen, len, copied, i, reach>>

LengthNotInt ==
    /\ pc = "start" /\ obj.isStream /\ obj.length = NotInt
    /\ Return(0)
    /\ UNCHANGED <<obj, bufferLen, len, copied, i, reach>>

(* Mutant: the size leaves out the indirect footer.                        *)
AllocateNoFooter ==
    /\ pc = "start" /\ obj.isStream /\ obj.length # NotInt
    /\ ~(CNot(obj.length) < 0)
    /\ LET bl == ToSize(obj.length)
           pre == obj.header + obj.dict + StreamHeaderLen
       IN  /\ bufferLen' = bl
           /\ len' = ToSize(pre + bl + StreamFooterLen)
           /\ copied' = pre
           /\ reach' = MaxOf(reach, pre)
    /\ pc' = "loop"
    /\ UNCHANGED <<obj, i, ret>>

(* Lines 1236-1262: the check for a negative Length, written !x<0, is      *)
(* never true; bufferLen is (size_t)Length; the total size is summed in    *)
(* size_t and allocated; the header, the dictionary and "\nstream\n" are   *)
(* copied to the front of the buffer.                                      *)
Allocate ==
    /\ pc = "start" /\ obj.isStream /\ obj.length # NotInt
    /\ ~(CNot(obj.length) < 0)
    /\ LET bl == ToSize(obj.length)
           pre == obj.header + obj.dict + StreamHeaderLen
       IN  /\ bufferLen' = bl
           /\ len' = ToSize(pre + bl + StreamFooterLen + FooterLen(obj))
           /\ copied' = pre
           /\ reach' = MaxOf(reach, pre)
    /\ pc' = "loop"
    /\ UNCHANGED <<obj, i, ret>>

(* Mutant: the loop copies until EOF and ignores Length.                   *)
CopyByteUntilEof ==
    /\ pc = "loop" /\ i < obj.data
    /\ reach' = MaxOf(reach, copied + i + 1)
    /\ i' = i + 1
    /\ UNCHANGED <<obj, pc, bufferLen, len, copied, ret>>

(* One iteration of the copy loop (1267-1278): read a byte of the base     *)
(* stream and store it at buf[copied+i].                                   *)
CopyByte ==
    /\ pc = "loop" /\ i < bufferLen /\ i < obj.data
    /\ reach' = MaxOf(reach, copied + i + 1)
    /\ i' = i + 1
    /\ UNCHANGED <<obj, pc, bufferLen, len, copied, ret>>

(* The loop ends at i = bufferLen or at EOF of the base stream.            *)
EndLoop ==
    /\ pc = "loop" /\ (i = bufferLen \/ i = obj.data)
    /\ pc' = "check"
    /\ UNCHANGED <<obj, bufferLen, len, copied, i, reach, ret>>

(* Fewer bytes than Length (1281-1289): the whole buffer is zeroed, 0 is   *)
(* returned.                                                               *)
ShortData ==
    /\ pc = "check" /\ i # bufferLen
    /\ reach' = MaxOf(reach, len)
    /\ Return(0)
    /\ UNCHANGED <<obj, bufferLen, len, copied, i>>

(* More bytes than Length (1290-1297): zeroed, 0 returned.                 *)
ExtraData ==
    /\ pc = "check" /\ i = bufferLen /\ obj.data > i
    /\ reach' = MaxOf(reach, len)
    /\ Return(0)
    /\ UNCHANGED <<obj, bufferLen, len, copied, i>>

(* Mutant: the check for data after Length is dropped.                     *)
FinishNoEofCheck ==
    /\ pc = "check" /\ i = bufferLen
    /\ LET end == copied + bufferLen + StreamFooterLen + FooterLen(obj)
       IN  /\ copied' = end
           /\ reach' = MaxOf(reach, end)
    /\ Return(len)
    /\ UNCHANGED <<obj, bufferLen, len, i>>

(* Exactly Length bytes (1298-1310): the two footers are appended and len  *)
(* is returned.                                                            *)
Finish ==
    /\ pc = "check" /\ i = bufferLen /\ obj.data = i
    /\ LET end == copied + bufferLen + StreamFooterLen + FooterLen(obj)
       IN  /\ copied' = end
           /\ reach' = MaxOf(reach, end)
    /\ Return(len)
    /\ UNCHANGED <<obj, bufferLen, len, i>>

Next ==
    \/ NotAStream \/ LengthNotInt \/ Allocate
    \/ CopyByte \/ EndLoop
    \/ ShortData \/ ExtraData \/ Finish

(* A call returns; the procedure then stops.                               *)
Spec == Init /\ [][Next]_vars

-----------------------------------------------------------------------------
(* The serialised size of a well-formed stream object, and what makes one  *)
(* well formed: a stream whose Length is an int equal to the bytes it      *)
(* holds (spec sections 4.5 and 7, MalformedStream).                       *)
SerializedLen(o) ==
    o.header + o.dict + StreamHeaderLen + o.data + StreamFooterLen + FooterLen(o)

WellFormed(o) ==
    /\ o.isStream
    /\ o.length # NotInt
    /\ o.length >= 0
    /\ o.length = o.data

(* No write of streamToCharBuffer, in the memcpy calls, the copy loop or   *)
(* the memset of the error paths, goes past the buffer it allocated.       *)
NoOverflow == reach <= len

(* streamToCharBuffer returns a non-zero size exactly for a well-formed    *)
(* stream object, and then the size of "dict\nstream\n<bytes>\nendstream"  *)
(* with the indirect header and footer; it returns 0 for any malformed     *)
(* one (wrong type, Length not an int, too few or too many bytes).         *)
ReturnOK ==
    pc = "done" =>
        /\ (ret # 0 <=> WellFormed(obj))
        /\ ret # 0 => ret = SerializedLen(obj)
=============================================================================
