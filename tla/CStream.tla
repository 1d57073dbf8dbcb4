------------------------------ MODULE CStream ------------------------------
(***************************************************************************)
(* The stream node of the PDFedit object model (class CStream,             *)
(* src/kernel/cstream.h): a stream dictionary plus an encoded buffer.      *)
(*                                                                         *)
(* Data is abstracted to what the properties tell apart.  A decoded        *)
(* payload is a natural number standing both for its contents and for its  *)
(* byte length.  An encoded buffer is a record: the payload and the list   *)
(* of filter layers wrapped around it, outermost first; each layer adds    *)
(* one byte.  Decoding a buffer with a filter list gives the payload back  *)
(* exactly when the list names the layers in the order they were applied.  *)
(*                                                                         *)
(* Only the two dictionary entries the stream itself reads or writes are   *)
(* kept: "Length" and "Filter".  Dictionary values are tagged records so   *)
(* that a caller may store a value of any kind under either key.           *)
(*                                                                         *)
(* A history variable records what the caller did, for the round trip:    *)
(* written is the payload of the last setBuffer (NoWrite once the buffer   *)
(* or the Filter entry is replaced by other means).                        *)
(***************************************************************************)
EXTENDS Integers, Sequences

CONSTANTS
    FilterNames,    \* names that may appear in a Filter entry
    Supported,      \* the names the kernel's filter factory can encode
    Payloads,       \* decoded payloads (as their byte lengths)
    FilterEntries,  \* values a caller or a loaded file may put under Filter
    LengthValues,   \* integers a caller may put under Length
    InPdf           \* whether the stream belongs to a document (xref present)

ASSUME SupportedAssumption == Supported \subseteq FilterNames
ASSUME PayloadsAssumption == Payloads \subseteq Nat /\ 0 \in Payloads
ASSUME LengthValuesAssumption == LengthValues \subseteq Nat
ASSUME InPdfAssumption == InPdf \in BOOLEAN

VARIABLES
    dict,          \* the stream dictionary: [Keys -> Value]
    buffer,        \* the encoded buffer: [layers, data]
    written        \* history: payload of the last setBuffer, or NoWrite

vars == <<dict, buffer, written>>

Keys == {"Length", "Filter"}

(* Dictionary values.  Absent marks a key that is not in the dictionary.   *)
Absent == [t |-> "none"]
IntVal(n) == [t |-> "int", v |-> n]
NameVal(n) == [t |-> "name", n |-> n]

NoWrite == -1
Garbage == -2

Plain(p) == [layers |-> << >>, data |-> p]

BufLen(b) == b.data + Len(b.layers)

(* The names a Filter entry lists, in decoding order (CStream::getFilters: *)
(* a name gives itself, an array its elements, anything else nothing).     *)
FilterList(e) ==
    CASE e.t = "name"  -> << e.n >>
      [] e.t = "array" -> e.a
      [] OTHER         -> << >>

(* The filters the xpdf decoder applies: Stream::addFilters looks Filter   *)
(* up through the document's xref, so an indirect entry is resolved when   *)
(* the stream is in a document and ignored otherwise.                      *)
DecodeFilters(d) ==
    IF d["Filter"].t = "ref" /\ InPdf
    THEN FilterList(d["Filter"].to)
    ELSE FilterList(d["Filter"])

(* Every Filter entry lists filter names, directly or through the entry   *)
(* an indirect one points at.                                              *)
ASSUME FilterEntriesAssumption ==
    \A e \in FilterEntries :
        /\ FilterList(e) \in Seq(FilterNames)
        /\ e.t = "ref" => FilterList(e.to) \in Seq(FilterNames)

(* The payload read back from buffer b through filters fs                  *)
(* (xpdfStreamObjFromBuffer then getStringFromXpdfStream).  The memory     *)
(* stream is built over buffer.size(), never over Length.                  *)
Decoded(b, fs) == IF b.layers = fs THEN b.data ELSE Garbage

(* CStream::setLength: upsert of the Length entry.                         *)
SetLength(d, n) == [d EXCEPT !["Length"] = IntVal(n)]

(* One filter of the list is unknown to the filter factory, so            *)
(* CFilterFactory::addFilters throws FilterNotSupported.                   *)
FallbackNeeded(fs) == \E i \in DOMAIN fs : fs[i] \notin Supported

(* Mutant: on FilterNotSupported the payload is stored unfiltered but the *)
(* Filter entry is left in the dictionary.                                 *)
EncodeBufferKeepFilter(d, p) ==
    LET fs == FilterList(d["Filter"])
    IN  IF FallbackNeeded(fs)
        THEN [dict |-> d, buffer |-> Plain(p)]
        ELSE [dict |-> d, buffer |-> [layers |-> fs, data |-> p]]

(* CStream::encodeBuffer: the result pair [dict, buffer].  The filters are *)
(* pushed in getFilters order and the source last, so the data runs        *)
(* through the last filter first and the first filter is the outermost     *)
(* layer.  On FilterNotSupported the Filter entry is deleted and the       *)
(* payload is copied unfiltered.                                           *)
EncodeBuffer(d, p) ==
    LET fs == FilterList(d["Filter"])
    IN  IF FallbackNeeded(fs)
        THEN [dict |-> [d EXCEPT !["Filter"] = Absent], buffer |-> Plain(p)]
        ELSE [dict |-> d, buffer |-> [layers |-> fs, data |-> p]]

-----------------------------------------------------------------------------
(* The values a Filter or Length entry can hold in a loaded or a new       *)
(* stream, and the buffers a loaded stream can carry.                      *)
Values == {Absent} \cup FilterEntries \cup {IntVal(n) : n \in LengthValues}

TypeOK ==
    /\ dict \in [Keys -> Values \cup [t : {"int"}, v : Nat]]
    /\ buffer \in [layers : Seq(FilterNames), data : Payloads]
    /\ written \in Payloads \cup {NoWrite}

(* A stream is either new (CStream(true): empty buffer, Length 0, no       *)
(* Filter) or loaded from a document, whose buffer was written with the    *)
(* filters the decoder will apply and whose Length was read from it.       *)
Init ==
    /\ \/ /\ dict = [k \in Keys |-> IF k = "Length" THEN IntVal(0) ELSE Absent]
          /\ buffer = Plain(0)
       \/ \E f \in FilterEntries \cup {Absent}, p \in Payloads :
            LET d == [k \in Keys |-> IF k = "Filter" THEN f ELSE Absent]
                b == [layers |-> DecodeFilters(d), data |-> p]
            IN  /\ buffer = b
                /\ dict = [d EXCEPT !["Length"] = IntVal(BufLen(b))]
    /\ written = NoWrite

(* Mutant: the new size is stored as a real number object, not an int.   *)
SetBufferLengthAsReal(p) ==
    LET r == EncodeBuffer(dict, p)
    IN  /\ buffer' = r.buffer
        /\ dict' = [r.dict EXCEPT !["Length"] = [t |-> "real", v |-> BufLen(r.buffer)]]
        /\ written' = p

(* CStream::setBuffer(buf): encode buf with the current filters, then set  *)
(* Length to the new buffer size.                                          *)
SetBuffer(p) ==
    LET r == EncodeBuffer(dict, p)
    IN  /\ buffer' = r.buffer
        /\ dict' = SetLength(r.dict, BufLen(r.buffer))
        /\ written' = p

(* CStream::setRawBuffer(buf): store an already encoded buffer verbatim    *)
(* and set Length.                                                         *)
SetRawBuffer(b) ==
    /\ buffer' = b
    /\ dict' = SetLength(dict, BufLen(b))
    /\ written' = NoWrite

(* The history after a caller edited entry k of the dictionary.            *)
Edited(k) ==
    written' = IF k = "Filter" THEN NoWrite ELSE written

(* CStream::setProperty, delegated to CDict::setProperty: replaces the     *)
(* entry, or adds it when the key is missing.                              *)
SetProperty(k, v) ==
    /\ dict' = [dict EXCEPT ![k] = v]
    /\ Edited(k)
    /\ UNCHANGED buffer

(* CStream::addProperty, delegated to CDict::addProperty: fails (no        *)
(* change) when the key exists.                                            *)
AddProperty(k, v) ==
    /\ dict[k] = Absent
    /\ dict' = [dict EXCEPT ![k] = v]
    /\ Edited(k)
    /\ UNCHANGED buffer

(* CStream::delProperty, delegated to CDict::delProperty: fails (no        *)
(* change) when the key is missing.                                        *)
DelProperty(k) ==
    /\ dict[k] # Absent
    /\ dict' = [dict EXCEPT ![k] = Absent]
    /\ Edited(k)
    /\ UNCHANGED buffer

(* The encoded buffers a caller may hand to setRawBuffer.                  *)
RawBuffers == {[layers |-> FilterList(e), data |-> p] :
                  e \in FilterEntries \cup {Absent}, p \in Payloads}

Next ==
    \/ \E p \in Payloads : SetBuffer(p)
    \/ \E b \in RawBuffers : SetRawBuffer(b)
    \/ \E k \in Keys, v \in Values \ {Absent} : SetProperty(k, v) \/ AddProperty(k, v)
    \/ \E k \in Keys : DelProperty(k)

Spec == Init /\ [][Next]_vars

-----------------------------------------------------------------------------
(* Round trip (spec section 8, "Stream (post filter round-trip)"): after   *)
(* setBuffer(p), and as long as the buffer and the Filter entry are not    *)
(* replaced by other means, decoding the buffer with the filters the       *)
(* decoder reads from the dictionary gives p back.  This covers the        *)
(* encodeBuffer fallback that drops Filter, the order in which the filter  *)
(* chain is built, and Length edits, which the decoder must not use.       *)
RoundTrip ==
    written # NoWrite => Decoded(buffer, DecodeFilters(dict)) = written
=============================================================================
