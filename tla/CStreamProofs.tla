--------------------------- MODULE CStreamProofs ---------------------------
(***************************************************************************)
(* Proofs about the stream node (CStream), for every value of the          *)
(* constants: type correctness and the round trip of setBuffer through    *)
(* the filter pipeline.                                                    *)
(***************************************************************************)
EXTENDS CStream, SequenceTheorems, TLAPS

IntRecords == [t : {"int"}, v : Nat]
DictValues == Values \cup IntRecords

(* The Filter entry an indirect reference could never be: a caller only    *)
(* stores direct entries when the stream is in a document.                 *)
DirectFilters == InPdf => \A e \in FilterEntries : e.t # "ref"

USE SupportedAssumption, PayloadsAssumption, LengthValuesAssumption,
    InPdfAssumption, FilterEntriesAssumption

-----------------------------------------------------------------------------
(* Whatever value the dictionary holds under Filter, getFilters returns a  *)
(* list of filter names, and so does the decoder's lookup.                 *)
LEMMA FilterListType ==
    ASSUME NEW e \in DictValues
    PROVE  /\ FilterList(e) \in Seq(FilterNames)
           /\ e.t = "ref" => FilterList(e.to) \in Seq(FilterNames)
<1>1. CASE e \in FilterEntries
  BY <1>1
<1>2. CASE e \in {Absent} \cup {IntVal(n) : n \in LengthValues} \cup IntRecords
  <2>1. e.t \in {"none", "int"}
    BY <1>2 DEF Absent, IntVal, IntRecords
  <2>2. FilterList(e) = << >>
    BY <2>1 DEF FilterList
  <2>3. QED
    BY <2>1, <2>2
<1>3. QED
  BY <1>1, <1>2 DEF DictValues, Values

LEMMA DecodeFiltersType ==
    ASSUME NEW d \in [Keys -> DictValues]
    PROVE  DecodeFilters(d) \in Seq(FilterNames)
<1>1. d["Filter"] \in DictValues
  BY DEF Keys
<1>2. QED
  BY <1>1, FilterListType DEF DecodeFilters

(* With direct Filter entries only, the decoder reads the same filter list *)
(* as getFilters.                                                          *)
LEMMA DecodeFiltersDirect ==
    ASSUME DirectFilters, NEW d \in [Keys -> DictValues]
    PROVE  DecodeFilters(d) = FilterList(d["Filter"])
<1>1. d["Filter"] \in DictValues
  BY DEF Keys
<1>2. CASE d["Filter"] \in FilterEntries
  BY <1>2 DEF DirectFilters, DecodeFilters
<1>3. CASE d["Filter"] \in {Absent} \cup {IntVal(n) : n \in LengthValues} \cup IntRecords
  <2>1. d["Filter"].t # "ref"
    BY <1>3 DEF Absent, IntVal, IntRecords
  <2>2. QED
    BY <2>1 DEF DecodeFilters
<1>4. QED
  BY <1>1, <1>2, <1>3 DEF DictValues, Values

(* The size of a well-typed buffer is a natural number.                    *)
LEMMA BufLenType ==
    ASSUME NEW b \in [layers : Seq(FilterNames), data : Payloads]
    PROVE  BufLen(b) \in Nat
<1>1. b.data \in Nat /\ Len(b.layers) \in Nat
  BY LenProperties
<1>2. QED
  BY <1>1 DEF BufLen

-----------------------------------------------------------------------------
(* The new dictionary after setLength is well typed.                       *)
LEMMA SetLengthType ==
    ASSUME NEW d \in [Keys -> DictValues], NEW n \in Nat
    PROVE  /\ SetLength(d, n) \in [Keys -> DictValues]
           /\ SetLength(d, n)["Filter"] = d["Filter"]
           /\ SetLength(d, n)["Length"] = IntVal(n)
BY DEF SetLength, DictValues, IntRecords, IntVal, Keys

(* encodeBuffer yields a well-typed dictionary and buffer.                 *)
LEMMA EncodeBufferType ==
    ASSUME NEW d \in [Keys -> DictValues], NEW p \in Payloads
    PROVE  /\ EncodeBuffer(d, p).dict \in [Keys -> DictValues]
           /\ EncodeBuffer(d, p).buffer \in [layers : Seq(FilterNames), data : Payloads]
<1>1. FilterList(d["Filter"]) \in Seq(FilterNames)
  BY FilterListType DEF Keys
<1>2. Absent \in DictValues
  BY DEF DictValues, Values
<1>3. QED
  BY <1>1, <1>2 DEF EncodeBuffer, Plain, Keys

-----------------------------------------------------------------------------
(* Type correctness of the stream node.                                    *)
THEOREM TypeCorrect == Spec => []TypeOK
<1>1. Init => TypeOK
  <2> SUFFICES ASSUME Init PROVE TypeOK
    OBVIOUS
  <2>1. Absent \in DictValues /\ IntVal(0) \in DictValues
    BY DEF DictValues, Values, IntRecords, IntVal
  <2>2. CASE /\ dict = [k \in Keys |-> IF k = "Length" THEN IntVal(0) ELSE Absent]
             /\ buffer = Plain(0)
    <3>1. dict \in [Keys -> DictValues]
      BY <2>1, <2>2
    <3>2. buffer \in [layers : Seq(FilterNames), data : Payloads]
      BY <2>2 DEF Plain
    <3>3. QED
      BY <3>1, <3>2 DEF TypeOK, Init, DictValues, IntRecords
  <2>3. CASE \E f \in FilterEntries \cup {Absent}, p \in Payloads :
               LET d == [k \in Keys |-> IF k = "Filter" THEN f ELSE Absent]
                   b == [layers |-> DecodeFilters(d), data |-> p]
               IN  /\ buffer = b
                   /\ dict = [d EXCEPT !["Length"] = IntVal(BufLen(b))]
    <3>1. PICK f \in FilterEntries \cup {Absent}, p \in Payloads :
               LET d == [k \in Keys |-> IF k = "Filter" THEN f ELSE Absent]
                   b == [layers |-> DecodeFilters(d), data |-> p]
               IN  /\ buffer = b
                   /\ dict = [d EXCEPT !["Length"] = IntVal(BufLen(b))]
      BY <2>3
    <3> DEFINE d == [k \in Keys |-> IF k = "Filter" THEN f ELSE Absent]
               b == [layers |-> DecodeFilters(d), data |-> p]
    <3>2. d \in [Keys -> DictValues]
      BY <2>1 DEF DictValues, Values
    <3>3. b \in [layers : Seq(FilterNames), data : Payloads]
      BY <3>2, DecodeFiltersType
    <3>4. IntVal(BufLen(b)) \in DictValues
      BY <3>3, BufLenType DEF DictValues, IntRecords, IntVal
    <3>5. [d EXCEPT !["Length"] = IntVal(BufLen(b))] \in [Keys -> DictValues]
      BY <3>2, <3>4
    <3>6. QED
      BY <3>1, <3>3, <3>5 DEF TypeOK, Init, DictValues, IntRecords
  <2>4. QED
    BY <2>2, <2>3 DEF Init
<1>2. TypeOK /\ [Next]_vars => TypeOK'
  <2> SUFFICES ASSUME TypeOK, [Next]_vars PROVE TypeOK'
    OBVIOUS
  <2>0. dict \in [Keys -> DictValues]
    BY DEF TypeOK, DictValues, IntRecords
  <2>1. ASSUME NEW p \in Payloads, SetBuffer(p) PROVE TypeOK'
    <3> DEFINE r == EncodeBuffer(dict, p)
    <3>1. r.dict \in [Keys -> DictValues]
          /\ r.buffer \in [layers : Seq(FilterNames), data : Payloads]
      BY <2>0, EncodeBufferType
    <3>2. BufLen(r.buffer) \in Nat
      BY <3>1, BufLenType
    <3>3. SetLength(r.dict, BufLen(r.buffer)) \in [Keys -> DictValues]
      BY <3>1, <3>2, SetLengthType
    <3>4. QED
      BY <2>1, <3>1, <3>3 DEF SetBuffer, TypeOK, DictValues, IntRecords
  <2>2. ASSUME NEW b \in RawBuffers, SetRawBuffer(b) PROVE TypeOK'
    <3>1. b \in [layers : Seq(FilterNames), data : Payloads]
      <4>1. PICK e \in FilterEntries \cup {Absent}, p \in Payloads :
                 b = [layers |-> FilterList(e), data |-> p]
        BY <2>2 DEF RawBuffers
      <4>2. e \in DictValues
        BY DEF DictValues, Values
      <4>3. QED
        BY <4>1, <4>2, FilterListType
    <3>2. SetLength(dict, BufLen(b)) \in [Keys -> DictValues]
      BY <2>0, <3>1, BufLenType, SetLengthType
    <3>3. QED
      BY <2>2, <3>1, <3>2 DEF SetRawBuffer, TypeOK, DictValues, IntRecords
  <2>3. ASSUME NEW k \in Keys, NEW v \in Values \ {Absent},
               SetProperty(k, v) \/ AddProperty(k, v)
        PROVE TypeOK'
    <3>1. dict' = [dict EXCEPT ![k] = v] /\ buffer' = buffer /\ Edited(k)
      BY <2>3 DEF SetProperty, AddProperty
    <3>2. QED
      BY <3>1 DEF TypeOK, Edited
  <2>4. ASSUME NEW k \in Keys, DelProperty(k) PROVE TypeOK'
    BY <2>4 DEF DelProperty, TypeOK, Edited, Values
  <2>5. CASE UNCHANGED vars
    BY <2>5 DEF vars, TypeOK
  <2>6. QED
    BY <2>1, <2>2, <2>3, <2>4, <2>5 DEF Next
<1>3. QED
  BY <1>1, <1>2, PTL DEF Spec

-----------------------------------------------------------------------------
(* A step of a delegated dictionary accessor on key k: only entry k of the *)
(* dictionary changes and the buffer is untouched.                         *)
LEMMA DelegatedStep ==
    ASSUME TypeOK, NEW k \in Keys,
           \/ \E v \in Values \ {Absent} : SetProperty(k, v) \/ AddProperty(k, v)
           \/ DelProperty(k)
    PROVE  /\ buffer' = buffer
           /\ \A j \in Keys \ {k} : dict'[j] = dict[j]
           /\ dict' \in [Keys -> DictValues]
           /\ Edited(k)
BY DEF SetProperty, AddProperty, DelProperty, TypeOK, DictValues, IntRecords, Values

(* DecodeFilters reads the Filter entry only.                              *)
LEMMA DecodeFiltersFilterOnly ==
    ASSUME NEW d1, NEW d2, d1["Filter"] = d2["Filter"]
    PROVE  DecodeFilters(d1) = DecodeFilters(d2)
BY DEF DecodeFilters

(* Round trip of setBuffer through the filter pipeline: after              *)
(* setBuffer(p), until the buffer or the Filter entry is replaced by other *)
(* means, decoding the buffer with the filters the decoder reads from the  *)
(* dictionary gives p back.  It holds for every filter configuration in    *)
(* which the Filter entry is direct; an indirect entry is ignored by       *)
(* CStream::getFilters but resolved by the decoder (run                    *)
(* cstream_indirect_filter shows the counterexample).                      *)
THEOREM RoundTripTheorem == DirectFilters => (Spec => []RoundTrip)
<1> SUFFICES ASSUME DirectFilters PROVE Spec => []RoundTrip
  OBVIOUS
<1>1. Init => RoundTrip
  BY DEF Init, RoundTrip
<1>2. TypeOK /\ RoundTrip /\ [Next]_vars => RoundTrip'
  <2> SUFFICES ASSUME TypeOK, RoundTrip, [Next]_vars PROVE RoundTrip'
    OBVIOUS
  <2>0. dict \in [Keys -> DictValues]
    BY DEF TypeOK, DictValues, IntRecords
  <2>1. ASSUME NEW p \in Payloads, SetBuffer(p) PROVE RoundTrip'
    <3> DEFINE r == EncodeBuffer(dict, p)
               fs == FilterList(dict["Filter"])
    <3>1. r.dict \in [Keys -> DictValues]
          /\ r.buffer \in [layers : Seq(FilterNames), data : Payloads]
      BY <2>0, EncodeBufferType
    <3>2. BufLen(r.buffer) \in Nat
      BY <3>1, BufLenType
    <3>3. /\ dict' = SetLength(r.dict, BufLen(r.buffer))
          /\ buffer' = r.buffer
          /\ written' = p
      BY <2>1 DEF SetBuffer
    <3>4. /\ dict' \in [Keys -> DictValues]
          /\ dict'["Filter"] = r.dict["Filter"]
      BY <3>1, <3>2, <3>3, SetLengthType
    <3>5. DecodeFilters(dict') = FilterList(r.dict["Filter"])
      BY <3>4, DecodeFiltersDirect
    <3>6. r.buffer.layers = FilterList(r.dict["Filter"]) /\ r.buffer.data = p
      <4>1. CASE FallbackNeeded(fs)
        <5>1. r.dict["Filter"] = Absent /\ r.buffer = Plain(p)
          BY <2>0, <4>1 DEF EncodeBuffer, Keys
        <5>2. QED
          BY <5>1 DEF FilterList, Absent, Plain
      <4>2. CASE ~FallbackNeeded(fs)
        BY <4>2 DEF EncodeBuffer
      <4>3. QED
        BY <4>1, <4>2
    <3>7. QED
      BY <3>3, <3>5, <3>6 DEF RoundTrip, Decoded
  <2>2. ASSUME NEW b \in RawBuffers, SetRawBuffer(b) PROVE RoundTrip'
    BY <2>2 DEF SetRawBuffer, RoundTrip
  <2>3. ASSUME NEW k \in Keys,
               \/ \E v \in Values \ {Absent} : SetProperty(k, v) \/ AddProperty(k, v)
               \/ DelProperty(k)
        PROVE  RoundTrip'
    <3>1. /\ buffer' = buffer
          /\ \A j \in Keys \ {k} : dict'[j] = dict[j]
          /\ Edited(k)
      BY <2>3, DelegatedStep
    <3>2. CASE k = "Filter"
      BY <3>1, <3>2 DEF Edited, RoundTrip
    <3>3. CASE k = "Length"
      <4>1. dict'["Filter"] = dict["Filter"] /\ written' = written
        BY <3>1, <3>3 DEF Keys, Edited
      <4>2. DecodeFilters(dict') = DecodeFilters(dict)
        BY <4>1, DecodeFiltersFilterOnly
      <4>3. QED
        BY <3>1, <4>1, <4>2 DEF RoundTrip
    <3>4. QED
      BY <3>2, <3>3 DEF Keys
  <2>4. CASE UNCHANGED vars
    BY <2>4 DEF vars, RoundTrip
  <2>5. QED
    BY <2>1, <2>2, <2>3, <2>4 DEF Next
<1>3. QED
  BY <1>1, <1>2, TypeCorrect, PTL DEF Spec
=============================================================================
