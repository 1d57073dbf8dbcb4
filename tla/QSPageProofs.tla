---------------------------- MODULE QSPageProofs ----------------------------
(***************************************************************************)
(* Proofs about the page wrapper (QSPage), for any number of wrappers,     *)
(* any set of content streams and any fonts: type correctness (through    *)
(* the consistency of each wrapper's load-once cache), and that getFontId  *)
(* returns an id of a font with the name asked for.                        *)
(***************************************************************************)
EXTENDS QSPage, SequenceTheorems, WellFoundedInduction, TLAPS

(* The assumptions on the constants are cited where a step needs them.    *)

-----------------------------------------------------------------------------
(* LeastIndex picks the least element of a non-empty set of naturals.      *)
LEMMA LeastIndexIsLeast ==
    ASSUME NEW S \in SUBSET Nat, S # {}
    PROVE  /\ LeastIndex(S) \in S
           /\ \A j \in S : LeastIndex(S) <= j
<1>1. \E x \in S : \A y \in S : ~(<<y, x>> \in OpToRel(<, Nat))
  BY NatLessThanWellFounded, WFMin
<1>2. PICK x \in S : \A y \in S : ~(<<y, x>> \in OpToRel(<, Nat))
  BY <1>1
<1>3. \A y \in S : x <= y
  <2> TAKE y \in S
  <2>1. y < x => <<y, x>> \in OpToRel(<, Nat)
    BY DEF OpToRel
  <2>2. ~(y < x) => x <= y
    OBVIOUS
  <2>3. QED
    BY <1>2, <2>1, <2>2
<1>4. QED
  BY <1>3, Zenon DEF LeastIndex

(* A stream on the page has a position there.                              *)
LEMMA PositionOfOnPage ==
    ASSUME page \in Seq(StreamIds), NEW s \in SeqRange(page)
    PROVE  PositionOf(s) \in 1 .. Len(page) /\ page[PositionOf(s)] = s
BY DEF SeqRange, PositionOf

(* Swapping two entries of the page keeps its type, its length, its set    *)
(* of streams, and the absence of duplicates.                              *)
LEMMA SwapFacts ==
    ASSUME page \in Seq(StreamIds),
           NEW i \in 1 .. Len(page), NEW j \in 1 .. Len(page)
    PROVE  /\ Swap(i, j) \in Seq(StreamIds)
           /\ Len(Swap(i, j)) = Len(page)
           /\ SeqRange(Swap(i, j)) = SeqRange(page)
           /\ (\A k, l \in DOMAIN page : k # l => page[k] # page[l]) =>
                 \A k, l \in DOMAIN Swap(i, j) : k # l => Swap(i, j)[k] # Swap(i, j)[l]
<1> DEFINE t == Swap(i, j)
<1>1. t = [k \in 1 .. Len(page) |-> IF k = i THEN page[j] ELSE IF k = j THEN page[i] ELSE page[k]]
  BY DEF Swap
<1>2. t \in Seq(StreamIds) /\ Len(t) = Len(page)
  BY <1>1
<1>3. SeqRange(t) = SeqRange(page)
  <2> DEFINE sw(k) == IF k = i THEN j ELSE IF k = j THEN i ELSE k
  <2>1. \A k \in 1 .. Len(page) :
           sw(k) \in 1 .. Len(page) /\ t[k] = page[sw(k)] /\ t[sw(k)] = page[k]
    BY <1>1
  <2>2. DOMAIN t = 1 .. Len(page) /\ DOMAIN page = 1 .. Len(page)
    BY <1>1
  <2>3. ASSUME NEW x \in SeqRange(t) PROVE x \in SeqRange(page)
    <3>1. PICK k \in DOMAIN t : x = t[k]
      BY DEF SeqRange
    <3>2. QED
      BY <2>1, <2>2, <3>1 DEF SeqRange
  <2>4. ASSUME NEW x \in SeqRange(page) PROVE x \in SeqRange(t)
    <3>1. PICK k \in DOMAIN page : x = page[k]
      BY DEF SeqRange
    <3>2. QED
      BY <2>1, <2>2, <3>1 DEF SeqRange
  <2>5. QED
    BY <2>3, <2>4
<1>4. ASSUME \A k, l \in DOMAIN page : k # l => page[k] # page[l],
             NEW k \in 1 .. Len(page), NEW l \in 1 .. Len(page), k # l
      PROVE  t[k] # t[l]
  BY <1>1, <1>4
<1>5. QED
  BY <1>1, <1>2, <1>3, <1>4

-----------------------------------------------------------------------------
(* The records of the page's font list, and the answers a query records.   *)
FontRec == [id : STRING, name : STRING]
Answers ==
    {NoAnswer}
    \cup [kind : {"count"}, got : Nat, actual : Nat]
    \cup [kind : {"stream"}, got : StreamIds \cup {NULL}, actual : StreamIds \cup {NULL}]
    \cup [kind : {"fontId"}, name : STRING, got : STRING \cup {NULL}, had : BOOLEAN]
    \cup [kind : {"fonts"}, got : Seq(STRING)]
    \cup [kind : {"box"}, got : Seq(Int)]

(* TypeOK, one variable at a time.                                          *)
Typed(pg, st, ns, ad, an, fo, bx, mx) ==
    /\ pg \in Seq(StreamIds)
    /\ st \in [Wrappers -> Seq(StreamIds)]
    /\ ns \in [Wrappers -> Int]
    /\ ad \in SUBSET StreamIds
    /\ an \in [Wrappers -> Answers]
    /\ fo \in Seq(FontRec)
    /\ bx \in Seq(Int) /\ Len(bx) = 4
    /\ mx \in [1 .. 6 -> Int]

LEMMA TypeOKParts ==
    /\ TypeOK <=> Typed(page, streams, numStreams, added, answer, fonts, box, matrix)
    /\ TypeOK' <=> Typed(page', streams', numStreams', added', answer', fonts', box', matrix')
BY DEF TypeOK, Typed, Answers, FontRec

(* An element of a sequence is in the sequence's element set.             *)
LEMMA SeqElem ==
    ASSUME NEW S, NEW s \in Seq(S), NEW i \in DOMAIN s
    PROVE  s[i] \in S
OBVIOUS

(* A function on 1 .. n is a sequence of length n.                          *)
LEMMA FunIsSeq ==
    ASSUME NEW S, NEW n \in Nat, NEW f \in [1 .. n -> S]
    PROVE  f \in Seq(S) /\ Len(f) = n
OBVIOUS

(* TypeOK is not inductive alone: addSystemType1Font takes the id at       *)
(* position Len(fonts) - Len(InitFonts) + 1 of FreshFontIds, which is an   *)
(* id only because fonts never shrinks below the page's initial fonts.     *)
TypeInv == TypeOK /\ Len(fonts) >= Len(InitFonts)

(* What the load-once cache keeps true, and the type proof needs: a       *)
(* wrapper's numStreams is -1 until it loads the list and from then on    *)
(* the size of the list it holds, so getContentStream reads streams[n]    *)
(* only for n inside the vector.                                           *)
CacheConsistent ==
    \A w \in Wrappers :
        \/ numStreams[w] = -1
        \/ numStreams[w] = Len(streams[w])

(* The answer getFontId records is well typed.                             *)
LEMMA FontIdOfType ==
    ASSUME fonts \in Seq(FontRec), NEW n \in FontNames
    PROVE  FontIdOf(n) \in STRING \cup {NULL}
<1> DEFINE hits == {i \in DOMAIN fonts : fonts[i].name = n}
<1>1. CASE hits # {}
  <2>0. hits \in SUBSET Nat
    OBVIOUS
  <2>1. LeastIndex(hits) \in DOMAIN fonts
    BY <1>1, <2>0, LeastIndexIsLeast
  <2>2. fonts[LeastIndex(hits)] \in FontRec
    BY <2>1, SeqElem
  <2>3. FontIdOf(n) = fonts[LeastIndex(hits)].id
    BY <1>1 DEF FontIdOf
  <2>4. QED
    BY <2>2, <2>3 DEF FontRec
<1>2. QED
  BY <1>1 DEF FontIdOf

(* Both forms of the list getFontIdsAndNames returns are lists of strings. *)
LEMMA FontIdsAndNamesType ==
    ASSUME fonts \in Seq(FontRec), NEW b \in BOOLEAN
    PROVE  FontIdsAndNames(b) \in Seq(STRING)
<1>1. ASSUME NEW i \in DOMAIN fonts
      PROVE  fonts[i].id \in STRING /\ fonts[i].name \in STRING
  <2>1. fonts[i] \in FontRec
    BY SeqElem
  <2>2. QED
    BY <2>1 DEF FontRec
<1>0. Len(fonts) \in Nat /\ 2 * Len(fonts) \in Nat /\ DOMAIN fonts = 1 .. Len(fonts)
  OBVIOUS
<1>2. CASE b
  <2>1. FontIdsAndNames(b) = [i \in DOMAIN fonts |-> fonts[i].name]
    BY <1>2 DEF FontIdsAndNames
  <2>2. FontIdsAndNames(b) \in [1 .. Len(fonts) -> STRING]
    BY <1>0, <1>1, <2>1
  <2>3. QED
    BY <1>0, <2>2, FunIsSeq
<1>3. CASE ~b
  <2>1. FontIdsAndNames(b) =
           [i \in 1 .. 2 * Len(fonts) |->
              IF i % 2 = 1 THEN fonts[(i + 1) \div 2].id ELSE fonts[i \div 2].name]
    BY <1>3 DEF FontIdsAndNames
  <2>2. ASSUME NEW i \in 1 .. 2 * Len(fonts)
        PROVE  /\ i % 2 = 1 => (i + 1) \div 2 \in DOMAIN fonts
               /\ i % 2 # 1 => i \div 2 \in DOMAIN fonts
    BY <1>0
  <2>3. FontIdsAndNames(b) \in [1 .. 2 * Len(fonts) -> STRING]
    BY <1>1, <2>1, <2>2
  <2>4. QED
    BY <1>0, <2>3, FunIsSeq
<1>4. QED
  BY <1>2, <1>3

(* getContentStream's result on a list whose count is its size.           *)
LEMMA StreamAtType ==
    ASSUME NEW s \in Seq(StreamIds), NEW n \in Int
    PROVE  StreamAt(s, Len(s), n) \in StreamIds \cup {NULL}
BY DEF StreamAt

(* Updating one entry of a function keeps it in its function set.          *)
LEMMA ExceptType ==
    ASSUME NEW S, NEW T, NEW f \in [S -> T], NEW x \in S, NEW v \in T
    PROVE  [f EXCEPT ![x] = v] \in [S -> T]
OBVIOUS

(* "if (numStreams<0) loadContentStreams()" keeps the wrappers' state well *)
(* typed and every loaded count equal to the size of its list, and leaves  *)
(* the calling wrapper loaded.                                             *)
LEMMA LoadIfNeededFacts ==
    ASSUME page \in Seq(StreamIds), streams \in [Wrappers -> Seq(StreamIds)],
           numStreams \in [Wrappers -> Int], CacheConsistent,
           NEW w \in Wrappers, LoadIfNeeded(w)
    PROVE  /\ streams' \in [Wrappers -> Seq(StreamIds)]
           /\ numStreams' \in [Wrappers -> Int]
           /\ numStreams'[w] = Len(streams'[w])
           /\ CacheConsistent'
<1>1. CASE numStreams[w] < 0
  <2>1. streams' = [streams EXCEPT ![w] = page]
        /\ numStreams' = [numStreams EXCEPT ![w] = Len(page)]
    BY <1>1 DEF LoadIfNeeded
  <2>2. streams' \in [Wrappers -> Seq(StreamIds)] /\ numStreams' \in [Wrappers -> Int]
    BY <2>1, ExceptType
  <2>3. numStreams'[w] = Len(streams'[w])
    BY <2>1
  <2>4. ASSUME NEW v \in Wrappers, v # w
        PROVE  numStreams'[v] = numStreams[v] /\ streams'[v] = streams[v]
    BY <2>1, <2>4
  <2>5. QED
    BY <2>2, <2>3, <2>4 DEF CacheConsistent
<1>2. CASE ~(numStreams[w] < 0)
  <2>1. UNCHANGED <<streams, numStreams>>
    BY <1>2 DEF LoadIfNeeded
  <2>2. numStreams[w] = Len(streams[w])
    BY <1>2 DEF CacheConsistent
  <2>3. CacheConsistent'
    BY <2>1 DEF CacheConsistent
  <2>4. QED
    BY <2>1, <2>2, <2>3
<1>3. QED
  BY <1>1, <1>2

(* TypeOK of the next state, from the types of its variables.              *)
LEMMA TypedNextParts ==
    ASSUME page' \in Seq(StreamIds), streams' \in [Wrappers -> Seq(StreamIds)],
           numStreams' \in [Wrappers -> Int], added' \in SUBSET StreamIds,
           answer' \in [Wrappers -> Answers], fonts' \in Seq(FontRec),
           box' \in Seq(Int), Len(box') = 4, matrix' \in [1 .. 6 -> Int]
    PROVE  TypeOK'
BY TypeOKParts DEF Typed

(* The initial state is well typed.                                       *)
LEMMA InitTypeInv == Init => TypeInv
<1> SUFFICES ASSUME Init PROVE TypeInv
  OBVIOUS
<1>1. /\ page \in Seq(StreamIds) /\ added \in SUBSET StreamIds
      /\ fonts \in Seq(FontRec) /\ Len(fonts) >= Len(InitFonts)
  BY InitStreamsAssumption, FontAssumption DEF Init, SeqRange, FontRec
<1>2. /\ streams \in [Wrappers -> Seq(StreamIds)] /\ numStreams \in [Wrappers -> Int]
      /\ answer \in [Wrappers -> Answers]
      /\ box \in Seq(Int) /\ Len(box) = 4 /\ matrix \in [1 .. 6 -> Int]
  BY DEF Init, NoAnswer, Answers, InitBox, InitMatrix
<1>3. QED
  BY <1>1, <1>2, TypeOKParts DEF TypeInv, Typed

LEMMA TypeInvInductive == TypeInv /\ CacheConsistent /\ [Next]_vars => TypeInv'
<1> SUFFICES ASSUME TypeInv, CacheConsistent, [Next]_vars PROVE TypeInv'
  OBVIOUS
<1> USE DEF TypeInv, resVars
<1>0. /\ page \in Seq(StreamIds)
      /\ streams \in [Wrappers -> Seq(StreamIds)]
      /\ numStreams \in [Wrappers -> Int]
      /\ added \in SUBSET StreamIds
      /\ answer \in [Wrappers -> Answers]
      /\ fonts \in Seq(FontRec)
      /\ box \in Seq(Int) /\ Len(box) = 4
      /\ matrix \in [1 .. 6 -> Int]
  BY TypeOKParts DEF Typed
<1> HIDE DEF TypeOK
<1>1. CASE UNCHANGED vars
  BY <1>0, <1>1, TypedNextParts DEF vars
<1>2. ASSUME NEW w \in Wrappers, Wrap(w) PROVE TypeInv'
  <2>1. NoAnswer \in Answers
    BY DEF NoAnswer, Answers
  <2>2. answer' \in [Wrappers -> Answers]
    BY <1>0, <1>2, <2>1, ExceptType DEF Wrap
  <2>3. streams' \in [Wrappers -> Seq(StreamIds)] /\ numStreams' \in [Wrappers -> Int]
    BY <1>0, <1>2 DEF Wrap
  <2>4. QED
    BY <1>0, <1>2, <2>2, <2>3, TypedNextParts DEF Wrap
<1>3. ASSUME NEW w \in Wrappers, NEW s \in StreamIds,
             PrependContentStream(w, s) \/ AppendContentStreamObj(w, s)
      PROVE  TypeInv'
  <2>0. page' = << s >> \o page /\ added' = added \cup {s}
    BY <1>3 DEF PrependContentStream, AppendContentStreamObj, AddToFront
  <2>1. page' \in Seq(StreamIds) /\ added' \in SUBSET StreamIds
    BY <1>0, <2>0, ConcatProperties
  <2>2. QED
    BY <1>0, <1>3, <2>1, TypedNextParts DEF PrependContentStream, AppendContentStreamObj
<1>4. ASSUME NEW w \in Wrappers, NEW s \in StreamIds,
             AppendContentStream(w, s) \/ PrependContentStreamObj(w, s)
      PROVE  TypeInv'
  <2>0. page' = page \o << s >> /\ added' = added \cup {s}
    BY <1>4 DEF AppendContentStream, PrependContentStreamObj, AddToBack
  <2>1. page' \in Seq(StreamIds) /\ added' \in SUBSET StreamIds
    BY <1>0, <2>0, ConcatProperties
  <2>2. QED
    BY <1>0, <1>4, <2>1, TypedNextParts DEF AppendContentStream, PrependContentStreamObj
<1>5. ASSUME NEW w \in Wrappers, NEW n \in Int, MoveAbove(w, n) \/ MoveBelow(w, n)
      PROVE  TypeInv'
  <2>0. page \in Seq(StreamIds) /\ Len(page) \in Nat
    BY <1>0
  <2>1. page' \in Seq(StreamIds)
    <3>1. CASE MoveAbove(w, n)
      <4>1. page' = Swap(n + 1, n + 2) /\ n + 1 \in 1 .. Len(page) /\ n + 2 \in 1 .. Len(page)
        <5>1. page' = Swap(n + 1, n + 2) /\ 0 <= n /\ n + 1 < Len(page)
          BY <3>1 DEF MoveAbove
        <5>2. QED
          BY <2>0, <5>1
      <4>2. QED
        BY <2>0, <4>1, SwapFacts
    <3>2. CASE MoveBelow(w, n)
      <4>1. page' = Swap(n, n + 1) /\ n \in 1 .. Len(page) /\ n + 1 \in 1 .. Len(page)
        <5>1. page' = Swap(n, n + 1) /\ 0 < n /\ n < Len(page)
          BY <3>2 DEF MoveBelow
        <5>2. QED
          BY <2>0, <5>1
      <4>2. QED
        BY <2>0, <4>1, SwapFacts
    <3>3. QED
      BY <1>5, <3>1, <3>2
  <2>2. UNCHANGED <<streams, numStreams, added, answer, fonts, box, matrix>>
    BY <1>5 DEF MoveAbove, MoveBelow
  <2>3. QED
    BY <1>0, <2>1, <2>2, TypedNextParts
<1>6. ASSUME NEW w \in Wrappers, NEW s \in StreamIds,
             MoveAboveStream(w, s) \/ MoveBelowStream(w, s)
      PROVE  TypeInv'
  <2>1. s \in SeqRange(page)
    BY <1>6 DEF MoveAboveStream, MoveBelowStream
  <2>2. PositionOf(s) - 1 \in Int
    BY <1>0, <2>1, PositionOfOnPage
  <2>3. QED
    BY <1>5, <1>6, <2>2 DEF MoveAboveStream, MoveBelowStream
<1>7. ASSUME NEW w \in Wrappers, NEW n \in Indices, GetContentStream(w, n)
      PROVE  TypeInv'
  <2>1. n \in Int
    BY DEF Indices
  <2>2. /\ streams' \in [Wrappers -> Seq(StreamIds)]
        /\ numStreams' \in [Wrappers -> Int]
        /\ numStreams'[w] = Len(streams'[w])
    BY <1>0, <1>7, LoadIfNeededFacts DEF GetContentStream
  <2>3. /\ StreamAt(streams'[w], numStreams'[w], n) \in StreamIds \cup {NULL}
        /\ StreamAt(page, Len(page), n) \in StreamIds \cup {NULL}
    BY <1>0, <2>1, <2>2, StreamAtType
  <2>4. [kind |-> "stream", got |-> StreamAt(streams'[w], numStreams'[w], n),
         actual |-> StreamAt(page, Len(page), n)] \in Answers
    BY <2>3 DEF Answers
  <2>5. answer' \in [Wrappers -> Answers]
    BY <1>0, <1>7, <2>4, ExceptType DEF GetContentStream
  <2>6. QED
    BY <1>0, <1>7, <2>2, <2>5, TypedNextParts DEF GetContentStream
<1>8. ASSUME NEW w \in Wrappers, GetContentStreamCount(w)
      PROVE  TypeInv'
  <2>1. /\ streams' \in [Wrappers -> Seq(StreamIds)]
        /\ numStreams' \in [Wrappers -> Int]
        /\ numStreams'[w] = Len(streams'[w])
    BY <1>0, <1>8, LoadIfNeededFacts DEF GetContentStreamCount
  <2>2. numStreams'[w] \in Nat /\ Len(page) \in Nat
    <3>1. streams'[w] \in Seq(StreamIds)
      BY <2>1
    <3>2. Len(streams'[w]) \in Nat
      BY <3>1
    <3>3. Len(page) \in Nat
      BY <1>0
    <3>4. QED
      BY <2>1, <3>2, <3>3
  <2>3. [kind |-> "count", got |-> numStreams'[w], actual |-> Len(page)] \in Answers
    <3>1. [kind |-> "count", got |-> numStreams'[w], actual |-> Len(page)]
            \in [kind : {"count"}, got : Nat, actual : Nat]
      BY <2>2
    <3>2. QED
      BY <3>1 DEF Answers
  <2>4. answer' \in [Wrappers -> Answers]
    BY <1>0, <1>8, <2>3, ExceptType DEF GetContentStreamCount
  <2>5. QED
    BY <1>0, <1>8, <2>1, <2>4, TypedNextParts DEF GetContentStreamCount
<1>9. ASSUME NEW w \in Wrappers, NEW n \in FontNames, AddSystemType1Font(w, n)
      PROVE  TypeInv'
  <2> DEFINE k == Len(fonts) - Len(InitFonts) + 1
  <2>0. Len(InitFonts) \in Nat /\ Len(FreshFontIds) \in Nat /\ Len(fonts) \in Nat
    BY <1>0, FontAssumption
  <2>1. k \in DOMAIN FreshFontIds
    <3>1. Len(fonts) - Len(InitFonts) < Len(FreshFontIds)
      BY <1>9 DEF AddSystemType1Font
    <3>2. QED
      BY <2>0, <3>1
  <2>2. FreshFontIds[k] \in STRING
    BY <2>1, SeqElem, FontAssumption
  <2>3. [id |-> FreshFontIds[k], name |-> n] \in FontRec
    BY <2>2, FontAssumption DEF FontRec
  <2>4. fonts' \in Seq(FontRec) /\ Len(fonts') = Len(fonts) + 1
    BY <1>0, <1>9, <2>3, AppendProperties DEF AddSystemType1Font
  <2>5. QED
    <3>1. UNCHANGED <<page, streams, numStreams, added, answer, box, matrix>>
      BY <1>9 DEF AddSystemType1Font
    <3>2. Len(fonts') >= Len(InitFonts)
      BY <2>0, <2>4
    <3>3. QED
      BY <1>0, <2>4, <3>1, <3>2, TypedNextParts
<1>10. ASSUME NEW w \in Wrappers, NEW n \in FontNames, GetFontId(w, n)
       PROVE  TypeInv'
  <2>1. FontIdOf(n) \in STRING \cup {NULL}
    BY <1>0, FontIdOfType
  <2>2. [kind |-> "fontId", name |-> n, got |-> FontIdOf(n),
         had |-> \E i \in DOMAIN fonts : fonts[i].name = n] \in Answers
    BY <2>1, FontAssumption DEF Answers
  <2>3. answer' \in [Wrappers -> Answers]
    BY <1>0, <1>10, <2>2, ExceptType DEF GetFontId
  <2>4. QED
    BY <1>0, <1>10, <2>3, TypedNextParts DEF GetFontId
<1>11. ASSUME NEW w \in Wrappers, NEW b \in BOOLEAN, GetFontIdsAndNames(w, b)
       PROVE  TypeInv'
  <2>1. [kind |-> "fonts", got |-> FontIdsAndNames(b)] \in Answers
    BY <1>0, FontIdsAndNamesType DEF Answers
  <2>2. answer' \in [Wrappers -> Answers]
    BY <1>0, <1>11, <2>1, ExceptType DEF GetFontIdsAndNames
  <2>3. QED
    BY <1>0, <1>11, <2>2, TypedNextParts DEF GetFontIdsAndNames
<1>12. ASSUME NEW w \in Wrappers, NEW x \in Coords, NEW y \in Coords,
              SetMediabox(w, x, y, x + 1, y + 1) \/ SetMediaboxRect(w, x, y, 1, 1)
       PROVE  TypeInv'
  <2>0. x \in Int /\ y \in Int
    BY GeometryAssumption
  <2>1. box' \in Seq(Int) /\ Len(box') = 4
    <3>1. CASE SetMediabox(w, x, y, x + 1, y + 1)
      <4>1. box' = << x, y, x + 1, y + 1 >>
        BY <3>1 DEF SetMediabox
      <4>2. QED
        BY <2>0, <4>1
    <3>2. CASE SetMediaboxRect(w, x, y, 1, 1)
      <4>1. box' = << x, y, x + 1 - 1, y + 1 - 1 >>
        BY <3>2 DEF SetMediaboxRect
      <4>2. QED
        BY <2>0, <4>1
    <3>3. QED
      BY <1>12, <3>1, <3>2
  <2>2. QED
    BY <1>0, <1>12, <2>1, TypedNextParts DEF SetMediabox, SetMediaboxRect
<1>13. ASSUME NEW w \in Wrappers, GetMediabox(w)
       PROVE  TypeInv'
  <2>1. [kind |-> "box", got |-> box] \in Answers
    BY <1>0 DEF Answers
  <2>2. answer' \in [Wrappers -> Answers]
    BY <1>0, <1>13, <2>1, ExceptType DEF GetMediabox
  <2>3. QED
    BY <1>0, <1>13, <2>2, TypedNextParts DEF GetMediabox
<1>14. ASSUME NEW w \in Wrappers, NEW l \in Matrices, SetTransformMatrix(w, l)
       PROVE  TypeInv'
  <2>1. matrix' \in [1 .. 6 -> Int]
    <3>1. l \in Seq(Int)
      BY GeometryAssumption
    <3>2. \A i \in 1 .. Len(l) : l[i] \in Int
      BY <3>1
    <3>3. matrix' = SixOf(l)
      BY <1>14 DEF SetTransformMatrix
    <3>4. QED
      BY <3>2, <3>3 DEF SixOf
  <2>2. QED
    BY <1>0, <1>14, <2>1, TypedNextParts DEF SetTransformMatrix
<1>15. QED
  BY <1>1, <1>2, <1>3, <1>4, <1>5, <1>6, <1>7, <1>8, <1>9, <1>10,
     <1>11, <1>12, <1>13, <1>14 DEF Next, Indices

(* Only the constructors and the loading of the list write a wrapper's     *)
(* streams and numStreams, and the loading writes both together.          *)
LEMMA CacheInductive == TypeOK /\ CacheConsistent /\ [Next]_vars => CacheConsistent'
<1> SUFFICES ASSUME TypeOK, CacheConsistent, [Next]_vars PROVE CacheConsistent'
  OBVIOUS
<1> USE DEF resVars
<1>0. /\ page \in Seq(StreamIds)
      /\ streams \in [Wrappers -> Seq(StreamIds)]
      /\ numStreams \in [Wrappers -> Int]
  BY TypeOKParts DEF Typed
<1> HIDE DEF TypeOK
<1>1. CASE UNCHANGED <<streams, numStreams>>
  BY <1>1 DEF CacheConsistent
<1>2. ASSUME NEW w \in Wrappers, Wrap(w) PROVE CacheConsistent'
  <2>1. numStreams' = [numStreams EXCEPT ![w] = -1]
        /\ streams' = [streams EXCEPT ![w] = << >>]
    BY <1>2 DEF Wrap
  <2>2. ASSUME NEW v \in Wrappers
        PROVE  numStreams'[v] = -1 \/ numStreams'[v] = Len(streams'[v])
    <3>1. CASE v = w
      BY <1>0, <2>1, <3>1
    <3>2. CASE v # w
      BY <1>0, <2>1, <3>2 DEF CacheConsistent
    <3>3. QED
      BY <3>1, <3>2
  <2>3. QED
    BY <2>2 DEF CacheConsistent
<1>3. ASSUME NEW w \in Wrappers,
             (\E n \in Indices : GetContentStream(w, n)) \/ GetContentStreamCount(w)
      PROVE  CacheConsistent'
  <2>1. LoadIfNeeded(w)
    BY <1>3 DEF GetContentStream, GetContentStreamCount
  <2>2. QED
    BY <1>0, <2>1, LoadIfNeededFacts
<1>4. ASSUME NEW w \in Wrappers,
             \/ \E s \in StreamIds :
                   \/ PrependContentStream(w, s) \/ AppendContentStream(w, s)
                   \/ PrependContentStreamObj(w, s) \/ AppendContentStreamObj(w, s)
                   \/ MoveAboveStream(w, s) \/ MoveBelowStream(w, s)
             \/ \E n \in Indices : MoveAbove(w, n) \/ MoveBelow(w, n)
             \/ \E n \in FontNames : AddSystemType1Font(w, n) \/ GetFontId(w, n)
             \/ \E b \in BOOLEAN : GetFontIdsAndNames(w, b)
             \/ \E x, y \in Coords : SetMediabox(w, x, y, x + 1, y + 1)
             \/ \E x, y \in Coords : SetMediaboxRect(w, x, y, 1, 1)
             \/ GetMediabox(w)
             \/ \E l \in Matrices : SetTransformMatrix(w, l)
      PROVE  UNCHANGED <<streams, numStreams>>
  BY <1>4 DEF PrependContentStream, AppendContentStream, PrependContentStreamObj,
     AppendContentStreamObj, MoveAboveStream, MoveBelowStream, MoveAbove, MoveBelow,
     AddSystemType1Font, GetFontId, GetFontIdsAndNames, SetMediabox, SetMediaboxRect,
     GetMediabox, SetTransformMatrix
<1>5. CASE UNCHANGED vars
  BY <1>1, <1>5 DEF vars
<1>6. QED
  BY <1>1, <1>2, <1>3, <1>4, <1>5 DEF Next

(* The inductive invariant of the wrappers: typed, the fonts never fewer   *)
(* than at opening, and every loaded count the size of its list.           *)
IInv == TypeInv /\ CacheConsistent

LEMMA InitIInv == Init => IInv
BY InitTypeInv DEF Init, IInv, CacheConsistent

LEMMA IInvInductive == IInv /\ [Next]_vars => IInv'
BY TypeInvInductive, CacheInductive DEF IInv, TypeInv

(* Every reachable state of the wrappers and the page is well typed.       *)
THEOREM TypeCorrect == Spec => []TypeOK
<1>1. Init => IInv
  BY InitIInv
<1>2. QED
  BY <1>1, IInvInductive, PTL DEF Spec, IInv, TypeInv

-----------------------------------------------------------------------------
(* What FontIdFound asks of one query result a, against the font list f.   *)
FontAnswerOK(a, f) ==
    a.kind = "fontId" =>
        /\ (a.got = NULL) <=> ~a.had
        /\ a.got # NULL => \E i \in DOMAIN f : f[i] = [id |-> a.got, name |-> a.name]

LEMMA FontIdFoundPerWrapper ==
    FontIdFound <=> \A w \in Wrappers : FontAnswerOK(answer[w], fonts)
BY DEF FontIdFound, FontAnswerOK

LEMMA FontIdFoundPerWrapperNext ==
    FontIdFound' <=> \A w \in Wrappers : FontAnswerOK(answer'[w], fonts')
BY DEF FontIdFound, FontAnswerOK

(* getFontId's loop: NULL exactly when no font has the name, and otherwise *)
(* the id of a font of that name.                                          *)
LEMMA FontIdOfCorrect ==
    ASSUME fonts \in Seq(FontRec), NEW n
    PROVE  /\ (FontIdOf(n) = NULL) <=> ~\E i \in DOMAIN fonts : fonts[i].name = n
           /\ FontIdOf(n) # NULL =>
                 \E i \in DOMAIN fonts : fonts[i] = [id |-> FontIdOf(n), name |-> n]
<1> DEFINE hits == {i \in DOMAIN fonts : fonts[i].name = n}
<1>1. CASE hits # {}
  <2> DEFINE m == LeastIndex(hits)
  <2>1. m \in DOMAIN fonts /\ fonts[m].name = n
    <3>1. hits \in SUBSET Nat
      OBVIOUS
    <3>2. QED
      BY <1>1, <3>1, LeastIndexIsLeast
  <2>2. fonts[m] \in FontRec
    BY <2>1, SeqElem
  <2>3. FontIdOf(n) = fonts[m].id
    BY <1>1 DEF FontIdOf
  <2>4. fonts[m].id \in STRING /\ fonts[m] = [id |-> fonts[m].id, name |-> fonts[m].name]
    BY <2>2 DEF FontRec
  <2>5. FontIdOf(n) # NULL
    BY <2>3, <2>4, FontAssumption
  <2>6. QED
    BY <1>1, <2>1, <2>3, <2>4, <2>5
<1>2. CASE hits = {}
  <2>1. FontIdOf(n) = NULL
    BY <1>2 DEF FontIdOf
  <2>2. QED
    BY <1>2, <2>1
<1>3. QED
  BY <1>1, <1>2

(* A font added at the end leaves every earlier answer true.               *)
LEMMA FontAnswerAppend ==
    ASSUME NEW a, fonts \in Seq(FontRec), NEW r \in FontRec, FontAnswerOK(a, fonts)
    PROVE  FontAnswerOK(a, Append(fonts, r))
<1>1. /\ DOMAIN fonts \subseteq DOMAIN Append(fonts, r)
      /\ \A i \in DOMAIN fonts : Append(fonts, r)[i] = fonts[i]
  BY AppendProperties
<1>2. QED
  BY <1>1 DEF FontAnswerOK

(* The invariant behind FontIdFound: the state is well typed.              *)
FFInv == IInv /\ FontIdFound

LEMMA FFInvInductive == FFInv /\ [Next]_vars => FFInv'
<1> SUFFICES ASSUME IInv, FontIdFound, [Next]_vars
             PROVE  \A v \in Wrappers : FontAnswerOK(answer'[v], fonts')
  BY IInvInductive, FontIdFoundPerWrapperNext DEF FFInv
<1>0. /\ fonts \in Seq(FontRec)
      /\ answer \in [Wrappers -> Answers]
      /\ \A v \in Wrappers : FontAnswerOK(answer[v], fonts)
  BY TypeOKParts, FontIdFoundPerWrapper DEF IInv, TypeInv, Typed
<1> USE DEF resVars
<1>1. CASE answer' = answer /\ fonts' = fonts
  BY <1>0, <1>1
<1>2. ASSUME NEW w \in Wrappers, NEW r, r.kind # "fontId",
             answer' = [answer EXCEPT ![w] = r], fonts' = fonts
      PROVE  \A v \in Wrappers : FontAnswerOK(answer'[v], fonts')
  BY <1>0, <1>2 DEF FontAnswerOK
<1>3. ASSUME NEW w \in Wrappers, NEW n \in FontNames, AddSystemType1Font(w, n)
      PROVE  \A v \in Wrappers : FontAnswerOK(answer'[v], fonts')
  <2> DEFINE r == [id |-> FreshFontIds[Len(fonts) - Len(InitFonts) + 1], name |-> n]
  <2>1. r \in FontRec
    <3>1. Len(InitFonts) \in Nat /\ Len(FreshFontIds) \in Nat /\ Len(fonts) \in Nat
      BY <1>0, FontAssumption
    <3>2. Len(fonts) - Len(InitFonts) + 1 \in DOMAIN FreshFontIds
      BY <1>3, <3>1 DEF AddSystemType1Font, IInv, TypeInv
    <3>3. FreshFontIds[Len(fonts) - Len(InitFonts) + 1] \in STRING
      BY <3>2, SeqElem, FontAssumption
    <3>4. QED
      BY <3>3, FontAssumption DEF FontRec
  <2>2. fonts' = Append(fonts, r) /\ answer' = answer
    BY <1>3 DEF AddSystemType1Font
  <2>3. QED
    BY <1>0, <2>1, <2>2, FontAnswerAppend
<1>4. ASSUME NEW w \in Wrappers, NEW n \in FontNames, GetFontId(w, n)
      PROVE  \A v \in Wrappers : FontAnswerOK(answer'[v], fonts')
  <2> DEFINE r == [kind |-> "fontId", name |-> n, got |-> FontIdOf(n),
                   had |-> \E i \in DOMAIN fonts : fonts[i].name = n]
  <2>1. answer' = [answer EXCEPT ![w] = r] /\ fonts' = fonts
    BY <1>4 DEF GetFontId
  <2>2. FontAnswerOK(r, fonts)
    BY <1>0, FontIdOfCorrect DEF FontAnswerOK
  <2>3. QED
    BY <1>0, <2>1, <2>2
<1>5. ASSUME NEW w \in Wrappers,
             \/ Wrap(w) \/ GetContentStreamCount(w) \/ GetMediabox(w)
             \/ \E n \in Indices : GetContentStream(w, n)
             \/ \E b \in BOOLEAN : GetFontIdsAndNames(w, b)
      PROVE  \E r : r.kind # "fontId" /\ answer' = [answer EXCEPT ![w] = r] /\ fonts' = fonts
  BY <1>5 DEF Wrap, NoAnswer, GetContentStreamCount, GetMediabox, GetContentStream,
     GetFontIdsAndNames
<1>6. ASSUME NEW w \in Wrappers,
             \/ \E s \in StreamIds :
                   \/ PrependContentStream(w, s) \/ AppendContentStream(w, s)
                   \/ PrependContentStreamObj(w, s) \/ AppendContentStreamObj(w, s)
                   \/ MoveAboveStream(w, s) \/ MoveBelowStream(w, s)
             \/ \E n \in Indices : MoveAbove(w, n) \/ MoveBelow(w, n)
             \/ \E x, y \in Coords : SetMediabox(w, x, y, x + 1, y + 1)
             \/ \E x, y \in Coords : SetMediaboxRect(w, x, y, 1, 1)
             \/ \E l \in Matrices : SetTransformMatrix(w, l)
      PROVE  answer' = answer /\ fonts' = fonts
  BY <1>6 DEF PrependContentStream, AppendContentStream, PrependContentStreamObj,
     AppendContentStreamObj, MoveAboveStream, MoveBelowStream, MoveAbove, MoveBelow,
     SetMediabox, SetMediaboxRect, SetTransformMatrix
<1>7. CASE UNCHANGED vars
  BY <1>1, <1>7 DEF vars
<1>8. QED
  BY <1>1, <1>2, <1>3, <1>4, <1>5, <1>6, <1>7 DEF Next

(* getFontId answers NULL exactly when the page has no font of the name    *)
(* asked for, and otherwise an id the page gives to a font of that name,   *)
(* which stays so after later addSystemType1Font calls (qspage.cc          *)
(* getFontId, addSystemType1Font), for any fonts and any wrappers.         *)
THEOREM FontIdFoundTheorem == Spec => []FontIdFound
<1>1. Init => FFInv
  <2> SUFFICES ASSUME Init PROVE FFInv
    OBVIOUS
  <2>1. IInv
    BY InitIInv
  <2>2. FontIdFound
    BY DEF Init, FontIdFound, NoAnswer
  <2>3. QED
    BY <2>1, <2>2 DEF FFInv
<1>2. QED
  BY <1>1, FFInvInductive, PTL DEF Spec, FFInv
=============================================================================
