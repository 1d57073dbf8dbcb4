------------------------------- MODULE QSPage -------------------------------
(***************************************************************************)
(* The scripting wrapper of a page (class QSPage, src/gui/qspage.cc) over  *)
(* the kernel page's ordered list of content streams.                      *)
(*                                                                         *)
(* Several wrappers may wrap the same page: the importer creates a new     *)
(* QSPage each time a script obtains the page, and each one keeps its own  *)
(* copy of the content-stream list, loaded on first use (numStreams = -1   *)
(* means not loaded).  The page list itself belongs to CPage, which is not *)
(* in this repository; its operations are modelled from the comments of    *)
(* the wrapper that calls them.  A content stream is an opaque id; each    *)
(* new stream built from an operator stack is fresh.                       *)
(*                                                                         *)
(* answer records what the last query of a wrapper returned next to what   *)
(* the page held at that moment.                                           *)
(*                                                                         *)
(* Besides the content streams the wrapper reaches three other parts of    *)
(* the page: its font resources (a list of (id, name) pairs, to which      *)
(* addSystemType1Font appends a font under an id CPage makes up), its      *)
(* media box and its transform matrix.  The document is opened read-write: *)
(* the ReadOnlyDocumentException every mutator catches is not raised.      *)
(***************************************************************************)
EXTENDS Integers, Sequences, FiniteSets

CONSTANTS
    Wrappers,      \* QSPage objects wrapping the one page
    StreamIds,     \* content streams that may be put on the page
    InitStreams,   \* the page's content streams when the document is opened
    NULL,          \* what a query returns for "no stream" (or no font)
    FontNames,     \* names of the system Type 1 fonts a script may add
    InitFonts,     \* the page's fonts when the document is opened
    FreshFontIds,  \* the ids CPage gives to added fonts, in order
    Coords,        \* coordinates a script may pass for a media box
    Matrices       \* lists of numbers a script may pass as a matrix

ASSUME InitStreamsAssumption ==
    /\ InitStreams \in Seq(StreamIds)
    /\ \A i, j \in DOMAIN InitStreams : i # j => InitStreams[i] # InitStreams[j]
ASSUME NullAssumption == NULL \notin StreamIds
ASSUME FontAssumption ==
    /\ InitFonts \in Seq([id : STRING, name : STRING])
    /\ FreshFontIds \in Seq(STRING)
    /\ \A i \in DOMAIN FreshFontIds, j \in DOMAIN InitFonts :
          FreshFontIds[i] # InitFonts[j].id
    /\ FontNames \subseteq STRING
    /\ NULL \notin STRING
ASSUME GeometryAssumption ==
    /\ Coords \subseteq Int
    /\ Matrices \subseteq Seq(Int)

(* CPage's initial media box and transform matrix.                         *)
InitBox == <<0, 0, 0, 0>>
InitMatrix == <<1, 0, 0, 1, 0, 0>>

VARIABLES
    page,        \* CPage content streams, in painting order
    streams,     \* [Wrappers -> Seq(StreamIds)]: each wrapper's loaded copy
    numStreams,  \* [Wrappers -> Int]: -1 until loaded, then Len(streams[w])
    added,       \* every stream ever put on the page
    answer,      \* [Wrappers -> query result record, or NoAnswer]
    fonts,       \* the page's fonts: a sequence of [id, name]
    box,         \* the page's media box <<xleft, yleft, xright, yright>>
    matrix       \* the page's transform matrix (six numbers)

vars == <<page, streams, numStreams, added, answer, fonts, box, matrix>>
resVars == <<fonts, box, matrix>>

NoAnswer == [kind |-> "none"]

SeqRange(s) == {s[i] : i \in DOMAIN s}

(* The least of a non-empty set of indices.                                *)
LeastIndex(S) == CHOOSE i \in S : \A j \in S : i <= j

TypeOK ==
    /\ page \in Seq(StreamIds)
    /\ streams \in [Wrappers -> Seq(StreamIds)]
    /\ numStreams \in [Wrappers -> Int]
    /\ added \in SUBSET StreamIds
    /\ answer \in [Wrappers -> {NoAnswer}
                     \cup [kind : {"count"}, got : Nat, actual : Nat]
                     \cup [kind : {"stream"}, got : StreamIds \cup {NULL},
                           actual : StreamIds \cup {NULL}]
                     \cup [kind : {"fontId"}, name : STRING,
                           got : STRING \cup {NULL}, had : BOOLEAN]
                     \cup [kind : {"fonts"}, got : Seq(STRING)]
                     \cup [kind : {"box"}, got : Seq(Int)]]
    /\ fonts \in Seq([id : STRING, name : STRING])
    /\ box \in Seq(Int) /\ Len(box) = 4
    /\ matrix \in [1 .. 6 -> Int]

Init ==
    /\ page = InitStreams
    /\ streams = [w \in Wrappers |-> << >>]
    /\ numStreams = [w \in Wrappers |-> -1]
    /\ added = SeqRange(InitStreams)
    /\ answer = [w \in Wrappers |-> NoAnswer]
    /\ fonts = InitFonts
    /\ box = InitBox
    /\ matrix = InitMatrix

(* QSPage::QSPage (constructor and copy constructor): a fresh wrapper of   *)
(* the page, nothing loaded.                                               *)
Wrap(w) ==
    /\ streams' = [streams EXCEPT ![w] = << >>]
    /\ numStreams' = [numStreams EXCEPT ![w] = -1]
    /\ answer' = [answer EXCEPT ![w] = NoAnswer]
    /\ UNCHANGED <<page, added, resVars>>

(* CPage::addContentStreamToFront / addContentStreamToBack with a new      *)
(* stream s built from an operator stack.                                  *)
AddToFront(s) ==
    /\ s \notin added
    /\ page' = << s >> \o page
    /\ added' = added \cup {s}

AddToBack(s) ==
    /\ s \notin added
    /\ page' = page \o << s >>
    /\ added' = added \cup {s}

(* QSPage::prependContentStream(QSPdfOperatorStack * opStack).            *)
PrependContentStream(w, s) ==
    /\ AddToFront(s)
    /\ UNCHANGED <<streams, numStreams, answer, resVars>>

(* QSPage::appendContentStream(QSPdfOperatorStack * opStack).             *)
AppendContentStream(w, s) ==
    /\ AddToBack(s)
    /\ UNCHANGED <<streams, numStreams, answer, resVars>>

(* QSPage::prependContentStream(QObject * opStack): after the cast it      *)
(* calls appendContentStream.  A failed cast returns without effect (a    *)
(* stutter).                                                               *)
PrependContentStreamObj(w, s) == AppendContentStream(w, s)

(* QSPage::appendContentStream(QObject * opStack): calls                  *)
(* prependContentStream.                                                    *)
AppendContentStreamObj(w, s) == PrependContentStream(w, s)

(* CPage::moveAbove(csi) / moveBelow(csi): swap the stream at 0-based      *)
(* index csi with its successor / predecessor; OutOfRange (caught by the   *)
(* wrapper, no change) at the end of the list.                             *)
Swap(i, j) == [page EXCEPT ![i] = page[j], ![j] = page[i]]

MoveAbove(w, csi) ==
    /\ 0 <= csi /\ csi + 1 < Len(page)
    /\ page' = Swap(csi + 1, csi + 2)
    /\ UNCHANGED <<streams, numStreams, added, answer, resVars>>

MoveBelow(w, csi) ==
    /\ 0 < csi /\ csi < Len(page)
    /\ page' = Swap(csi, csi + 1)
    /\ UNCHANGED <<streams, numStreams, added, answer, resVars>>

(* QSPage::getContentStream and getContentStreamCount begin with          *)
(* "if (numStreams<0) loadContentStreams();": the page's list is copied    *)
(* into the wrapper and numStreams set to its size; a loaded wrapper keeps *)
(* both as they are.                                                       *)
LoadIfNeeded(w) ==
    IF numStreams[w] < 0
    THEN /\ streams' = [streams EXCEPT ![w] = page]
         /\ numStreams' = [numStreams EXCEPT ![w] = Len(page)]
    ELSE UNCHANGED <<streams, numStreams>>

(* Mutant: the count is read before the list is loaded.                     *)
GetContentStreamCountEarly(w) ==
    /\ LoadIfNeeded(w)
    /\ answer' = [answer EXCEPT ![w] =
                    [kind |-> "count", got |-> numStreams[w], actual |-> Len(page)]]
    /\ UNCHANGED <<page, added, resVars>>

(* QSPage::getContentStreamCount.                                          *)
GetContentStreamCount(w) ==
    /\ LoadIfNeeded(w)
    /\ answer' = [answer EXCEPT ![w] =
                    [kind |-> "count", got |-> numStreams'[w], actual |-> Len(page)]]
    /\ UNCHANGED <<page, added, resVars>>

(* The entry n of list s whose size is taken to be c: NULL for n < 0 or    *)
(* n >= c, else s[n] (0-based).                                            *)
StreamAt(s, c, n) == IF 0 <= n /\ n < c THEN s[n + 1] ELSE NULL

(* QSPage::getContentStream(streamNumber): streams[streamNumber] after the *)
(* checks against 0 and numStreams; next to it, the page's own entry.      *)
GetContentStream(w, n) ==
    /\ LoadIfNeeded(w)
    /\ answer' = [answer EXCEPT ![w] =
                    [kind |-> "stream", got |-> StreamAt(streams'[w], numStreams'[w], n),
                     actual |-> StreamAt(page, Len(page), n)]]
    /\ UNCHANGED <<page, added, resVars>>

(* QSPage::moveAbove(QSContentStream* cs) / moveBelow(cs): CPage finds the *)
(* position of cs among its content streams and moves it as the index      *)
(* overloads do.  Every exception (cs not on the page, cs at the end of    *)
(* the list) is caught and reported; the page is left as it was.           *)
PositionOf(s) == CHOOSE i \in DOMAIN page : page[i] = s

MoveAboveStream(w, s) ==
    /\ s \in SeqRange(page)
    /\ MoveAbove(w, PositionOf(s) - 1)

MoveBelowStream(w, s) ==
    /\ s \in SeqRange(page)
    /\ MoveBelow(w, PositionOf(s) - 1)

(* QSPage::addSystemType1Font(fontName): CPage puts a new font resource    *)
(* named fontName under the next id it makes up.                          *)
AddSystemType1Font(w, n) ==
    /\ Len(fonts) - Len(InitFonts) < Len(FreshFontIds)
    /\ fonts' = Append(fonts, [id |-> FreshFontIds[Len(fonts) - Len(InitFonts) + 1],
                               name |-> n])
    /\ UNCHANGED <<page, streams, numStreams, added, answer, box, matrix>>

(* Mutant: the loop compares the font id, not the name, with fontName.    *)
FontIdOfById(n) ==
    LET hits == {i \in DOMAIN fonts : fonts[i].id = n}
    IN  IF hits = {} THEN NULL ELSE fonts[LeastIndex(hits)].id

(* QSPage::getFontId(fontName): the id of the first font, in CPage's       *)
(* order, whose name is fontName; QString::null when there is none.        *)
FontIdOf(n) ==
    LET hits == {i \in DOMAIN fonts : fonts[i].name = n}
    IN  IF hits = {} THEN NULL ELSE fonts[LeastIndex(hits)].id

GetFontId(w, n) ==
    /\ answer' = [answer EXCEPT ![w] = [kind |-> "fontId", name |-> n, got |-> FontIdOf(n),
                                        had |-> \E i \in DOMAIN fonts : fonts[i].name = n]]
    /\ UNCHANGED <<page, streams, numStreams, added, resVars>>

(* QSPage::getFontIdsAndNames(onlyNames): id and name of each font in      *)
(* order, or the names only.                                               *)
FontIdsAndNames(onlyNames) ==
    IF onlyNames
    THEN [i \in DOMAIN fonts |-> fonts[i].name]
    ELSE [i \in 1 .. 2 * Len(fonts) |->
             IF i % 2 = 1 THEN fonts[(i + 1) \div 2].id ELSE fonts[i \div 2].name]

GetFontIdsAndNames(w, onlyNames) ==
    /\ answer' = [answer EXCEPT ![w] = [kind |-> "fonts", got |-> FontIdsAndNames(onlyNames)]]
    /\ UNCHANGED <<page, streams, numStreams, added, resVars>>

(* QSPage::setMediabox(x1, y1, x2, y2): Rectangle(x1, y1, x2, y2).          *)
SetMediabox(w, x1, y1, x2, y2) ==
    /\ box' = << x1, y1, x2, y2 >>
    /\ UNCHANGED <<page, streams, numStreams, added, answer, fonts, matrix>>

(* QSPage::setMediabox(QRect rc): Rectangle(rc.left(), rc.top(),            *)
(* rc.right(), rc.bottom()).  A QRect built from x, y, width, height has   *)
(* right() = x + width - 1 and bottom() = y + height - 1.                  *)
SetMediaboxRect(w, x, y, wd, ht) ==
    /\ box' = << x, y, x + wd - 1, y + ht - 1 >>
    /\ UNCHANGED <<page, streams, numStreams, added, answer, fonts, matrix>>

(* QSPage::mediabox(): xleft, yleft, xright, yright of CPage's box.        *)
GetMediabox(w) ==
    /\ answer' = [answer EXCEPT ![w] = [kind |-> "box", got |-> box]]
    /\ UNCHANGED <<page, streams, numStreams, added, resVars>>

(* QSPage::setTransformMatrix(tMatrix): the first six numbers of the list, *)
(* the rest of the six left 0.                                             *)
SixOf(l) == [i \in 1 .. 6 |-> IF i <= Len(l) THEN l[i] ELSE 0]

SetTransformMatrix(w, l) ==
    /\ matrix' = SixOf(l)
    /\ UNCHANGED <<page, streams, numStreams, added, answer, fonts, box>>

(* Indices a script may pass: one below and one past the longest page.     *)
Indices == -1 .. Cardinality(StreamIds)

Next ==
    \E w \in Wrappers :
        \/ Wrap(w)
        \/ \E s \in StreamIds :
              \/ PrependContentStream(w, s)
              \/ AppendContentStream(w, s)
              \/ PrependContentStreamObj(w, s)
              \/ AppendContentStreamObj(w, s)
        \/ \E n \in Indices :
              \/ MoveAbove(w, n)
              \/ MoveBelow(w, n)
              \/ GetContentStream(w, n)
        \/ GetContentStreamCount(w)
        \/ \E s \in StreamIds : MoveAboveStream(w, s) \/ MoveBelowStream(w, s)
        \/ \E n \in FontNames : AddSystemType1Font(w, n) \/ GetFontId(w, n)
        \/ \E b \in BOOLEAN : GetFontIdsAndNames(w, b)
        \/ \E x, y \in Coords : SetMediabox(w, x, y, x + 1, y + 1)
        \/ \E x, y \in Coords : SetMediaboxRect(w, x, y, 1, 1)
        \/ GetMediabox(w)
        \/ \E l \in Matrices : SetTransformMatrix(w, l)

Spec == Init /\ [][Next]_vars

-----------------------------------------------------------------------------
FontIdFound ==
    \A w \in Wrappers :
        answer[w].kind = "fontId" =>
            /\ (answer[w].got = NULL) <=> ~answer[w].had
            /\ answer[w].got # NULL =>
                  \E i \in DOMAIN fonts : fonts[i] = [id |-> answer[w].got, name |-> answer[w].name]
=============================================================================
