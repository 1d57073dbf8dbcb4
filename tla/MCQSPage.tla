------------------------------ MODULE MCQSPage ------------------------------
(* Two wrappers of one page that starts with one content stream; one more  *)
(* may be added at either end, so every move, in range and out of it, is   *)
(* tried on a list of two, and a wrapper may hold a list loaded before the *)
(* other one added a stream.                                               *)
EXTENDS QSPage, TLC

CONSTANTS w1, w2, s1, s2

MCWrappers == {w1, w2}
MCStreamIds == {s1, s2}
MCInitStreams == << s1 >>

(* No font at opening; a script may add two under the same name, so       *)
(* getFontId meets both a missing name and a duplicate one.               *)
MCFontNames == {"Helvetica"}
MCInitFonts == << >>
MCFreshFontIds == << "PdfEditorF1", "PdfEditorF2" >>
MCCoords == {0}
(* A list longer than six entries: the seventh is dropped.                *)
MCMatrices == {<< 2, 0, 0, 2, 0, 0, 9 >>}

(* The two wrappers are interchangeable.                                   *)
MCSymmetry == Permutations(MCWrappers)
=============================================================================
