----------------------------- MODULE ValueCodec -----------------------------
(***************************************************************************)
(* The value codec of src/kernel/cobject.cc, as a simple node (bool, int   *)
(* or real) uses it.                                                       *)
(*                                                                         *)
(*  - printing: simpleValueToString ("true"/"false", "%d", "%g");          *)
(*  - parsing: simpleValueFromString (a case-insensitive std::equal for    *)
(*    bool, stringstream >> int, and xpdfObjFromString for real);          *)
(*  - saving and reloading: simpleValueToXpdfObj (the writers),            *)
(*    createObjFromXpdfObj and the readers.                                *)
(*                                                                         *)
(* A string is a sequence of one-character strings over a small alphabet. *)
(* A real is a decimal <<m, e>>, the value m * 10^e, kept normalised.  The *)
(* xpdf lexer that reads a printed value back is modelled from the token  *)
(* syntax of spec section 4.5: a number is an optional sign, digits and an *)
(* optional fraction, with no exponent, and is an int token when it has no *)
(* point.                                                                  *)
(***************************************************************************)
EXTENDS Integers, Sequences

CONSTANTS
    IntWidth,     \* bits of int
    Precision,    \* significant digits of %g (6 in the C library)
    Asserts,      \* whether assert() is compiled in
    BoolInputs,   \* strings a script may pass to a bool node
    IntInputs,    \* strings a script may pass to an int node
    IntValues,    \* ints a node may be given
    RealValues    \* reals <<m, e>> a node may be given

IntRange == -(2^(IntWidth - 1)) .. 2^(IntWidth - 1) - 1

ASSUME CodecAssumption ==
    /\ IntWidth \in Nat \ {0}
    /\ Precision \in Nat \ {0}
    /\ Asserts \in BOOLEAN
    /\ IntValues \subseteq IntRange
    /\ RealValues \subseteq Int \X Int

DigitChars == <<"0", "1", "2", "3", "4", "5", "6", "7", "8", "9">>
IsDigit(c) == \E d \in 1..10 : DigitChars[d] = c
DigitVal(c) == CHOOSE d \in 0..9 : DigitChars[d + 1] = c
WhiteSpace == {" ", "\n"}

Abs(n) == IF n < 0 THEN -n ELSE n
Sgn(n) == IF n < 0 THEN -1 ELSE 1

Ok(v) == [out |-> "ok", v |-> v]
Fail == [out |-> "CObjBadValue"]
Abort == [out |-> "abort"]

-----------------------------------------------------------------------------
(* Bool.  nocase_compare (lines 33-36) compares toupper of both sides.     *)
Upper(c) ==
    CASE c = "t" -> "T" [] c = "r" -> "R" [] c = "u" -> "U" [] c = "e" -> "E"
      [] c = "f" -> "F" [] c = "a" -> "A" [] c = "l" -> "L" [] c = "s" -> "S"
      [] OTHER -> c

TrueLit == <<"t", "r", "u", "e">>
FalseLit == <<"f", "a", "l", "s", "e">>

(* std::equal(s.begin(), s.end(), lit.begin(), nocase_compare) compares    *)
(* the Len(s) characters of s with the front of lit; past the end of lit   *)
(* it meets the terminating NUL, which no character of s matches.          *)
EqualNoCase(s, lit) ==
    /\ Len(s) <= Len(lit)
    /\ \A i \in 1..Len(s) : Upper(s[i]) = Upper(lit[i])

(* simpleValueFromString(str, bool&) (lines 764-773).                      *)
BoolFromString(s) ==
    CASE EqualNoCase(s, TrueLit)  -> Ok(TRUE)
      [] EqualNoCase(s, FalseLit) -> Ok(FALSE)
      [] OTHER                    -> Fail

(* simpleValueToString<pBool> (lines 980-983).                             *)
BoolToString(b) == IF b THEN TrueLit ELSE FalseLit

-----------------------------------------------------------------------------
(* Int.                                                                    *)
RECURSIVE SkipWs(_), DigitRun(_), DecValue(_), Dec(_), NumDigits(_)
SkipWs(s) == IF s # << >> /\ Head(s) \in WhiteSpace THEN SkipWs(Tail(s)) ELSE s
DigitRun(s) ==
    IF s # << >> /\ IsDigit(Head(s)) THEN << Head(s) >> \o DigitRun(Tail(s)) ELSE << >>
DecValue(ds) ==
    IF ds = << >> THEN 0 ELSE DigitVal(Head(ds)) * 10^(Len(ds) - 1) + DecValue(Tail(ds))
Dec(n) == IF n < 10 THEN << DigitChars[n + 1] >>
          ELSE Dec(n \div 10) \o << DigitChars[(n % 10) + 1] >>
NumDigits(n) == IF n < 10 THEN 1 ELSE 1 + NumDigits(n \div 10)

(* Mutant: the range check is left out.                                   *)
IntFromStringNoRangeCheck(s) ==
    LET t    == SkipWs(s)
        ds   == DigitRun(IF t # << >> /\ Head(t) \in {"-", "+"} THEN Tail(t) ELSE t)
    IN  IF ds = << >> THEN Fail
        ELSE Ok(IF t # << >> /\ Head(t) = "-" THEN -DecValue(ds) ELSE DecValue(ds))

(* simpleValueFromString(str, int&) (lines 775-786): stringstream >> int   *)
(* with exceptions on failbit.  White space is skipped, a sign and the     *)
(* digits after it are read; no digit, or a value out of range, sets       *)
(* failbit; what follows the digits is not looked at.                      *)
IntFromString(s) ==
    LET t    == SkipWs(s)
        neg  == t # << >> /\ Head(t) = "-"
        ds   == DigitRun(IF t # << >> /\ Head(t) \in {"-", "+"} THEN Tail(t) ELSE t)
        v    == IF neg THEN -DecValue(ds) ELSE DecValue(ds)
    IN  IF ds = << >> \/ v \notin IntRange THEN Fail ELSE Ok(v)

(* Mutant: "%u", the sign is lost.                                         *)
IntToStringUnsigned(n) == Dec(Abs(n))

(* simpleValueToString<pInt> (lines 987-993): sprintf "%d".                *)
IntToString(n) == IF n < 0 THEN << "-" >> \o Dec(-n) ELSE Dec(n)

-----------------------------------------------------------------------------
(* Real.  Norm strips the trailing zeros of the mantissa.                   *)
RECURSIVE Norm(_)
Norm(r) ==
    CASE r[1] = 0       -> <<0, 0>>
      [] r[1] % 10 = 0  -> Norm(<<r[1] \div 10, r[2] + 1>>)
      [] OTHER          -> r

(* n / d rounded to nearest (the inputs are chosen without ties).          *)
RoundDiv(n, d) == (2 * n + d) \div (2 * d)

(* The value rounded to Precision significant digits, as %g rounds it.     *)
GRound(r) ==
    LET a     == Abs(r[1])
        cut   == IF NumDigits(a) > Precision THEN NumDigits(a) - Precision ELSE 0
        q     == RoundDiv(a, 10^cut)
        carry == q = 10^Precision
    IN  Norm(<< Sgn(r[1]) * (IF carry THEN q \div 10 ELSE q),
                r[2] + cut + (IF carry THEN 1 ELSE 0) >>)

(* The decimal exponent of a normalised value.                             *)
Exp10(r) == NumDigits(Abs(r[1])) - 1 + r[2]

(* simpleValueToString<pReal> (lines 998-1005): sprintf "%g", as what the  *)
(* xpdf lexer makes of it.  %g prints the rounded value in e-style when    *)
(* its exponent is below -4 or at least Precision, and drops trailing      *)
(* zeros and a trailing point.  The lexer reads the number before the "e"  *)
(* and stops there; the token is an int when no point was printed.         *)
RealToString(r) ==
    LET g    == GRound(r)
        x    == Exp10(g)
        lead == IF x < -4 \/ x >= Precision THEN Norm(<< g[1], g[2] - x >>) ELSE g
    IN  [num |-> lead, point |-> lead[2] < 0]

(* simpleValueFromString(str, double&) (lines 788-799) through            *)
(* xpdfObjFromString (lines 862-907): assert(objReal == type) aborts on an *)
(* int token when asserts are compiled in; otherwise an int or a real      *)
(* token is read with getNum.                                              *)
RealFromString(p) ==
    IF Asserts /\ ~p.point THEN Abort ELSE Ok(p.num)

-----------------------------------------------------------------------------
(* Saving a node to an xpdf Object and reading it back.                    *)
XpdfType == [bool |-> "objBool", int |-> "objInt", real |-> "objReal"]

(* simpleValueToXpdfObj: xpdfBoolWriter, xpdfIntWriter, xpdfRealWriter     *)
(* (lines 222-255) initialise an Object of the node's type.               *)
WriteXpdf(n) == [type |-> XpdfType[n.t], v |-> n.v]

(* createObjFromXpdfObj (lines 602-684): the factory of the object's type, *)
(* whose reader (xpdfBoolReader, xpdfIntReader, xpdfRealReader, lines      *)
(* 118-153) takes the value; any other type throws.                        *)
CreateObjFromXpdfObj(o) ==
    CASE o.type = "objBool" -> [t |-> "bool", v |-> o.v]
      [] o.type = "objInt"  -> [t |-> "int", v |-> o.v]
      [] o.type = "objReal" -> [t |-> "real", v |-> o.v]

(* simpleXpdfObjToString (lines 452-510): CBOOL_TRUE or CBOOL_FALSE; an    *)
(* int through operator<<, as %d; a real through operator<< of an          *)
(* ostringstream at its default precision 6, which is the %g form.         *)
SimpleXpdfObjToString(o) ==
    CASE o.type = "objBool" -> BoolToString(o.v)
      [] o.type = "objInt"  -> IntToString(o.v)
      [] o.type = "objReal" -> RealToString(o.v)

(* xpdfObjToString (lines 954-972), used when a dictionary or an array is  *)
(* written out: arrays, dictionaries and streams go to                      *)
(* complexXpdfObjToString, every other type to simpleXpdfObjToString.       *)
XpdfObjToString(o) == SimpleXpdfObjToString(o)

-----------------------------------------------------------------------------
Kinds == {"bool", "int", "real"}
ValuesOf(t) == CASE t = "bool" -> BOOLEAN [] t = "int" -> IntValues [] OTHER -> RealValues
NoSet == [s |-> << >>, out |-> "none"]

VARIABLES
    node,       \* the simple node: its kind and value
    lastSet,    \* the last setStringRepresentation call and its outcome
    aborted     \* a failed assert ended the program

vars == <<node, lastSet, aborted>>

TypeOK ==
    /\ node.t \in Kinds
    /\ node.t = "bool" => node.v \in BOOLEAN
    /\ node.t = "int"  => node.v \in IntRange
    /\ node.t = "real" => node.v[1] \in Int /\ node.v[2] \in Int
    /\ lastSet.out \in {"none", "ok", "CObjBadValue"}
    /\ aborted \in BOOLEAN

Init ==
    /\ \E k \in Kinds : \E v \in ValuesOf(k) : node = [t |-> k, v |-> v]
    /\ lastSet = NoSet
    /\ aborted = FALSE

(* getStringRepresentation and setStringRepresentation of a simple node    *)
(* (CObjectSimple, not in this repository) call simpleValueToString and    *)
(* simpleValueFromString of the node's kind.                               *)
ToStringOf(n) ==
    CASE n.t = "bool" -> BoolToString(n.v)
      [] n.t = "int"  -> IntToString(n.v)
      [] OTHER        -> RealToString(n.v)

FromStringOf(t, p) ==
    CASE t = "bool" -> BoolFromString(p)
      [] t = "int"  -> IntFromString(p)
      [] OTHER      -> RealFromString(p)

InputsOf(t) == IF t = "bool" THEN BoolInputs ELSE IntInputs

(* The value of a successful parse is stored; an exception leaves it.      *)
Stored(n, r) == IF r.out = "ok" THEN [n EXCEPT !.v = r.v] ELSE n

(* CObjectSimple::setValue.                                                *)
SetValue(v) ==
    /\ ~aborted
    /\ node' = [node EXCEPT !.v = v]
    /\ UNCHANGED <<lastSet, aborted>>

(* A script sets a bool or an int node from a string.                      *)
SetStringRepresentation(s) ==
    /\ ~aborted /\ node.t \in {"bool", "int"}
    /\ node' = Stored(node, FromStringOf(node.t, s))
    /\ lastSet' = [s |-> s, out |-> FromStringOf(node.t, s).out]
    /\ UNCHANGED <<aborted>>

(* The node's printed form is set back into it, as an editor that shows   *)
(* the value and stores it on confirmation does.                           *)
Reparse ==
    /\ ~aborted
    /\ LET r == FromStringOf(node.t, ToStringOf(node)) IN
         /\ node' = Stored(node, r)
         /\ aborted' = (r.out = "abort")
    /\ UNCHANGED <<lastSet>>

(* The node is saved to an xpdf Object and a node is created from it.      *)
Reload ==
    /\ ~aborted
    /\ node' = CreateObjFromXpdfObj(WriteXpdf(node))
    /\ UNCHANGED <<lastSet, aborted>>

Next ==
    \/ \E v \in ValuesOf(node.t) : SetValue(v)
    \/ \E s \in InputsOf(node.t) : SetStringRepresentation(s)
    \/ Reparse
    \/ Reload

Spec == Init /\ [][Next]_vars

-----------------------------------------------------------------------------
(* Spec section 8, round trip: the printed form of a node's value parses   *)
(* back to the same value (getStringRepresentation then                    *)
(* setStringRepresentation), and a node saved to an xpdf Object and        *)
(* created from it again has the same kind and value; and the node prints  *)
(* the same through its xpdf Object (as a container's writer prints it)    *)
(* as it does itself.                                                      *)
CodecRoundTrip ==
    ~aborted =>
        /\ FromStringOf(node.t, ToStringOf(node)) = Ok(node.v)
        /\ CreateObjFromXpdfObj(WriteXpdf(node)) = node
        /\ XpdfObjToString(WriteXpdf(node)) = ToStringOf(node)

(* Spec section 4.5: a bool is the literal true or false.  A string that   *)
(* setStringRepresentation accepts for a bool node is one of them, in any  *)
(* case.                                                                   *)
BoolAcceptsOnlyLiterals ==
    node.t = "bool" /\ lastSet.out = "ok" =>
        \E lit \in {TrueLit, FalseLit} :
            Len(lastSet.s) = Len(lit) /\ EqualNoCase(lastSet.s, lit)
=============================================================================
