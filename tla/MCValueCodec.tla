---------------------------- MODULE MCValueCodec ----------------------------
(* A 4-bit int; script strings with white space, a sign, trailing junk, an *)
(* out-of-range number and no digit; bool strings in either case; reals    *)
(* that %g prints exactly and with a point, and the kinds of real %g does  *)
(* not: seven significant digits, an e+ and an e- exponent, and a whole    *)
(* number.                                                                 *)
EXTENDS ValueCodec

MCBoolInputs == { <<"t", "r", "u", "e">>, <<"F", "a", "L", "s", "e">>, <<"t", "r", "u", "e", "s">> }
MCIntInputs == { <<" ", "-", "3">>, <<"5", "x">>, <<"1", "2">>, <<"+">>, << >> }
MCIntValues == -8..7
\* 0.5, -2.25, -0.0001 (the smallest exponent %g prints without e-style)
\* and 99999.9 (six significant digits, the largest such exponent).
MCRealValues == { <<5, -1>>, <<-225, -2>>, <<-1, -4>>, <<999999, -1>> }

\* Bool strings that are a prefix of a literal, among them the empty string.
MCBoolPrefixInputs == MCBoolInputs \cup { <<"t">>, << >>, <<"F", "a">> }
\* 1234567, 1000000, 0.00001 and 2.0: %g prints 1.23457e+06, 1e+06, 1e-05
\* and 2.
MCRealValuesInexact == { <<1234567, 0>>, <<1, 6>>, <<1, -5>>, <<2, 0>> }
=============================================================================
