-------------------------- MODULE MCStreamSerialize --------------------------
(* A 6-bit size_t and a 5-bit int: every sum of the small sizes below fits  *)
(* in size_t, and an int converts to it exactly when it is not negative, as *)
(* with a 32-bit int and a 64-bit size_t.  Streams hold 0..3 bytes, so a    *)
(* Length can be below, equal to or above the bytes present.              *)
EXTENDS StreamSerialize

MCDictLens == {3}
MCRefHeaderLens == {9}
MCDataLens == 0..3

(* Length values the lines up to 1242 accept: 0..2.                       *)
MCLengthValues == 0..2

(* With negative Length values: -16 makes the allocation smaller than the  *)
(* prefix, -1 larger than it but smaller than the prefix and the data.     *)
MCLengthValuesNegative == {-16, -1, 2}
=============================================================================
