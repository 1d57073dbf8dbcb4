----------------------------- MODULE MCStreamLoad -----------------------------
(* A 6-bit size_t and a 4-bit int; streams holding 0..5 bytes under Length *)
(* values below, equal to and above that, and a negative one.             *)
EXTENDS StreamLoad

MCLengthValues == {-1, 0, 2, 4, 5}
MCDataLens == 0..5
=============================================================================
