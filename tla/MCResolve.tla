------------------------------ MODULE MCResolve ------------------------------
(* Two indirect ids, so that a Ref can be re-pointed and its target        *)
(* replaced independently; a dictionary with a Type and one other entry,   *)
(* each holding a name or an int.                                          *)
EXTENDS Resolve

MCRefIds == {1, 2}
MCDictKeys == {"Type", "Count"}
MCVals == {[kind |-> "name", v |-> 1], [kind |-> "int", v |-> 3]}
=============================================================================
