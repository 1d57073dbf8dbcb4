------------------------------ MODULE Resolve ------------------------------
(***************************************************************************)
(* The object helpers of src/kernel/cobjecthelpers.cc: the typed getters   *)
(* of a dictionary entry, the two ways of following a reference            *)
(* (getReferencedObject and getDictFromRef), getDictType and               *)
(* checkAndReplace.                                                        *)
(*                                                                         *)
(* The caller holds three handles: a Ref node, a direct (not a reference)  *)
(* dictionary node, and a null pointer.  The Ref node points at an         *)
(* indirect object of the document and is either attached to the document *)
(* (it has a pdf and a valid indirect id) or detached from it, e.g. after  *)
(* being removed from its container.  The document's indirect objects are *)
(* known by their kind only; the document may replace one at any time.    *)
(* A value is a record [kind, v]; only its kind matters to the resolvers.  *)
(*                                                                         *)
(* CPdf, CDict and CRef are not in this repository; what the helpers call *)
(* of them is modelled from spec sections 4.3, 4.6 and 6.                  *)
(***************************************************************************)
EXTENDS Integers

CONSTANTS
    RefIds,     \* indirect ids the Ref node may hold
    DictKeys,   \* keys of the dictionary the getters read
    Vals,       \* values a dictionary entry may hold
    Asserts     \* whether assert() is compiled in

Kinds == {"null", "bool", "int", "real", "string", "name", "ref", "dict", "array"}

(* Vals is a set of records [kind : Kinds, v : Nat]; Asserts is a Boolean. *)

Handles == {"ref", "direct", "nullptr"}
Missing == "missing"
Absent == [kind |-> "none", v |-> 0]

VARIABLES
    attached,   \* the Ref node has a pdf and a valid indirect id
    refTo,      \* the value of the Ref node
    table,      \* [RefIds -> Kinds \cup {Missing}]: the document's objects
    dict,       \* [DictKeys -> Vals \cup {Absent}]: the dictionary edited
    ret         \* what the last checkAndReplace returned

vars == <<attached, refTo, table, dict, ret>>

Ok(k) == [out |-> "ok", kind |-> k]
Exc(e) == [out |-> "exc", exc |-> e]
Crash == [out |-> "crash"]
Abort == [out |-> "abort"]

TypeOK ==
    /\ attached \in BOOLEAN
    /\ refTo \in RefIds
    /\ table \in [RefIds -> Kinds \cup {Missing}]
    /\ dict \in [DictKeys -> Vals \cup {Absent}]
    /\ ret \in BOOLEAN

Init ==
    /\ attached = TRUE
    /\ refTo \in RefIds
    /\ table \in [RefIds -> Kinds \cup {Missing}]
    /\ dict \in [DictKeys -> Vals \cup {Absent}]
    /\ ret = FALSE

-----------------------------------------------------------------------------
(* CPdf::getIndirectProperty(ref): the object, or a failure for an unknown *)
(* id (spec section 6).                                                    *)
IndirectProperty(r) ==
    IF table[r] = Missing THEN Exc("IndirectNotFound") ELSE Ok(table[r])

(* The kind of the node behind handle h.                                   *)
KindOf(h) == IF h = "ref" THEN "ref" ELSE "dict"

(* getReferencedObject(ip) (lines 291-311): a null pointer throws          *)
(* CObjInvalidOperation; a Ref without a valid pdf or id trips the asserts *)
(* or throws CObjInvalidObject; a Ref is looked up in its pdf; anything    *)
(* else is returned itself.                                                *)
ReferencedObject(h) ==
    CASE h = "nullptr"              -> Exc("CObjInvalidOperation")
      [] h = "ref" /\ ~attached     -> IF Asserts THEN Abort
                                       ELSE Exc("CObjInvalidObject")
      [] h = "ref"                  -> IndirectProperty(refTo)
      [] OTHER                      -> Ok(KindOf(h))

(* getDictFromRef(refProp) (lines 185-199): the type of refProp is read    *)
(* without a null check; a non-Ref throws ElementBadTypeException; the     *)
(* Ref's pdf is dereferenced without a check (NULL when detached); an      *)
(* indirect object that is not a dictionary throws                         *)
(* ElementBadTypeException.                                                *)
DictFromRef(h) ==
    CASE h = "nullptr"      -> Crash
      [] h # "ref"          -> Exc("ElementBadTypeException")
      [] ~attached          -> Crash
      [] table[refTo] = Missing -> Exc("IndirectNotFound")
      [] table[refTo] # "dict" -> Exc("ElementBadTypeException")
      [] OTHER              -> Ok("dict")

(* getDictFromRef(pdf, ref) (lines 202-207): the indirect object ref of    *)
(* pdf, which must be a dictionary, else ElementBadTypeException.          *)
DictFromPdfRef(r) ==
    CASE table[r] = Missing    -> Exc("IndirectNotFound")
      [] table[r] # "dict"     -> Exc("ElementBadTypeException")
      [] OTHER                 -> Ok("dict")

(* getIntFromDict, getRefFromDict, getStringFromDict, getNameFromDict      *)
(* (lines 108-167): CDict::getProperty throws ElementNotFoundException for *)
(* a missing key; an entry of another kind throws                          *)
(* ElementBadTypeException.                                                *)
FromDict(name, k) ==
    CASE dict[name] = Absent    -> Exc("ElementNotFoundException")
      [] dict[name].kind # k    -> Exc("ElementBadTypeException")
      [] OTHER                  -> [out |-> "ok", kind |-> k, v |-> dict[name].v]

(* getDictType (lines 169-183): the Type name, or "" on any exception.     *)
DictType ==
    IF "Type" \in DictKeys /\ FromDict("Type", "name").out = "ok"
    THEN FromDict("Type", "name").v
    ELSE "empty"

-----------------------------------------------------------------------------
(* The Ref node is removed from, or put back into, a container of the      *)
(* document (spec section 4.3: detaching clears the document link).        *)
Detach ==
    /\ attached
    /\ attached' = FALSE
    /\ UNCHANGED <<refTo, table, dict, ret>>

Attach ==
    /\ ~attached
    /\ attached' = TRUE
    /\ UNCHANGED <<refTo, table, dict, ret>>

(* CRef::setValue: the Ref node is pointed at another id.                  *)
SetRefValue(r) ==
    /\ refTo' = r
    /\ UNCHANGED <<attached, table, dict, ret>>

(* The document replaces, adds or removes indirect object r.               *)
ChangeIndirect(r, k) ==
    /\ table' = [table EXCEPT ![r] = k]
    /\ UNCHANGED <<attached, refTo, dict, ret>>

(* checkAndReplace(annotDict, fieldName, fieldValue) (lines 351-367):      *)
(* getProperty, then setProperty and return true; when getProperty throws  *)
(* ElementNotFoundException, addProperty and return false.                 *)
CheckAndReplace(f, v) ==
    /\ dict' = [dict EXCEPT ![f] = v]
    /\ ret' = (dict[f] # Absent)
    /\ UNCHANGED <<attached, refTo, table>>

Next ==
    \/ Detach \/ Attach
    \/ \E r \in RefIds : SetRefValue(r)
    \/ \E r \in RefIds, k \in {"dict", "int", Missing} : ChangeIndirect(r, k)
    \/ \E f \in DictKeys, v \in Vals : CheckAndReplace(f, v)

Spec == Init /\ [][Next]_vars

-----------------------------------------------------------------------------
(* Spec sections 4.6 and 7: resolving a detached Ref fails with an error,  *)
(* never with undefined behaviour.  Checked for the Ref and the direct     *)
(* handle (a null pointer is a caller error for every helper).             *)
NoCrash == \A h \in Handles \ {"nullptr"} : DictFromRef(h) # Crash
=============================================================================
