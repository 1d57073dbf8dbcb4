----------------------------- MODULE MCCStream -----------------------------
(***************************************************************************)
(* Small instances of CStream for TLC.  Three filter names, two of which   *)
(* the kernel's filter factory supports; filter arrays of up to two        *)
(* names, so that mixed supported/unsupported lists and two-layer          *)
(* orderings occur; payloads of 0..2 bytes.                                *)
(***************************************************************************)
EXTENDS CStream, SequencesExt

MCFilterNames == {"Flate", "AHx", "JBIG2"}
MCSupported == {"Flate", "AHx"}
MCPayloads == 0..2
MCLengthValues == {0, 3}

(* Direct Filter entries: one name, an array of up to two names, and an    *)
(* entry of another kind (an integer), which neither side reads.           *)
DirectEntries ==
    {NameVal(n) : n \in MCFilterNames}
      \cup {[t |-> "array", a |-> s] : s \in SeqOf(MCFilterNames, 2)}
      \cup {IntVal(1)}

MCFilterEntries == DirectEntries

(* The same, plus a Filter entry that is an indirect reference to the name *)
(* /Flate, as PDF allows for any dictionary value.                         *)
MCFilterEntriesWithRef ==
    DirectEntries \cup {[t |-> "ref", to |-> NameVal("Flate")]}
=============================================================================
