------------------------------ MODULE OrderedSets ------------------------------
(***************************************************************************)
(* A Set of JavaScript in its order of insertion: a sequence that holds    *)
(* nothing twice.  Adding what it has leaves it where it is.               *)
(***************************************************************************)
EXTENDS Naturals, Sequences, SequencesExt

IsOrderedSet(s) == \A i, j \in DOMAIN s : s[i] = s[j] => i = j

Add(s, x) == IF x \in ToSet(s) THEN s ELSE Append(s, x)

Delete(s, x) ==
    IF x \in ToSet(s) THEN RemoveAt(s, CHOOSE i \in DOMAIN s : s[i] = x) ELSE s
=============================================================================
