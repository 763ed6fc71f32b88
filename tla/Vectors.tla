------------------------------- MODULE Vectors -------------------------------
(***************************************************************************)
(* Removal from the vectors of the code (Vec::retain, Vec::remove), on     *)
(* sequences.                                                              *)
(***************************************************************************)
EXTENDS Naturals, Sequences, FiniteSets, SequencesExt

\* The elements of s outside S, in order.
Dropping(s, S) ==
  LET kept   == {i \in DOMAIN s : s[i] \notin S}
      nth(k) == CHOOSE i \in kept : Cardinality({j \in kept : j <= i}) = k
  IN  [k \in 1..Cardinality(kept) |-> s[nth(k)]]

Without(s, c) == Dropping(s, {c})
==============================================================================
