------------------------------ MODULE MCConsent ------------------------------
(* One person with two ways to write an identifier, two records, two edits  *)
(* and a withdrawal.  A DSAR request is like a record that goes no further  *)
(* than the data subject, and so has no call of its own here.               *)
EXTENDS Consent, TLC

CONSTANTS ann
MCPersonOf == [i \in Identifiers |-> ann]
Symmetry ==
  Permutations(Recorders) \union Permutations(Updaters) \union Permutations(Purposes)
=============================================================================
