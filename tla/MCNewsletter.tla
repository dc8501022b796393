---------------------------- MODULE MCNewsletter ----------------------------
(* Small instances of Newsletter for TLC. *)
EXTENDS Newsletter, TLC

NewsletterSymmetry ==
  Permutations(Subs) \cup Permutations(Dispatchers) \cup Permutations(Editors)
=============================================================================
