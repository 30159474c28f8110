---------------------------- MODULE MC_RuleStore ----------------------------
(* Model-checking instance of RuleStore: writers and revisions are         *)
(* interchangeable model values.                                           *)
EXTENDS RuleStore, TLC

MCRuleSymmetry == Permutations(Writers) \cup Permutations(Revs)
=============================================================================
