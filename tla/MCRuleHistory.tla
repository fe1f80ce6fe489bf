---------------------------- MODULE MCRuleHistory ----------------------------
(* The instance of MCRuleStore, with the history of its edits. *)
EXTENDS MCRuleStore, RuleStoreHistory

=============================================================================
