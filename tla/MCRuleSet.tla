----------------------------- MODULE MCRuleSet -----------------------------
(***************************************************************************)
(* Three entries, each a file of up to two rules out of four texts (two ids *)
(* appear twice, one pattern does not compile), or one that is skipped or   *)
(* rejected.                                                                *)
(***************************************************************************)
EXTENDS RuleSet

Text(id, kind, pattern) == [id |-> id, kind |-> kind, pattern |-> pattern]
A == Text(1, "regex", "p")
B == Text(2, "key", "p")
C == Text(3, "regex", "q")
OtherB == Text(2, "regex", "q")
Broken == Text(4, "regex", "(")
MCRuleTexts == {A, B, C, OtherB, Broken}

MCFiles ==
    {[state |-> s, rules |-> << >>] :
        s \in {"walk-error", "other", "unreadable", "malformed", "yaml"}}
    \cup {[state |-> "yaml", rules |-> r] :
            r \in {<<A>>, <<C, A>>, <<B>>, <<OtherB, C>>, <<A, A>>, <<Broken, C>>}}
MCRuleDirs == [{"one", "two", "three"} -> MCFiles]
=============================================================================
