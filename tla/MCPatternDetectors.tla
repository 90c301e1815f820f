------------------------ MODULE MCPatternDetectors ------------------------
(***************************************************************************)
(* One rule, two rules one of which has alternatives, and one pattern in    *)
(* two rules.                                                               *)
(***************************************************************************)
EXTENDS PatternDetectors

MCRules == {<<{"name"}>>, <<{"dashed"}, {"name", "dashed"}>>, <<{"name"}, {"name"}>>}
=============================================================================
