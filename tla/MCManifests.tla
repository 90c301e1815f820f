---------------------------- MODULE MCManifests ----------------------------
(* Locks of up to six lines, two packages with a name and a version each;   *)
(* other documents of up to four, JSON documents of up to three.            *)
EXTENDS Manifests

MCMaxLines == [f \in Format |->
    CASE f \in {"Cargo.lock", "poetry.lock"} -> 6
      [] f \in DOMAIN Sections \cup {"sbom", "pnpm-lock.yaml", "pom.xml"} -> 3
      [] OTHER -> 4]

\* One rule set looks for a name and for an ecosystem and a version.
MCWords == {<<"name", 1>>, <<"name", 2>>, <<"version", "1">>, <<"ecosystem", "maven">>}
MCRules == {<<<<"name", 1>>, <<"version", "1">>>>, <<<<"ecosystem", "maven">>, <<"name", 2>>>>}
=============================================================================
