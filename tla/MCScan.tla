------------------------------- MODULE MCScan -------------------------------
(***************************************************************************)
(* Three files and an excluded one, two threads and eight contents: a       *)
(* source file with TLS settings and an inline secret, a lock file, TLS     *)
(* settings with an RSA private key below them and with an EC private key   *)
(* below them, what is left of a file after an edit that shortens it, a     *)
(* binary file, a file nobody may read, and one above the size limit.  The  *)
(* second file is a symbolic link, so that what it names is scanned         *)
(* whatever its size.                                                       *)
(***************************************************************************)
EXTENDS ScanRefinement

MCContents == {"tls", "lock", "pem", "ec", "short", "bin", "locked", "big"}
MCLines == [c \in MCContents |->
    CASE c = "tls" -> <<"plain", "long", "secret", "plain", "plain", "end">>
      [] c = "lock" -> <<"plain", "plain", "plain", "plain">>
      [] c = "pem" -> <<"plain", "begin", "body", "end">>
      [] c = "ec" -> <<"plain", "foreign", "body", "foreign">>
      [] c \in {"short", "bin"} -> <<"plain">>
      [] c = "locked" -> <<"plain", "plain">>
      [] c = "big" -> [i \in 1..9 |-> "plain"]]
MCVersionHint == [c \in MCContents |-> IF c = "lock" THEN 17 ELSE 0]

MCRuleIds == {"TLS_RSA", "DEP_JOSE", "KEY_RSA"}
MCRuleOf == [r \in MCRuleIds |->
    CASE r = "TLS_RSA" -> [category |-> "tls", severity |-> High,
                           risk |-> "quantum-vulnerable", lowConfidence |-> FALSE]
      [] r = "DEP_JOSE" -> [category |-> "jwt", severity |-> Critical,
                            risk |-> "quantum-vulnerable", lowConfidence |-> FALSE]
      [] r = "KEY_RSA" -> [category |-> "other", severity |-> High,
                           risk |-> "non-quantum-risk", lowConfidence |-> FALSE]]

Found(rule, line, column, kind, dep) ==
    [rule |-> rule, line |-> line, column |-> column, match |-> 0,
     kind |-> kind, dep |-> dep]

\* tls: two nested nodes of the syntax tree give the same hit (their matches
\* differ in what the preview masks), and there is a second one on the same
\* line; lock: an inventory item, whose rule id is
\* no rule's, and a dependency rule, on a line that was not found; pem: a
\* setting and a private key; ec: a setting, and a private key that no detector
\* knows.
TlsHits == <<Found("TLS_RSA", 5, 3, "other", 0), Found("TLS_RSA", 5, 3, "other", 0),
             Found("TLS_RSA", 5, 9, "other", 0)>>
MCDetections == [c \in MCContents |->
    CASE c = "tls" -> TlsHits
      [] c = "lock" -> <<Found("__DEPENDENCY_INVENTORY__", 2, 1, "other", 1),
                         Found("DEP_JOSE", 0, 0, "other", 0)>>
      [] c = "pem" -> <<Found("TLS_RSA", 1, 3, "other", 0),
                        Found("KEY_RSA", 2, 1, "private_key", 0)>>
      [] c = "ec" -> <<Found("TLS_RSA", 1, 3, "other", 0)>>
      [] c \in {"short", "bin", "locked"} -> << >>
      [] c = "big" -> <<Found("TLS_RSA", 9, 1, "other", 0)>>]
MCHits == UNION {{MCDetections[c][k] : k \in DOMAIN MCDetections[c]} : c \in MCContents}

MCStartDisks ==
    {<<"tls", "lock", "pem", "tls">>, <<"lock", "tls", "tls", "tls">>,
     <<"locked", "lock", "tls", "tls">>, <<"tls", "big", "lock", "tls">>}

\* A repository with a private key of a kind the detectors know and one of
\* another kind.
MCKeyDisks == {<<"pem", "ec", "lock", "tls">>}
=============================================================================
