-------------------------------- MODULE Risk --------------------------------
(***************************************************************************)
(* Severity adjustment of a detection (pqc_scan_core/src/risk.rs) and the   *)
(* ordered severities of pqc_scan_rules.                                    *)
(*                                                                         *)
(* A rule is abstracted to the fields the adjustment reads.  lowConfidence  *)
(* stands for the test confidence < 0.45: it is FALSE for a confidence that *)
(* is not a number, which the code therefore promotes like a high one.      *)
(***************************************************************************)
EXTENDS Integers

\* The derive(Ord) order of enum Severity.
Info == 0
Low == 1
Medium == 2
High == 3
Critical == 4
Severity == Info..Critical

RiskLevel == {"quantum-vulnerable", "quantum-uncertain",
              "quantum-safe", "non-quantum-risk"}

SensitiveCategory == {"tls", "pki", "jwt", "auth", "authentication"}
Category == SensitiveCategory \cup {"other"}

EvidenceKind == {"private_key", "other"}

Rule == [category : Category, severity : Severity, risk : RiskLevel,
         lowConfidence : BOOLEAN]

bump_severity_PastCritical(s) == s + 1
bump_severity_Wrapping(s) == (s + 1) % 5
bump_severity(s) == IF s < Critical THEN s + 1 ELSE Critical

\* Only confident, quantum-vulnerable rules of a sensitive category are raised.
Promoted(rule) ==
    /\ rule.category \in SensitiveCategory
    /\ rule.risk = "quantum-vulnerable"
    /\ ~rule.lowConfidence

adjusted_severity(rule, kind) ==
    IF ~Promoted(rule) THEN rule.severity
    ELSE IF kind = "private_key" THEN Critical
    ELSE bump_severity(rule.severity)
=============================================================================
