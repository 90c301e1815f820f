--------------------------- MODULE ScanRefinement ---------------------------
(***************************************************************************)
(* Scan implements ScanPromise: reading a file is Observe, assembling the   *)
(* report is Publish, an abort is Fail, and every other step is a stutter.  *)
(***************************************************************************)
EXTENDS Scan

status == IF phase \in {"done", "failed"} THEN phase ELSE "scanning"

observed == [p \in Paths |->
    IF \E i \in DOMAIN bytes : files[i] = p
    THEN bytes[CHOOSE i \in DOMAIN bytes : files[i] = p] ELSE Unread]

\* The part of the report that is promised: advice and snippets are taken from
\* later reads of the repository and are not.
PromisedPart(f) == [rule |-> f.rule, file |-> f.file, line |-> f.line,
                    column |-> f.column, match |-> f.match, severity |-> f.severity]

\* A sequence without repetitions is the set of its elements; one with a
\* repetition is no set, and implements nothing.
AsSet(s) == IF \A i, j \in DOMAIN s : s[i] = s[j] => i = j
            THEN {s[i] : i \in DOMAIN s} ELSE "repeated"

result ==
    IF phase # "done" THEN NoReport
    ELSE [findings |-> [k \in DOMAIN report.findings |-> PromisedPart(report.findings[k])],
          cbom |-> AsSet([k \in DOMAIN report.cbom |-> CbomKey(report.cbom[k])]),
          sbom |-> AsSet([k \in DOMAIN report.sbom |-> DependencyKey(report.sbom[k])])]

Promise == INSTANCE ScanPromise WITH status <- status, observed <- observed, result <- result

\* The report depends on what was read of each file and on nothing else: not on
\* the order of the walk, the threads, or the edits made after a file was read.
ImplementsPromise == Promise!Spec
=============================================================================
