---------------------------- MODULE ScanPromise ----------------------------
(***************************************************************************)
(* What scan_repository promises, without walk order, threads, loops or     *)
(* hash sets: every file is observed at most once, at a moment of its own,  *)
(* and the report is a function of what was observed.                       *)
(***************************************************************************)
EXTENDS Risk, FiniteSets, Sequences

CONSTANTS Paths, Contents, Unreadable, RuleIds, RuleOf, Detections,
          Absent, Unread, NoReport

VARIABLES status, observed, result

vars == <<status, observed, result>>

\* The hits in a file as observed: none unless it was read.
HitsIn(p) == LET c == observed[p]
             IN  IF c \in Contents /\ c \notin Unreadable THEN Detections[c] ELSE << >>

HitKey(h) == <<h.rule, h.line, h.column, h.match>>

\* <<file, position>> of the hits of known rules that repeat no earlier hit of
\* their file.
Reported ==
    {e \in UNION {{p} \X DOMAIN HitsIn(p) : p \in Paths} :
        LET h == HitsIn(e[1])
        IN  /\ h[e[2]].rule \in RuleIds
            /\ \A j \in 1..(e[2] - 1) : HitKey(h[j]) # HitKey(h[e[2]])}

HitAt(e) == HitsIn(e[1])[e[2]]
SeverityAt(e) == adjusted_severity(RuleOf[HitAt(e).rule], HitAt(e).kind)

\* Most severe first, then by file, then as the detectors report.
Earlier(d, e) ==
    \/ SeverityAt(d) > SeverityAt(e)
    \/ /\ SeverityAt(d) = SeverityAt(e)
       /\ d[1] < e[1] \/ (d[1] = e[1] /\ d[2] < e[2])

Ranked(n) == CHOOSE e \in Reported :
                Cardinality({d \in Reported : Earlier(d, e)}) = n - 1

PromisedFinding(e) ==
    LET h == HitAt(e)
    IN  [rule |-> h.rule, file |-> e[1], line |-> h.line, column |-> h.column,
         match |-> h.match, severity |-> SeverityAt(e)]

Promised ==
    [findings |-> [n \in 1..Cardinality(Reported) |-> PromisedFinding(Ranked(n))],
     \* one entry for each algorithm a rule finds on a line
     cbom |-> {<<HitAt(e).rule, e[1], HitAt(e).line, HitAt(e).match>> : e \in Reported},
     \* one entry for each package a file names
     sbom |-> (UNION {{<<HitsIn(p)[k].dep, p>> : k \in DOMAIN HitsIn(p)} : p \in Paths})
              \ {<<0, p>> : p \in Paths}]

Observe ==
    /\ status = "scanning"
    /\ \E p \in Paths, c \in Contents \cup {Absent} :
        /\ observed[p] = Unread
        /\ observed' = [observed EXCEPT ![p] = c]
    /\ UNCHANGED <<status, result>>

Publish ==
    /\ status = "scanning"
    /\ status' = "done"
    /\ result' = Promised
    /\ UNCHANGED observed

Fail ==
    /\ status = "scanning"
    /\ status' = "failed"
    /\ UNCHANGED <<observed, result>>

Init ==
    /\ status = "scanning"
    /\ observed = [p \in Paths |-> Unread]
    /\ result = NoReport

Next == Observe \/ Publish \/ Fail

Spec == Init /\ [][Next]_vars
=============================================================================
