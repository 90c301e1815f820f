----------------------------- MODULE MCReports -----------------------------
(***************************************************************************)
(* Every two findings, three over fewer texts and four over fewer places,   *)
(* in the order of a scan.  The ids of rules 2 and 3 become one in HTML,    *)
(* and the path of file 2 holds a separator of Markdown tables.             *)
(***************************************************************************)
EXTENDS Reports

Flavour == [k \in 1..4 |->
    CASE k = 1 -> [match |-> "rsa", snippet |-> <<"rsa", "secret">>, actions |-> <<"x", "y">>]
      [] k = 2 -> [match |-> "key", snippet |-> <<"key", "masked-key">>, actions |-> <<"y", "x", "z">>]
      [] k = 3 -> [match |-> "", snippet |-> << >>, actions |-> << >>]
      [] k = 4 -> [match |-> "pipe", snippet |-> <<"angle">>, actions |-> <<"z">>]]

FindingOf(r, s, f, l, k) ==
    [rule |-> r, severity |-> s, file |-> f, line |-> l, column |-> 1,
     match |-> Flavour[k].match, preview |-> Flavour[k].match,
     snippet |-> Flavour[k].snippet, actions |-> Flavour[k].actions]

Findings(rules, severities, texts, lines, flavours) ==
    {FindingOf(r, s, f, l, k) : r \in rules, s \in severities, f \in texts, l \in lines, k \in flavours}

InOrder(n, fs) == {s \in [1..n -> fs] : ScanOrder(s)}

MCResults ==
    InOrder(2, Findings(1..3, {Medium, Critical}, 1..2, 0..1, 1..4))
    \cup InOrder(3, Findings(1..3, {Low, High}, 1..2, 1..2, {1}))
    \cup InOrder(4, Findings({2}, {Low, Medium}, 1..2, 1..3, {1}))

MCFileText == [f \in 1..2 |-> IF f = 1 THEN "rsa" ELSE "pipe"]
MCDomId == [r \in 1..3 |-> IF r = 1 THEN "a" ELSE "b"]
=============================================================================
