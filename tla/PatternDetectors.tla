-------------------------- MODULE PatternDetectors --------------------------
(***************************************************************************)
(* RegexDetector and KeyDetector (pqc_scan_detectors): the matches of each  *)
(* rule in a text, in order, up to a limit.                                 *)
(*                                                                         *)
(* Both iterate over find_iter(text).take(limit).  The key detector runs no *)
(* rule on a text without one of its built-in markers, and knows no         *)
(* comments.                                                                *)
(***************************************************************************)
EXTENDS SourceText, Sequences

CONSTANTS
    Rules,      \* the patterns of the rules of a detector's kind, by rule set
    Alphabet,   \* bound: the lexemes texts are made of
    MaxLength,  \* bound: how many of them
    Limit,      \* matches taken of a rule: 32 by regex_detector, 8 by key_detector
    Marker      \* the built-in private key markers, as one pattern

ASSUME PatternDetectorsAssumption ==
    /\ Rules \subseteq Seq(Pattern)
    /\ Alphabet \subseteq Lexeme /\ MaxLength \in Nat
    /\ Limit \in Nat \ {0} /\ Marker \in Pattern

Text == UNION {[1..n -> Alphabet] : n \in 0..MaxLength}

Detector == {"regex_detector", "key_detector"}

VARIABLES
    detector,
    language,
    text,
    rules,      \* the patterns of the rules of the detector's kind
    rule,       \* the rule the loop is at
    taken,      \* the matches taken of that rule
    from,       \* where find_iter continues
    out         \* the detections

detect_vars == <<detector, language, text, rules, rule, taken, from, out>>

\* The key detector looks for its markers first.
Gated == detector = "key_detector" /\ Found(text, Marker) = {}

\* The next match of the rule, when the limit is not reached.
IsNext_LimitPlusOne(p) ==
    /\ taken <= Limit
    /\ p \in Found(text, rules[rule]) /\ p >= from
    /\ \A q \in Found(text, rules[rule]) : q >= from => p <= q
IsNext(p) ==
    /\ taken < Limit
    /\ p \in Found(text, rules[rule]) /\ p >= from
    /\ \A q \in Found(text, rules[rule]) : q >= from => p <= q

Skips(p) == detector = "regex_detector" /\ should_skip_comment_only_match(language, text, p)

Take(p) ==
    /\ rule <= Len(rules) /\ ~Gated /\ IsNext(p)
    /\ taken' = taken + 1
    /\ from' = p + 1
    /\ UNCHANGED <<detector, language, text, rules, rule>>

SkipComment(p) == Take(p) /\ Skips(p) /\ out' = out

Report(p) ==
    /\ Take(p) /\ ~Skips(p)
    /\ out' = Append(out, [rule |-> rule, line |-> line_for_offset(text, p),
                           column |-> column_for_offset(text, p)])

Continue_KeepingCount == taken
Continue == 0

NextRule ==
    /\ rule <= Len(rules) /\ ~Gated
    /\ \A p \in DOMAIN text : ~IsNext(p)
    /\ rule' = rule + 1 /\ taken' = Continue /\ from' = 1
    /\ UNCHANGED <<detector, language, text, rules, out>>

Done == rule > Len(rules) \/ Gated

DetectTerminated == Done /\ UNCHANGED detect_vars

DetectInit ==
    /\ detector \in Detector /\ language \in Language
    /\ text \in Text
    /\ rules \in Rules
    /\ rule = 1 /\ taken = 0 /\ from = 1
    /\ out = << >>

DetectNext ==
    \/ \E p \in DOMAIN text : SkipComment(p) \/ Report(p)
    \/ NextRule
    \/ DetectTerminated

DetectSpec == DetectInit /\ [][DetectNext]_detect_vars
-----------------------------------------------------------------------------
DetectTypeOK ==
    /\ detector \in Detector /\ language \in Language
    /\ Len(text) <= MaxLength /\ \A p \in DOMAIN text : text[p] \in Lexeme
    /\ \A k \in DOMAIN rules : rules[k] \in Pattern
    /\ rule \in 1..(Len(rules) + 1)
    /\ taken \in 0..Limit
    /\ from \in 1..(Len(text) + 1)
    /\ \A k \in DOMAIN out :
         /\ out[k].rule \in DOMAIN rules
         /\ out[k].line \in 1..(Len(text) + 1) /\ out[k].column \in 1..Len(text)

Place(p) == [line |-> line_for_offset(text, p), column |-> column_for_offset(text, p)]

\* The first matches of a rule, and those of them that are not in a comment.
FirstMatches(k) ==
    {p \in Found(text, rules[k]) : Cardinality({q \in Found(text, rules[k]) : q <= p}) <= Limit}
Reportable(k) == {p \in FirstMatches(k) : ~Skips(p)}

ReportedBy(k) == {i \in DOMAIN out : out[i].rule = k}

\* A rule reports the places of its first matches, but for those on comment
\* lines, in the order of the text, whatever the other rules of the set find.
HitsExact ==
    Done => \A k \in DOMAIN rules :
        LET expected == IF Gated THEN {} ELSE Reportable(k)
        IN  /\ Cardinality(ReportedBy(k)) = Cardinality(expected)
            /\ {[line |-> out[i].line, column |-> out[i].column] : i \in ReportedBy(k)}
                 = {Place(p) : p \in expected}
            /\ \A i, j \in ReportedBy(k) : i < j =>
                 \/ out[i].line < out[j].line
                 \/ out[i].line = out[j].line /\ out[i].column < out[j].column
=============================================================================
