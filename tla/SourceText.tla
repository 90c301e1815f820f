----------------------------- MODULE SourceText -----------------------------
(***************************************************************************)
(* A text as the detectors see it (pqc_scan_core/src/model.rs and           *)
(* pqc_scan_detectors/src/comment_filter.rs): offsets, lines and columns,   *)
(* and the lines that hold nothing but a comment.                           *)
(*                                                                         *)
(* A text is a sequence of lexemes, each one character wide:                *)
(*   "name"    what a rule may look for, made of identifier characters      *)
(*   "capital" the same in upper case                                       *)
(*   "dashed"  what a rule may look for, with a character no identifier has *)
(*   "letter"  any other identifier character                               *)
(*   "remark"  opens a comment in the languages that have line comments     *)
(*   "blank"   white space                                                  *)
(*   "mark"    any other ASCII character, a quote among them                *)
(*   "wide"    a character above ASCII: WideBytes bytes, where all others   *)
(*             have one                                                     *)
(* and "newline".                                                           *)
(***************************************************************************)
EXTENDS Integers, FiniteSets

Lexeme == {"name", "capital", "dashed", "letter", "remark", "blank", "mark", "wide", "newline"}

\* A regular expression, by the lexemes it matches.
Matched == {"name", "capital", "dashed"}
Pattern == SUBSET Matched \ {{}}

\* How the comment filter treats a language: by the first lexeme of a line, or
\* not at all (java by policy, and what is no programming language).
Language == {"filtered", "java"}

\* The lexeme offset is at belongs to the line that begins here.
LineStart(text, offset) ==
    CHOOSE s \in 1..offset :
        /\ s = 1 \/ text[s - 1] = "newline"
        /\ \A q \in s..(offset - 1) : text[q] # "newline"

Newlines(text, offset) == {q \in 1..(offset - 1) : text[q] = "newline"}

\* What of the line is before the offset.
LineSoFar(text, offset) ==
    {b \in 1..(offset - 1) : \A q \in b..(offset - 1) : text[q] # "newline"}

line_for_offset(text, offset) == 1 + Cardinality(Newlines(text, offset))
column_for_offset(text, offset) == 1 + Cardinality(LineSoFar(text, offset))

\* The bytes of a line before the offset that are not the first of a character.
WideBytes == 2
ExtraBytes(text, offset) ==
    (WideBytes - 1) * Cardinality({b \in LineSoFar(text, offset) : text[b] = "wide"})

is_comment_only_line(text, offset) ==
    \E q \in LineStart(text, offset)..offset :
        /\ text[q] = "remark"
        /\ \A b \in LineStart(text, offset)..(q - 1) : text[b] = "blank"

should_skip_comment_only_match(language, text, offset) ==
    language = "filtered" /\ is_comment_only_line(text, offset)

\* The offsets at which find_iter finds a pattern.
Found(text, pattern) == {p \in DOMAIN text : text[p] \in pattern}
=============================================================================
