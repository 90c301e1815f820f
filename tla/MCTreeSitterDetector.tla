------------------------ MODULE MCTreeSitterDetector ------------------------
(***************************************************************************)
(* Every text of seven lexemes that four trees fit:                         *)
(*   name(..., "string", ..., name)   a call with a string among its parts  *)
(*   "\n..."                          a string that begins with an escape   *)
(*   ... name(... , name)             a call with room for a comment        *)
(*   name ... name                    two statements                        *)
(***************************************************************************)
EXTENDS TreeSitterDetector, SequencesExt

Node(first, last, kind, children) ==
    [first |-> first, last |-> last, kind |-> kind, semantic |-> kind # "other",
     children |-> children]

CallWithString == <<Node(1, 7, "other", <<2>>), Node(1, 7, "call", <<3, 4, 6>>),
    Node(1, 1, "identifier", << >>), Node(3, 5, "string", <<5>>), Node(4, 4, "fragment", << >>),
    Node(7, 7, "identifier", << >>)>>
Escaped == <<Node(1, 7, "other", <<2>>), Node(1, 7, "string", <<3, 4>>),
    Node(2, 3, "other", << >>), Node(4, 6, "fragment", << >>)>>
Call == <<Node(1, 7, "other", <<2>>), Node(2, 7, "call", <<3, 4>>),
    Node(2, 2, "identifier", << >>), Node(6, 7, "identifier", << >>)>>
Statements == <<Node(1, 7, "other", <<2, 3>>),
    Node(1, 2, "identifier", << >>), Node(6, 7, "identifier", << >>)>>

\* A text that the grammar may have read as the tree: identifiers are whole,
\* strings are quoted and on one line, and between them, on the remaining
\* places, words and wide characters are in comments only.
Fits(tr, tx) ==
    LET Leaves == {n \in DOMAIN tr : tr[n].kind \in {"identifier", "string"}}
        Inside(p) == \E n \in Leaves : p \in tr[n].first..tr[n].last
        InComment(p) == \E q \in 1..(p - 1) :
            /\ tx[q] = "remark" /\ ~Inside(q)
            /\ \A n \in q..p : tx[n] # "newline"
    IN  /\ \A n \in Leaves :
            IF tr[n].kind = "identifier"
            THEN /\ \A p \in tr[n].first..tr[n].last : IsIdentifier(tx[p])
                 /\ tr[n].first > 1 => ~IsIdentifier(tx[tr[n].first - 1])
                 /\ tr[n].last < 7 => ~IsIdentifier(tx[tr[n].last + 1])
            ELSE /\ tx[tr[n].first] = "mark" /\ tx[tr[n].last] = "mark"
                 /\ \A p \in tr[n].first..tr[n].last : tx[p] # "newline"
        /\ \A p \in 1..7 :
            IF Inside(p) THEN ~InComment(p)
            ELSE tx[p] \in {"name", "capital", "dashed", "letter", "wide"} => InComment(p)

\* What may be at a place of the text of a tree.  What comes first, or directly
\* behind an identifier, is in no comment.
Allowed(tr, p) ==
    IF tr = Escaped /\ p \in 1..3
    THEN {IF p = 3 THEN "letter" ELSE "mark"}
    ELSE IF \E n \in DOMAIN tr : tr[n].kind = "identifier" /\ p \in tr[n].first..tr[n].last
    THEN {"name", "capital", "letter"}
    ELSE IF p \in {2, 6} /\ tr = CallWithString THEN {"mark", "newline"}
    ELSE IF p = 1 \/ \E n \in DOMAIN tr : tr[n].kind = "identifier" /\ tr[n].last = p - 1
    THEN {"remark", "blank", "mark", "newline"}
    ELSE Lexeme

\* The texts so far, with one more lexeme.
Longer(tr, texts, p) == {Append(t, l) : t \in texts, l \in Allowed(tr, p)}
Texts(tr) ==
    LET Step(texts, p) == Longer(tr, texts, p)
    IN  {t \in FoldLeft(Step, {<< >>}, [p \in 1..7 |-> p]) : Fits(tr, t)}

MCParses ==
    UNION {{[text |-> t, tree |-> tr] : t \in Texts(tr)} :
             tr \in {CallWithString, Escaped, Call, Statements}}

Scopes(pattern, scope) == [pattern |-> pattern, scope |-> scope]
MCRules ==
    {<<Scopes({"name", "dashed"}, {"any"}), Scopes({"name", "capital"}, {"javascript", "java"})>>,
     <<Scopes({"capital"}, {"java"}), Scopes({"name"}, {"typescript"})>>}
=============================================================================
