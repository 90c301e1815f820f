------------------------------ MODULE Listing ------------------------------
(***************************************************************************)
(* The Vec idioms the scanner is built from: filter and flatten, "push      *)
(* unless the key was already in the HashSet", and slice::sort_by, which is *)
(* stable.  Each lists places in an order and takes what is there.          *)
(***************************************************************************)
EXTENDS Integers, Sequences, FiniteSets

\* Once(v, F) is F(v) and Evaluated(s) is s: so put, TLC evaluates the value
\* v, and every element of s, a single time.
Once(v, F(_)) == CHOOSE r \in {F(x) : x \in {v}} : TRUE
Evaluated(s) == << >> \o s

\* The elements of a finite set in the order R, a set of pairs: the k-th is the
\* one with k - 1 before it.
Listed(S, R) ==
    [k \in 1..Cardinality(S) |->
        CHOOSE e \in S : Cardinality({d \in S : <<d, e>> \in R}) = k - 1]

Through(s, order) == Evaluated([k \in DOMAIN order |-> s[order[k]]])

\* The elements of s at the positions in S, in order.
Ascending(S) == {p \in S \X S : p[1] < p[2]}
Picked(s, S) == Once(S, LAMBDA T : Through(s, Listed(T, Ascending(T))))

\* The elements of s whose Key no earlier element has, in order.
KeepFirst(s, Key(_)) ==
    Once(s, LAMBDA t :
        Picked(t, {i \in DOMAIN t : \A j \in 1..(i - 1) : Key(t[j]) # Key(t[i])}))

\* s sorted by Less; elements neither of which is Less keep their order.
StableSort(s, Less(_, _)) ==
    Once(s, LAMBDA t :
        Through(t, Listed(DOMAIN t,
            {p \in (DOMAIN t) \X (DOMAIN t) :
                \/ Less(t[p[1]], t[p[2]])
                \/ ~Less(t[p[2]], t[p[1]]) /\ p[1] < p[2]})))

\* The elements of the sequences ss, one sequence after the other.
PlacesIn(ss) == UNION {{i} \X (DOMAIN ss[i]) : i \in DOMAIN ss}
InTurn(S) == {p \in S \X S : \/ p[1][1] < p[2][1]
                             \/ p[1][1] = p[2][1] /\ p[1][2] < p[2][2]}
Flattened(ss) ==
    LET order == Listed(PlacesIn(ss), InTurn(PlacesIn(ss)))
    IN  Evaluated([k \in DOMAIN order |-> ss[order[k][1]][order[k][2]]])
=============================================================================
