------------------------------ MODULE RuleSet ------------------------------
(***************************************************************************)
(* RuleSet::load_from_dir (pqc_scan_rules/src/lib.rs): every YAML file      *)
(* under the rules directory is parsed and its patterns compiled, the rules *)
(* are sorted by id, and an index by id is built that rejects duplicates.   *)
(*                                                                         *)
(* A rule id is its rank in the order of the ids.  WalkDir sorts nothing:   *)
(* the entries come in any order (with subdirectories the code meets fewer  *)
(* orders than the model).                                                  *)
(***************************************************************************)
EXTENDS Listing

CONSTANTS
    Entries,        \* what WalkDir yields under the rules directory
    RuleTexts,      \* the rules a file may hold: [id, kind, pattern]
    RuleKind,
    BadPattern,     \* patterns that RegexBuilder refuses
    RuleDirs        \* the directories a load may start on

\* An entry is a subdirectory that cannot be read, a file of another type, a
\* file that cannot be read or is no list of rules, or a list of rules.
EntryState == {"walk-error", "other", "unreadable", "malformed", "yaml"}
RuleFile == [state : EntryState, rules : Seq(RuleTexts)]

ASSUME EntriesAssumption == IsFiniteSet(Entries)
ASSUME RuleTextsAssumption ==
    \A r \in RuleTexts : r.id \in Nat /\ r.kind \in RuleKind
ASSUME RuleDirsAssumption == RuleDirs \subseteq [Entries -> RuleFile]

VARIABLES
    dir,        \* the rules directory
    unlisted,   \* the entries the walk has not met
    phase,      \* "walk", "index", "loaded" or "failed"
    rules,      \* RuleSet.rules
    next,       \* the rule the indexing loop is at
    index       \* RuleSet.index_by_id

vars == <<dir, unlisted, phase, rules, next, index>>

compiles(r) == r.pattern \notin BadPattern
Sound(file) == /\ file.state = "yaml"
               /\ \A k \in DOMAIN file.rules : compiles(file.rules[k])

\* An entry WalkDir reports an error for is dropped by filter_map(Result::ok),
\* like one whose extension is neither yml nor yaml.
Skipped_Unreadable(file) == file.state \in {"walk-error", "other", "unreadable"}
Skipped(file) == file.state \in {"walk-error", "other"}

SkipEntry(e) ==
    /\ phase = "walk" /\ e \in unlisted
    /\ Skipped(dir[e])
    /\ unlisted' = unlisted \ {e}
    /\ UNCHANGED <<dir, phase, rules, next, index>>

LoadFile(e) ==
    /\ phase = "walk" /\ e \in unlisted
    /\ Sound(dir[e])
    /\ unlisted' = unlisted \ {e}
    /\ rules' = rules \o dir[e].rules
    /\ UNCHANGED <<dir, phase, next, index>>

\* A file that cannot be read or parsed, or one pattern that does not compile,
\* ends the load.
RejectFile(e) ==
    /\ phase = "walk" /\ e \in unlisted
    /\ ~Skipped(dir[e]) /\ ~Sound(dir[e])
    /\ phase' = "failed"
    /\ UNCHANGED <<dir, unlisted, rules, next, index>>

\* sort_by on the id, which is stable: p says where each rule comes from.
Sorted_NotAtAll(p) == \A i \in DOMAIN p : p[i] = i
Sorted(p) ==
    \A i, j \in DOMAIN p : i < j =>
        \/ rules[p[i]].id < rules[p[j]].id
        \/ rules[p[i]].id = rules[p[j]].id /\ p[i] < p[j]

Sort ==
    /\ phase = "walk" /\ unlisted = {}
    /\ phase' = "index"
    /\ \E p \in [DOMAIN rules -> DOMAIN rules] :
        /\ \A i, j \in DOMAIN rules : p[i] = p[j] => i = j
        /\ Sorted(p)
        /\ rules' = [i \in DOMAIN rules |-> rules[p[i]]]
    /\ UNCHANGED <<dir, unlisted, next, index>>

\* Whether the map held the id before it was inserted.
Duplicate_Never(id) == FALSE
Duplicate(id) == id \in DOMAIN index

\* What the index holds for the rule the loop is at.
Position_OneTooFar == next + 1
Position == next

IndexRule ==
    /\ phase = "index" /\ next <= Len(rules)
    /\ ~Duplicate(rules[next].id)
    /\ index' = [id \in DOMAIN index \cup {rules[next].id} |->
                   IF id = rules[next].id THEN Position ELSE index[id]]
    /\ next' = next + 1
    /\ UNCHANGED <<dir, unlisted, phase, rules>>

RejectDuplicate ==
    /\ phase = "index" /\ next <= Len(rules)
    /\ Duplicate(rules[next].id)
    /\ phase' = "failed"
    /\ UNCHANGED <<dir, unlisted, rules, next, index>>

Return ==
    /\ phase = "index" /\ next > Len(rules)
    /\ phase' = "loaded"
    /\ UNCHANGED <<dir, unlisted, rules, next, index>>

Terminated == phase \in {"loaded", "failed"} /\ UNCHANGED vars

Init ==
    /\ dir \in RuleDirs
    /\ unlisted = Entries
    /\ phase = "walk"
    /\ rules = << >>
    /\ next = 1
    /\ index = << >>

Step == \/ \E e \in Entries : SkipEntry(e) \/ LoadFile(e) \/ RejectFile(e)
        \/ Sort \/ IndexRule \/ RejectDuplicate \/ Return

Next == Step \/ Terminated

Spec == Init /\ [][Next]_vars
-----------------------------------------------------------------------------
\* What the loaded set answers.
None == "none"
get(id) == IF id \in DOMAIN index THEN rules[index[id]] ELSE None
by_kind(kind) == Picked(rules, {k \in DOMAIN rules : rules[k].kind = kind})
-----------------------------------------------------------------------------
TypeOK ==
    /\ dir \in [Entries -> RuleFile]
    /\ unlisted \subseteq Entries
    /\ phase \in {"walk", "index", "loaded", "failed"}
    /\ rules \in Seq(RuleTexts)
    /\ next \in 1..(Len(rules) + 1)
    /\ DOMAIN index \subseteq {rules[k].id : k \in DOMAIN rules}
    /\ \A id \in DOMAIN index : index[id] \in DOMAIN rules

\* The rules of a directory: those of its YAML files.
Held == UNION {{dir[e].rules[k] : k \in DOMAIN dir[e].rules} :
                 e \in {e \in Entries : dir[e].state = "yaml"}}

\* A set that was loaded answers every id of its files with that very rule,
\* and no other id.
LookupExact ==
    phase = "loaded" =>
        /\ \A r \in Held : get(r.id) = r
        /\ \A id \in DOMAIN index : get(id) \in Held /\ get(id).id = id

\* The detectors, which go by kind, try the same rules in the same order however
\* the directory was walked: those of its files, by id.
OrderOfTheWalkForgotten ==
    phase = "loaded" =>
        \A kind \in RuleKind :
            LET chosen == by_kind(kind)
            IN  /\ {chosen[k] : k \in DOMAIN chosen} = {r \in Held : r.kind = kind}
                /\ \A j, k \in DOMAIN chosen : j < k => chosen[j].id < chosen[k].id

\* Whether a directory loads depends on what it holds and not on the order in
\* which it is walked: one bad file, or one id used twice, and nothing loads.
Loadable ==
    /\ \A e \in Entries : dir[e].state \notin {"walk-error", "other"} => Sound(dir[e])
    /\ \A e, f \in Entries : \A j \in DOMAIN dir[e].rules, k \in DOMAIN dir[f].rules :
         /\ dir[e].state = "yaml" /\ dir[f].state = "yaml"
         /\ dir[e].rules[j].id = dir[f].rules[k].id
         => e = f /\ j = k
AllOrNothing ==
    /\ phase = "loaded" => Loadable
    /\ phase = "failed" => ~Loadable
=============================================================================
