------------------------------ MODULE Grounding ------------------------------
(***************************************************************************)
(* How a model's references are turned back into repository entities:      *)
(* candidate tables (query/candidates.py), verdicts (ai/grounding.py) and  *)
(* the confidence computed from what survives (ai/confidence.py).          *)
(* An entity is a record [kind, id, test]; test is is_test_path of its id. *)
(***************************************************************************)
EXTENDS Integers, Lists

\* An id such as FILE_002 is the pair <<"FILE", 2>>.
IdsOf(label, refs) == {label} \X DOMAIN refs

\* CandidateSet._by_id: the one way from an id back to an entity.
CandidateSet(files, tests, symbols) ==
    [id \in IdsOf("FILE", files) \union IdsOf("TEST", tests) \union IdsOf("SYMBOL", symbols) |->
        CASE id[1] = "FILE" -> files[id[2]]
          [] id[1] = "TEST" -> tests[id[2]]
          [] id[1] = "SYMBOL" -> symbols[id[2]]]

\* Candidates of a retrieval: its files split into tests and others, its symbols as they come.
build_candidate_set(files, symbols) ==
    LET tests == {f \in ToSet(files) : f.test}
    IN  CandidateSet(Only(files, ToSet(files) \ tests), Only(files, tests), symbols)

\* Mutant: duplicates are kept.
EverySeen(refs) == refs

FirstSeen(refs) ==
    FoldLeft(LAMBDA kept, ref : IF ref \in ToSet(kept) THEN kept ELSE Append(kept, ref), <<>>, refs)

\* Candidates of a list of facts: each entity once, tests of any kind among the tests.
build_candidate_set_from_refs(refs) ==
    LET once == FirstSeen(refs)
        tests == {r \in ToSet(refs) : r.test}
        whole == {r \in ToSet(refs) : r.kind \in {"FILE", "MODULE"}}
    IN  CandidateSet(Only(once, whole \ tests), Only(once, tests),
                     Only(once, ToSet(refs) \ (whole \union tests)))

\* Mutant: an unknown id is passed on as it is.
ResolvedOrAsWritten(table, ids) ==
    {IF id \in DOMAIN table THEN table[id] ELSE [kind |-> "FILE", id |-> id] : id \in ids}

\* resolve_many: the entities of the ids the table knows; the others are dropped.
Resolved(table, ids) == {table[id] : id \in ids \intersect DOMAIN table}

Verdicts == {"valid", "partially_valid", "invalid"}

\* resolve_candidate_ids: the verdict on the ids of one field.
FieldVerdict(table, ids) ==
    IF ids \subseteq DOMAIN table THEN "valid"
    ELSE IF ids \intersect DOMAIN table = {} THEN "invalid"
    ELSE "partially_valid"

combine_verdicts(verdicts) ==
    IF verdicts \subseteq {"valid"} THEN "valid"
    ELSE IF verdicts \subseteq {"invalid"} THEN "invalid"
    ELSE "partially_valid"

\* validate_proposed_path over one field of proposed paths.
ProposalVerdict(existing, paths) ==
    combine_verdicts({IF p \in existing THEN "invalid" ELSE "valid" : p \in paths})

Confidences == {"low", "medium", "high"}

\* Mutant: the weakest strength is taken for the level.
WeakestStrength(strengths) ==
    IF strengths \subseteq {"direct", "resolved"} THEN "high"
    ELSE IF "unknown" \in strengths THEN "unknown"
    ELSE "medium"

confidence_from_strengths(strengths) ==
    IF strengths \subseteq {"unknown"} THEN "low"
    ELSE IF strengths \subseteq {"direct", "resolved"} THEN "high"
    ELSE "medium"
=============================================================================
