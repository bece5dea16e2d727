------------------------------ MODULE AiAnswers ------------------------------
(***************************************************************************)
(* The commands ask, change and impact from the loaded snapshot to the     *)
(* exit code (cli/main.py, cli/context.py, ai/qa.py, ai/change_planner.py, *)
(* ai/impact.py): which errors of the provider and of its reply end up as  *)
(* which exit code, what of a reply is kept, and how sure the answer says  *)
(* it is.  A reply may cite candidates, invent ids, propose existing files *)
(* and give any field another form than the prompt asks for.               *)
(***************************************************************************)
EXTENDS FiniteSets, Grounding

CONSTANTS
    Retrievals,  \* [files, symbols : Seq(entity), convention : BOOLEAN], of indexed entities
    ImpactFacts, \* [direct, indirect, tests : Seq(entity), target, truncated]
    Existing,    \* paths of the snapshot, as records [path]
    Proposals,   \* the sets of paths a reply may propose to create
    Citations,   \* the sets of ids a reply may cite in one field
    MaxMisshapen \* bound: fields of a reply in another form than the prompt asks for

\* What is retrieved comes from dicts of files by path and of symbols by name, so nothing
\* twice; lists of facts may overlap.
ASSUME InputsAssumption ==
    /\ \A r \in Retrievals :
          /\ r.convention \in BOOLEAN
          /\ IsList(r.files) /\ IsInjective(r.files)
          /\ IsList(r.symbols) /\ IsInjective(r.symbols)
          /\ ToSet(r.files) \intersect ToSet(r.symbols) = {}
    /\ \A f \in ImpactFacts :
          /\ f.truncated \in BOOLEAN
          /\ IsList(f.direct) /\ IsList(f.indirect) /\ IsList(f.tests)

\* A path that a reply proposes is a text and no entity.
ASSUME ProposalsAssumption ==
    \A p \in UNION Proposals : \A r \in Retrievals : p \notin ToSet(r.files) \union ToSet(r.symbols)

ASSUME MaxMisshapenAssumption == MaxMisshapen \in Nat

VARIABLES
    command,  \* the command that runs
    stage,    \* how far it is
    context,  \* what it found in the snapshot: a retrieval, impact facts, or nothing yet
    reply,    \* what the provider answered, or nothing yet
    result    \* what the command printed, and its exit code

vars == <<command, stage, context, reply, result>>

Nothing == [none |-> TRUE]

Commands == {"ask", "change", "impact"}

\* A field of a reply: its JSON form and the ids or paths it lists.  The prompts ask for a
\* text or for a list; "refused" is a value that pydantic then refuses, "other" one that
\* list() or an item of it raises TypeError on: null, a number, an item of the wrong type.
Fields(form, lists) == {[form |-> form, ids |-> s] : s \in lists}
Formed(forms) == UNION {Fields(form, {{}}) : form \in forms}

\* A character, or anything else no table has as an id.
Character == <<"text", 1>>

\* list() makes ids of the characters of a text and of the keys of an object; what is
\* empty, or left out, is an empty list.
IdField ==
    Fields("list", Citations) \union Fields("object", Citations \ {{}})
    \union Fields("text", {{Character}}) \union Formed({"other"})

\* Items with an id or a path; "unreasoned" if their reasoning, or a path, is no text.
ItemField(S) ==
    Fields("list", S) \union Fields("unreasoned", S \ {{}}) \union Formed({"no key", "other"})

Text == Formed({"text", "missing", "refused"})
TextFields == {"prose", "goal", "reasoning"}

MisshapenIn(r) == {f \in DOMAIN r : r[f].form # IF f \in TextFields THEN "text" ELSE "list"}

Bounded(replies) == {r \in replies : Cardinality(MisshapenIn(r)) <= MaxMisshapen}

\* The optional subsystem and implementation_pattern are refused like the goal.
CitedReplies == Bounded([prose : Text, cited : IdField])
ChangeReplies ==
    Bounded([goal : Text, reasoning : Text,
             modify : ItemField(Citations), create : ItemField(Proposals),
             symbols : IdField, tests : IdField,
             potential_impact : Formed({"list", "text", "object", "refused", "other"})])

Init ==
    /\ command \in Commands
    /\ stage = "load"
    /\ context = Nothing
    /\ reply = Nothing
    /\ result = Nothing

-----------------------------------------------------------------------------
(* What is printed.                                                        *)

Answer(confidence, grounding, kept, dropped) ==
    [exit |-> 0, confidence |-> confidence, grounding |-> grounding, kept |-> kept,
     dropped |-> dropped]

Failed(code) == [exit |-> code]

Exit(outcome) == stage' = "exited" /\ result' = outcome

Candidates ==
    IF command = "impact"
    THEN build_candidate_set_from_refs(
             <<context.target>> \o context.direct \o context.indirect \o context.tests)
    ELSE build_candidate_set(context.files, context.symbols)

\* rejected_ids
Unknown(ids) == {[id |-> i] : i \in ids \ DOMAIN Candidates}

ConfidenceOfFacts ==
    LET strengths == IF context.direct \o context.indirect \o context.tests = <<>>
                     THEN {"direct"} ELSE {"resolved"}
    IN  IF context.truncated THEN "medium" ELSE confidence_from_strengths(strengths)

\* Mutant: confidence counts what was cited, resolved or not.
AskAnswerBelieved ==
    LET cited == reply.cited.ids
        evidence == IF cited # {} THEN Resolved(Candidates, cited)
                    ELSE Resolved(Candidates, DOMAIN Candidates)
    IN  Answer(confidence_from_strengths({"inferred" : e \in cited \union evidence}),
               FieldVerdict(Candidates, cited), evidence, Unknown(cited))

\* answer_question: cited candidates are the evidence, or the whole retrieval if none is cited.
AskAnswer ==
    LET cited == reply.cited.ids
        evidence == IF cited # {} THEN Resolved(Candidates, cited)
                    ELSE Resolved(Candidates, DOMAIN Candidates)
    IN  Answer(confidence_from_strengths({"inferred" : e \in evidence}),
               FieldVerdict(Candidates, cited), evidence, Unknown(cited))

\* Mutant: the verdicts of empty fields count.
AllVerdicts ==
    {FieldVerdict(Candidates, reply[f].ids) : f \in {"modify", "symbols", "tests"}}
    \union {ProposalVerdict(Existing, reply.create.ids)}

\* Only fields the reply fills take part in the verdict on the whole.
AttemptedVerdicts ==
    {FieldVerdict(Candidates, reply[f].ids) : f \in {g \in {"modify", "symbols", "tests"} :
                                                       reply[g].ids # {}}}
    \union {ProposalVerdict(Existing, p) : p \in {reply.create.ids} \ {{}}}

\* plan_change: what resolves is recommended, what does not exist yet is proposed.
ChangeAnswer ==
    LET ids == reply.modify.ids \union reply.symbols.ids \union reply.tests.ids
        kept == Resolved(Candidates, ids)
        created == reply.create.ids \ Existing
        strengths == {"inferred" : e \in kept}
                     \union {IF context.convention THEN "inferred" ELSE "unknown" : p \in created}
    IN  Answer(confidence_from_strengths(strengths), combine_verdicts(AttemptedVerdicts),
               kept \union created, Unknown(ids) \union (reply.create.ids \intersect Existing))

\* analyze_impact: the citations of the explanation never touch the confidence.
ImpactAnswer ==
    LET cited == reply.cited.ids
    IN  Answer(ConfidenceOfFacts, FieldVerdict(Candidates, cited),
               Resolved(Candidates, cited), Unknown(cited))

\* impact without an explanation: the facts stand alone.
FactsAlone == Answer(ConfidenceOfFacts, "valid", {}, {})

\* The exit code of an exception (run_ai_call), or of an impact command (_impact_explanation).
NotConfigured == "AIProviderNotConfiguredError"
RequestFailed == "AIProviderError"
Unusable == "AISynthesisError"
Known == {NotConfigured, RequestFailed, Unusable}

OutcomeOf(exception) ==
    IF command = "impact" /\ exception \in Known THEN FactsAlone
    ELSE Failed(CASE exception = NotConfigured               -> 2
                  [] exception \in {RequestFailed, Unusable} -> 3
                  [] OTHER                                   -> 4)

\* What the answer keeps of a field of the reply.
KeptOf(f) ==
    IF f = "create" THEN reply.create.ids \ Existing ELSE Resolved(Candidates, reply[f].ids)

\* The exception that reading a field raises; reasonings are looked at with what is kept.
FieldError(f) ==
    CASE reply[f].form \in {"missing", "no key"}            -> "KeyError"
      [] reply[f].form = "other"                            -> "TypeError"
      [] reply[f].form = "unreasoned" /\ KeptOf(f) # {}     -> "ValueError"
      [] OTHER                                              -> "none"

\* The models check their fields when the answer is built, after all was read.
Refusal == IF \E f \in DOMAIN reply : reply[f].form = "refused" THEN "ValueError" ELSE "none"

FirstOf(errors) ==
    LET first == SelectInSeq(errors, LAMBDA e : e # "none")
    IN  IF first = 0 THEN "none" ELSE errors[first]

\* Mutant: fields are read one by one and a bad one is skipped.
MissingTextOnly ==
    IF \E f \in DOMAIN reply \intersect TextFields : FieldError(f) # "none" THEN Unusable ELSE "none"

\* The first exception, in the order the code reads.  plan_change turns what it catches
\* into AISynthesisError; answer_question and analyze_impact only a missing text.
ReplyError ==
    IF command = "change"
    THEN LET e == FirstOf(<<FieldError("modify"), FieldError("create"), FieldError("symbols"),
                            FieldError("tests"), FieldError("goal"),
                            FieldError("potential_impact"), FieldError("reasoning"), Refusal>>)
         IN  IF e \in {"KeyError", "ValueError"} THEN Unusable ELSE e
    ELSE IF FieldError("prose") = "KeyError" THEN Unusable
         ELSE FirstOf(<<FieldError("cited"), Refusal>>)

-----------------------------------------------------------------------------
(* The steps of a command.                                                 *)

\* load_snapshot_or_exit; impact then looks its target up.
LoadSnapshot ==
    /\ stage = "load"
    /\ \/ stage' = "look" /\ result' = result
       \/ Exit(Failed(1))  \* never indexed
    /\ UNCHANGED <<command, context, reply>>

\* retrieve_relevant: without a match the provider is never asked.
Retrieve ==
    /\ stage = "look" /\ command # "impact"
    /\ context' \in Retrievals
    /\ IF context'.files = <<>> /\ context'.symbols = <<>>
       THEN Exit(Answer("low", "valid", {}, {}))
       ELSE stage' = "request" /\ result' = result
    /\ UNCHANGED <<command, reply>>

\* resolve_entity_ref and compute_impact_facts.
FindTarget ==
    /\ stage = "look" /\ command = "impact"
    /\ \/ /\ context' \in ImpactFacts
          /\ stage' = "request" /\ result' = result
       \/ Exit(Failed(1)) /\ context' = context  \* no such entity
    /\ UNCHANGED <<command, reply>>

\* AnthropicProvider.complete and complete_json, up to a JSON object or an error.
\* The package is imported before the key is looked at, outside the handlers.
RequestFails ==
    /\ stage = "request"
    /\ \E exception \in Known \union {"ModuleNotFoundError"} : Exit(OutcomeOf(exception))
    /\ UNCHANGED <<command, context, reply>>

Receive ==
    /\ stage = "request"
    /\ reply' \in IF command = "change" THEN ChangeReplies ELSE CitedReplies
    /\ stage' = "answer"
    /\ UNCHANGED <<command, context, result>>

GroundedAnswer ==
    CASE command = "ask"    -> AskAnswer
      [] command = "change" -> ChangeAnswer
      [] command = "impact" -> ImpactAnswer

\* Ground the reply and print it, or fail on its shape.
Report ==
    /\ stage = "answer"
    /\ Exit(IF ReplyError = "none" THEN GroundedAnswer ELSE OutcomeOf(ReplyError))
    /\ UNCHANGED <<command, context, reply>>

Finished == stage = "exited" /\ UNCHANGED vars

Next ==
    \/ LoadSnapshot \/ Retrieve \/ FindTarget
    \/ RequestFails \/ Receive \/ Report
    \/ Finished

Spec == Init /\ [][Next]_vars

-----------------------------------------------------------------------------
(* Properties.                                                             *)

Answered == stage = "exited" /\ result.exit = 0

\* The entities the command found before it asked the provider.
Found ==
    IF command = "impact"
    THEN {context.target} \union ToSet(context.direct \o context.indirect \o context.tests)
    ELSE ToSet(context.files \o context.symbols)

AnswersTypeOK ==
    /\ command \in Commands
    /\ stage \in {"load", "look", "request", "answer", "exited"}
    /\ context \in {Nothing} \union Retrievals \union ImpactFacts
    /\ reply \in {Nothing} \union ChangeReplies \union CitedReplies
    /\ stage = "exited" => result.exit \in 0 .. 4
    /\ Answered => result.confidence \in Confidences /\ result.grounding \in Verdicts

\* The table given to the model has one id for each entity found, so that each can be
\* cited and none under two names, also one that is both a dependent and a test
\* (candidates.py:94-120, 123-159).
OneIdPerEntity ==
    stage \in {"request", "answer"} =>
        /\ {Candidates[id] : id \in DOMAIN Candidates} = Found
        /\ \A i, j \in DOMAIN Candidates : Candidates[i] = Candidates[j] => i = j

\* What an answer names was found before the provider was asked, or is a proposed path
\* of no indexed file, whatever the reply says (candidates.py:38-40, grounding.py:84-90).
NothingInvented ==
    Answered /\ result.kept # {} =>
        result.kept \subseteq Found \union ((UNION Proposals) \ Existing)

\* The verdict tells whether something of the reply was thrown away, and whether
\* anything was left, also when other fields are empty or fine (change_planner.py:228-241).
VerdictTellsOfDropped ==
    Answered =>
        /\ result.grounding = "valid" <=> result.dropped = {}
        /\ result.grounding = "invalid" <=> result.dropped # {} /\ result.kept = {}

\* Confidence rests on what survived and never on what was cited: ask and change reach
\* medium only by an entity found or by any new path if the retrieval shows a convention of
\* directories, one flag for all paths, and never high; the confidence of impact is the facts' own, and never high when the traversal was cut off
\* (qa.py:128-146, change_planner.py:206-214, impact.py:95-109).
ConfidenceIsEarned ==
    Answered /\ context # Nothing =>
        IF command = "impact"
        THEN result.confidence = IF context.truncated THEN "medium" ELSE "high"
        ELSE result.confidence =
                IF \/ result.kept \intersect Found # {}
                   \/ context.convention /\ result.kept # {}
                THEN "medium" ELSE "low"

\* Of a field in another form than the prompt asks for nothing is printed: the command
\* fails (impact falls back on its facts), or what the field lists is dropped and the verdict
\* tells, as for a text where ids are asked and for items without a reasoning.  The code
\* lets two through: an object, whose keys count as ids like any (qa.py:118,
\* change_planner.py:216, 219), and a text or an object as potential_impact (:261).
MisshapenLeavesNothing ==
    Answered /\ reply # Nothing /\ ~(command = "impact" /\ result = FactsAlone) =>
        \A f \in MisshapenIn(reply) :
            IF f = "potential_impact" THEN reply[f].form \in {"text", "object"}
            ELSE \/ reply[f].form = "object" /\ Unknown(reply[f].ids) \subseteq result.dropped
                 \/ /\ reply[f].form \in {"text", "unreasoned"}
                    /\ KeptOf(f) = {} /\ result.grounding # "valid"
=============================================================================
