----------------------------- MODULE ChatPolicy -----------------------------
(***************************************************************************)
(* How a chat message becomes a routing decision, and how an answer is     *)
(* graded: core/routing_frame.py, core/orchestrator.py, core/tool_policy.py*)
(* and core/answer_grading.py as operators.                                *)
(*                                                                         *)
(* A message is the set of signal groups its words fall in (the word lists *)
(* themselves are deployment configuration).  "own" holds the groups of    *)
(* the message alone, "all" those of the message and the intake together.  *)
(***************************************************************************)
EXTENDS Integers, FiniteSets

CONSTANTS
  CloudEnabled,      \* CloudSpendPolicy lets a turn use the cloud
  LoopEnabled        \* ENABLE_MODEL_TOOL_LOOP

ASSUME PolicyAssumption == CloudEnabled \in BOOLEAN /\ LoopEnabled \in BOOLEAN

Signals == {"pricing", "service", "discovery", "trouble", "learning",
            "resource", "implementation", "confusion", "urgency"}

\* The value of the first rule <<condition, value>> whose condition holds:
\* an if/return ladder of the code.
FirstRule(rules) ==
  rules[CHOOSE i \in DOMAIN rules :
          rules[i][1] /\ \A j \in 1..(i - 1) : ~rules[j][1]][2]

\* routing_frame._need
Need(own, all, greeting, long) ==
  LET domain == all \cap {"implementation", "resource", "service", "pricing",
                          "discovery", "learning"} IN
  FirstRule(<< <<greeting /\ domain = {},    "small_talk">>,
               <<"pricing" \in all,          "pricing_terms">>,
               <<"service" \in own,          "project_intake">>,
               <<{"discovery", "service"} \cap all # {}, "service_discovery">>,
               <<"trouble" \in all,          "troubleshooting">>,
               <<"learning" \in all,         "education">>,
               <<"resource" \in all,         "resource_lookup">>,
               <<"implementation" \in all,   "implementation_help">>,
               <<"confusion" \in all,        "education">>,
               <<long /\ domain = {},        "out_of_scope">>,
               <<TRUE,                       "unknown">> >>)

\* routing_frame._tone
Tone(all) ==
  FirstRule(<< <<"urgency" \in all,   "urgent">>,
               <<"trouble" \in all,   "frustrated">>,
               <<"discovery" \in all, "hesitant">>,
               <<"confusion" \in all, "confused">>,
               <<TRUE,                "neutral">> >>)

NeedToIntent(need) ==
  CASE need \in {"small_talk", "out_of_scope", "education",
                 "troubleshooting", "unknown"} -> need
    [] need \in {"service_discovery", "pricing_terms", "project_intake"}
                                               -> "service_inquiry"
    [] OTHER                                   -> "technical_help"

\* routing_frame._search_plan, as the one thing the orchestrator asks of it
Searches(need) ==
  need \in {"resource_lookup", "implementation_help", "troubleshooting",
            "education"}

\* Orchestrator._select_mode
SelectMode(start, intent, tone) ==
  FirstRule(<<
    <<intent = "education", "educator">>,
    <<intent \in {"service_inquiry", "troubleshooting"}
        /\ tone \in {"frustrated", "urgent"}, "service">>,
    <<tone = "urgent" /\ intent \in {"technical_help", "unknown"}, "service">>,
    <<tone = "hesitant", "service">>,
    <<intent = "service_inquiry", "service">>,
    <<tone = "confused" /\ intent \in {"technical_help", "unknown"}, "educator">>,
    <<intent = "technical_help", "automator">>,
    <<TRUE, start>> >>)

\* Orchestrator._needs_retrieval; "technical" is the TECHNICAL_TERMS test
NeedsRetrieval(intent, mode, need, technical) ==
  /\ Searches(need)
  /\ intent # "small_talk"
  /\ mode \in {"automator", "educator"} \/ technical

\* tool_policy.retrieval_tool_for and _MODE_TOOLS
RetrievalToolFor(intent, mode, need, patterns) ==
  IF mode = "educator" \/ intent = "education" THEN "lesson_concept"
  ELSE IF \/ need \in {"resource_lookup", "troubleshooting"}
          \/ patterns \/ intent = "troubleshooting"
  THEN "workflow_pattern" ELSE "reference"

AllowedTools(mode) ==
  CASE mode = "service"   -> {"service_cta", "reference", "workflow_pattern"}
    [] mode = "automator" -> {"overview", "reference", "workflow_pattern"}
    [] mode = "educator"  -> {"overview", "lesson_concept", "reference"}

\* Orchestrator._should_suggest_service_handoff
Handoff(mode, intent, tone, need, hire) ==
  /\ mode = "service" /\ intent # "small_talk"
  /\ \/ need \in {"pricing_terms", "project_intake"}
     \/ tone \in {"frustrated", "urgent"}
     \/ hire

\* A turn that is answered without a model: the intake is not complete, the
\* message is out of scope, or it asks for an instruction override.
Refusal == [path |-> "refuse", retrieve |-> FALSE, allowed |-> FALSE,
            general |-> FALSE, service |-> FALSE, offer |-> FALSE, cloud |-> FALSE]

\* Orchestrator.decide for a complete intake, with the path that
\* ChatTurnOrchestrator.stream takes for the decision; "offer" says that an
\* offer of the service is no fault of the answer.  fromIntake is the
\* intent _detect_intake_intent finds in the intake ("none" if it finds none).
Decide(start, need, tone, fromIntake, technical, patterns, hire, build) ==
  LET intent == IF /\ NeedToIntent(need) \in {"unknown", "small_talk"}
                   /\ fromIntake # "none"
                THEN fromIntake ELSE NeedToIntent(need)
      mode == SelectMode(start, intent, tone)
      retrieve == NeedsRetrieval(intent, mode, need, technical)
      tool == IF retrieve THEN RetrievalToolFor(intent, mode, need, patterns)
              ELSE "none"
      handoff == Handoff(mode, intent, tone, need, hire)
  IN IF intent = "out_of_scope" THEN Refusal
     ELSE [path |-> IF retrieve THEN (IF LoopEnabled THEN "loop" ELSE "backend")
                    ELSE IF mode = "service" THEN "backend" ELSE "stream",
           retrieve |-> retrieve,
           allowed |-> tool \in AllowedTools(mode),
           general |-> tool = "workflow_pattern",
           service |-> mode = "service",
           offer |-> handoff \/ mode = "service" \/ build,
           cloud |-> CloudEnabled]

\* routing_frame.classify_route: every need and tone a message can have
Frames ==
  {<<Need(all \ intake, all, greeting, long), Tone(all)>> :
     all \in SUBSET Signals, intake \in SUBSET {"service"},
     greeting \in BOOLEAN, long \in BOOLEAN}

\* Every decision the planner can hand to a turn.
Decisions ==
  {Refusal} \union
  {Decide(start, f[1], f[2], i, technical, patterns, hire, build) :
     start \in {"service", "automator", "educator"}, f \in Frames,
     i \in {"none", "service_inquiry", "education", "technical_help"},
     technical \in BOOLEAN, patterns \in BOOLEAN,
     hire \in BOOLEAN, build \in BOOLEAN}

-----------------------------------------------------------------------------
(***************************************************************************)
(* Texts: what a model may answer, and what the orchestrator writes itself.*)
(*   cited     carries a Source: line      plain    does not               *)
(*   claimed   claims a library source     linked   has an unsupported URL *)
(*   pricey    quotes a price              handoff  offers the service     *)
(*   unknown   the internal sentinel       legacy   the older phrase       *)
(***************************************************************************)
ModelTexts == {"cited", "plain", "claimed", "linked", "pricey", "handoff",
               "unknown", "legacy", "empty"}
OwnTexts == {"refusal", "guidance", "repeated", "service", "pricing"}

Unknown(x) == x \in {"unknown", "legacy"}

HasContext(ctx) == ctx \in {"open", "restricted"}

\* AnswerGrader._allows_direct_general_answer
AllowsGeneral(x, d) ==
  d.general /\ ~Unknown(x) /\ x # "claimed"

\* The texts with a URL that the retrieved content does not hold: the
\* service fallbacks name the contact page.
Linked(x) == x \in {"linked", "service", "pricing"}

\* AnswerGrader.grade: "ok", or the reason an answer is inadequate, as far as
\* _fallback_after_repair tells the reasons apart.  The second directional text ("I still don't have a verified source") is not
\* one of the phrases _is_labeled_general_fallback knows.
Grade(x, d, ctx) ==
  FirstRule(<<
    <<x = "empty", "inadequate">>,
    <<x = "pricey" /\ d.service, "forbidden_claim">>,
    <<x = "handoff" /\ ~d.offer, "inadequate">>,
    <<~d.retrieve, "ok">>,
    <<ctx = "none", "inadequate">>,
    <<Linked(x), "inadequate">>,
    <<AllowsGeneral(x, d) \/ Unknown(x) \/ x = "guidance", "ok">>,
    <<x = "cited" /\ HasContext(ctx), "ok">>,
    <<TRUE, "inadequate">> >>)

\* AnswerGrader.repair: every reason for which grade is inadequate is in its set
Repair(x, reason) == IF reason = "ok" THEN x ELSE "unknown"

\* ChatTurnOrchestrator._fallback_general_guidance; "repeat" says that the
\* history already holds a directional fallback.
FallbackGeneral(x, d, repeat) ==
  IF ~Unknown(x) THEN x
  ELSE IF d.service THEN "service"
  ELSE IF repeat THEN "repeated" ELSE "guidance"

FallbackAfterRepair(x, reason, d, repeat) ==
  IF reason = "forbidden_claim" /\ d.service THEN "pricing"
  ELSE IF d.service /\ ~Unknown(x) THEN "service"
  ELSE FallbackGeneral(x, d, repeat)
=============================================================================
