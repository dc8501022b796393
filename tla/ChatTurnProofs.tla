--------------------------- MODULE ChatTurnProofs ---------------------------
(***************************************************************************)
(* For any number of concurrent turns, any limits and any decisions the    *)
(* planner can take: what a turn may send to the cloud and how often, what *)
(* it may show, and that the turns implement the contract of the endpoint. *)
(*                                                                         *)
(* A turn is one record, and every step replaces the record of one turn.   *)
(* The argument is therefore about records: TurnOK is the invariant of a   *)
(* record, and the lemmas below show that each thing the orchestrator may  *)
(* do with a TurnOK record gives a TurnOK record.                          *)
(***************************************************************************)
EXTENDS ChatTurn, FiniteSetTheorems, TLAPS

Texts == ModelTexts \union OwnTexts
Reasons == {"ok", "inadequate", "forbidden_claim"}

DecisionRecs ==
  [path : {"refuse", "loop", "backend", "stream"}, retrieve : BOOLEAN,
   allowed : BOOLEAN, general : BOOLEAN, service : BOOLEAN, offer : BOOLEAN,
   cloud : BOOLEAN]

CallRecs ==
  [kind : CallKinds \union {"none"}, cloud : BOOLEAN, eligible : BOOLEAN,
   carries : Contexts, by : {"none", "local", "cloud"}]

PCs == {"idle", "snapshot", "counted", "plan", "call", "served", "persist", "finally"}

TurnRecs ==
  [pc : PCs, snap : Nat, d : DecisionRecs, repeat : BOOLEAN, ctx : Contexts,
   call : CallRecs, text : Texts, reason : Reasons, out : Texts,
   shown : BOOLEAN, clouds : Nat]

-----------------------------------------------------------------------------
(* The parts of the invariant of a turn *)

\* A call is out exactly at the program points that await one, it has been
\* served or not, and its kind is one that the path of the turn makes.
CallShape(r) ==
  /\ r.pc \in {"call", "served"} <=> r.call.kind \in CallKinds
  /\ r.pc = "call" => r.call.by = "none"
  /\ r.pc = "served" => r.call.by \in {"local", "cloud"}
  /\ r.pc \notin {"call", "served"} => r.call = NoCall
  /\ r.call.kind \in {"tools", "missed", "final"} => r.d.path = "loop"
  /\ r.call.kind = "main" => r.d.path = "backend"
  /\ r.call.kind = "stream" => r.d.path = "stream"

\* Before the stream of a turn starts nothing was retrieved, asked or shown.
Fresh(r) ==
  r.pc \in {"idle", "snapshot", "counted", "plan"} =>
    r.ctx = "none" /\ ~r.shown /\ r.out = "empty" /\ r.clouds = 0

\* Outside the tool loop a decision that still allows the cloud goes with a
\* context that may leave the house, and a call that the router may give to
\* the cloud carries no restricted text: the retries rely on the former.
KeptLocal(r) ==
  /\ r.d.path # "loop" /\ r.d.cloud => r.ctx # "restricted"
  /\ r.call.cloud /\ r.call.eligible => r.call.carries # "restricted"
  /\ r.call.by = "cloud" => r.call.carries # "restricted"

\* Cloud calls a turn can have behind it when it makes another call
Earlier(r) == IF r.d.path = "loop" /\ r.call.kind # "tools" THEN 1 ELSE 0

\* A call is made with at most Earlier cloud calls behind it: a retry follows
\* a call that the cloud did not serve.
CloudCount(r) ==
  /\ r.pc = "call" => r.clouds <= Earlier(r)
  /\ r.pc = "served" =>
       r.clouds <= Earlier(r) + (IF r.call.by = "cloud" THEN 1 ELSE 0)
  /\ r.pc \in {"persist", "finally"} => r.clouds = 0

\* What a second retry replaces is an answer that was repaired away.
Repaired(r) == r.call.kind = "again" => r.text = "unknown" /\ r.reason # "ok"

\* What the client saw: no sentinel on the buffered path, no price in service mode.
ShownOK(r) ==
  /\ r.shown <=> r.out # "empty"
  /\ r.d.path = "backend" => r.out # "unknown"
  /\ r.d.service => r.out # "pricey"

TurnOK(r) ==
  /\ r \in TurnRecs
  /\ CallShape(r) /\ Fresh(r) /\ KeptLocal(r)
  /\ CloudCount(r) /\ Repaired(r) /\ ShownOK(r)

TurnsOK == turn \in [Slots -> TurnRecs] /\ \A t \in Slots : TurnOK(turn[t])

-----------------------------------------------------------------------------
(* The operators of the policy *)

\* The first rule of a ladder whose condition holds gives its value.
LEMMA FirstRuleIs ==
  ASSUME NEW rules, NEW n \in Nat, DOMAIN rules = 1..n,
         NEW k \in 1..n, rules[k][1], \A j \in 1..(k - 1) : ~rules[j][1]
  PROVE  FirstRule(rules) = rules[k][2]
<1> DEFINE P(i) == rules[i][1] /\ \A j \in 1..(i - 1) : ~rules[j][1]
<1>1. \A i \in DOMAIN rules : P(i) <=> i = k
  OBVIOUS
<1>2. (CHOOSE i \in DOMAIN rules : P(i)) = k
  BY <1>1
<1>3. QED
  BY <1>2 DEF FirstRule

\* A ladder of nine rules that ends in an unconditional one has a first rule
\* that holds.
LEMMA NineRules ==
  ASSUME NEW rules, DOMAIN rules = 1..9, rules[9][1]
  PROVE  \E k \in 1..9 : FirstRule(rules) = rules[k][2]
<1>1. \E k \in 1..9 : rules[k][1] /\ \A j \in 1..(k - 1) : ~rules[j][1]
  <2> DEFINE B(k) == rules[k][1]
  <2>1. SUFFICES B(9) => \E k \in 1..9 : B(k) /\ \A j \in 1..(k - 1) : ~B(j)
    OBVIOUS
  <2> HIDE DEF B
  <2>2. (\E k \in 1..3 : B(k)) => \E k \in 1..3 : B(k) /\ \A j \in 1..(k - 1) : ~B(j)
    <3>1. 1..3 = {1, 2, 3} /\ 1..2 = {1, 2} /\ 1..1 = {1} /\ 1..0 = {}
      OBVIOUS
    <3>2. QED  BY <3>1
  <2>3. (\E k \in 1..6 : B(k)) => \E k \in 1..6 : B(k) /\ \A j \in 1..(k - 1) : ~B(j)
    <3>1. 1..6 = 1..3 \union {4, 5, 6} /\ 1..5 = 1..3 \union {4, 5} /\ 1..4 = 1..3 \union {4}
      OBVIOUS
    <3>2. QED  BY <2>2, <3>1
  <2>4. B(9) => \E k \in 1..9 : B(k) /\ \A j \in 1..(k - 1) : ~B(j)
    <3>1. 1..9 = 1..6 \union {7, 8, 9} /\ 1..8 = 1..6 \union {7, 8} /\ 1..7 = 1..6 \union {7}
      OBVIOUS
    <3>2. QED  BY <2>3, <3>1
  <2>5. QED  BY <2>4
<1>2. QED
  BY <1>1, FirstRuleIs

\* The nine rules of Grade.
GradeRules(x, d, ctx) ==
  << <<x = "empty", "inadequate">>,
     <<x = "pricey" /\ d.service, "forbidden_claim">>,
     <<x = "handoff" /\ ~d.offer, "inadequate">>,
     <<~d.retrieve, "ok">>,
     <<ctx = "none", "inadequate">>,
     <<Linked(x), "inadequate">>,
     <<AllowsGeneral(x, d) \/ Unknown(x) \/ x = "guidance", "ok">>,
     <<x = "cited" /\ HasContext(ctx), "ok">>,
     <<TRUE, "inadequate">> >>

\* A grade is "ok" or one of the two reasons (answer_grading.grade).
LEMMA GradeType ==
  ASSUME NEW x, NEW d, NEW ctx
  PROVE  Grade(x, d, ctx) \in Reasons
<1> DEFINE rules == GradeRules(x, d, ctx)
<1>1. DOMAIN rules = 1..9 /\ rules[9][1] /\ \A k \in 1..9 : rules[k][2] \in Reasons
  BY DEF GradeRules, Reasons
<1>2. Grade(x, d, ctx) = FirstRule(rules)
  BY DEF Grade, GradeRules
<1> HIDE DEF rules
<1>3. QED
  BY <1>1, <1>2, NineRules

\* answer_grading.grade: an answer that quotes a price in service mode is a
\* forbidden claim, whatever was retrieved.
LEMMA PriceIsForbidden ==
  ASSUME NEW d, NEW ctx, d.service
  PROVE  Grade("pricey", d, ctx) = "forbidden_claim"
<1> DEFINE rules == GradeRules("pricey", d, ctx)
<1>1. DOMAIN rules = 1..9
  BY DEF GradeRules
<1>2. rules[2][1] /\ ~rules[1][1] /\ rules[2][2] = "forbidden_claim"
  BY DEF GradeRules
<1>3. Grade("pricey", d, ctx) = FirstRule(rules)
  BY DEF Grade, GradeRules
<1> HIDE DEF rules
<1>4. \A j \in 1..(2 - 1) : ~rules[j][1]
  BY <1>2
<1>5. ASSUME NEW k \in 1..9, k = 2 PROVE FirstRule(rules) = rules[k][2]
  BY <1>1, <1>2, <1>4, <1>5, FirstRuleIs
<1>6. QED
  BY <1>2, <1>3, <1>5

\* Every decision of the planner is a decision record (Orchestrator.decide).
LEMMA DecisionType == Decisions \subseteq DecisionRecs
<1>1. Refusal \in DecisionRecs
  BY DEF Refusal, DecisionRecs
<1>2. ASSUME NEW a, NEW b, NEW c, NEW i, NEW e, NEW f, NEW g, NEW h
      PROVE  Decide(a, b, c, i, e, f, g, h) \in DecisionRecs
  <2> DEFINE intent == IF /\ NeedToIntent(b) \in {"unknown", "small_talk"} /\ i # "none"
                       THEN i ELSE NeedToIntent(b)
             mode == SelectMode(a, intent, c)
             retrieve == NeedsRetrieval(intent, mode, b, e)
             tool == IF retrieve THEN RetrievalToolFor(intent, mode, b, f) ELSE "none"
             handoff == Handoff(mode, intent, c, b, g)
             offer == handoff \/ mode = "service" \/ h
             dec == [path |-> IF retrieve THEN (IF LoopEnabled THEN "loop" ELSE "backend")
                              ELSE IF mode = "service" THEN "backend" ELSE "stream",
                     retrieve |-> retrieve,
                     allowed |-> tool \in AllowedTools(mode),
                     general |-> tool = "workflow_pattern",
                     service |-> mode = "service",
                     offer |-> offer,
                     cloud |-> CloudEnabled]
  <2>1. retrieve \in BOOLEAN /\ offer \in BOOLEAN
    BY DEF NeedsRetrieval
  <2>2. CloudEnabled \in BOOLEAN
    BY PolicyAssumption
  <2>3. Decide(a, b, c, i, e, f, g, h) = IF intent = "out_of_scope" THEN Refusal ELSE dec
    BY DEF Decide
  <2> HIDE DEF intent, mode, retrieve, tool, offer
  <2>4. dec \in DecisionRecs
    BY <2>1, <2>2 DEF DecisionRecs
  <2>5. QED
    BY <1>1, <2>3, <2>4
<1>3. QED
  BY <1>1, <1>2 DEF Decisions

-----------------------------------------------------------------------------
(* What the orchestrator does with one turn *)

\* A step with an answer makes another call or ends the text of the turn, and
\* takes back nothing that the client saw.
Follows(r, q) == q.pc \in {"call", "persist"} /\ (r.shown => q.shown)

\* The route read after a call is the one that served it, if any did.
Reads(r, sel) == r.pc \in {"call", "served"} /\ (r.pc = "served" => sel = r.call.by)

\* What is left of a turn once its text is computed or cut short is in order.
LEMMA OverOK ==
  ASSUME NEW r \in TurnRecs, ShownOK(r), NEW pc \in {"persist", "finally"}
  PROVE  TurnOK(Over(r, pc)) /\ Over(r, pc).pc = pc /\ Over(r, pc).shown = r.shown
<1> DEFINE q == Over(r, pc)
           d == [Refusal EXCEPT !.path = r.d.path, !.service = r.d.service]
<1>1. d \in DecisionRecs /\ d.path = r.d.path /\ d.service = r.d.service /\ d.cloud = FALSE
  BY DEF Refusal, TurnRecs, DecisionRecs
<1>2. Idle \in TurnRecs
  BY DEF Idle, TurnRecs, Refusal, DecisionRecs, CallRecs, NoCall, PCs, Contexts,
         Texts, ModelTexts, Reasons
<1>3. q = [Idle EXCEPT !.pc = pc, !.out = r.out, !.shown = r.shown, !.d = d]
  BY DEF Over
<1> HIDE DEF d, q
<1>4. q \in TurnRecs
  BY <1>1, <1>2, <1>3 DEF TurnRecs, PCs
<1>5. /\ q.pc = pc /\ q.out = r.out /\ q.shown = r.shown /\ q.d = d
      /\ q.clouds = 0 /\ q.call = NoCall
  BY <1>2, <1>3 DEF TurnRecs, Idle
<1>6. TurnOK(q)
  BY <1>1, <1>4, <1>5 DEF TurnOK, CallShape, Fresh, KeptLocal, CloudCount, Repaired,
                    ShownOK, NoCall, CallKinds
<1>7. QED
  BY <1>5, <1>6 DEF q

\* A text that may be shown is delivered.
LEMMA DeliverOK ==
  ASSUME NEW r \in TurnRecs, ShownOK(r), NEW x \in Texts,
         r.d.path = "backend" => x # "unknown", r.d.service => x # "pricey"
  PROVE  TurnOK(Deliver(r, x)) /\ Follows(r, Deliver(r, x))
<1>1. CASE x = "empty"
  BY <1>1, OverOK DEF Deliver, Follows
<1>2. CASE x # "empty"
  <2> DEFINE q == [r EXCEPT !.out = x, !.shown = TRUE]
  <2>1. q \in TurnRecs /\ q.shown /\ q.out = x /\ q.d = r.d
    BY DEF TurnRecs
  <2>2. ShownOK(q)
    BY <1>2, <2>1 DEF ShownOK
  <2>3. Deliver(r, x) = Over(q, "persist")
    BY <1>2 DEF Deliver
  <2> HIDE DEF q
  <2>4. QED
    BY <2>1, <2>2, <2>3, OverOK DEF Follows
<1>3. QED
  BY <1>1, <1>2

\* A call is made: the first of a turn, or one of the tool loop.
LEMMA CallingOK ==
  ASSUME NEW r \in TurnRecs, ShownOK(r),
         NEW kind \in {"main", "stream", "tools", "missed", "final"},
         NEW cloud \in BOOLEAN, NEW carries \in Contexts,
         r.d.path = CASE kind = "main" -> "backend"
                      [] kind = "stream" -> "stream"
                      [] OTHER -> "loop",
         r.d.path # "loop" /\ r.d.cloud => r.ctx # "restricted",
         r.clouds <= IF kind \in {"missed", "final"} THEN 1 ELSE 0
  PROVE  /\ TurnOK(Calling(r, kind, cloud, carries))
         /\ Follows(r, Calling(r, kind, cloud, carries))
<1> DEFINE q == Calling(r, kind, cloud, carries)
<1>1. /\ q \in TurnRecs /\ q.pc = "call" /\ q.d = r.d /\ q.ctx = r.ctx
      /\ q.out = r.out /\ q.shown = r.shown /\ q.clouds = r.clouds
      /\ q.call = [kind |-> kind, cloud |-> cloud, eligible |-> Eligible(carries),
                   carries |-> carries, by |-> "none"]
  <2> DEFINE c == [kind |-> kind, cloud |-> cloud, eligible |-> Eligible(carries),
                   carries |-> carries, by |-> "none"]
  <2>1. c \in CallRecs
    BY DEF CallRecs, CallKinds, Eligible
  <2>2. q = [r EXCEPT !.pc = "call", !.call = c]
    BY DEF Calling
  <2> HIDE DEF q, c
  <2>3. r \in TurnRecs /\ "call" \in PCs
    BY DEF PCs
  <2>4. /\ q \in TurnRecs /\ q.pc = "call" /\ q.d = r.d /\ q.ctx = r.ctx
        /\ q.out = r.out /\ q.shown = r.shown /\ q.clouds = r.clouds /\ q.call = c
    BY <2>1, <2>2, <2>3 DEF TurnRecs
  <2>5. QED
    BY <2>4 DEF c
<1>2. q.call.eligible => carries # "restricted"
  BY DEF Calling, TurnRecs, Eligible
<1> HIDE DEF q
<1>3. CallShape(q) /\ Fresh(q) /\ Repaired(q) /\ ShownOK(q)
  BY <1>1 DEF CallShape, Fresh, Repaired, ShownOK, CallKinds
<1>4. KeptLocal(q)
  BY <1>1, <1>2 DEF KeptLocal
<1>5. CloudCount(q)
  BY <1>1 DEF CloudCount, Earlier
<1>6. TurnOK(q) /\ Follows(r, q)
  BY <1>1, <1>3, <1>4, <1>5 DEF TurnOK, Follows
<1>7. QED
  BY <1>6 DEF q

\* A retry is made only after a call that the cloud did not serve, and where
\* the turn's own context may go to the cloud.
LEMMA RetryingOK ==
  ASSUME NEW r, TurnOK(r), NEW sel, Reads(r, sel),
         NEW kind \in {"retry", "again"}, NEW x \in Texts, MayRetry(r, x, sel),
         NEW reason \in Reasons, kind = "again" => x = "unknown" /\ reason # "ok"
  PROVE  /\ TurnOK(Retrying(r, kind, x, reason))
         /\ Follows(r, Retrying(r, kind, x, reason))
<1> DEFINE q == Retrying(r, kind, x, reason)
<1>1. r \in TurnRecs /\ r.d.cloud /\ sel # "cloud"
  BY DEF TurnOK, MayRetry
<1>2. Carried(r) \in Contexts /\ Carried(r) # "restricted"
  BY <1>1 DEF Carried, TurnOK, KeptLocal, TurnRecs, Contexts
<1>3. /\ q \in TurnRecs /\ q.pc = "call" /\ q.d = r.d /\ q.ctx = r.ctx
      /\ q.out = r.out /\ q.shown = r.shown /\ q.clouds = r.clouds
      /\ q.text = x /\ q.reason = reason
      /\ q.call = [kind |-> kind, cloud |-> TRUE, eligible |-> TRUE,
                   carries |-> Carried(r), by |-> "none"]
  BY <1>1, <1>2 DEF Retrying, Calling, TurnRecs, CallRecs, PCs, CallKinds, Eligible
<1> HIDE DEF q
<1>4. r.clouds <= IF r.d.path = "loop" THEN 1 ELSE 0
  BY <1>1 DEF Reads, TurnOK, CloudCount, Earlier, CallShape, TurnRecs
<1>5. CloudCount(q)
  BY <1>3, <1>4 DEF CloudCount, Earlier
<1>6. CallShape(q) /\ Fresh(q) /\ Repaired(q) /\ ShownOK(q)
  BY <1>3 DEF CallShape, Fresh, Repaired, ShownOK, CallKinds, TurnOK
<1>7. KeptLocal(q)
  BY <1>1, <1>2, <1>3 DEF KeptLocal, TurnOK
<1>8. TurnOK(q) /\ Follows(r, q)
  BY <1>3, <1>5, <1>6, <1>7 DEF TurnOK, Follows
<1>9. QED
  BY <1>8 DEF q

\* _fallback_general_guidance never returns an unknown answer.
LEMMA FallbackGeneralType ==
  ASSUME NEW x \in Texts, NEW d, NEW repeat
  PROVE  /\ FallbackGeneral(x, d, repeat) \in Texts
         /\ ~Unknown(FallbackGeneral(x, d, repeat))
         /\ FallbackGeneral(x, d, repeat) = "pricey" => x = "pricey"
BY DEF FallbackGeneral, Texts, OwnTexts, Unknown

\* _fallback_after_repair returns neither the sentinel nor, in service mode,
\* the price that was quoted.
LEMMA FallbackAfterRepairType ==
  ASSUME NEW x \in Texts, NEW reason, NEW d, NEW repeat
  PROVE  LET y == FallbackAfterRepair(x, reason, d, repeat) IN
         y \in Texts /\ y # "unknown" /\ (d.service => y # "pricey")
BY FallbackGeneralType DEF FallbackAfterRepair, FallbackGeneral, Texts, OwnTexts, Unknown

\* The end of the ladder delivers a text that may be shown.
LEMMA FinalOK ==
  ASSUME NEW r, TurnOK(r), NEW x \in Texts, NEW reason,
         reason = "ok" /\ r.d.path = "backend" => x # "unknown",
         reason = "ok" /\ r.d.service => x # "pricey"
  PROVE  TurnOK(Final(r, x, reason)) /\ Follows(r, Final(r, x, reason))
<1> DEFINE y == IF reason = "ok" THEN x ELSE FallbackAfterRepair(x, reason, r.d, r.repeat)
<1>1. y \in Texts /\ (r.d.path = "backend" => y # "unknown") /\ (r.d.service => y # "pricey")
  BY FallbackAfterRepairType
<1>2. r \in TurnRecs /\ ShownOK(r)
  BY DEF TurnOK
<1>3. Final(r, x, reason) = Deliver(r, y)
  BY DEF Final
<1> HIDE DEF y
<1>4. QED
  BY <1>1, <1>2, <1>3, DeliverOK

\* Grading an answer that is not the sentinel ends the turn with a text that
\* may be shown, or sends it to a second retry.
LEMMA JudgeOK ==
  ASSUME NEW r, TurnOK(r), NEW sel, Reads(r, sel), NEW x \in Texts,
         r.d.path = "backend" => x # "unknown"
  PROVE  TurnOK(Judge(r, x, sel)) /\ Follows(r, Judge(r, x, sel))
<1> DEFINE reason == Grade(x, r.d, r.ctx)
           repaired == Repair(x, reason)
<1>1. r \in TurnRecs /\ ShownOK(r)
  BY DEF TurnOK
<1>2. reason \in Reasons /\ (r.d.service /\ x = "pricey" => reason # "ok")
  BY GradeType, PriceIsForbidden
<1>3. reason # "ok" => repaired = "unknown"
  BY DEF Repair
<1>4. Judge(r, x, sel) =
        IF reason = "ok" THEN Deliver(r, x)
        ELSE IF MayRetry(r, repaired, sel) THEN Retrying(r, "again", repaired, reason)
        ELSE Final(r, repaired, reason)
  BY DEF Judge
<1> HIDE DEF reason, repaired
<1>5. CASE reason = "ok"
  BY <1>1, <1>2, <1>4, <1>5, DeliverOK
<1>6. CASE reason # "ok" /\ MayRetry(r, repaired, sel)
  <2>1. "unknown" \in Texts
    BY DEF Texts, ModelTexts
  <2>2. QED
    BY <1>2, <1>3, <1>4, <1>6, <2>1, RetryingOK
<1>7. CASE reason # "ok" /\ ~MayRetry(r, repaired, sel)
  <2>1. "unknown" \in Texts
    BY DEF Texts, ModelTexts
  <2>2. QED
    BY <1>3, <1>4, <1>7, <2>1, FinalOK
<1>8. QED
  BY <1>5, <1>6, <1>7

\* run() settles the answer of a call.
LEMMA SettleOK ==
  ASSUME NEW r, TurnOK(r), NEW sel, Reads(r, sel), NEW x \in Texts
  PROVE  TurnOK(Settle(r, x, sel)) /\ Follows(r, Settle(r, x, sel))
<1> DEFINE y == IF r.d.path = "loop" THEN x ELSE FallbackGeneral(x, r.d, r.repeat)
<1>1. y \in Texts /\ (r.d.path = "backend" => y # "unknown")
  BY FallbackGeneralType DEF Unknown
<1>2. Settle(r, x, sel) = Judge(r, y, sel)
  BY DEF Settle
<1> HIDE DEF y
<1>3. QED
  BY <1>1, <1>2, JudgeOK

\* An answer of run() is settled or retried.
LEMMA AnsweredOK ==
  ASSUME NEW r, TurnOK(r), NEW sel, Reads(r, sel), NEW x \in Texts
  PROVE  TurnOK(Answered(r, x, sel)) /\ Follows(r, Answered(r, x, sel))
<1>1. CASE MayRetry(r, x, sel)
  <2>1. "ok" \in Reasons
    BY DEF Reasons
  <2>2. QED
    BY <1>1, <2>1, RetryingOK DEF Answered
<1>2. CASE ~MayRetry(r, x, sel)
  BY <1>2, SettleOK DEF Answered
<1>3. QED
  BY <1>1, <1>2

\* The end of a stream shows what was held back, corrects it or retries it.
LEMMA StreamEndedOK ==
  ASSUME NEW r, TurnOK(r), NEW sel, Reads(r, sel), NEW x \in Texts,
         r.d.path = "stream", x # "pricey"
  PROVE  TurnOK(StreamEnded(r, x, sel)) /\ Follows(r, StreamEnded(r, x, sel))
<1> DEFINE fallback == FallbackGeneral(x, r.d, r.repeat)
           reason == Grade(x, r.d, r.ctx)
           repaired == Repair(x, reason)
           again == Grade(repaired, r.d, r.ctx)
           rest == IF r.shown THEN "empty" ELSE x
<1>1. r \in TurnRecs /\ ShownOK(r)
  BY DEF TurnOK
<1>2. reason \in Reasons
  BY GradeType
<1>3. reason # "ok" => repaired = "unknown"
  BY DEF Repair
<1>4. fallback \in Texts /\ fallback # "pricey"
  BY FallbackGeneralType
<1>5. {"unknown", rest} \subseteq Texts /\ rest # "pricey"
  BY DEF Texts, ModelTexts
<1>6. StreamEnded(r, x, sel) =
        IF fallback # x THEN Deliver(r, fallback)
        ELSE IF reason = "ok" THEN Deliver(r, rest)
        ELSE IF MayRetry(r, repaired, sel) THEN Retrying(r, "again", repaired, reason)
        ELSE Final(r, repaired, again)
  BY DEF StreamEnded
<1> HIDE DEF fallback, reason, repaired, again, rest
<1>7. CASE fallback # x
  BY <1>1, <1>4, <1>6, <1>7, DeliverOK
<1>8. CASE fallback = x /\ reason = "ok"
  BY <1>1, <1>5, <1>6, <1>8, DeliverOK
<1>9. CASE fallback = x /\ reason # "ok" /\ MayRetry(r, repaired, sel)
  BY <1>2, <1>3, <1>5, <1>6, <1>9, RetryingOK
<1>10. CASE fallback = x /\ reason # "ok" /\ ~MayRetry(r, repaired, sel)
  BY <1>3, <1>5, <1>6, <1>10, FinalOK
<1>11. QED
  BY <1>7, <1>8, <1>9, <1>10

\* The answer of the second retry is graded unless it is the repaired answer
\* itself, which was found inadequate before.
LEMMA RetriedAgainOK ==
  ASSUME NEW r, TurnOK(r), NEW sel, Reads(r, sel), NEW x \in Texts,
         r.call.kind = "again"
  PROVE  TurnOK(RetriedAgain(r, x, sel)) /\ Follows(r, RetriedAgain(r, x, sel))
<1> DEFINE got == RetryText(r, x, sel)
           reason == IF r.d.path = "stream" \/ got # r.text
                     THEN Grade(got, r.d, r.ctx) ELSE r.reason
<1>1. r.text = "unknown" /\ r.reason # "ok"
  BY DEF TurnOK, Repaired
<1>2. got \in Texts
  BY <1>1 DEF RetryText, Texts, ModelTexts
<1>3. reason = "ok" /\ r.d.path = "backend" => got # "unknown"
  BY <1>1
<1>4. reason = "ok" /\ r.d.service => got # "pricey"
  BY <1>1, PriceIsForbidden
<1>5. RetriedAgain(r, x, sel) = Final(r, got, reason)
  BY DEF RetriedAgain
<1> HIDE DEF got, reason
<1>6. QED
  BY <1>2, <1>3, <1>4, <1>5, FinalOK

\* The calls of the tool loop that follow the first one.
LEMMA LoopCallOK ==
  ASSUME NEW r, TurnOK(r), r.pc \in {"call", "served"}, r.call.kind = "tools",
         NEW kind \in {"missed", "final"}, NEW q \in LoopCall(r, kind)
  PROVE  TurnOK(q) /\ Follows(r, q)
<1>1. PICK ctx \in Retrieved(r.d) :
        q = Calling([r EXCEPT !.ctx = ctx], kind, Narrowed(r.d, ctx).cloud, ctx)
  BY DEF LoopCall
<1> DEFINE p == [r EXCEPT !.ctx = ctx]
           cloud == Narrowed(r.d, ctx).cloud
<1>2. r \in TurnRecs /\ r.d \in DecisionRecs /\ ctx \in Contexts
  BY DEF TurnOK, TurnRecs, Retrieved, Contexts
<1>3. p \in TurnRecs /\ p.d = r.d /\ p.clouds = r.clouds /\ p.shown = r.shown /\ p.out = r.out
  BY <1>2 DEF TurnRecs
<1>4. cloud \in BOOLEAN
  BY <1>2 DEF Narrowed, DecisionRecs, Eligible
<1>5. r.d.path = "loop" /\ r.clouds <= 1
  BY <1>2 DEF TurnOK, CallShape, CloudCount, Earlier, TurnRecs
<1>6. q = Calling(p, kind, cloud, ctx)
  BY <1>1
<1> HIDE DEF p, cloud
<1>7. ShownOK(p)
  BY <1>3 DEF ShownOK, TurnOK
<1>8. /\ kind \in {"main", "stream", "tools", "missed", "final"}
      /\ p.d.path = CASE kind = "main" -> "backend" [] kind = "stream" -> "stream"
                      [] OTHER -> "loop"
      /\ p.clouds <= IF kind \in {"missed", "final"} THEN 1 ELSE 0
  BY <1>3, <1>5
<1>9. TurnOK(q) /\ Follows(p, q)
  BY <1>2, <1>3, <1>4, <1>5, <1>6, <1>7, <1>8, CallingOK
<1>10. QED
  BY <1>3, <1>9 DEF Follows

\* Whatever a call returned, the turn goes on in order.
LEMMA ContinueOK ==
  ASSUME NEW r, TurnOK(r), NEW sel, Reads(r, sel),
         NEW x \in Endings(r) \union {"plain"}, NEW q \in Continue(r, x, sel)
  PROVE  TurnOK(q) /\ Follows(r, q)
<1>1. r \in TurnRecs /\ r.call.kind \in CallKinds
  BY DEF TurnOK, CallShape, Reads
<1>2. CASE r.call.kind = "tools"
  <2>1. q \in LoopCall(r, "missed") \/ q \in LoopCall(r, "final")
    BY <1>2 DEF Continue, AfterTools
  <2>2. QED
    BY <1>2, <2>1, LoopCallOK DEF Reads
<1>3. CASE r.call.kind = "final"
  <2> DEFINE y == IF x = "toolcall" THEN "unknown" ELSE x
  <2>1. y \in Texts
    BY <1>3 DEF Endings, Texts, ModelTexts
  <2>2. q = Answered(r, y, sel)
    BY <1>3 DEF Continue
  <2> HIDE DEF y
  <2>3. QED
    BY <2>1, <2>2, AnsweredOK
<1>4. CASE r.call.kind \in {"main", "missed"}
  <2>1. x \in Texts
    BY <1>4 DEF Endings, Texts, ModelTexts
  <2>2. q = Answered(r, x, sel)
    BY <1>4 DEF Continue
  <2>3. QED
    BY <2>1, <2>2, AnsweredOK
<1>5. CASE r.call.kind = "stream"
  <2>1. x \in Texts /\ x # "pricey"
    BY <1>5 DEF Endings, Texts, ModelTexts
  <2>2. q = StreamEnded(r, x, sel)
    BY <1>5 DEF Continue
  <2>3. r.d.path = "stream"
    BY <1>5 DEF TurnOK, CallShape
  <2>4. QED
    BY <2>1, <2>2, <2>3, StreamEndedOK
<1>6. CASE r.call.kind = "retry"
  <2>1. RetryText(r, x, sel) \in Texts
    BY <1>1, <1>6 DEF Endings, RetryText, Texts, ModelTexts, TurnRecs
  <2>2. q = Settle(r, RetryText(r, x, sel), sel)
    BY <1>6 DEF Continue
  <2>3. QED
    BY <2>1, <2>2, SettleOK
<1>7. CASE r.call.kind = "again"
  <2>1. x \in Texts
    BY <1>7 DEF Endings, Texts, ModelTexts
  <2>2. q = RetriedAgain(r, x, sel)
    BY <1>7 DEF Continue
  <2>3. QED
    BY <1>7, <2>1, <2>2, RetriedAgainOK
<1>8. QED
  BY <1>1, <1>2, <1>3, <1>4, <1>5, <1>6, <1>7 DEF CallKinds

\* A turn that does not run is in order.
LEMMA IdleOK == TurnOK(Idle) /\ Idle.pc = "idle" /\ ~Idle.shown
<1>1. Idle \in TurnRecs
  BY DEF Idle, TurnRecs, Refusal, DecisionRecs, CallRecs, NoCall, PCs, Contexts,
         Texts, ModelTexts, Reasons
<1>2. QED
  BY <1>1 DEF Idle, Refusal, NoCall, TurnOK, CallShape, Fresh, KeptLocal, CloudCount,
              Repaired, ShownOK, CallKinds

-----------------------------------------------------------------------------
(* The steps of the specification *)

Running == {"plan", "call", "served", "persist"}

\* A step replaces the record r of one turn by q; what it does to the counters
\* goes with what it does to the program point and to what the client saw.
Moves(r, q) ==
  \/ /\ r.pc = "idle" /\ q.pc = "snapshot"
     /\ starts < MaxStarts /\ starts' = starts + 1
     /\ UNCHANGED <<faults, accepted, charged, lost>>
  \/ /\ r.pc = "snapshot" /\ q.pc = "counted" /\ accepted' = accepted + 1
     /\ UNCHANGED <<starts, faults, charged, lost>>
  \/ /\ \/ r.pc = "snapshot" /\ q.pc = "idle"
        \/ r.pc = "counted" /\ q.pc = "plan"
        \/ r.pc = "counted" /\ q.pc = "idle"
        \/ r.pc \in Running /\ q.pc \in {"call", "served", "persist", "finally"}
             /\ (r.shown => q.shown)
        \/ r.pc = "finally" /\ ~r.shown /\ q.pc = "idle"
     /\ UNCHANGED <<starts, faults, accepted, charged, lost>>
  \/ /\ r.pc = "finally" /\ r.shown /\ q.pc = "idle" /\ charged' = charged + 1
     /\ UNCHANGED <<starts, faults, accepted, lost>>
  \/ /\ r.pc = "finally" /\ r.shown /\ q.pc = "idle" /\ faults < MaxFaults
     /\ faults' = faults + 1 /\ lost' = lost + 1
     /\ UNCHANGED <<starts, accepted, charged>>

\* A turn t may take a step to the record q.
Stepping(t, q) == Set(t, q) /\ TurnOK(q) /\ Moves(turn[t], q)

\* Accepting a request.
LEMMA ArriveSteps ==
  ASSUME TurnsOK, accepted \in Nat, NEW t \in Slots,
         Arrive(t) \/ Enforce(t) \/ Open(t)
  PROVE  \E q : Stepping(t, q)
<1>1. turn[t] \in TurnRecs /\ TurnOK(turn[t])
  BY DEF TurnsOK
<1>2. CASE Arrive(t)
  <2> DEFINE q == [turn[t] EXCEPT !.pc = "snapshot", !.snap = accepted]
  <2>1. q \in TurnRecs /\ q.pc = "snapshot" /\ q.d = turn[t].d /\ q.call = turn[t].call
        /\ q.ctx = turn[t].ctx /\ q.out = turn[t].out /\ q.shown = turn[t].shown
        /\ q.clouds = turn[t].clouds /\ turn[t].pc = "idle"
    BY <1>1, <1>2 DEF Arrive, TurnRecs, PCs
  <2>2. Set(t, q) /\ Moves(turn[t], q)
    BY <1>2, <2>1 DEF Arrive, Moves
  <2> HIDE DEF q
  <2>3. TurnOK(q)
    BY <1>1, <2>1 DEF TurnOK, CallShape, Fresh, KeptLocal, CloudCount, Earlier,
                      Repaired, ShownOK, NoCall, CallKinds
  <2>4. QED
    BY <2>2, <2>3 DEF Stepping
<1>3. CASE Enforce(t)
  <2>1. CASE turn[t].snap >= Limit /\ Set(t, Idle) /\ UNCHANGED accepted
    BY <1>3, <2>1, IdleOK DEF Enforce, Stepping, Moves
  <2>2. CASE /\ Set(t, [turn[t] EXCEPT !.pc = "counted", !.snap = 0])
             /\ accepted' = accepted + 1
    <3> DEFINE q == [turn[t] EXCEPT !.pc = "counted", !.snap = 0]
    <3>1. q \in TurnRecs /\ q.pc = "counted" /\ q.d = turn[t].d /\ q.call = turn[t].call
          /\ q.ctx = turn[t].ctx /\ q.out = turn[t].out /\ q.shown = turn[t].shown
          /\ q.clouds = turn[t].clouds /\ turn[t].pc = "snapshot"
      BY <1>1, <1>3 DEF Enforce, TurnRecs, PCs
    <3>2. Set(t, q) /\ Moves(turn[t], q)
      BY <1>3, <2>2, <3>1 DEF Enforce, Moves
    <3> HIDE DEF q
    <3>3. TurnOK(q)
      BY <1>1, <3>1 DEF TurnOK, CallShape, Fresh, KeptLocal, CloudCount, Earlier,
                        Repaired, ShownOK, NoCall, CallKinds
    <3>4. QED
      BY <3>2, <3>3 DEF Stepping
  <2>3. QED
    BY <1>3, <2>1, <2>2 DEF Enforce
<1>4. CASE Open(t)
  <2>1. CASE Set(t, Idle)
    BY <1>4, <2>1, IdleOK DEF Open, Stepping, Moves
  <2>2. ASSUME NEW d0 \in Asked, NEW repeat \in BOOLEAN, NEW d \in Planned(d0),
               Set(t, [turn[t] EXCEPT !.pc = "plan", !.d = d,
                         !.repeat = repeat /\ ~d.service /\ d.retrieve])
        PROVE  \E q : Stepping(t, q)
    <3> DEFINE rep == repeat /\ ~d.service /\ d.retrieve
               q == [turn[t] EXCEPT !.pc = "plan", !.d = d, !.repeat = rep]
    <3>1. d0 \in DecisionRecs
      BY DecisionType, ChatAssumption
    <3>2. d \in DecisionRecs
      BY <3>1 DEF Planned, DecisionRecs
    <3>3. rep \in BOOLEAN
      OBVIOUS
    <3>4. Set(t, q)
      BY <2>2
    <3> HIDE DEF rep
    <3>5. q \in TurnRecs /\ q.pc = "plan" /\ q.d = d /\ q.call = turn[t].call
          /\ q.ctx = turn[t].ctx /\ q.out = turn[t].out /\ q.shown = turn[t].shown
          /\ q.clouds = turn[t].clouds /\ turn[t].pc = "counted"
      BY <1>1, <1>4, <3>2, <3>3 DEF Open, TurnRecs, PCs
    <3> HIDE DEF q
    <3>6. Moves(turn[t], q)
      BY <1>4, <3>5 DEF Open, Moves
    <3>7. TurnOK(q)
      BY <1>1, <3>5 DEF TurnOK, CallShape, Fresh, KeptLocal, CloudCount, Earlier,
                        Repaired, ShownOK, NoCall, CallKinds
    <3>8. QED
      BY <3>4, <3>6, <3>7 DEF Stepping
  <2>3. QED
    BY <1>4, <2>1, <2>2 DEF Open
<1>5. QED
  BY <1>2, <1>3, <1>4

\* The first call of a turn.
LEMMA StartSteps ==
  ASSUME TurnsOK, NEW t \in Slots, Start(t)
  PROVE  \E q : Stepping(t, q)
<1> DEFINE r == turn[t]
<1>1. r \in TurnRecs /\ TurnOK(r) /\ r.pc = "plan" /\ r.d \in DecisionRecs
  BY DEF TurnsOK, Start, TurnRecs
<1>2. ASSUME NEW q, Set(t, q), TurnOK(q), Follows(r, q) PROVE Stepping(t, q)
  BY <1>1, <1>2 DEF Stepping, Moves, Running, Follows, Start
<1>3. r.clouds = 0 /\ r.ctx = "none" /\ ShownOK(r)
  BY <1>1 DEF TurnOK, Fresh
<1>4. \/ r.d.path = "refuse" /\ Set(t, Deliver(r, "refusal"))
      \/ /\ r.d.path \in {"backend", "stream"}
         /\ \E ctx \in Retrieved(r.d) :
              Set(t, Calling([r EXCEPT !.ctx = ctx, !.d = Narrowed(r.d, ctx)],
                             IF Narrowed(r.d, ctx).path = "stream" THEN "stream" ELSE "main",
                             Narrowed(r.d, ctx).cloud, ctx))
      \/ r.d.path = "loop" /\ Set(t, Calling(r, "tools", r.d.cloud, "none"))
  BY DEF Start
<1> HIDE DEF r
<1>5. CASE r.d.path = "refuse" /\ Set(t, Deliver(r, "refusal"))
  <2>1. "refusal" \in Texts
    BY DEF Texts, OwnTexts
  <2>2. QED
    BY <1>1, <1>2, <1>3, <1>5, <2>1, DeliverOK
<1>6. ASSUME r.d.path \in {"backend", "stream"}, NEW ctx \in Retrieved(r.d),
             Set(t, Calling([r EXCEPT !.ctx = ctx, !.d = Narrowed(r.d, ctx)],
                            IF Narrowed(r.d, ctx).path = "stream" THEN "stream" ELSE "main",
                            Narrowed(r.d, ctx).cloud, ctx))
      PROVE  \E q : Stepping(t, q)
  <2> DEFINE d == Narrowed(r.d, ctx)
             p == [r EXCEPT !.ctx = ctx, !.d = d]
             kind == IF d.path = "stream" THEN "stream" ELSE "main"
  <2>1. ctx \in Contexts
    BY DEF Retrieved, Contexts
  <2>2. d \in DecisionRecs /\ d.path = r.d.path /\ d.service = r.d.service
        /\ (d.cloud => ctx # "restricted")
    BY <1>1 DEF Narrowed, DecisionRecs, Eligible
  <2>3. d.cloud \in BOOLEAN
    BY <2>2 DEF DecisionRecs
  <2>4. Set(t, Calling(p, kind, d.cloud, ctx))
    BY <1>6
  <2> HIDE DEF d
  <2>5. /\ p \in TurnRecs /\ p.d = d /\ p.ctx = ctx /\ p.clouds = r.clouds
        /\ p.shown = r.shown /\ p.out = r.out
    BY <1>1, <2>1, <2>2 DEF TurnRecs
  <2> HIDE DEF p
  <2>6. ShownOK(p)
    BY <1>3, <2>2, <2>5 DEF ShownOK
  <2>7. /\ kind \in {"main", "stream", "tools", "missed", "final"}
        /\ p.d.path = CASE kind = "main" -> "backend" [] kind = "stream" -> "stream"
                        [] OTHER -> "loop"
        /\ p.clouds <= IF kind \in {"missed", "final"} THEN 1 ELSE 0
    BY <1>3, <1>6, <2>2, <2>5
  <2> HIDE DEF kind
  <2>8. TurnOK(Calling(p, kind, d.cloud, ctx)) /\ Follows(p, Calling(p, kind, d.cloud, ctx))
    BY <2>1, <2>2, <2>3, <2>5, <2>6, <2>7, CallingOK
  <2>9. Follows(r, Calling(p, kind, d.cloud, ctx))
    BY <2>5, <2>8 DEF Follows
  <2>10. QED
    BY <1>2, <2>4, <2>8, <2>9
<1>7. CASE r.d.path = "loop" /\ Set(t, Calling(r, "tools", r.d.cloud, "none"))
  <2>1. r.d.cloud \in BOOLEAN /\ "none" \in Contexts
    BY <1>1 DEF DecisionRecs, Contexts
  <2>2. TurnOK(Calling(r, "tools", r.d.cloud, "none"))
        /\ Follows(r, Calling(r, "tools", r.d.cloud, "none"))
    BY <1>1, <1>3, <1>7, <2>1, CallingOK
  <2>3. QED
    BY <1>2, <1>7, <2>2
<1>8. QED
  BY <1>4, <1>5, <1>6, <1>7

\* A call is served, or returns.
LEMMA CallSteps ==
  ASSUME TurnsOK, NEW t \in Slots, Serve(t) \/ Return(t) \/ Degraded(t) \/ Chunk(t)
  PROVE  \E q : Stepping(t, q)
<1>1. turn[t] \in TurnRecs /\ TurnOK(turn[t])
  BY DEF TurnsOK
<1>2. CASE Serve(t)
  <2>1. PICK by \in {"local", "cloud"} :
          /\ by = "cloud" => turn[t].call.cloud /\ turn[t].call.eligible
          /\ Set(t, [turn[t] EXCEPT !.pc = "served", !.call.by = by,
                       !.clouds = IF by = "cloud" THEN @ + 1 ELSE @])
    BY <1>2 DEF Serve
  <2> DEFINE call == [turn[t].call EXCEPT !.by = by]
             n == IF by = "cloud" THEN turn[t].clouds + 1 ELSE turn[t].clouds
             q == [turn[t] EXCEPT !.pc = "served", !.call = call, !.clouds = n]
  <2>2. turn[t].call \in CallRecs /\ turn[t].clouds \in Nat
    BY <1>1 DEF TurnRecs
  <2>3. /\ call \in CallRecs /\ call.by = by /\ call.kind = turn[t].call.kind
        /\ call.cloud = turn[t].call.cloud /\ call.eligible = turn[t].call.eligible
        /\ call.carries = turn[t].call.carries
    BY <2>2 DEF CallRecs
  <2>4. n \in Nat /\ n = turn[t].clouds + (IF by = "cloud" THEN 1 ELSE 0)
    BY <2>2
  <2>5. Set(t, q)
    BY <1>1, <2>1 DEF Set, TurnRecs
  <2> HIDE DEF call, n
  <2>6. /\ q \in TurnRecs /\ q.pc = "served" /\ q.d = turn[t].d
        /\ q.ctx = turn[t].ctx /\ q.out = turn[t].out /\ q.shown = turn[t].shown
        /\ q.clouds = turn[t].clouds + (IF by = "cloud" THEN 1 ELSE 0)
        /\ q.text = turn[t].text /\ q.reason = turn[t].reason
        /\ q.call.by = by /\ q.call.kind = turn[t].call.kind
        /\ q.call.cloud = turn[t].call.cloud /\ q.call.eligible = turn[t].call.eligible
        /\ q.call.carries = turn[t].call.carries
    BY <1>1, <2>3, <2>4 DEF TurnRecs, PCs
  <2> HIDE DEF q
  <2>7. Moves(turn[t], q)
    BY <1>2, <2>6 DEF Serve, Moves, Running
  <2>8. turn[t].pc = "call" /\ turn[t].clouds \in Nat
    BY <1>1, <1>2 DEF Serve, TurnRecs
  <2>9. CallShape(q) /\ Fresh(q) /\ Repaired(q) /\ ShownOK(q)
    BY <1>1, <2>6, <2>8 DEF TurnOK, CallShape, Fresh, Repaired, ShownOK
  <2>10. KeptLocal(q)
    BY <1>1, <2>1, <2>6 DEF TurnOK, KeptLocal
  <2>11. CloudCount(q)
    BY <1>1, <2>6, <2>8 DEF TurnOK, CloudCount, Earlier
  <2>12. QED
    BY <2>5, <2>6, <2>7, <2>9, <2>10, <2>11 DEF Stepping, TurnOK
<1>3. ASSUME NEW sel, Reads(turn[t], sel), NEW x \in Endings(turn[t]) \union {"plain"},
             NEW q \in Continue(turn[t], x, sel), Set(t, q),
             UNCHANGED <<starts, faults, accepted, charged, lost>>
      PROVE  Stepping(t, q)
  <2>1. TurnOK(q) /\ Follows(turn[t], q)
    BY <1>1, <1>3, ContinueOK
  <2>2. QED
    BY <1>3, <2>1 DEF Stepping, Moves, Follows, Reads, Running
<1>4. CASE Return(t)
  <2>1. Reads(turn[t], Republished(t))
    BY <1>4 DEF Return, Reads, Republished
  <2>2. QED
    BY <1>3, <1>4, <2>1 DEF Return
<1>5. CASE Degraded(t)
  <2>1. Reads(turn[t], "none") /\ Reads(turn[t], selected)
    BY <1>5 DEF Degraded, Reads
  <2>2. QED
    BY <1>3, <1>5, <2>1 DEF Degraded
<1>6. CASE Chunk(t)
  <2> DEFINE q == [turn[t] EXCEPT !.shown = TRUE, !.out = "plain"]
  <2>1. /\ q \in TurnRecs /\ q.pc = turn[t].pc /\ q.d = turn[t].d /\ q.call = turn[t].call
        /\ q.ctx = turn[t].ctx /\ q.out = "plain" /\ q.shown = TRUE
        /\ q.clouds = turn[t].clouds
        /\ q.text = turn[t].text /\ q.reason = turn[t].reason
    BY <1>1 DEF TurnRecs, Texts, ModelTexts
  <2>2. Set(t, q) /\ turn[t].pc = "served"
    BY <1>6 DEF Chunk
  <2> HIDE DEF q
  <2>3. Moves(turn[t], q)
    BY <1>6, <2>1, <2>2 DEF Chunk, Moves, Running
  <2>4. TurnOK(q)
    BY <1>1, <2>1, <2>2 DEF TurnOK, CallShape, Fresh, KeptLocal, CloudCount, Earlier,
                            Repaired, ShownOK
  <2>5. QED
    BY <2>2, <2>3, <2>4 DEF Stepping
<1>7. QED
  BY <1>2, <1>4, <1>5, <1>6

\* The end of a turn.
LEMMA EndSteps ==
  ASSUME TurnsOK, NEW t \in Slots,
         Persist(t) \/ Cancel(t) \/ RecordUsage(t) \/ UsageLost(t)
  PROVE  \E q : Stepping(t, q)
<1>1. turn[t] \in TurnRecs /\ TurnOK(turn[t]) /\ ShownOK(turn[t])
  BY DEF TurnsOK, TurnOK
<1>2. CASE Persist(t)
  <2> DEFINE q == [turn[t] EXCEPT !.pc = "finally"]
  <2>1. /\ q \in TurnRecs /\ q.pc = "finally" /\ q.d = turn[t].d /\ q.call = turn[t].call
        /\ q.ctx = turn[t].ctx /\ q.out = turn[t].out /\ q.shown = turn[t].shown
        /\ q.clouds = turn[t].clouds
        /\ q.text = turn[t].text /\ q.reason = turn[t].reason
    BY <1>1 DEF TurnRecs, PCs
  <2>2. Set(t, q) /\ turn[t].pc = "persist"
    BY <1>2 DEF Persist
  <2> HIDE DEF q
  <2>3. Moves(turn[t], q)
    BY <1>2, <2>1, <2>2 DEF Persist, Moves, Running
  <2>4. TurnOK(q)
    BY <1>1, <2>1, <2>2 DEF TurnOK, CallShape, Fresh, KeptLocal, CloudCount, Earlier,
                            Repaired, ShownOK
  <2>5. QED
    BY <2>2, <2>3, <2>4 DEF Stepping
<1>3. CASE Cancel(t)
  <2>1. TurnOK(Over(turn[t], "finally")) /\ Over(turn[t], "finally").pc = "finally"
        /\ Over(turn[t], "finally").shown = turn[t].shown
    BY <1>1, OverOK
  <2>2. Moves(turn[t], Over(turn[t], "finally"))
    BY <1>3, <2>1 DEF Cancel, Moves, Running
  <2>3. QED
    BY <1>3, <2>1, <2>2 DEF Cancel, Stepping
<1>4. CASE RecordUsage(t)
  <2>1. turn[t].shown \in BOOLEAN
    BY <1>1 DEF TurnRecs
  <2>2. Moves(turn[t], Idle)
    BY <1>4, <2>1, IdleOK DEF RecordUsage, Moves
  <2>3. QED
    BY <1>4, <2>2, IdleOK DEF RecordUsage, Stepping
<1>5. CASE UsageLost(t)
  <2>1. Moves(turn[t], Idle)
    BY <1>5, IdleOK DEF UsageLost, Moves
  <2>2. QED
    BY <1>5, <2>1, IdleOK DEF UsageLost, Stepping
<1>6. QED
  BY <1>2, <1>3, <1>4, <1>5

\* Every step of the specification is a step of one turn to a record in order.
LEMMA NextSteps ==
  ASSUME TurnsOK, accepted \in Nat, Next
  PROVE  \E t \in Slots : \E q : Stepping(t, q)
BY ArriveSteps, StartSteps, CallSteps, EndSteps DEF Next, Step

\* The turns stay in order.
LEMMA TurnsStep ==
  ASSUME TurnsOK, accepted \in Nat, [Next]_vars
  PROVE  TurnsOK'
<1>1. CASE UNCHANGED vars
  BY <1>1 DEF vars, TurnsOK, TurnOK, CallShape, Fresh, KeptLocal, CloudCount, Repaired, ShownOK
<1>2. CASE Next
  <2>1. PICK t \in Slots : \E q : Stepping(t, q)
    BY <1>2, NextSteps
  <2>2. PICK q : Stepping(t, q)
    BY <2>1
  <2>3. TurnOK(q) /\ q \in TurnRecs /\ turn' = [turn EXCEPT ![t] = q]
    BY <2>2 DEF Stepping, Set, TurnOK
  <2>4. turn' \in [Slots -> TurnRecs]
    BY <2>3 DEF TurnsOK
  <2>5. ASSUME NEW u \in Slots PROVE TurnOK(turn'[u])
    BY <2>3 DEF TurnsOK
  <2>6. QED
    BY <2>4, <2>5 DEF TurnsOK
<1>3. QED
  BY <1>1, <1>2

-----------------------------------------------------------------------------
(* Requests, accepted turns and charges *)

Waiting == {t \in Slots : turn[t].pc = "snapshot"}

OpenTurns == {t \in Slots : turn[t].pc \in Running \union {"counted", "finally"}}

\* Accepted turns are among the requests, with those that wait for the limits;
\* the turns charged or lost are among the accepted, with those still open.
Accounts ==
  /\ selected \in {"none", "local", "cloud"}
  /\ starts \in 0..MaxStarts /\ faults \in 0..MaxFaults
  /\ accepted \in Nat /\ charged \in Nat /\ lost \in 0..faults
  /\ accepted + Cardinality(Waiting) <= starts
  /\ charged + lost + Cardinality(OpenTurns) <= accepted

Inv == TurnsOK /\ Accounts

\* Sets of turns are finite, so their sizes are numbers.
LEMMA TurnsFinite ==
  ASSUME NEW S \in SUBSET Slots
  PROVE  IsFiniteSet(S) /\ Cardinality(S) \in Nat
BY ChatAssumption, FS_Subset, FS_CardinalityType

\* What a step of a turn does to a set of turns told apart by their program
\* point: the turn joins it, leaves it or neither.
LEMMA SetMoves ==
  ASSUME NEW S \in SUBSET Slots, NEW T \in SUBSET Slots, NEW t \in Slots,
         S \ {t} = T \ {t}
  PROVE  Cardinality(T) = Cardinality(S)
           + (IF t \in T THEN 1 ELSE 0) - (IF t \in S THEN 1 ELSE 0)
<1>1. IsFiniteSet(S) /\ IsFiniteSet(T) /\ Cardinality(S) \in Nat /\ Cardinality(T) \in Nat
  BY TurnsFinite
<1>2. CASE t \in S /\ t \notin T
  <2>1. T = S \ {t}
    BY <1>2
  <2>2. QED
    BY <1>1, <1>2, <2>1, FS_RemoveElement
<1>3. CASE t \notin S /\ t \in T
  <2>1. T = S \union {t}
    BY <1>3
  <2>2. QED
    BY <1>1, <1>3, <2>1, FS_AddElement
<1>4. CASE (t \in S) = (t \in T)
  <2>1. T = S
    BY <1>4
  <2>2. QED
    BY <1>1, <2>1
<1>5. QED
  BY <1>2, <1>3, <1>4

\* The accounts stay balanced.
LEMMA AccountsStep ==
  ASSUME Inv, [Next]_vars
  PROVE  Accounts'
<1>1. CASE UNCHANGED vars
  BY <1>1 DEF vars, Inv, Accounts, Waiting, OpenTurns
<1>2. CASE Next
  <2>1. PICK t \in Slots : \E q : Stepping(t, q)
    BY <1>2, NextSteps DEF Inv, Accounts
  <2>2. PICK q : Stepping(t, q)
    BY <2>1
  <2> DEFINE r == turn[t]
             one(b) == IF b THEN 1 ELSE 0
  <2>3. /\ turn \in [Slots -> TurnRecs] /\ turn' = [turn EXCEPT ![t] = q]
        /\ r.pc \in PCs /\ q.pc \in PCs /\ Moves(r, q)
    BY <2>2 DEF Stepping, Set, TurnOK, TurnRecs, Inv, TurnsOK
  <2>4. /\ Waiting \in SUBSET Slots /\ Waiting' \in SUBSET Slots
        /\ Waiting \ {t} = Waiting' \ {t}
        /\ t \in Waiting <=> r.pc = "snapshot"
        /\ t \in Waiting' <=> q.pc = "snapshot"
    BY <2>3 DEF Waiting
  <2>5. /\ OpenTurns \in SUBSET Slots /\ OpenTurns' \in SUBSET Slots
        /\ OpenTurns \ {t} = OpenTurns' \ {t}
        /\ t \in OpenTurns <=> r.pc \in Running \union {"counted", "finally"}
        /\ t \in OpenTurns' <=> q.pc \in Running \union {"counted", "finally"}
    BY <2>3 DEF OpenTurns
  <2>6. Cardinality(Waiting') = Cardinality(Waiting)
          + (IF q.pc = "snapshot" THEN 1 ELSE 0) - (IF r.pc = "snapshot" THEN 1 ELSE 0)
    BY <2>4, SetMoves
  <2>7. Cardinality(OpenTurns') = Cardinality(OpenTurns)
          + (IF q.pc \in Running \union {"counted", "finally"} THEN 1 ELSE 0)
          - (IF r.pc \in Running \union {"counted", "finally"} THEN 1 ELSE 0)
    BY <2>5, SetMoves
  <2>8. selected' \in {"none", "local", "cloud"}
    <3>1. ASSUME NEW u \in Slots, turn[u].pc = "served" PROVE Republished(u) \in {"local", "cloud"}
      BY <3>1 DEF Republished, Inv, TurnsOK, TurnOK, CallShape
    <3>2. QED
      BY <1>2, <3>1 DEF Inv, Accounts, Next, Step, Arrive, Enforce, Open, Start, Serve,
           Return, Degraded, Persist, RecordUsage, Chunk, Cancel, UsageLost
  <2>9. Cardinality(Waiting) \in Nat /\ Cardinality(OpenTurns) \in Nat
        /\ Cardinality(Waiting') \in Nat /\ Cardinality(OpenTurns') \in Nat
    BY <2>4, <2>5, TurnsFinite
  <2> HIDE DEF r
  <2>10. QED
    BY <2>3, <2>6, <2>7, <2>8, <2>9, ChatAssumption DEF Inv, Accounts, Moves, Running
<1>3. QED
  BY <1>1, <1>2

\* The initial state is in order.
LEMMA InvInit == Init => Inv
<1> SUFFICES ASSUME Init PROVE Inv
  OBVIOUS
<1>1. TurnsOK
  BY IdleOK DEF Init, TurnsOK, TurnOK
<1>2. \A t \in Slots : turn[t].pc = "idle"
  BY IdleOK DEF Init
<1>3. Waiting = {} /\ OpenTurns = {}
  BY <1>2 DEF Waiting, OpenTurns, Running
<1>4. QED
  BY <1>1, <1>3, FS_EmptySet, ChatAssumption DEF Init, Inv, Accounts

\* The invariant of the turns and of their accounts.
LEMMA InvHolds == Spec => []Inv
<1>1. Inv /\ [Next]_vars => Inv'
  BY TurnsStep, AccountsStep DEF Inv, Accounts
<1>2. QED
  BY <1>1, InvInit, PTL DEF Spec

-----------------------------------------------------------------------------
(* What holds of every turn *)

\* Every variable keeps its type, for any number of turns: more turns are never
\* accepted than asked for, nor charged than accepted (api/chat.py).
THEOREM ChatTypeCorrect == Spec => []TypeOK
<1>1. Inv => TypeOK
  <2> SUFFICES ASSUME Inv PROVE TypeOK
    OBVIOUS
  <2>1. Waiting \in SUBSET Slots /\ OpenTurns \in SUBSET Slots
    BY DEF Waiting, OpenTurns
  <2>2. Cardinality(Waiting) \in Nat /\ Cardinality(OpenTurns) \in Nat
    BY <2>1, TurnsFinite
  <2>3. /\ selected \in {"none", "local", "cloud"}
        /\ starts \in 0..MaxStarts /\ faults \in 0..MaxFaults
        /\ accepted \in 0..starts /\ charged \in 0..accepted /\ lost \in 0..faults
    BY <2>2, ChatAssumption DEF Inv, Accounts
  <2>4. ASSUME NEW t \in Slots
        PROVE  /\ turn[t].clouds \in 0..4
               /\ turn[t].pc \in PCs
               /\ turn[t].pc \in {"call", "served"} <=> turn[t].call.kind \in CallKinds
               /\ turn[t].ctx \in Contexts
               /\ {turn[t].text, turn[t].out} \subseteq ModelTexts \union OwnTexts
               /\ turn[t].shown <=> turn[t].out # "empty"
    <3>1. turn[t] \in TurnRecs /\ TurnOK(turn[t])
      BY DEF Inv, TurnsOK
    <3>2. turn[t].clouds \in 0..4
      BY <3>1 DEF TurnOK, TurnRecs, PCs, Fresh, CloudCount, Earlier
    <3>3. QED
      BY <3>1, <3>2 DEF TurnOK, TurnRecs, CallShape, ShownOK, Texts
  <2>5. QED
    BY <2>3, <2>4 DEF TypeOK, PCs
<1>2. QED
  BY <1>1, InvHolds, PTL

\* No model call with restricted text in its messages is served by the cloud,
\* the retries included (chat_orchestrator._decision_for_retrieval,
\* _retry_cloud_if_unknown).
THEOREM RestrictedTextStaysLocal == Spec => []SensitiveStaysLocal
<1>1. Inv => SensitiveStaysLocal
  BY DEF Inv, TurnsOK, TurnOK, KeptLocal, SensitiveStaysLocal
<1>2. QED
  BY <1>1, InvHolds, PTL

\* A turn is served by the cloud at most once, in the tool loop at most twice,
\* whatever other turns publish to the router between its calls.
THEOREM CloudCallsAreBounded == Spec => []CloudCallsBounded
<1>1. Inv => CloudCallsBounded
  <2> SUFFICES ASSUME Inv, NEW t \in Slots
               PROVE  turn[t].clouds <= IF turn[t].d.path = "loop" THEN 2 ELSE 1
    BY DEF CloudCallsBounded
  <2>1. turn[t] \in TurnRecs /\ TurnOK(turn[t])
    BY DEF Inv, TurnsOK
  <2>2. QED
    BY <2>1 DEF TurnOK, TurnRecs, PCs, Fresh, CloudCount, Earlier
<1>2. QED
  BY <1>1, InvHolds, PTL

\* No buffered turn shows the internal sentinel (chat_orchestrator.run).
THEOREM BufferedTurnsHideSentinel == Spec => []BufferedHidesSentinel
<1>1. Inv => BufferedHidesSentinel
  BY DEF Inv, TurnsOK, TurnOK, ShownOK, BufferedHidesSentinel
<1>2. QED
  BY <1>1, InvHolds, PTL

\* No turn in service mode shows a price (answer_grading).
THEOREM ServiceTurnsNeverQuote == Spec => []ServiceNeverQuotes
<1>1. Inv => ServiceNeverQuotes
  BY DEF Inv, TurnsOK, TurnOK, ShownOK, ServiceNeverQuotes
<1>2. QED
  BY <1>1, InvHolds, PTL

-----------------------------------------------------------------------------
(* The contract of the endpoint *)

PhaseOf == [t \in Slots |-> Phase(turn[t])]
SeenOf == [t \in Slots |-> turn[t].shown]

\* The initial state is one of the contract.
LEMMA ContractInit == Init => Contract!Init
<1> SUFFICES ASSUME Init PROVE Contract!Init
  OBVIOUS
<1>1. Phase(Idle) = "closed"
  BY IdleOK DEF Phase
<1>2. Idle.shown = FALSE
  BY DEF Idle
<1>3. \A t \in Slots : turn[t] = Idle
  BY DEF Init
<1>4. QED
  BY <1>1, <1>2, <1>3 DEF Init, Contract!Init

\* A turn's phase follows its program point.
LEMMA PhaseIs ==
  ASSUME NEW r
  PROVE  /\ r.pc \in {"idle", "snapshot"} => Phase(r) = "closed"
         /\ r.pc = "counted" => Phase(r) = "counted"
         /\ r.pc \in Running \union {"finally"} => Phase(r) = "open"
BY DEF Phase, Running

\* A step of a turn is a step of the contract, or one it does not see.
LEMMA ContractStep ==
  ASSUME Inv, [Next]_vars
  PROVE  [Contract!Next]_(Contract!vars)
<1>1. CASE UNCHANGED vars
  BY <1>1 DEF vars, Contract!vars
<1>2. CASE Next
  <2>1. PICK t \in Slots : \E q : Stepping(t, q)
    BY <1>2, NextSteps DEF Inv, Accounts
  <2>2. PICK q : Stepping(t, q)
    BY <2>1
  <2> DEFINE r == turn[t]
  <2>3. /\ turn \in [Slots -> TurnRecs] /\ turn' = [turn EXCEPT ![t] = q]
        /\ r \in TurnRecs /\ q \in TurnRecs /\ TurnOK(r) /\ TurnOK(q) /\ Moves(r, q)
    BY <2>2 DEF Stepping, Set, TurnOK, Inv, TurnsOK
  <2>4. /\ PhaseOf' = [PhaseOf EXCEPT ![t] = Phase(q)]
        /\ SeenOf' = [SeenOf EXCEPT ![t] = q.shown]
    BY <2>3 DEF PhaseOf, SeenOf
  <2>5. PhaseOf[t] = Phase(r) /\ SeenOf[t] = r.shown
    BY DEF PhaseOf, SeenOf
  <2>6. r.shown \in BOOLEAN /\ q.shown \in BOOLEAN
    BY <2>3 DEF TurnRecs
  <2>7. /\ r.pc \in {"idle", "snapshot", "counted", "plan"} => r.shown = FALSE
        /\ q.pc \in {"idle", "snapshot", "counted", "plan"} => q.shown = FALSE
    BY <2>3, <2>6 DEF TurnOK, Fresh
  <2>8. /\ PhaseOf = [u \in Slots |-> PhaseOf[u]] /\ SeenOf = [u \in Slots |-> SeenOf[u]]
    BY DEF PhaseOf, SeenOf
  <2> HIDE DEF r
  <2>9. CASE r.pc \in {"idle", "snapshot"} /\ q.pc \in {"idle", "snapshot"}
    <3>1. UNCHANGED <<PhaseOf, SeenOf, accepted, charged, lost>>
      BY <2>3, <2>4, <2>5, <2>7, <2>8, <2>9, PhaseIs DEF Moves, Running
    <3>2. QED
      BY <3>1 DEF Contract!vars, PhaseOf, SeenOf
  <2>10. CASE r.pc = "snapshot" /\ q.pc = "counted"
    <3>1. /\ PhaseOf[t] = "closed" /\ PhaseOf' = [PhaseOf EXCEPT ![t] = "counted"]
          /\ accepted' = accepted + 1 /\ UNCHANGED <<SeenOf, charged, lost>>
      BY <2>3, <2>4, <2>5, <2>7, <2>8, <2>10, PhaseIs DEF Moves, Running
    <3>2. Contract!Count(t)
      BY <3>1 DEF Contract!Count, PhaseOf, SeenOf
    <3>3. QED
      BY <3>2 DEF Contract!Next
  <2>11. CASE r.pc = "counted" /\ q.pc = "plan"
    <3>1. /\ PhaseOf[t] = "counted" /\ PhaseOf' = [PhaseOf EXCEPT ![t] = "open"]
          /\ UNCHANGED <<SeenOf, accepted, charged, lost>>
      BY <2>3, <2>4, <2>5, <2>7, <2>8, <2>11, PhaseIs DEF Moves, Running
    <3>2. Contract!Open(t)
      BY <3>1 DEF Contract!Open, PhaseOf, SeenOf
    <3>3. QED
      BY <3>2 DEF Contract!Next
  <2>12. CASE r.pc \in {"counted", "finally"} /\ q.pc = "idle"
    <3>1. /\ PhaseOf[t] \in {"counted", "open"}
          /\ PhaseOf' = [PhaseOf EXCEPT ![t] = "closed"]
          /\ SeenOf' = [SeenOf EXCEPT ![t] = FALSE]
          /\ UNCHANGED accepted
      BY <2>3, <2>4, <2>5, <2>7, <2>12, PhaseIs DEF Moves, Running
    <3>2. \/ ~SeenOf[t] /\ UNCHANGED <<charged, lost>>
          \/ SeenOf[t] /\ charged' = charged + 1 /\ UNCHANGED lost
          \/ SeenOf[t] /\ lost' = lost + 1 /\ UNCHANGED charged
      BY <2>3, <2>5, <2>7, <2>12 DEF Moves, Running
    <3>3. Contract!Close(t)
      BY <3>1, <3>2 DEF Contract!Close, PhaseOf, SeenOf
    <3>4. QED
      BY <3>3 DEF Contract!Next
  <2>13. CASE r.pc \in Running /\ q.pc \in Running \union {"finally"} /\ r.shown = q.shown
    <3>1. UNCHANGED <<PhaseOf, SeenOf, accepted, charged, lost>>
      BY <2>3, <2>4, <2>5, <2>8, <2>13, PhaseIs DEF Moves, Running
    <3>2. QED
      BY <3>1 DEF Contract!vars, PhaseOf, SeenOf
  <2>14. CASE r.pc \in Running /\ q.pc \in Running \union {"finally"} /\ r.shown # q.shown
    <3>1. q.shown = TRUE
      BY <2>3, <2>6, <2>14 DEF Moves, Running
    <3>2. /\ PhaseOf[t] = "open" /\ SeenOf' = [SeenOf EXCEPT ![t] = TRUE]
          /\ UNCHANGED <<PhaseOf, accepted, charged, lost>>
      BY <2>3, <2>4, <2>5, <2>8, <2>14, <3>1, PhaseIs DEF Moves, Running
    <3>3. Contract!Show(t)
      BY <3>2 DEF Contract!Show, PhaseOf, SeenOf
    <3>4. QED
      BY <3>3 DEF Contract!Next
  <2>15. QED
    BY <2>3, <2>9, <2>10, <2>11, <2>12, <2>13, <2>14 DEF Moves, Running
<1>3. QED
  BY <1>1, <1>2

\* However a turn ends, it was counted before any model work, showed text only
\* while it was open, and is charged once for what it showed, unless the charge
\* could not be written (api/chat.py generate).
THEOREM TurnsKeepContract == Spec => ImplementsContract
<1>1. Inv /\ [Next]_vars => [Contract!Next]_(Contract!vars)
  BY ContractStep
<1>2. QED
  BY <1>1, ContractInit, InvHolds, PTL DEF Spec, ImplementsContract, Contract!Spec
=============================================================================
