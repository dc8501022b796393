------------------------------ MODULE ChatTurn ------------------------------
(***************************************************************************)
(* Turns of POST /chat/stream (api/chat.py) run by the ChatTurnOrchestrator*)
(* (core/chat_orchestrator.py) on the one router of the process.           *)
(*                                                                         *)
(* The event loop switches turns only at an await, so an action is what a  *)
(* turn does between two of them: a whole answer is graded, repaired and   *)
(* either delivered or sent to a retry in the step that receives it.  The  *)
(* router is seen from its callers: which family served a call, and the    *)
(* selected route it last published, which is shared by all turns.         *)
(***************************************************************************)
EXTENDS ChatPolicy

CONSTANTS
  Asked,             \* the decisions the requests of an instance lead to
  Slots,             \* turns that may be open at once
  Limit,             \* CHAT_IP_LIMIT
  MaxStarts,         \* bound: requests that arrive
  MaxFaults          \* bound: usage writes that fail or are cancelled again

ASSUME ChatAssumption ==
  /\ Asked \subseteq Decisions
  /\ IsFiniteSet(Slots) /\ Slots # {}
  /\ Limit \in Nat \ {0} /\ MaxStarts \in Nat /\ MaxFaults \in Nat

VARIABLES
  turn,              \* the turn each slot runs
  selected,          \* the route family the router last published
  starts, faults,    \* requests and faults so far
  accepted,          \* chat_usage rows with input tokens, in the window
  charged, lost      \* turns whose shown text was, or could not be, charged

vars == <<turn, selected, starts, faults, accepted, charged, lost>>

Contexts == {"none", "empty", "open", "restricted"}
CallKinds == {"main", "tools", "missed", "final", "stream", "retry", "again"}

\* No model call is out.
NoCall == [kind |-> "none", cloud |-> FALSE, eligible |-> TRUE,
           carries |-> "none", by |-> "none"]

Idle == [pc |-> "idle", snap |-> 0, d |-> Refusal, repeat |-> FALSE,
         ctx |-> "none", call |-> NoCall, text |-> "empty", reason |-> "ok",
         out |-> "empty", shown |-> FALSE, clouds |-> 0]

Init ==
  /\ turn = [t \in Slots |-> Idle]
  /\ selected = "none"
  /\ starts = 0 /\ faults = 0 /\ accepted = 0 /\ charged = 0 /\ lost = 0

Set(t, r) == turn' = [turn EXCEPT ![t] = r]

-----------------------------------------------------------------------------
(* Accepting a request *)

\* chat_usage_snapshot: the counts the limits are compared with
Arrive(t) ==
  /\ turn[t].pc = "idle" /\ starts < MaxStarts
  /\ starts' = starts + 1
  /\ Set(t, [turn[t] EXCEPT !.pc = "snapshot", !.snap = accepted])
  /\ UNCHANGED <<selected, faults, accepted, charged, lost>>

\* _enforce_chat_abuse_limits: 429, or the accepted request is counted
\* before any model work.
Enforce(t) ==
  /\ turn[t].pc = "snapshot"
  /\ \/ /\ turn[t].snap >= Limit
        /\ Set(t, Idle) /\ UNCHANGED accepted
     \/ /\ turn[t].snap < Limit
        /\ Set(t, [turn[t] EXCEPT !.pc = "counted", !.snap = 0])
        /\ accepted' = accepted + 1
  /\ UNCHANGED <<selected, starts, faults, charged, lost>>

\* plan(): a tool loop is given up at once when no route can call tools.
Planned(d) == {d} \union (IF d.path = "loop" THEN {[d EXCEPT !.path = "backend"]} ELSE {})

\* The conversation is found (or the request ends in a 404), the intake, the
\* user's message and the history are stored and read, and the stream opens.
Open(t) ==
  /\ turn[t].pc = "counted"
  /\ \/ Set(t, Idle)
     \/ \* the second directional text matters only where an answer is graded
        \E d0 \in Asked, repeat \in BOOLEAN : \E d \in Planned(d0) :
          Set(t, [turn[t] EXCEPT !.pc = "plan", !.d = d,
                                 !.repeat = repeat /\ ~d.service /\ d.retrieve])
  /\ UNCHANGED <<selected, starts, faults, accepted, charged, lost>>

-----------------------------------------------------------------------------
(* Model calls *)

Eligible(ctx) == ctx # "restricted"

NarrowedNot(d, ctx) == d

\* _decision_for_retrieval: a restricted context takes the cloud away
Narrowed(d, ctx) == [d EXCEPT !.cloud = d.cloud /\ Eligible(ctx)]

\* The turn awaits router.chat with a context in its messages, and tells the
\* router whether the cloud may serve it.
Calling(r, kind, cloud, carries) ==
  [r EXCEPT !.pc = "call",
            !.call = [kind |-> kind, cloud |-> cloud,
                      eligible |-> Eligible(carries), carries |-> carries,
                      by |-> "none"]]

\* _retrieve and KnowledgeRetriever.retrieve: nothing when the decision does
\* not ask for it, otherwise what the knowledge base (or its cache) holds.
Retrieved(d) ==
  IF d.retrieve /\ d.allowed THEN {"empty", "open", "restricted"} ELSE {"none"}

\* The context that the messages of run() and of its retries carry: the tool
\* loop keeps what it retrieved in messages of its own.
Carried(r) == IF r.d.path = "loop" THEN "none" ELSE r.ctx

\* What is left of a turn once its text is computed or it was cut short: where
\* it went and what its client saw.
Over(r, pc) ==
  [Idle EXCEPT !.pc = pc, !.out = r.out, !.shown = r.shown,
               !.d = [Refusal EXCEPT !.path = r.d.path, !.service = r.d.service]]

\* The last text stream() yields goes to the client at once.
Deliver(r, x) ==
  IF x = "empty" THEN Over(r, "persist")
  ELSE Over([r EXCEPT !.out = x, !.shown = TRUE], "persist")

\* Start of stream()/run(): refuse, or build the messages of the turn.
Start(t) ==
  /\ turn[t].pc = "plan"
  /\ \/ /\ turn[t].d.path = "refuse"
        /\ Set(t, Deliver(turn[t], "refusal"))
     \/ /\ turn[t].d.path \in {"backend", "stream"}
        /\ \E ctx \in Retrieved(turn[t].d) :
             LET d == Narrowed(turn[t].d, ctx) IN
             Set(t, Calling([turn[t] EXCEPT !.ctx = ctx, !.d = d],
                            IF d.path = "stream" THEN "stream" ELSE "main",
                            d.cloud, ctx))
     \/ /\ turn[t].d.path = "loop"
        /\ Set(t, Calling(turn[t], "tools", turn[t].d.cloud, "none"))
  /\ UNCHANGED <<selected, starts, faults, accepted, charged, lost>>

\* A provider answers: a cloud one only if the call allows the cloud and its
\* context is eligible (_route_allowed); a retry prefers the cloud.
Serve(t) ==
  /\ turn[t].pc = "call"
  /\ \E by \in {"local", "cloud"} :
       /\ by = "cloud" => turn[t].call.cloud /\ turn[t].call.eligible
       /\ Set(t, [turn[t] EXCEPT !.pc = "served", !.call.by = by,
                                 !.clouds = IF by = "cloud" THEN @ + 1 ELSE @])
       /\ selected' = by
  /\ UNCHANGED <<starts, faults, accepted, charged, lost>>

-----------------------------------------------------------------------------
(* What the orchestrator does with an answer *)

\* _retry_cloud_if_unknown sends the turn to the cloud once more
MayRetry(r, x, sel) == Unknown(x) /\ r.d.cloud /\ sel # "cloud"

\* The retry passes no eligibility, so the router takes the default.
Retrying(r, kind, x, reason) ==
  [Calling(r, kind, TRUE, Carried(r)) EXCEPT
     !.call.eligible = TRUE, !.text = x, !.reason = reason]

FinalAsIs(r, x, reason) == Deliver(r, x)

\* The end of the ladder: _fallback_after_repair for what is still inadequate
Final(r, x, reason) ==
  Deliver(r, IF reason = "ok" THEN x
                ELSE FallbackAfterRepair(x, reason, r.d, r.repeat))

\* Grade and repair; an answer that was repaired away gets a second retry.
Judge(r, x, sel) ==
  LET reason == Grade(x, r.d, r.ctx)
      repaired == Repair(x, reason)
  IN IF reason = "ok" THEN Deliver(r, x)
     ELSE IF MayRetry(r, repaired, sel) THEN Retrying(r, "again", repaired, reason)
     ELSE Final(r, repaired, reason)

\* run() outside the tool loop replaces an unknown answer before grading it
Settle(r, x, sel) ==
  Judge(r, IF r.d.path = "loop" THEN x ELSE FallbackGeneral(x, r.d, r.repeat), sel)

Answered(r, x, sel) ==
  IF MayRetry(r, x, sel) THEN Retrying(r, "retry", x, "ok") ELSE Settle(r, x, sel)

\* stream(): what was shown is corrected, what was held back is delivered.
\* A repaired answer is graded again, as the unknown answer it became.
StreamEnded(r, x, sel) ==
  LET fallback == FallbackGeneral(x, r.d, r.repeat)
      reason == Grade(x, r.d, r.ctx)
      repaired == Repair(x, reason)
  IN IF fallback # x THEN Deliver(r, fallback)
     ELSE IF reason = "ok" THEN Deliver(r, IF r.shown THEN "empty" ELSE x)
     ELSE IF MayRetry(r, repaired, sel) THEN Retrying(r, "again", repaired, reason)
     ELSE Final(r, repaired, Grade(repaired, r.d, r.ctx))

\* The retry's answer counts only if the cloud gave it and it is not empty.
RetryText(r, x, sel) == IF sel # "cloud" \/ x = "empty" THEN r.text ELSE x

RetriedUngraded(r, x, sel) == Deliver(r, RetryText(r, x, sel))

RetriedAgain(r, x, sel) ==
  LET got == RetryText(r, x, sel)
      reason == IF r.d.path = "stream" \/ got # r.text
                THEN Grade(got, r.d, r.ctx) ELSE r.reason
  IN Final(r, got, reason)

\* _run_model_tool_loop.  Without a retrieval by the tool the backend
\* retrieves and asks once more; the loop's own narrowing of the decision does
\* not reach the caller, whose retries do not carry the retrieved text.
LoopCall(r, kind) ==
  {Calling([r EXCEPT !.ctx = ctx], kind, Narrowed(r.d, ctx).cloud, ctx) :
     ctx \in Retrieved(r.d)}

\* A tool request is executed, or rejected for its name or its arguments.
AfterTools(r, x) ==
  LoopCall(r, "missed") \union (IF x = "toolcall" THEN LoopCall(r, "final") ELSE {})

\* The states a turn may go to with the answer x of its call, when the router
\* says that sel was selected last.
Continue(r, x, sel) ==
  CASE r.call.kind = "tools"  -> AfterTools(r, x)
    [] r.call.kind = "final"  -> {Answered(r, IF x = "toolcall" THEN "unknown" ELSE x, sel)}
    [] r.call.kind \in {"main", "missed"} -> {Answered(r, x, sel)}
    [] r.call.kind = "stream" -> {StreamEnded(r, x, sel)}
    [] r.call.kind = "retry"  -> {Settle(r, RetryText(r, x, sel), sel)}
    [] r.call.kind = "again"  -> {RetriedAgain(r, x, sel)}

\* What a provider may answer.  A stream that has shown text can no longer
\* turn out to be a sentinel; one that has not held back a prefix of one.
Endings(r) ==
  CASE r.call.kind = "tools" -> {"plain", "toolcall"}
    [] r.call.kind = "final" -> ModelTexts \union {"toolcall"}
    [] r.call.kind = "stream" ->
         IF r.shown THEN {"plain", "handoff"}
         ELSE {"unknown", "legacy", "empty", "plain"}
    [] OTHER -> ModelTexts

RepublishedNot(t) == selected

\* _finish_generation publishes the call's own diagnostics once more
Republished(t) == turn[t].call.by

\* The call returns, and the orchestrator reads what the router published
\* before it awaits anything else.
Return(t) ==
  /\ turn[t].pc = "served"
  /\ selected' = Republished(t)
  /\ \E x \in Endings(turn[t]) :
       \E r \in Continue(turn[t], x, Republished(t)) : Set(t, r)
  /\ UNCHANGED <<starts, faults, accepted, charged, lost>>

\* No route served the call: the degraded text is returned.  The call itself
\* published that nothing was selected, but what the orchestrator reads may be
\* what another turn published since.
Degraded(t) ==
  /\ turn[t].pc = "call"
  /\ \E sel \in {"none", selected} :
       \E r \in Continue(turn[t], "plain", sel) : Set(t, r)
  /\ UNCHANGED <<selected, starts, faults, accepted, charged, lost>>

\* A chunk of the stream that cannot be the start of a sentinel is shown.
Chunk(t) ==
  /\ turn[t].pc = "served" /\ turn[t].call.kind = "stream"
  /\ ~turn[t].shown
  /\ Set(t, [turn[t] EXCEPT !.shown = TRUE, !.out = "plain"])
  /\ UNCHANGED <<selected, starts, faults, accepted, charged, lost>>

-----------------------------------------------------------------------------
(* The end of a turn *)

\* generate(): the assistant message is stored, or its failure is logged.
Persist(t) ==
  /\ turn[t].pc = "persist"
  /\ Set(t, [turn[t] EXCEPT !.pc = "finally"])
  /\ UNCHANGED <<selected, starts, faults, accepted, charged, lost>>

CancelDropped(t) ==
  /\ turn[t].pc \in {"plan", "call", "served", "persist"}
  /\ Set(t, Idle)
  /\ UNCHANGED <<selected, starts, faults, accepted, charged, lost>>

\* The client goes away, or the stream raises: the rest of the turn is
\* skipped, and generate() goes on with its finally block.
Cancel(t) ==
  /\ turn[t].pc \in {"plan", "call", "served", "persist"}
  /\ Set(t, Over(turn[t], "finally"))
  /\ UNCHANGED <<selected, starts, faults, accepted, charged, lost>>

\* record_output_usage in the finally block
RecordUsage(t) ==
  /\ turn[t].pc = "finally"
  /\ charged' = IF turn[t].shown THEN charged + 1 ELSE charged
  /\ Set(t, Idle)
  /\ UNCHANGED <<selected, starts, faults, accepted, lost>>

\* The write fails and is logged, or the task is cancelled again in it.
UsageLost(t) ==
  /\ turn[t].pc = "finally" /\ turn[t].shown /\ faults < MaxFaults
  /\ faults' = faults + 1
  /\ lost' = lost + 1
  /\ Set(t, Idle)
  /\ UNCHANGED <<selected, starts, accepted, charged>>

-----------------------------------------------------------------------------
Step(t) ==
  \/ Enforce(t) \/ Open(t) \/ Start(t) \/ Serve(t) \/ Return(t)
  \/ Degraded(t) \/ Persist(t) \/ RecordUsage(t)

Next ==
  \E t \in Slots : Arrive(t) \/ Step(t) \/ Chunk(t) \/ Cancel(t) \/ UsageLost(t)

Spec == Init /\ [][Next]_vars

-----------------------------------------------------------------------------
(* Properties *)

\* The variables have their types: every turn holds a decision, a context
\* and a call that exist, and the counters stay within the bounds.
TypeOK ==
  /\ selected \in {"none", "local", "cloud"}
  /\ starts \in 0..MaxStarts /\ faults \in 0..MaxFaults
  /\ accepted \in 0..starts /\ charged \in 0..accepted /\ lost \in 0..faults
  /\ \A t \in Slots :
       /\ turn[t].clouds \in 0..4
       /\ turn[t].pc \in {"idle", "snapshot", "counted", "plan", "call", "served",
                          "persist", "finally"}
       /\ turn[t].pc \in {"call", "served"} <=> turn[t].call.kind \in CallKinds
       /\ turn[t].ctx \in Contexts
       /\ {turn[t].text, turn[t].out} \subseteq ModelTexts \union OwnTexts
       /\ turn[t].shown <=> turn[t].out # "empty"

\* A model call whose messages hold text retrieved from a restricted source is
\* never served by a cloud provider: not the first call of a turn, nor the calls
\* of the tool loop, nor the retries, which tell the router nothing about the
\* context (chat_orchestrator._decision_for_retrieval, _retry_cloud_if_unknown).
SensitiveStaysLocal ==
  \A t \in Slots : turn[t].call.by = "cloud" => turn[t].call.carries # "restricted"

\* A turn outside the tool loop is served by the cloud at most once, one in it
\* at most twice, however its answers are judged: the route the orchestrator
\* reads after a call is the one that served it, although every turn of the
\* process publishes to the same field of the router
\* (_last_selected_route_was_cloud, router._finish_generation).
CloudCallsBounded ==
  \A t \in Slots : turn[t].clouds <= IF turn[t].d.path = "loop" THEN 2 ELSE 1

\* A buffered turn never shows the internal sentinel to its client, whatever
\* the model and the retries answered (chat_orchestrator.run).
BufferedHidesSentinel ==
  \A t \in Slots : turn[t].d.path = "backend" => turn[t].out # "unknown"

\* A turn in service mode never shows a price, however often the answer was
\* retried (answer_grading._has_forbidden_service_commercial_claim).
ServiceNeverQuotes ==
  \A t \in Slots : turn[t].d.service => turn[t].out # "pricey"

\* The turns implement the contract of the endpoint: counted before any model
\* work, shown only while open, and charged exactly once when they end, unless
\* the charge could not be written, for every way a turn can end.
Phase(r) ==
  CASE r.pc \in {"idle", "snapshot"} -> "closed"
    [] r.pc = "counted" -> "counted"
    [] OTHER -> "open"

Contract == INSTANCE TurnContract WITH
  phase <- [t \in Slots |-> Phase(turn[t])],
  seen <- [t \in Slots |-> turn[t].shown],
  counted <- accepted

ImplementsContract == Contract!Spec
=============================================================================
