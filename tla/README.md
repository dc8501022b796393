# Gestalt Workframe: TLA+ models, model checking and proofs

This directory holds TLA+ models of the parts of Gestalt Workframe in which
several activities share state: the LLM router and the cloud budget gate in front
of every paid provider, the chat turn that calls them, discovery and the curation
of what it finds, the newsletter, the API keys, the public forms with their
subscriber list, and the pull-request reviewer of CI. Each module is a translation
of the Python code named in its header; `PROJECT.json` maps every definition to its
lines, lists the runs, the mutants that show each property can fail, the hazards
the properties are aimed at, the disagreements between code and documentation, and
the theorems that are proved.

## 1. The system

A FastAPI process (one asyncio loop, one SQLite file) answers chat turns from
local or paid cloud models, keeps a library of discovered material fresh, and
mails a newsletter. A hosted workflow calls its admin endpoints every hour.

| Component | State it keeps | Operations | Hard behaviours |
|---|---|---|---|
| LLM router (`core/router.py`, `core/runtime.py`) | enabled routes, strategy, error counts and breakers, generation counters | `chat`, `stream_chat`, route and strategy switches, health probes | concurrent turns at every await, cancellation, failing providers, operator switches mid-turn |
| Cloud budget gate (`core/cloud_budget.py`) | counters, usage events and accounting block in SQLite; lock and `_store_ready` in memory | `reserve`, `record_usage`, `availability`, `clear_accounting_block`, config switch | check and increment over awaits, usage recorded after the fact, database faults, restarts, midnight |
| Chat turn (`core/chat_orchestrator.py`, `core/orchestrator.py`, `api/chat.py`) | conversations, usage events, the router's published route | admission, planning, retrieval, tool loop, stream, grade, repair, retry | disconnects at any await, diagnostics shared by all turns, soft caps |
| Discovery scheduler (`core/discovery_scheduler.py`, handlers) | sources, validators, finds | reconcile seed, poll, persist, record | overlapping passes, rollback in the middle of a batch, the one write lock held over network calls |
| Discovery queue and library (`core/discovery_queue.py`, `kb/`) | finds and their flags; files on GitHub; documents in Chroma | decide, promote, unpublish, withdraw, purge, feature, queue, dismiss | three stores without a common transaction, two reviewers |
| Newsletter (`core/newsletter.py`) | issues, tags of finds, deliveries | draft, compose, tag, approve, cancel, unpublish, delete, dispatch | two dispatchers, ORM read-then-write, unique numbers, crash in the send loop |
| Keys (`core/key_store.py`, `core/provider_registry.py`, `core/key_validation_monitor.py`) | encrypted rows, live providers, failures and alerts | store, delete, test, rotate, export, import, restart | rotation one provider at a time, two admin tokens, de-duplication races |
| Public forms (`api/contact.py`, `api/newsletter_public.py`, `api/intake.py`, `core/subscribers.py`, `core/retention.py`) | contacts, subscribers, tokens, auto-reply audit, intakes | submit, sign up, unsubscribe, save intake, sweep | check then mail then write, token rotation, failed commits |
| Pull-request reviewer (`.github/scripts/claude_review.py`) | listing, diffs, chunks, part reviews, status | list, fetch, cut, review in a pool, merge, grade | pushes during the run, a pool of threads, any request failing |
| Catalog, lanes, resolver; connectors; MCP server; migrations; web; deployment scripts | - | - | outside the shared state (section 5) |

How they interact: the chat turn calls the router; the router takes a generation
slot, then asks the budget gate for a reservation, then calls the provider, then
records usage. The admin API switches routes, strategies and spillover, clears
accounting blocks and rotates keys while turns are running. Discovery writes the
finds that the queue curates and the newsletter tags, snapshots and stamps; queue
and newsletter both write the flags of a find. The forms write the subscriber list
the dispatchers mail. Dispatchers and discovery passes run inside admin requests,
so two may run at once.

What makes the parts correct: slots and limits are never violated and never leak;
context that may not leave the host does not; an answer comes from one model and is
judged before it is shown where the code promises that; caps hold for any
interleaving and over restarts; usage that was lost stops further spend; everything
a watched feed lists is stored in the end; row, repository and index agree; no
reader gets an issue the operator did not approve, and every mailed link works;
nothing that is due waits for ever; a green check means the diff was read.

## 2. Modules

| Module | Models | Checked by | Proofs |
|---|---|---|---|
| `Router` | `LLMRouter.chat` / `stream_chat` with slots, breakers, switches | `MCRouter` | `RoutingProofs` |
| `CloudBudget` | `CloudBudgetGate`, and the wrapper's `record_usage` | `MCCloudBudget` | `RoutingProofs` |
| `ChatPolicy` | routing frame, decision, tool policy and answer grading as operators | through `ChatTurn` | - |
| `ChatTurn` | `POST /chat/stream` and `ChatTurnOrchestrator`; extends `ChatPolicy` | `MCChatTurn` | `ChatTurnProofs` |
| `TurnContract` | the abstract promise of a turn, which `ChatTurn` refines | through `ChatTurn` | `ChatTurnProofs` |
| `Discovery` | `run_one_pass` and what it awaits, with the handlers | `MCDiscovery` | `DiscoveryProofs` |
| `Library` | curation requests over a find's row, GitHub and Chroma | `MCLibrary` | `LibraryProofs` |
| `Newsletter` | issues, finds, dispatchers, operators, subscribers as a set | `MCNewsletter`, `MCNewsletterFinds` | `NewsletterProofs` |
| `Keys` | key store, key endpoints, provider instances and synthesized routes, backup | `MCKeys` | `KeysProofs` |
| `KeyMonitor` | the alerts over refused keys | `MCKeys` | `KeysProofs` |
| `Intake` | public forms, subscribers, auto-reply, terminal intake, sweep | `MCIntake` | `IntakeProofs` |
| `Review` | the pull-request reviewer and the gate behind it | `MCReview` | `ReviewProofs` |

### Router

A turn is a program counter over the suspension points of the two loops: `start`
and `probe` (`_reset_breaker_if_healthy`), `order` (`_ordered_routes`), `next` (head
of the loop), `health` (`_local_route_callable`), `slot` (`_generation_slot`),
`local`, `spend`, `cloud` (a slot is held and something is awaited). Code between
two awaits is one action: the process is a single event loop. Scores, lanes and the
`prefer_*` strategies only order routes, so a turn keeps the set of routes left to
try and takes any of them next; the resolver may add any subset of `Synth`, and
cached health may drop any local route. Error counts saturate at the threshold,
which is all the code compares them with. `Cancel` is a client disconnect: only the
`finally` of the slot runs, since `CancelledError` is not an `Exception`.

### CloudBudget

`reserve` is `wait` (queueing on the lock), `gate` (init, accounting block, keys),
`check` (counters and usage), `commit` (three upserts in one transaction);
`record_usage` runs outside the lock. A database access may fail (`Fault`, at most
`MaxFaults`); a failed commit may or may not have taken effect. Counters, usage sums
and the block survive `Restart`; the lock and `_store_ready` do not. Money is in
abstract units. `Calls` are the cloud generation slots of the router: by
`Router!ConcurrencyLimits` at most `MaxCloud` turns are at the gate at once, which
is what makes `SpendBounded` a bound. A cap of 0 is
no cap, as in the code (the repository's README says it blocks). `multi` says whether the gate is wrapped in
the `MultiProviderBudgetGate` that `api/services.py` always builds; the router has a
branch for a bare gate too, and `Wirings` names the wirings of an instance. The caps
hold in both. Behind the wrapper usage is recorded nowhere (`RecordDropped`): recorded
spend stays 0 there, so that `SpendBounded`, which is about recorded spend, says
something of the bare gate only, and `LostUsageBlocks`, which is what the operator's
documents promise, is violated (`budget_wrapped`). History
variables: `granted`, `lost`, `sinceBlock`. The specification is `GateSpec` over
`gateVars` (`stage` is where a call is, `spillover` is `config.enabled`), so that
one proof module can hold the theorems of the router and of the gate it calls.

### Newsletter

Admin requests load rows, then write the attributes they changed: two actions, with
what was read kept in `job[e]` (the engine sets `expire_on_commit=False` and holds no
lock in between). Bulk updates with a WHERE (`approve_and_schedule`,
`cancel_scheduled_send`, the dispatcher's flip) are one action. A dispatcher goes
through `loop`, `snapshot`, `number`, `send`; `due` is the list it read once. Dates
are reduced to whether the scheduled time has passed, and a label to its epoch and
letter. A crash is followed by the start of the server, whose `init_db` may create a
catch-up draft for queued finds. `mails` and `licence` are history: mails per reader, and approvals less
cancelled ones. So is `crossed`: the finds that two requests (two operators, or one and
the daily cycle's `auto_populate_draft`) were about to write at once, or that one was
tagging onto the issue another was deleting. There updates are lost and finds stay
tagged to a deleted row, and `FindsCoherent` excepts those finds and no other.

### ChatPolicy, ChatTurn and TurnContract

`ChatPolicy` has the if/return ladders of the planning code as ordered rules over
the signal groups a message falls in, and the grading rules over what kind of text
an answer is. A turn of `ChatTurn` is a record in a slot: its decision, the context
retrieval gave it, the model call that is out and what its client has seen. An
action is what happens between two awaits, so grading, repair and the choice of a
retry are one step with the answer that causes them. The router appears as its
callers see it: which family served a call, and the selected route it published
last, one field for all turns. `Phase` maps a turn to `TurnContract`, whose
variables are the phase of each slot, whether text was seen, and the counts of
accepted, charged and lost turns; `ImplementsContract` is that refinement.

### Discovery

A pass is `run_one_pass`: reconcile the seed, read the due sources, poll them
concurrently, then store and record source by source. Passes overlap, since the lock
of the endpoint only guards the time of the last start. SQLite's write lock is a
variable: taken by the first flush, given back by commit or rollback, and an error
for whoever waits too long. An upstream is a version number and a handler is what a
poll of that version lists and which validator it stores; the watch types differ in
both. A version in `Unparsed` lists nothing and still has its validator stored, as
the feed handlers do with a body they cannot parse; a pass selects at most
`PassLimit` sources. A collision rolls the whole batch back and expires the source row, as the
session does.

### Library

A curation request is load, changes to the stores, commit. The commit writes the
columns it changed over what the row has become (`Written`). GitHub and Chroma may
fail, or do the work and lose the answer, purging included. The row's library URL
comes and goes with its flag, so that a guard on both is modelled by the flag. `raced` and `troubled` are history: finds
on which two requests overlapped, or that a fault hit half-way; the properties name
them as their only excuses.

### Keys and KeyMonitor

A row is a key with the admin token that encrypts it, because the endpoints encrypt
with one token and the boot reads with another. Rotation lists the routes there are
(`AllRoutes`) and sets them one by one. A route in `Catalog` has no provider until a
turn wants its model; then `Synthesize` builds it on the environment's key, whatever
is stored, and a rotation that listed its routes before passes it by. `drift`
collects the ways the code has of leaving a live route on another key than
`effective_key` names; `LiveMatchesStore` says that the model, which has every
action that writes a row or a provider's key, has no other.
The admin rate limiter's token bucket guards the endpoints.

`KeyMonitor` shares no variable with it: that a provider refused a key is its input.
A check records the refusal, counts those of the last hour, looks for an alert on
record, sends and records the alert, each at its own await and with the time it read
at one before; a clock (`now`, `Hour`) may tick between any two of them. Refusals and
alerts age each by its own time stamp. Any of the database accesses may fail: the look
for an alert then goes on to send, as in the code. History: `counted` and `latest`
(the hour of the last count, the latest alert), `missed` (counts and webhook calls
that failed), `sent` and `loose` (alerts since one on record ran out, and those of
them that no record held back or kept).

### Intake

A request reads ORM rows into `snap` and commits what it changed relative to it; an
insert that collides, a commit that fails and a mail API that refuses are outcomes
of their step. Ages are reduced to the windows the code compares with. Mails carry
the token they were sent with, so that `MailedLinkWorks` can compare it with the
row. `Sweep` is `retention_sweep` as the module defines it.

### Review

The script's program counter goes through listing (a page is a file), fetching from
the API or from git, cutting, the pool of part reviews, the merge and the status.
A pull request may be pushed to until its listing has ended: what a later push
brings gets a run of its own, and the state of the script does not depend on it.
A push puts files in, takes files out and edits files, in any combination.
`grew` and `shrank` are history: whether a push put files in, or took files out,
since their number was read; so is `stale`: the files edited since the script took
their diff, or since it fetched the head that git diffs against. A diff is the sizes
of its hunks as the script has them, and `chunk_diff` is
translated on those. Every request has the outcomes the code
tells apart, and writing the status at the end may fail too. Redaction, prompts and prices are left out.

## 3. Runs

Eleven runs pass, and each of their properties has a mutant that breaks it; one,
`budget_wrapped`, shows a documented property violated.

| Run | Instance | Properties |
|---|---|---|
| `router_slots` | two turns, a local and a cloud route | `SlotsConserved`, `ConcurrencyLimits`, `BreakerConsistent`, `EveryTurnEnds` |
| `router_turn` | one turn, every request and strategy, four kinds of route | `PrivacyHolds`, `NoMixedAnswer` |
| `budget` | two calls over midnight, two faults, restarts, wrapped and bare gate | `CallCapsHold`, `CountersCoverGrants`, `SpendBounded`, `BlockStopsSpend`, `EveryReserveDecided` |
| `budget_wrapped` | a call at the gate as the services wire it | `LostUsageBlocks` (violated) |
| `newsletter_send` | two issues, two dispatchers, an operator | `StrandedOnlyByFault`, `DueIssueSettles` |
| `newsletter_finds` | an issue, a find, two editors who may write it at once, two dispatchers, a fault | `SendsAreApproved`, `FindsCoherent` |
| `discovery` | two passes over a feed with a broken version and a page (or other watch types), a fault | `ValidatorCovered`, `NothingLost`, `LockReleased` |
| `library` | two requests at a time on an event and a proposed source, a fault | `ShelfMatchesRow`, `FlagHasDocument`, `DismissedIsHidden`, `PromotedLeavesQueue`, `UnpublishRemoves` |
| `chat` | two open turns with every decision, a failing write | `SensitiveStaysLocal`, `CloudCallsBounded`, `BufferedHidesSentinel`, `ServiceNeverQuotes`, `ImplementsContract` |
| `keys` | two requests at a time, four routes, one synthesized, restarts, backup, a fault; two checks at a time under a clock, two faults | `LiveMatchesStore`, `AlertFires`, `AlertsBounded` |
| `intake` | two submissions at a time, clicks, mails, sweeps, a fault | `MailedLinkWorks`, `RepliesBounded` |
| `review` | up to three files, one of them not reviewed, two workers, two pushes of any kind | `GreenMeansRead`, `ChunksCoverDiff`, `AlwaysGraded` |

The type invariants of `Router`, `CloudBudget` and `Newsletter` are checked by their
runs too; `TypeOK` of the other modules documents their state and is the first
conjunct of their inductive invariants.

**Findings.** Where the code disagrees with what a comment or the documentation
says, the model follows the code, the property states what does hold and names the
exception, and `findings` in `PROJECT.json` quotes both sides. In short:

* budget: a provider with its own gate can never be used (the router calls `reserve`
  on an object that has none); behind the wrapper, which every deployment has, no usage
  is recorded and lost usage blocks nothing (`budget_wrapped`); USD caps
  ignore calls in flight;
* newsletter: unpublishing can return a sent issue to the operator; dismissing a
  tagged find does not take it out of the issue; deleting an issue leaves finds tagged
  to it that another request was tagging; the catch-up draft of a start ignores
  open drafts and can collide with one, and the process then does not start;
* chat: a retried answer that is inadequate again, or the sentinel itself, can be
  shown on the paths that are not buffered; the cap on cloud calls per turn is
  compared with 1 and never counted;
* discovery: a collision drops rows whose documents are already in the index, until
  a later pass; `decide_find` accepts a find in any status;
* keys: the environment wins over the store at boot; deleting a key without an
  environment key leaves it live; rows are written under one token and read under
  another; the Gemini route looks its key up under another provider's id; an import
  never skips; a route synthesized at run time ignores the stored key; an alert that
  was slow to send may replace a later one on record, and the next check sends again;
* forms: the retention endpoint raises before it sweeps; a failed auto-reply is
  recorded as skipped; overlapping submissions of one unsubscribed address leave one
  of two mailed links dead;
* reviewer: a refused base URL ends the script without a status; two kinds of push
  during the listing are not noticed: those that put as many files in as they take
  out, and those that edit a file whose diff the script has.

**Bounds.** Router: two turns are enough for every race on the shared counters and
breakers (each action touches one turn and the shared state), and `router_turn` has
one turn but all 96 requests, three strategies and all route kinds; the theorems
cover any number of both. Budget: two calls of one session over two days of one month,
caps between 1 and 4 so that each is reached and passed by a call too many, two faults
because the accounting write itself may fail, both wirings of the gate; a smaller
instance is enough for `budget_wrapped`, as one lost usage record breaks it. Newsletter: `newsletter_send` needs two
issues for a collision of ship numbers and one attempt, because using up three
attempts takes as many issues sent in between; faults are left to
`newsletter_finds`, which has one issue, two attempts, two approvals (a re-approval
after a revert), one fault, and two editors, whose drafts collide on a label. Its
state space is cut in two (the constraint `Uncrowded`): either one dispatcher
runs at a time and there are no readers, or no find has been touched; the
first has everything about two editors, the second about two dispatchers, and the
theorems have no such restriction. Discovery: two passes are what overlap, two
versions are what a validator tells apart (one of the feed's does not parse), and one fault of any kind (a crash, a
failed fetch, a lock timeout, an operator's edit) may fall anywhere. Library: two
finds, since a candidate and an event are curated differently, two requests in
flight, four started (enough for publish, fault, unpublish and one more), one fault.
Chat: two slots for races on the published route, three requests, a limit of one so
that admission is refused and passed at once. Keys: two routes of one provider so
that a rotation takes two steps and one that is synthesized, three requests or
restarts, a bucket of one; the monitor has a threshold of two reached by concurrent
failures, an hour of two ticks on a clock of four, so that refusals and an alert run
out at different times, four checks, and two faults, since a look that fails has to
meet another. A behaviour runs the store or the monitor (`EitherSpec`), which share no variable. Intake: one address, since rows of
different addresses do not meet, two requests in flight of three, one failing
commit. Review: two files to review and one the filter drops;
two pushes, the least that can add and remove files in two steps (one to the pull
request of three parts, whose pool has the most interleavings: `PacedPush`); and four shapes of a
diff, with a file without hunks, files that share a chunk, a cut between hunks, a hunk
that fills a chunk and one longer than a chunk. Other shapes are the theorem's matter.

**Deadlock** is not checked (`CHECK_DEADLOCK FALSE`) where the model may rest: the
bounds on issues, passes and requests are used up, or the script has ended.

**Fairness.** `Router!FairSpec`: a turn that can take a step does, since every provider
client sets a timeout and the loop runs ready tasks; new chunks, cancellations and
operators are not fair. `CloudBudget!GateFairSpec`: each database await inside `reserve`
ends, and strong fairness on entering, because `asyncio.Lock` serves its waiters in
order. `Newsletter!FairSpec`: dispatchers run, since the hourly workflow starts them
and statements and mails have timeouts. `Discovery!FairSpec`: the same workflow keeps
calling run-once, every fetch has a timeout, and a cadence elapses; upstream changes,
operators and faults are not fair. `Review!Spec`: what the script does itself, for
every request of it has a timeout; pushes and the end of the runner are not fair.

**Mutants.** Each property of a passing run has a mutant of one definition (suffix
`Mutant`, or named for the slip: `RollbackRecords`, `CancelDropped`, `RotateFirst`)
that a slip in the code could produce: a slot not released on cancellation, a lock
not taken, a validator stored after a rollback, a grade left out after a retry; TLC
finds the property violated under it.

## 4. Proofs

TLAPS proves every safety property of the runs, and the refinement of `TurnContract`,
for every value of the constants, from the `ASSUME`s of the modules (TLC evaluates them on each run's values). An assumption says what a
deployment gives: finite sets of activities, limits that are naturals, a routes table
of known kinds, and a value for "no row" that is no row. TLC checked each inductive
invariant below on the run's instance before it was proved.

* **Router.** `SlotsConserved` is not inductive alone: the argument needs that a turn
  holding a slot has a route of the kind it waits on (`RouteShape`), so that the release decrements the class that was
  incremented. The three holder sets change by one element per step and lemmas on
  cardinality carry the counters; `LimitsHold` follows since a slot is only taken
  below the limits. `PrivacyIsKept` strengthens with what the plan of a turn
  contains (`Permitted`): every route left to try, or being tried, passed the gate for the turn's
  request, and the request does not change during the turn. `BreakersAreConsistent`
  adds that the global count is at least that of any primary route (`BreakerInv`). `AnswersAreNotMixed` uses that a turn
  which has sent text is still on that route or has ended (`SentShape`).
* **CloudBudget.** The invariant (`LockInv`, `CapsInv`) says that only the holder of the lock is inside
  `reserve`, so a call that passed the check still finds room in the counters at the
  commit; `CallCapsAreKept` and `CountersCover` follow, over faults, cancellation and
  restarts, in either wiring. `BlockIsEffective` counts the one call past the block's read (`BlockInv`).
  `SpendIsBounded` bounds
  the recorded spend plus one call for every slot that is past its check, day by day
  and month by month, for any calendar (`SpendInv`, `FutureInv`).

* **ChatTurn.** Every step replaces the record of one turn, so the invariant is one of
  records (`TurnOK`) and each thing the orchestrator does gets a lemma.
  `SensitiveStaysLocal` needs that a decision which still allows the cloud goes with a
  context that may leave the house (`KeptLocal`): the retries rely on it.
  `CloudCallsBounded` counts the calls a turn can have behind it where it makes another
  (`CloudCount`). The bounds on the admission counters count the turns that wait and
  those that are open. `TurnsKeepContract` maps each step of a turn to a step of
  `TurnContract` or a stutter, from the same invariant.
* **Newsletter.** `MailsAreApproved`: mails sent, plus dispatchers that may still mail
  this reader, plus one for an approval nobody has taken, never exceed the approvals
  (`Funded`). `OnlyFaultsStrand`: an issue in sending has its dispatcher (`Attended`).
  `CuratorsKeepCoherent` is about any number of editors and dispatchers. It needs
  that what a request has read of a find is still true of what it will write, unless
  the find is in `crossed` (`Fresh`). Label and ship numbers are a least and a greatest number of a
  set; lemmas from the library's well-founded minimum say that there is one.
* **Library.** A find nothing overlapped on has one request, whose copy of the row is
  the row (`Solo`); then repository and Chroma hold what the row says, or what the
  request will have made of it where it stands (`InStep`). The sources of a proposal
  are counted apart (`Promoting`): at most one request gets as far as deciding it.
  `UnpublishTakesTheFile` is an action property from the same invariant.
* **Discovery.** `ValidatorCovered` is not inductive: what a pass loaded or was
  answered is covered by the rows together with what its batch still holds (`Sound`),
  and a batch belongs to one polled source (`Storing`).
* **Keys.** `RoutesFollowStore` needs how far a rotation has come: a provider without
  drift has at most one change, alone on it, whose key is the effective one; the
  routes it has reached use that key (`HalfWay`), and all do when none rotates
  (`InStep`); a route synthesized behind a rotation's back ends that change's claim to
  have set everything right.
  A boot reads the right key for each provider outside `Misread` (`BootFits`).
* **KeyMonitor.** An alert that is due is out, or some check will still see to it (`SeenTo`), which gives
  `DueAlertsFire`. For `AlertsAreFew`: while no alert is fresh on record each alert sent has
  a check that waits to record it; while one is, only those past the look still send
  (`Sparing`). Neither assumes anything of the clock or of the order of the checks.
* **Intake.** `LinksKeepWorking`: the token a request carries to the mail API is that of
  the row or retired, and a snapshot of somebody who had left has a retired token,
  which is what lets the upsert replace it (`Carries`, `Remembers`). `RepliesAreFew`
  counts like the alerts (`Guarded`). It assumes `~SweepsCooldown`, as the run does
  and as the default of 30 days gives it: a sweep that takes the audit rows within
  the cooldown of 7 days takes the guard with it.

* **Review.** Three arguments meet in one invariant (`Inv`).
  *Packing.* `ChunksCover` is about an algorithm on sequences, so the module first
  says what the model's recursive functions and `FlattenSeq` compute on concatenations.
  The library's induction rules cannot be used here, since they take an operator;
  the module has induction over a set of numbers instead (`AllNumbers`, from the least
  number of a set that is not empty), and each induction states its claim as such a
  set. `Packing` is what `chunk_diff` keeps while it works: the closed chunks, the
  open one, the piece being cut, the hunks left of that file and the sections left
  are the diff in its order, each header and hunk has its place, and every closed chunk
  keeps the promises of size, headers and whole files. Each thing the loop does is a
  lemma on `Packing` (`FitMove`, `WholeMove`, `CutMove`, `JoinMove`, `FullMove`,
  `EndFileMove`, `EndMove`), and the actions of the model are instances of them.
  *Listing.* `GreenRead` needs that equal counts mean a complete listing (`Listed`).
  If no push came, the files listed so far are a prefix of the pull request. If pushes
  only added files, there are more than were counted, and the pages go on until the
  counts differ. If they only removed files, fewer are left, and the listing reaches
  the count only when all that are left had been listed before. Pushes that do
  both are an exception the property names; the other is that of files edited after
  their diff was taken, of which the script has hunks that are no longer theirs. It has to name the pushes of a whole
  listing, not a single one that swaps files: one push that adds a file and a second that
  removes one deceive the count as well.
  *Verdict.* A status of `ok` goes with a finished review of every part, and `skipped`
  with a diff without parts (`Verdict`).

Left to TLC, because the prover has no rules for fairness: the liveness properties
`EveryTurnEnds`, `EveryReserveDecided`, `DueIssueSettles`, `NothingLost`,
`LockReleased` and `AlwaysGraded`. Every invariant and every action property of the
runs is also a theorem.

## 5. What is not modelled, and the plan

`PROJECT.json` lists each component with its status and reason. Left out on purpose:

* the model catalog, lanes and resolver: pure scoring over configuration data;
  `Router` takes any set of resolved routes in any order, so its properties do not
  depend on them;
* provider HTTP clients, rendering, mail transport, page parsing, embedding, prompts,
  word lists, and the redaction of diffs: conversions of text no property is about;
* the migrations of the schema: they run once, in order, before any request (the
  catch-up draft, which is made at any start, is part of `Newsletter!Crash`);
* `ProviderBudgetGate`: no path of the router can use it (see the findings);
  session costs and budget alerts: bookkeeping that nothing reads to decide;
* connectors, the MCP server, the web frontend, the shell scripts, and `ci_verdict.py`,
  whose races are with GitHub's own listing.

Next: action properties of the modules that have none, and the hazards in
`PROJECT.json` whose note says that the code leaves them open.
