----------------------------- MODULE Discovery ------------------------------
(***************************************************************************)
(* The discovery scheduler (core/discovery_scheduler.py) and the handlers  *)
(* it polls (core/discovery_handlers/): a pass reconciles the watchlist,   *)
(* selects the due sources, polls them concurrently and stores what is     *)
(* new.                                                                    *)
(*                                                                         *)
(* Passes are started by POST /run-once, whose lock only guards the time   *)
(* of the last start: a pass that outlives the interval overlaps the next. *)
(* They share SQLite, which has one writer at a time.  A session takes the *)
(* write lock with its first INSERT and keeps it until it commits or rolls *)
(* back; a session that needs the lock of another waits for it or, after   *)
(* the driver's timeout, gets an error.                                    *)
(*                                                                         *)
(* A source's upstream is a version number; what a poll can see of version *)
(* v is Items(s, v).  Version 0 stands for "no validator stored".  Times   *)
(* are reduced to whether a source's cadence has elapsed.  Audit rows, the *)
(* report's counts and the fields that only say how the last poll went are *)
(* left out; what publishing a new find does is in Library.                *)
(***************************************************************************)
EXTENDS Naturals, FiniteSets

CONSTANTS
  Sources,        \* row ids, the order in which due sources are read
  Seeded,         \* the sources of WATCHLIST_SEED
  Kinds,          \* the watch types the sources may have, a set of functions
  Passes,
  MaxVersion,     \* bound: upstream versions of each source
  Unparsed,       \* the <<source, version>> whose feed cannot be parsed
  FeedCap,        \* MAX_ITEMS_PER_POLL
  PassLimit,      \* the limit of the query for active rows
  MaxFaults,      \* bound: crashes, failed fetches, lock timeouts, operator edits
  None

ASSUME DiscoveryAssumption ==
  /\ Sources \subseteq Nat /\ Seeded \subseteq Sources
  /\ Kinds \subseteq [Sources -> {"rss", "youtube", "repo", "artifacts", "web_diff", "topic",
                                  "user_org", "subreddit", "saved_search", "unregistered"}]
  /\ MaxVersion \in [Sources -> Nat \ {0}] /\ FeedCap \in Nat \ {0} /\ MaxFaults \in Nat
  /\ Unparsed \subseteq Sources \X Nat /\ PassLimit \in Nat
  /\ None \notin Passes \cup Nat

VARIABLES
  kind,           \* discovery_source.watch_type
  upstream,       \* the version each source publishes
  active,         \* discovery_source.active, or "absent"
  due,            \* sources never polled, or whose cadence has elapsed
  etag,           \* the stored validator, a version
  finds,          \* discovery_find: external ids with a committed row
  writer,         \* the pass that holds SQLite's write lock
  pc,             \* where each pass is
  plan,           \* the selected sources a pass has not settled
  snap,           \* the validators it loaded with them
  res,            \* what their handlers answered
  batch,          \* the result it is storing
  stale,          \* its session rolled back: every loaded row is expired
  faults

dbVars == <<active, due, etag, finds>>
passVars == <<pc, plan, snap, res, batch, stale>>
vars == <<kind, upstream, dbVars, writer, passVars, faults>>

Versions == UNION {1..MaxVersion[s] : s \in Sources}

\* The external ids in version v: a feed and a search list their newest items,
\* a page has one, its fingerprint.  _detect_and_parse makes an empty list of a
\* body it cannot parse, which is no error: the validator of such a version is
\* stored with nothing, and its entries wait for the version after it.
Items(s, v) ==
  IF kind[s] = "web_diff" THEN {v}
  ELSE IF kind[s] \in {"rss", "youtube"} /\ <<s, v>> \in Unparsed THEN {}
  ELSE {i \in 1..v : i + FeedCap > v}

Pending == [status |-> "pending", finds |-> {}, etag |-> 0]
Errored == [status |-> "error", finds |-> {}, etag |-> 0]
Crashed == [status |-> "crashed", finds |-> {}, etag |-> 0]

Listed(s, v, e) == [status |-> "ok", finds |-> Items(s, v), etag |-> e]
NotModified(e) == [status |-> "not_modified", finds |-> {}, etag |-> e]

\* The handlers.  rss sends the validator it was given and answers nothing on
\* 304; a YouTube channel stores one but never sends it.
RssPoll(s, e, v) == IF e = v THEN NotModified(e) ELSE Listed(s, v, v)
YoutubePoll(s, v) == Listed(s, v, v)

\* A repository's commits are asked for with the validator, its releases (here
\* every second item) without.
Releases(s, v) == {i \in Items(s, v) : i % 2 = 0}
RepoPoll(s, e, v) ==
  IF e # v THEN Listed(s, v, v)
  ELSE [Listed(s, v, e) EXCEPT !.finds = Releases(s, v),
                               !.status = IF Releases(s, v) = {} THEN "not_modified" ELSE "ok"]

\* The artifact scan asks for the tree; its items are the tree's top folders.
ArtifactPoll(s, e, v) == IF e = v THEN NotModified(e) ELSE Listed(s, v, v)

\* web_diff keeps the fingerprint of the page as its validator.
PagePoll(s, e, v) == IF e = v THEN NotModified(v) ELSE Listed(s, v, v)

\* Topic, account, subreddit and saved searches list afresh and have no
\* validator.
TopicPoll(s, v) == Listed(s, v, 0)
AccountPoll(s, v) == Listed(s, v, 0)
SubredditPoll(s, v) == Listed(s, v, 0)
SavedSearchPoll(s, v) == Listed(s, v, 0)

Poll(s, e, v) ==
  CASE kind[s] = "rss" -> RssPoll(s, e, v)
    [] kind[s] = "youtube" -> YoutubePoll(s, v)
    [] kind[s] = "repo" -> RepoPoll(s, e, v)
    [] kind[s] = "artifacts" -> ArtifactPoll(s, e, v)
    [] kind[s] = "web_diff" -> PagePoll(s, e, v)
    [] kind[s] = "topic" -> TopicPoll(s, v)
    [] kind[s] = "user_org" -> AccountPoll(s, v)
    [] kind[s] = "subreddit" -> SubredditPoll(s, v)
    [] kind[s] = "saved_search" -> SavedSearchPoll(s, v)

NoBatch == [src |-> None, left |-> {}, cand |-> None, new |-> {}, phase |-> "none"]

Init ==
  /\ kind \in Kinds
  /\ upstream = [s \in Sources |-> 1]
  /\ active = [s \in Sources |-> "absent"]
  /\ due = Sources
  /\ etag = [s \in Sources |-> 0]
  /\ finds = [s \in Sources |-> {}]
  /\ writer = None
  /\ pc = [p \in Passes |-> "idle"]
  /\ plan = [p \in Passes |-> {}]
  /\ snap = [p \in Passes |-> [s \in Sources |-> 0]]
  /\ res = [p \in Passes |-> [s \in Sources |-> Pending]]
  /\ batch = [p \in Passes |-> NoBatch]
  /\ stale = [p \in Passes |-> FALSE]
  /\ faults = 0

Fault == faults < MaxFaults /\ faults' = faults + 1
CanWrite(p) == writer \in {None, p}
Unlock(p) == IF writer = p THEN None ELSE writer
-----------------------------------------------------------------------------
(* Starting a pass *)

\* The pass ends and its session closes, which rolls back what it holds.
EndPass(p) ==
  /\ pc' = [pc EXCEPT ![p] = "idle"]
  /\ plan' = [plan EXCEPT ![p] = {}]
  /\ snap' = [snap EXCEPT ![p] = [s \in Sources |-> 0]]
  /\ res' = [res EXCEPT ![p] = [s \in Sources |-> Pending]]
  /\ batch' = [batch EXCEPT ![p] = NoBatch]
  /\ stale' = [stale EXCEPT ![p] = FALSE]
  /\ writer' = Unlock(p)

Drifted == {s \in Seeded : active[s] # "on"}

\* reconcile_watchlist_seed creates the missing rows and switches drifted ones
\* back on; select_due_sources reads the first active rows and keeps those whose
\* cadence has elapsed.  The rows beyond the limit are not polled in any pass.
Reconciled == [s \in Sources |-> IF s \in Drifted THEN "on" ELSE active[s]]
Preceding(s) == {t \in Sources : t < s /\ Reconciled[t] = "on"}
SelectDue == {s \in due : Reconciled[s] = "on" /\ Cardinality(Preceding(s)) < PassLimit}

\* admin_discovery_run_once, once its interval has elapsed (a pass may outlive
\* it), starts run_one_pass.
RunOnce(p) ==
  /\ pc[p] = "idle"
  /\ Drifted # {} => CanWrite(p)
  /\ active' = Reconciled
  /\ plan' = [plan EXCEPT ![p] = SelectDue]
  /\ snap' = [snap EXCEPT ![p] = [s \in Sources |-> IF s \in SelectDue THEN etag[s] ELSE 0]]
  /\ pc' = [pc EXCEPT ![p] = "dispatch"]
  /\ UNCHANGED <<kind, upstream, due, etag, finds, writer, res, batch, stale, faults>>

\* mutant: a failed poll stores the validator too.
RecordFailedWithEtag(S) ==
  /\ due' = due \ S
  /\ etag' = [s \in Sources |-> IF s \in S THEN upstream[s] ELSE etag[s]]
  /\ UNCHANGED <<active, finds>>

\* _record_failed_poll: last_polled_at moves, the validator does not.
RecordFailed(S) ==
  /\ due' = due \ S
  /\ UNCHANGED <<active, etag, finds>>

\* The dispatch loop: a source without a handler is failed and committed, the
\* others get their poll_started audit row, which takes the write lock, and a
\* task.  The loop's last write decides whether the lock is still held.
Dispatch(p) ==
  LET orphans == {s \in plan[p] : kind[s] = "unregistered"} IN
  /\ pc[p] = "dispatch"
  /\ plan[p] # {} => CanWrite(p)
  /\ RecordFailed(orphans)
  /\ plan' = [plan EXCEPT ![p] = @ \ orphans]
  /\ writer' \in (IF plan'[p] = {} THEN {Unlock(p)}
                  ELSE IF orphans = {} THEN {p} ELSE {p, Unlock(p)})
  /\ pc' = [pc EXCEPT ![p] = "poll"]
  /\ UNCHANGED <<kind, upstream, snap, res, batch, stale, faults>>

\* The lock of another pass outlasts the driver's timeout: the error leaves
\* run_one_pass.
StartLocked(p) ==
  /\ pc[p] = "dispatch" /\ plan[p] # {} /\ ~CanWrite(p)
  /\ EndPass(p)
  /\ Fault
  /\ UNCHANGED <<kind, upstream, dbVars>>
-----------------------------------------------------------------------------
(* Polling: _poll_source, one task per source *)

Answer(p, s, r) ==
  /\ pc[p] = "poll" /\ s \in plan[p] /\ res[p][s] = Pending
  /\ res' = [res EXCEPT ![p][s] = r]
  /\ UNCHANGED <<kind, upstream, dbVars, writer, pc, plan, snap, batch, stale>>

\* mutant: no timeout around the handler, and a page that never answers.
FetchHangs(p, s) ==
  kind[s] # "web_diff" /\ Answer(p, s, Poll(s, snap[p][s], upstream[s])) /\ UNCHANGED faults

FetchOk(p, s) ==
  Answer(p, s, Poll(s, snap[p][s], upstream[s])) /\ UNCHANGED faults

\* The handler reports an error, crashes or times out.
FetchFails(p, s) ==
  (\E r \in {Errored, Crashed} : Answer(p, s, r)) /\ Fault

Publish(s) ==
  /\ upstream[s] < MaxVersion[s]
  /\ upstream' = [upstream EXCEPT ![s] = @ + 1]
  /\ UNCHANGED <<kind, dbVars, writer, passVars, faults>>

CadenceElapses(s) ==
  /\ s \notin due /\ due' = due \cup {s}
  /\ UNCHANGED <<kind, upstream, active, etag, finds, writer, passVars,
                 faults>>
-----------------------------------------------------------------------------
(* Storing the results, source by source, once every task has answered *)

\* asyncio.gather has every result; they are handled in the order of the rows.
Gathered(p) == pc[p] = "poll" /\ \A s \in plan[p] : res[p][s] # Pending
Reached(p, s) ==
  /\ Gathered(p) /\ batch[p] = NoBatch
  /\ s \in plan[p] /\ \A t \in plan[p] : s <= t

Settle(p, s) ==
  /\ plan' = [plan EXCEPT ![p] = @ \ {s}]
  /\ batch' = [batch EXCEPT ![p] = NoBatch]
  /\ res' = [res EXCEPT ![p][s] = Pending]
  /\ snap' = [snap EXCEPT ![p][s] = 0]
  /\ UNCHANGED pc

\* After a rollback the rows of the remaining sources are expired, and reading
\* source.name or source.id outside the try raises out of the pass.
Abort(p) ==
  /\ \E s \in Sources : Reached(p, s)
  /\ stale[p]
  /\ EndPass(p)
  /\ UNCHANGED <<kind, upstream, dbVars, faults>>

StoreFailure(p, s) ==
  /\ Reached(p, s) /\ ~stale[p]
  /\ res[p][s] = Crashed
  /\ CanWrite(p)
  /\ RecordFailed({s})
  /\ Settle(p, s)
  /\ writer' = None
  /\ UNCHANGED <<kind, upstream, stale, faults>>

\* Its commit is outside the try as well.  The crash of the fetch was the fault
\* that the bound counts.
StoreFailureLocked(p) ==
  /\ \E s \in Sources : Reached(p, s) /\ res[p][s] = Crashed
  /\ ~CanWrite(p)
  /\ EndPass(p)
  /\ UNCHANGED <<kind, upstream, dbVars, faults>>

StoreBegin(p, s) ==
  /\ Reached(p, s) /\ ~stale[p]
  /\ res[p][s] # Crashed
  /\ batch' = [batch EXCEPT ![p] = [NoBatch EXCEPT !.src = s, !.left = res[p][s].finds,
                                                   !.phase = "finds"]]
  /\ UNCHANGED <<kind, upstream, dbVars, writer, pc, plan, snap, res, stale, faults>>

\* _persist_finds looks for the candidate's row.
Look(p) ==
  LET b == batch[p] IN
  /\ b.phase = "finds" /\ b.cand = None
  /\ \E i \in b.left :
       /\ \A j \in b.left : j <= i        \* newest first
       /\ batch' = [batch EXCEPT ![p].left = @ \ {i},
                   ![p].cand = IF i \in finds[b.src] \cup b.new THEN None ELSE i]
  /\ UNCHANGED <<kind, upstream, dbVars, writer, pc, plan, snap, res, stale, faults>>

\* INSERT and flush.  _auto_ingest_if_eligible then publishes the find, over the
\* network, before anything is committed.
Store(p) ==
  LET b == batch[p] IN
  /\ b.cand # None /\ CanWrite(p) /\ b.cand \notin finds[b.src]
  /\ batch' = [batch EXCEPT ![p].cand = None, ![p].new = @ \cup {b.cand}]
  /\ writer' = p
  /\ UNCHANGED <<kind, upstream, dbVars, pc, plan, snap, res, stale, faults>>

\* mutant: the rest of the batch is given up and the poll is recorded as good.
RollbackRecords(p) ==
  /\ batch' = [batch EXCEPT ![p] = [@ EXCEPT !.left = {}, !.cand = None, !.new = {},
                                             !.phase = "record"]]
  /\ writer' = Unlock(p)
  /\ UNCHANGED <<kind, upstream, dbVars, pc, plan, snap, res, stale>>

\* An error while storing rolls the whole batch back and expires every row the
\* session loaded.
Rollback(p) ==
  /\ batch' = [batch EXCEPT ![p] = [@ EXCEPT !.left = {}, !.cand = None, !.new = {},
                                             !.phase = "failing"]]
  /\ stale' = [stale EXCEPT ![p] = TRUE]
  /\ writer' = Unlock(p)
  /\ UNCHANGED <<kind, upstream, dbVars, pc, plan, snap, res>>

\* Another pass committed the row since: IntegrityError.  _persist_finds rolls
\* back and its next read of the expired source raises.
Collide(p) ==
  /\ batch[p].cand # None /\ CanWrite(p) /\ batch[p].cand \in finds[batch[p].src]
  /\ Rollback(p)
  /\ UNCHANGED faults

\* The commit at the end of _persist_finds, before anything is said about the
\* poll itself.
CommitFinds(p) ==
  LET b == batch[p] IN
  /\ b.phase = "finds" /\ b.left = {} /\ b.cand = None
  /\ CanWrite(p)
  /\ finds' = [finds EXCEPT ![b.src] = @ \cup b.new]
  /\ batch' = [batch EXCEPT ![p].new = {}, ![p].phase = "record"]
  /\ writer' = None
  /\ UNCHANGED <<kind, upstream, active, due, etag, pc, plan, snap, res,
                 stale, faults>>

\* _record_successful_poll, for an answer whose status is "error" too.
RecordSuccess(p) ==
  LET s == batch[p].src
      r == res[p][s] IN
  /\ batch[p].phase = "record"
  /\ CanWrite(p)
  /\ etag' = [etag EXCEPT ![s] = IF r.etag # 0 THEN r.etag ELSE @]
  /\ due' = due \ {s}
  /\ Settle(p, s)
  /\ writer' = None
  /\ UNCHANGED <<kind, upstream, active, finds, stale, faults>>

\* "database is locked" while storing a result is caught like a collision.
StoreLocked(p) ==
  /\ \/ batch[p].cand # None
     \/ batch[p].phase = "finds" /\ batch[p].left = {}
     \/ batch[p].phase = "record"
  /\ ~CanWrite(p)
  /\ Rollback(p)
  /\ Fault

\* The error handler loads the source afresh and records the failure, or fails
\* to and only logs it.
RecordAfterRollback(p) ==
  /\ batch[p].phase = "failing" /\ CanWrite(p)
  /\ RecordFailed({batch[p].src})
  /\ Settle(p, batch[p].src)
  /\ UNCHANGED <<kind, upstream, writer, stale, faults>>

GiveUp(p) ==
  /\ batch[p].phase = "failing" /\ ~CanWrite(p)
  /\ Settle(p, batch[p].src)
  /\ Fault
  /\ UNCHANGED <<kind, upstream, dbVars, writer, stale>>

Finish(p) ==
  /\ pc[p] = "poll" /\ plan[p] = {}
  /\ EndPass(p)
  /\ UNCHANGED <<kind, upstream, dbVars, faults>>
-----------------------------------------------------------------------------
(* Operators and the process *)

AddSource(s) ==
  /\ s \notin Seeded /\ active[s] = "absent" /\ writer = None
  /\ active' = [active EXCEPT ![s] = "on"]
  /\ UNCHANGED <<kind, upstream, due, etag, finds, writer, passVars, faults>>

UpdateSource(s) ==
  /\ active[s] # "absent" /\ writer = None
  /\ active' = [active EXCEPT ![s] = IF @ = "on" THEN "off" ELSE "on"]
  /\ Fault
  /\ UNCHANGED <<kind, upstream, due, etag, finds, writer, passVars>>

Restart ==
  /\ Fault
  /\ pc' = [p \in Passes |-> "idle"]
  /\ plan' = [p \in Passes |-> {}]
  /\ snap' = [p \in Passes |-> [s \in Sources |-> 0]]
  /\ res' = [p \in Passes |-> [s \in Sources |-> Pending]]
  /\ batch' = [p \in Passes |-> NoBatch]
  /\ stale' = [p \in Passes |-> FALSE]
  /\ writer' = None
  /\ UNCHANGED <<kind, upstream, dbVars>>

PassStep(p) ==
  \/ Dispatch(p)
  \/ \E s \in Sources : FetchOk(p, s) \/ StoreFailure(p, s) \/ StoreBegin(p, s)
  \/ Abort(p) \/ Look(p) \/ Store(p) \/ Collide(p) \/ CommitFinds(p)
  \/ RecordSuccess(p) \/ RecordAfterRollback(p) \/ Finish(p)

Next ==
  \/ \E p \in Passes : RunOnce(p) \/ PassStep(p) \/ StartLocked(p) \/ StoreLocked(p) \/ GiveUp(p) \/ StoreFailureLocked(p)
  \/ \E p \in Passes, s \in Sources : FetchFails(p, s)
  \/ \E s \in Sources : Publish(s) \/ CadenceElapses(s) \/ AddSource(s) \/ UpdateSource(s)
  \/ Restart

Spec == Init /\ [][Next]_vars

\* The event loop keeps running a pass (every fetch has a timeout), time passes,
\* and the workflow that calls run-once keeps calling it.
Fairness ==
  /\ \A p \in Passes : WF_vars(PassStep(p)) /\ WF_vars(RunOnce(p))
  /\ \A s \in Sources : WF_vars(CadenceElapses(s))

FairSpec == Spec /\ Fairness
-----------------------------------------------------------------------------
(* Properties *)

Results == [status : {"pending", "ok", "not_modified", "error", "crashed"},
            finds : SUBSET Versions, etag : Versions \cup {0}]
Batches == [src : Sources \cup {None}, left : SUBSET Versions, cand : Versions \cup {None},
            new : SUBSET Versions, phase : {"none", "finds", "record", "failing"}]

\* The variables have their types (discovery_source, discovery_find and the
\* locals of run_one_pass), and only the holder of the lock has rows to commit.
TypeOK ==
  /\ kind \in Kinds
  /\ upstream \in [Sources -> Versions]
  /\ active \in [Sources -> {"absent", "on", "off"}]
  /\ due \subseteq Sources
  /\ etag \in [Sources -> Versions \cup {0}]
  /\ finds \in [Sources -> SUBSET Versions]
  /\ writer \in Passes \cup {None}
  /\ pc \in [Passes -> {"idle", "dispatch", "poll"}]
  /\ plan \in [Passes -> SUBSET Sources]
  /\ snap \in [Passes -> [Sources -> Versions \cup {0}]]
  /\ res \in [Passes -> [Sources -> Results]]
  /\ batch \in [Passes -> Batches]
  /\ stale \in [Passes -> BOOLEAN]
  /\ faults \in 0..MaxFaults
  /\ \A p \in Passes : batch[p].new # {} => writer = p

\* A stored validator never gets ahead of the rows: whatever the version it
\* names lists has been committed.  Otherwise the next poll is answered 304 (or
\* "not modified") and the items stay unknown until the upstream changes again.
\* Overlapping passes, rollbacks and lock errors may all intervene between
\* _persist_finds and _record_successful_poll.
ValidatorCovered ==
  \A s \in Sources : etag[s] # 0 => Items(s, etag[s]) \subseteq finds[s]

\* Nothing a watched feed lists is lost, while no more sources are watched than a
\* pass reads: with a finite number of faults every item still listed, in a
\* body that can be parsed, is eventually stored, even when the pass that fetched it
\* collided with another, was aborted or died after publishing it.
NothingLost ==
  \A s \in Seeded, i \in Versions :
    kind[s] \notin {"web_diff", "unregistered"} =>
      [](i <= upstream[s] => <>(i \in finds[s] \/ i \notin Items(s, upstream[s])))

\* A pass holds the database's only write lock across its network calls, but
\* always gives it back, whatever its handlers and its sources do.
LockReleased ==
  \A p \in Passes : writer = p ~> writer # p
=============================================================================
