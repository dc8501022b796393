----------------------------- MODULE Newsletter -----------------------------
(***************************************************************************)
(* The newsletter pipeline (core/newsletter.py): issues from draft to      *)
(* sent, the finds tagged onto them, and the dispatcher that mails them.   *)
(*                                                                         *)
(* Three kinds of process share one SQLite database: dispatchers (the      *)
(* hourly workflow and the operator's "send now"), admin requests and the  *)
(* daily cycle (editors), and subscribers.  A request that loads rows and  *)
(* writes them back is two steps: the ORM session holds no lock between    *)
(* its SELECT and its COMMIT, and writes only the attributes it changed.   *)
(* A bulk UPDATE with a WHERE clause is one step.                          *)
(*                                                                         *)
(* Issues are numbered in the order they are created.  Dates are reduced   *)
(* to whether an issue's scheduled time has passed; texts, previews,       *)
(* reminder mails and delivery rows are left out.                          *)
(***************************************************************************)
EXTENDS Naturals, FiniteSets

CONSTANTS
  MaxIssues,      \* bound: issues ever created
  Finds, Subs, Dispatchers, Editors,
  Attempts,       \* tries at a ship number or a display label
  MaxApprovals,   \* bound: approvals of one issue
  MaxFaults,      \* bound: crashes and failed database writes
  None

Issues == 1..MaxIssues

ASSUME NewsletterAssumption ==
  /\ MaxIssues \in Nat /\ Attempts \in Nat \ {0}
  /\ MaxApprovals \in Nat /\ MaxFaults \in Nat
  /\ IsFiniteSet(Dispatchers)
  /\ None \notin Issues

VARIABLES
  \* newsletter_issue
  status, sched, unpub, ship, label, snap,
  \* discovery_find: newsletter_issue_id, and the sets of finds that are
  \* newsletter_pending, dismissed, published_in_newsletter_at
  tag, pending, dismissed, published,
  active,         \* subscribers that have not unsubscribed
  job,            \* what each editor has read and is about to write
  dpc, due, cur, num, tries, rcpt,   \* each dispatcher
  faults,
  mails,          \* history: mails of an issue to a subscriber
  licence,        \* history: approvals of an issue less its cancelled ones
  crossed         \* history: finds two requests were about to write at once

issueVars == <<status, sched, unpub, ship, label, snap>>
findVars  == <<tag, pending, dismissed, published>>
dispVars  == <<dpc, due, cur, num, tries, rcpt>>
vars == <<issueVars, findVars, active, job, crossed, dispVars, faults, mails, licence>>

Statuses == {"none", "draft", "awaiting_approval", "approved", "sending", "sent",
             "skipped", "deleted"}
Rows == {i \in Issues : status[i] \notin {"none", "deleted"}}
Open == {"draft", "awaiting_approval", "approved"}    \* _OPEN_ISSUE_STATUSES

\* What a request has read: an issue with its status, finds and their flags, a
\* label.  flag is force for compose and the daily cycle for create.
Idle == [op |-> "idle", issue |-> None, read |-> "none", finds |-> {}, pend |-> {},
         dis |-> {}, pub |-> {}, label |-> <<0, 0>>, tries |-> 0, flag |-> FALSE]

Init ==
  /\ status = [i \in Issues |-> "none"]
  /\ sched = [i \in Issues |-> "none"]
  /\ unpub = {}
  /\ ship = [i \in Issues |-> 0]
  /\ label = [i \in Issues |-> <<0, 0>>]
  /\ snap = [i \in Issues |-> {}]
  /\ tag = [f \in Finds |-> None]
  /\ pending = {} /\ dismissed = {} /\ published = {}
  /\ active \in SUBSET Subs
  /\ job = [e \in Editors |-> Idle]
  /\ dpc = [d \in Dispatchers |-> "idle"]
  /\ due = [d \in Dispatchers |-> {}]
  /\ cur = [d \in Dispatchers |-> None]
  /\ num = [d \in Dispatchers |-> 0]
  /\ tries = [d \in Dispatchers |-> 0]
  /\ rcpt = [d \in Dispatchers |-> {}]
  /\ faults = 0
  /\ mails = [i \in Issues |-> [u \in Subs |-> 0]]
  /\ licence = [i \in Issues |-> 0]
  /\ crossed = {}
-----------------------------------------------------------------------------
(* Labels and numbers *)

Ships == {ship[i] : i \in Rows}
LastShip == CHOOSE n \in Ships \cup {0} : \A m \in Ships : m <= n

\* A label is <<epoch, letter>>; a shipped issue's is its number, <<n, 0>>.
\* next_display_label: the epoch is the last shipped number; the letter counts
\* the unsent issues that carry a label of that epoch.
NextLabel ==
  <<LastShip, Cardinality({i \in Rows : ship[i] = 0 /\ label[i][1] = LastShip}) + 1>>

LabelTaken(l) == \E i \in Rows : label[i] = l

Tagged(i) == {f \in Finds : tag[f] = i}

\* The row a new issue gets.
NewIssue == CHOOSE i \in Issues : status[i] = "none" /\ \A j \in 1..(i - 1) : status[j] # "none"
CanCreate == \E i \in Issues : status[i] = "none"
-----------------------------------------------------------------------------
(* Admin requests: drafts *)

\* The finds a request will write: compose only reads them.
Writes(j) == IF j.op = "compose" THEN {} ELSE j.finds

\* The finds k tags onto an issue that j is deleting.
Orphans(j, k) == IF j.op = "delete" /\ k.issue = j.issue THEN Writes(k) ELSE {}

\* The finds two requests write over one another.
Clash(j, k) == (Writes(j) \cap Writes(k)) \cup Orphans(j, k) \cup Orphans(k, j)

\* Editor e goes on with request j, next to those of the others.
Turn(e, j) ==
  /\ job' = [job EXCEPT ![e] = j]
  /\ crossed' = crossed \cup UNION {Clash(j, job[x]) : x \in Editors \ {e}}

Start(e, j) == job[e] = Idle /\ Turn(e, j)
Finish(e) == job' = [job EXCEPT ![e] = Idle] /\ UNCHANGED crossed

ReadFinds(j, F) ==
  [j EXCEPT !.finds = F, !.pend = F \cap pending, !.dis = F \cap dismissed,
            !.pub = F \cap published]

Insert(st, l, F) ==
  /\ status' = [status EXCEPT ![NewIssue] = st]
  /\ label' = [label EXCEPT ![NewIssue] = l]
  /\ snap' = [snap EXCEPT ![NewIssue] = F]
  /\ UNCHANGED <<sched, unpub, ship>>

\* create_empty_issue reads a label: for the operator, or for the daily cycle
\* (auto), which creates a draft only when none is open.
CreateRead(e, auto) ==
  /\ CanCreate
  /\ auto => \A i \in Issues : status[i] \notin {"draft", "awaiting_approval"}
  /\ Start(e, [Idle EXCEPT !.op = "create", !.label = NextLabel, !.flag = auto])
  /\ UNCHANGED <<issueVars, findVars, active, dispVars, faults, mails, licence>>

\* auto_populate_draft's query; index status and age pick among these.
Eligible == {f \in Finds : tag[f] = None /\ f \notin dismissed /\ f \notin published}

CreateInsert(e) ==
  /\ job[e].op = "create"
  /\ CanCreate
  /\ ~LabelTaken(job[e].label)
  /\ Insert("draft", job[e].label, {})
  /\ IF job[e].flag
     THEN \E F \in SUBSET Eligible :
            Turn(e, [Idle EXCEPT !.op = "populate", !.issue = NewIssue, !.finds = F])
     ELSE Finish(e)
  /\ UNCHANGED <<findVars, active, dispVars, faults, mails, licence>>

\* UNIQUE(display_label) refuses the row: read a label again, or give up.
CreateCollides(e) ==
  /\ job[e].op = "create"
  /\ LabelTaken(job[e].label)
  /\ IF job[e].tries + 1 < Attempts
     THEN Turn(e, [job[e] EXCEPT !.tries = @ + 1, !.label = NextLabel])
     ELSE Finish(e)
  /\ UNCHANGED <<issueVars, findVars, active, dispVars, faults, mails, licence>>

\* auto_populate_draft's UPDATE tags what its query returned.
PopulateWrite(e) ==
  /\ job[e].op = "populate"
  /\ tag' = [f \in Finds |-> IF f \in job[e].finds THEN job[e].issue ELSE tag[f]]
  /\ pending' = pending \cup job[e].finds
  /\ Finish(e)
  /\ UNCHANGED <<issueVars, dismissed, published, active, dispVars, faults, mails, licence>>

\* compose_pending_issue.
ComposeRead(e, force) ==
  /\ CanCreate
  /\ Start(e, [Idle EXCEPT !.op = "compose", !.label = NextLabel,
                           !.finds = pending \ dismissed, !.flag = force])
  /\ UNCHANGED <<issueVars, findVars, active, dispVars, faults, mails, licence>>

ComposeInsert(e) ==
  /\ job[e].op = "compose"
  /\ CanCreate
  /\ IF LabelTaken(job[e].label)
     THEN UNCHANGED issueVars
     ELSE Insert(IF job[e].finds = {} /\ ~job[e].flag THEN "skipped" ELSE "awaiting_approval",
                 job[e].label, job[e].finds)
  /\ Finish(e)
  /\ UNCHANGED <<findVars, active, dispVars, faults, mails, licence>>
-----------------------------------------------------------------------------
(* Admin requests: finds *)

\* assign_find_to_issue tags a find onto an open issue, or clears its tag.
AssignRead(e, f, i) ==
  /\ i = None \/ (i \in Rows /\ status[i] \in Open)
  /\ Start(e, ReadFinds([Idle EXCEPT !.op = "assign", !.issue = i, !.read = tag[f]], {f}))
  /\ UNCHANGED <<issueVars, findVars, active, dispVars, faults, mails, licence>>

AssignWrite(e) ==
  LET j == job[e] IN
  /\ j.op = "assign"
  /\ tag' = IF j.read = j.issue THEN tag
            ELSE [f \in Finds |-> IF f \in j.finds THEN j.issue ELSE tag[f]]
  /\ IF j.issue = None
     THEN pending' = pending \ j.pend /\ UNCHANGED dismissed
     ELSE pending' = pending \cup (j.finds \ j.pend) /\ dismissed' = dismissed \ j.dis
  /\ Finish(e)
  /\ UNCHANGED <<issueVars, published, active, dispVars, faults, mails, licence>>

\* set_find_dismissed (featuring a find on the ticker restores it the same way),
\* and create_manual_find of a link already known, which only queues it.
FindRead(e, f, op) ==
  /\ op = "queue" => f \notin pending
  /\ Start(e, ReadFinds([Idle EXCEPT !.op = op], {f}))
  /\ UNCHANGED <<issueVars, findVars, active, dispVars, faults, mails, licence>>

DismissWrite(e) ==
  LET j == job[e] IN
  /\ j.op \in {"dismiss", "restore"}
  /\ IF j.op = "dismiss"
     THEN dismissed' = dismissed \cup (j.finds \ j.dis) /\ pending' = pending \ j.pend
     ELSE dismissed' = dismissed \ j.dis /\ UNCHANGED pending
  /\ Finish(e)
  /\ UNCHANGED <<issueVars, tag, published, active, dispVars, faults, mails, licence>>

QueueWrite(e) ==
  LET j == job[e] IN
  /\ j.op = "queue"
  /\ pending' = pending \cup j.finds
  /\ dismissed' = dismissed \ j.dis
  /\ Finish(e)
  /\ UNCHANGED <<issueVars, tag, published, active, dispVars, faults, mails, licence>>
-----------------------------------------------------------------------------
(* Admin requests: issues *)

\* approve_and_schedule, from the panel or from the mailed link.
Approve(i) ==
  /\ status[i] \in {"draft", "awaiting_approval"}
  /\ licence[i] < MaxApprovals
  /\ status' = [status EXCEPT ![i] = "approved"]
  /\ sched' = [sched EXCEPT ![i] = "future"]
  /\ licence' = [licence EXCEPT ![i] = @ + 1]
  /\ UNCHANGED <<unpub, ship, label, snap, findVars, active, job, crossed, dispVars, faults,
                 mails>>

\* cancel_scheduled_send.
CancelSend(i) ==
  /\ status[i] = "approved" /\ sched[i] = "future"
  /\ status' = [status EXCEPT ![i] = "awaiting_approval"]
  /\ sched' = [sched EXCEPT ![i] = "none"]
  /\ licence' = [licence EXCEPT ![i] = @ - 1]
  /\ UNCHANGED <<unpub, ship, label, snap, findVars, active, job, crossed, dispVars, faults,
                 mails>>

\* The scheduled time passes.
ComesDue(i) ==
  /\ sched[i] = "future"
  /\ sched' = [sched EXCEPT ![i] = "due"]
  /\ UNCHANGED <<status, unpub, ship, label, snap, findVars, active, job, crossed, dispVars,
                 faults, mails, licence>>

\* unpublish_issue.
UnpublishRead(e, i) ==
  /\ status[i] \in {"approved", "sending", "sent"} /\ i \notin unpub
  /\ Start(e, [Idle EXCEPT !.op = "unpublish", !.issue = i, !.read = status[i]])
  /\ UNCHANGED <<issueVars, findVars, active, dispVars, faults, mails, licence>>

UnpublishWrite(e) ==
  LET j == job[e]
      hide == j.read = "approved" IN
  /\ j.op = "unpublish"
  /\ IF j.issue \in Rows
     THEN /\ unpub' = unpub \cup {j.issue}
          /\ status' = IF hide THEN [status EXCEPT ![j.issue] = "awaiting_approval"] ELSE status
          /\ sched' = IF hide THEN [sched EXCEPT ![j.issue] = "none"] ELSE sched
     ELSE UNCHANGED <<unpub, status, sched>>
  /\ Finish(e)
  /\ UNCHANGED <<ship, label, snap, findVars, active, dispVars, faults, mails, licence>>

\* Mutant of DeleteRead: the tagged finds are not loaded, so none is detached.
DeleteReadMutant(e, i) ==
  /\ i \in Rows
  /\ Start(e, [Idle EXCEPT !.op = "delete", !.issue = i, !.read = status[i]])
  /\ UNCHANGED <<issueVars, findVars, active, dispVars, faults, mails, licence>>

\* delete_issue.
DeleteRead(e, i) ==
  /\ i \in Rows
  /\ Start(e, ReadFinds([Idle EXCEPT !.op = "delete", !.issue = i, !.read = status[i]],
                        Tagged(i)))
  /\ UNCHANGED <<issueVars, findVars, active, dispVars, faults, mails, licence>>

DeleteWrite(e) ==
  LET j == job[e] IN
  /\ j.op = "delete"
  /\ tag' = [f \in Finds |-> IF f \in j.finds THEN None ELSE tag[f]]
  /\ pending' = pending \ j.pend
  /\ published' = IF j.read \in {"sent", "sending"} THEN published ELSE published \ j.pub
  /\ status' = [status EXCEPT ![j.issue] = "deleted"]
  /\ sched' = [sched EXCEPT ![j.issue] = "none"]
  /\ unpub' = unpub \ {j.issue}
  /\ ship' = [ship EXCEPT ![j.issue] = 0]
  /\ label' = [label EXCEPT ![j.issue] = <<0, 0>>]
  /\ snap' = [snap EXCEPT ![j.issue] = {}]
  /\ Finish(e)
  /\ UNCHANGED <<dismissed, active, dispVars, faults, mails, licence>>

\* A sign-up or an unsubscribe link.
Subscribe(u) ==
  /\ active' = active \cup {u}
  /\ UNCHANGED <<issueVars, findVars, job, crossed, dispVars, faults, mails, licence>>

Unsubscribe(u) ==
  /\ active' = active \ {u}
  /\ UNCHANGED <<issueVars, findVars, job, crossed, dispVars, faults, mails, licence>>
-----------------------------------------------------------------------------
(* dispatch_scheduled_issues and _dispatch_issue *)

editorSide == <<active, job, crossed, licence>>

\* Mutant of Collect: the scheduled time is compared the wrong way round.
CollectMutant(d) ==
  LET ids == {i \in Issues : status[i] = "approved" /\ sched[i] = "future"} IN
  /\ dpc[d] = "idle" /\ ids # {}
  /\ dpc' = [dpc EXCEPT ![d] = "loop"]
  /\ due' = [due EXCEPT ![d] = ids]
  /\ UNCHANGED <<issueVars, findVars, editorSide, cur, num, tries, rcpt, faults, mails>>

\* The query for approved issues whose time has passed.
Collect(d) ==
  LET ids == {i \in Issues : status[i] = "approved" /\ sched[i] = "due"} IN
  /\ dpc[d] = "idle" /\ ids # {}
  /\ dpc' = [dpc EXCEPT ![d] = "loop"]
  /\ due' = [due EXCEPT ![d] = ids]
  /\ UNCHANGED <<issueVars, findVars, editorSide, cur, num, tries, rcpt, faults, mails>>

\* Mutant of Take: the UPDATE does not ask for the status.
TakeMutant(d, i) ==
  /\ dpc[d] = "loop" /\ i \in due[d]
  /\ due' = [due EXCEPT ![d] = @ \ {i}]
  /\ status' = [status EXCEPT ![i] = "sending"]
  /\ dpc' = [dpc EXCEPT ![d] = "snapshot"]
  /\ cur' = [cur EXCEPT ![d] = i]
  /\ UNCHANGED <<sched, unpub, ship, label, snap, findVars, editorSide, num, tries, rcpt,
                 faults, mails>>

\* The atomic flip: the WHERE clause asks for the status alone.
Take(d, i) ==
  /\ dpc[d] = "loop" /\ i \in due[d]
  /\ due' = [due EXCEPT ![d] = @ \ {i}]
  /\ IF status[i] = "approved"
     THEN /\ status' = [status EXCEPT ![i] = "sending"]
          /\ dpc' = [dpc EXCEPT ![d] = "snapshot"]
          /\ cur' = [cur EXCEPT ![d] = i]
     ELSE UNCHANGED <<status, dpc, cur>>
  /\ UNCHANGED <<sched, unpub, ship, label, snap, findVars, editorSide, num, tries, rcpt,
                 faults, mails>>

\* Mutant of Leave: the issue is kept.
LeaveMutant(d, dead) ==
  /\ dpc' = [dpc EXCEPT ![d] = IF dead THEN "idle" ELSE "loop"]
  /\ due' = [due EXCEPT ![d] = IF dead THEN {} ELSE @]
  /\ num' = [num EXCEPT ![d] = 0]
  /\ tries' = [tries EXCEPT ![d] = 0]
  /\ rcpt' = [rcpt EXCEPT ![d] = {}]
  /\ UNCHANGED cur

\* The dispatcher leaves its issue: for the next one, or, when a failed commit
\* left the session unusable, for the end of the run.
Leave(d, dead) ==
  /\ dpc' = [dpc EXCEPT ![d] = IF dead THEN "idle" ELSE "loop"]
  /\ due' = [due EXCEPT ![d] = IF dead THEN {} ELSE @]
  /\ cur' = [cur EXCEPT ![d] = None]
  /\ num' = [num EXCEPT ![d] = 0]
  /\ tries' = [tries EXCEPT ![d] = 0]
  /\ rcpt' = [rcpt EXCEPT ![d] = {}]

\* The row was deleted under the dispatcher: its next statement raises.
Vanished(d) ==
  /\ dpc[d] \in {"snapshot", "number", "send"} /\ cur[d] \notin Rows
  /\ dpc[d] = "send" => rcpt[d] = {}
  /\ \E dead \in CASE dpc[d] = "snapshot" -> BOOLEAN
                    [] dpc[d] = "number" -> {FALSE}
                    [] OTHER -> {TRUE} : Leave(d, dead)
  /\ UNCHANGED <<issueVars, findVars, editorSide, faults, mails>>

\* The tagged finds become finds_json, if there are any; then
\* _next_ship_number is read.
Snapshot(d) ==
  LET i == cur[d] IN
  /\ dpc[d] = "snapshot" /\ i \in Rows
  /\ snap' = IF Tagged(i) # {} THEN [snap EXCEPT ![i] = Tagged(i)] ELSE snap
  /\ dpc' = [dpc EXCEPT ![d] = "number"]
  /\ num' = [num EXCEPT ![d] = LastShip + 1]
  /\ UNCHANGED <<status, sched, unpub, ship, label, findVars, editorSide, due, cur, tries,
                 rcpt, faults, mails>>

NumberTaken(i, n) == \E j \in Rows \ {i} : ship[j] = n \/ label[j] = <<n, 0>>

\* _assign_ship_number_with_retry commits; active_subscribers is read.
AssignNumber(d) ==
  LET i == cur[d] IN
  /\ dpc[d] = "number" /\ i \in Rows /\ ~NumberTaken(i, num[d])
  /\ ship' = [ship EXCEPT ![i] = num[d]]
  /\ label' = [label EXCEPT ![i] = <<num[d], 0>>]
  /\ dpc' = [dpc EXCEPT ![d] = "send"]
  /\ rcpt' = [rcpt EXCEPT ![d] = active]
  /\ UNCHANGED <<status, sched, unpub, snap, findVars, editorSide, due, cur, num, tries,
                 faults, mails>>

\* Back to the operator.
Revert(i) ==
  /\ status' = [status EXCEPT ![i] = "awaiting_approval"]
  /\ sched' = [sched EXCEPT ![i] = "none"]
  /\ UNCHANGED <<unpub, ship, label, snap>>

\* Mutant of NumberCollides: the last attempt does not give the issue back.
NumberCollidesMutant(d) ==
  LET i == cur[d] IN
  /\ dpc[d] = "number" /\ i \in Rows /\ NumberTaken(i, num[d])
  /\ IF tries[d] + 1 < Attempts
     THEN /\ tries' = [tries EXCEPT ![d] = @ + 1]
          /\ num' = [num EXCEPT ![d] = LastShip + 1]
          /\ UNCHANGED <<dpc, due, cur, rcpt>>
     ELSE Leave(d, FALSE)
  /\ UNCHANGED <<issueVars, findVars, editorSide, faults, mails>>

\* The number went to another issue: read it again, and after the last attempt
\* give the issue back.
NumberCollides(d) ==
  LET i == cur[d] IN
  /\ dpc[d] = "number" /\ i \in Rows /\ NumberTaken(i, num[d])
  /\ IF tries[d] + 1 < Attempts
     THEN /\ tries' = [tries EXCEPT ![d] = @ + 1]
          /\ num' = [num EXCEPT ![d] = LastShip + 1]
          /\ UNCHANGED <<issueVars, dpc, due, cur, rcpt>>
     ELSE Revert(i) /\ Leave(d, FALSE)
  /\ UNCHANGED <<findVars, editorSide, faults, mails>>

\* One subscriber of the list: mailed, or skipped or failed.
Mail(d, u, ok) ==
  /\ dpc[d] = "send" /\ u \in rcpt[d]
  /\ rcpt' = [rcpt EXCEPT ![d] = @ \ {u}]
  /\ mails' = IF ok THEN [mails EXCEPT ![cur[d]][u] = @ + 1] ELSE mails
  /\ UNCHANGED <<issueVars, findVars, editorSide, dpc, due, cur, num, tries, faults>>

\* The end of the send loop: the finds tagged now are stamped (those of the
\* snapshot when none is), and the issue is sent.
FinishSend(d) ==
  LET i == cur[d]
      done == IF Tagged(i) # {} THEN Tagged(i) ELSE snap[i] IN
  /\ dpc[d] = "send" /\ rcpt[d] = {} /\ i \in Rows
  /\ pending' = pending \ done
  /\ published' = published \cup done
  /\ status' = [status EXCEPT ![i] = "sent"]
  /\ Leave(d, FALSE)
  /\ UNCHANGED <<sched, unpub, ship, label, snap, tag, dismissed, editorSide, faults, mails>>

Done(d) ==
  /\ dpc[d] = "loop" /\ due[d] = {}
  /\ dpc' = [dpc EXCEPT ![d] = "idle"]
  /\ UNCHANGED <<issueVars, findVars, editorSide, due, cur, num, tries, rcpt, faults, mails>>

\* A statement fails (a locked database, an error in rendering).  Before the
\* number is committed the handler gives the issue back, if that write succeeds;
\* elsewhere nothing does.
Fault(d) ==
  /\ faults < MaxFaults
  /\ dpc[d] \in {"snapshot", "number", "send"}
  /\ faults' = faults + 1
  /\ \/ dpc[d] = "number" /\ status[cur[d]] = "sending" /\ Revert(cur[d]) /\ Leave(d, FALSE)
     \/ UNCHANGED issueVars /\ \E dead \in BOOLEAN : Leave(d, dead)
  /\ UNCHANGED <<findVars, editorSide, mails>>

\* _assign_pending_finds_to_catchup_issue, in init_db at every start: finds that
\* are queued while no find at all is tagged go to a draft of their own.
CatchupFinds == IF \A f \in Finds : tag[f] = None THEN pending \ dismissed ELSE {}

\* A label that is taken fails init_db and the start: such a server stays down
\* and takes no step.
AssignCatchup ==
  /\ CanCreate
  /\ ~LabelTaken(NextLabel)
  /\ Insert("draft", NextLabel, {})
  /\ tag' = [f \in Finds |-> IF f \in CatchupFinds THEN NewIssue ELSE tag[f]]

\* The server stops, and with it every request and dispatcher, and starts again.
Crash ==
  /\ faults < MaxFaults
  /\ faults' = faults + 1
  /\ job' = [e \in Editors |-> Idle]
  /\ dpc' = [d \in Dispatchers |-> "idle"]
  /\ due' = [d \in Dispatchers |-> {}]
  /\ cur' = [d \in Dispatchers |-> None]
  /\ num' = [d \in Dispatchers |-> 0]
  /\ tries' = [d \in Dispatchers |-> 0]
  /\ rcpt' = [d \in Dispatchers |-> {}]
  /\ IF CatchupFinds = {} THEN UNCHANGED <<issueVars, tag>> ELSE AssignCatchup
  /\ UNCHANGED <<pending, dismissed, published, active, crossed, mails, licence>>
-----------------------------------------------------------------------------
Editor(e) ==
  \/ CreateRead(e, FALSE) \/ CreateInsert(e) \/ CreateCollides(e)
  \/ (\E force \in BOOLEAN : ComposeRead(e, force)) \/ ComposeInsert(e)
  \/ (\E i \in Issues : UnpublishRead(e, i)) \/ UnpublishWrite(e)

\* The requests that write finds: the daily cycle, tagging, the flags, and the
\* deletion of an issue.
Curator(e) ==
  \/ CreateRead(e, TRUE) \/ PopulateWrite(e)
  \/ \E f \in Finds :
       \/ \E i \in Issues \cup {None} : AssignRead(e, f, i)
       \/ \E op \in {"dismiss", "restore", "queue"} : FindRead(e, f, op)
  \/ AssignWrite(e) \/ DismissWrite(e) \/ QueueWrite(e)
  \/ (\E i \in Issues : DeleteRead(e, i)) \/ DeleteWrite(e)

Working(d) ==
  \/ Collect(d) \/ (\E i \in Issues : Take(d, i)) \/ Vanished(d) \/ Snapshot(d)
  \/ AssignNumber(d) \/ NumberCollides(d)
  \/ (\E u \in Subs, ok \in BOOLEAN : Mail(d, u, ok))
  \/ FinishSend(d) \/ Done(d)

Next ==
  \/ \E e \in Editors : Editor(e) \/ Curator(e)
  \/ \E i \in Issues : Approve(i) \/ CancelSend(i) \/ ComesDue(i)
  \/ \E u \in Subs : Subscribe(u) \/ Unsubscribe(u)
  \/ \E d \in Dispatchers : Working(d) \/ Fault(d)
  \/ Crash

Spec == Init /\ [][Next]_vars

\* The hourly workflow starts a dispatcher, and a run comes to its end: every
\* database statement has a busy timeout and every mail an HTTP timeout.
FairSpec == Spec /\ \A d \in Dispatchers : WF_vars(Working(d))
-----------------------------------------------------------------------------
(* Properties *)

\* Every variable has its type; a dispatcher is on an issue exactly from its
\* flip to the end of its send loop.
TypeOK ==
  /\ status \in [Issues -> Statuses]
  /\ sched \in [Issues -> {"none", "future", "due"}]
  /\ unpub \subseteq Issues
  /\ ship \in [Issues -> Nat]
  /\ label \in [Issues -> Nat \X Nat]
  /\ snap \in [Issues -> SUBSET Finds]
  /\ tag \in [Finds -> Issues \cup {None}]
  /\ pending \subseteq Finds /\ dismissed \subseteq Finds /\ published \subseteq Finds
  /\ active \subseteq Subs
  /\ dpc \in [Dispatchers -> {"idle", "loop", "snapshot", "number", "send"}]
  /\ due \in [Dispatchers -> SUBSET Issues]
  /\ cur \in [Dispatchers -> Issues \cup {None}]
  /\ \A d \in Dispatchers : cur[d] = None <=> dpc[d] \in {"idle", "loop"}
  /\ num \in [Dispatchers -> Nat]
  /\ tries \in [Dispatchers -> 0..(Attempts - 1)]
  /\ rcpt \in [Dispatchers -> SUBSET Subs]
  /\ faults \in 0..MaxFaults
  /\ mails \in [Issues -> [Subs -> Nat]]
  /\ licence \in [Issues -> 0..MaxApprovals]
  /\ crossed \subseteq Finds

\* Nobody is mailed an issue more often than the operator approved it (a
\* cancelled approval not counted), however the dispatchers, a cancellation, an
\* unpublication or a crash interleave.
SendsAreApproved ==
  \A i \in Issues, u \in Subs : mails[i][u] <= licence[i]

\* "a collision cannot strand an issue in `sending`"
\* (_assign_ship_number_with_retry): an issue that no dispatcher works on is in
\* sending only after a crash or a failed write.
StrandedOnlyByFault ==
  \A i \in Issues :
    status[i] = "sending" /\ (\A d \in Dispatchers : cur[d] # i) => faults > 0

\* An approved issue whose time has come is sent, goes back to the operator or
\* is deleted, unless something failed.
DueIssueSettles ==
  \A i \in Issues :
    (status[i] = "approved" /\ sched[i] = "due")
      ~> (status[i] \in {"sent", "awaiting_approval", "deleted"} \/ faults > 0)

\* Whatever operators and the daily cycle do to finds and issues while dispatchers
\* run and the server stops and starts, no find is left tagged to an issue that is
\* gone, and none is queued and dismissed at once (delete_issue,
\* set_find_dismissed, assign_find_to_issue, create_manual_find,
\* auto_populate_draft).  Excepted are the finds that two requests were about to
\* write at once, each over what the other read, or that one was tagging onto the
\* issue another was deleting.
FindsCoherent ==
  /\ \A f \in Finds \ crossed : tag[f] # None => tag[f] \in Rows
  /\ pending \cap dismissed \subseteq crossed
=============================================================================
