------------------------------ MODULE Library -------------------------------
(***************************************************************************)
(* Curation of discovery finds (core/discovery_queue.py behind             *)
(* api/admin_discovery.py) and the two stores a find is copied to: a file  *)
(* in the library's GitHub repository (kb/library_publisher.py) and a      *)
(* document in Chroma (kb/discovery_ingest.py).                            *)
(*                                                                         *)
(* A request loads the find's row, changes the stores over the network and *)
(* then commits.  Nothing holds the row meanwhile, and the commit writes   *)
(* the columns the request changed and only those.  The stores take no     *)
(* part in the transaction.                                                *)
(*                                                                         *)
(* A file's path is the one asked for or has the current month in it, so   *)
(* that any path of Paths may be the default.  Notes, titles, audit rows,  *)
(* error texts and timestamps are left out.                                *)
(***************************************************************************)
EXTENDS Naturals, FiniteSets

CONSTANTS
  Finds,
  Candidates,     \* the finds of type new_source_candidate
  Paths,
  Requests,       \* requests that may be in flight at once
  MaxStarts,      \* bound: requests started
  MaxFaults,      \* bound: crashes, lost answers, failing stores
  None

ASSUME LibraryAssumption ==
  /\ Candidates \subseteq Finds
  /\ MaxStarts \in Nat /\ MaxFaults \in Nat
  /\ None \notin Finds \cup Paths

VARIABLES
  row,            \* discovery_find, the columns curation is about
  files,          \* the repository: <<find, path>>
  docs,           \* finds with a document in Chroma
  watched,        \* sources made from each candidate
  req,            \* the requests in flight
  raced,          \* finds two requests worked on at the same time
  troubled,       \* finds that a fault hit half-way
  starts, faults

storeVars == <<files, docs>>
vars == <<row, files, docs, watched, req, raced, troubled, starts, faults>>

NoRow == [status |-> "none", lib |-> FALSE, path |-> None, kb |-> FALSE,
          ticker |-> FALSE, queued |-> FALSE, featured |-> FALSE, dismissed |-> FALSE]
Rows == [status : {"none", "pending", "auto_indexed", "approved", "rejected", "withdrawn"},
         lib : BOOLEAN, path : Paths \cup {None}, kb : BOOLEAN,
         ticker : BOOLEAN, queued : BOOLEAN, featured : BOOLEAN, dismissed : BOOLEAN]

NoReq == [op |-> "none", f |-> None, at |-> "none", old |-> NoRow, new |-> NoRow,
          path |-> None, sha |-> FALSE, ingest |-> FALSE]

Public(w) == w.status \in {"approved", "auto_indexed"}

Init ==
  /\ row = [f \in Finds |-> NoRow]
  /\ files = {} /\ docs = {}
  /\ watched = [f \in Finds |-> {}]
  /\ req = [r \in Requests |-> NoReq]
  /\ raced = {} /\ troubled = {}
  /\ starts = 0 /\ faults = 0

Fault == faults < MaxFaults /\ faults' = faults + 1
Working(f) == {r \in Requests : req[r].f = f}
-----------------------------------------------------------------------------
(* What the toggles make of a row *)

SetFeatured(w, on) == [w EXCEPT !.featured = on]

\* The legacy flag is kept in step, and featuring takes a dismissal back.
SetTickerFeatured(w, on) ==
  [w EXCEPT !.ticker = on, !.featured = on, !.dismissed = @ /\ ~on]

\* mutant: queueing does not take a dismissal back.
SetNewsletterPendingOnly(w, on) == [w EXCEPT !.queued = on]

SetNewsletterPending(w, on) == [w EXCEPT !.queued = on, !.dismissed = @ /\ ~on]

\* Dismissing takes the find off every public surface.
SetDismissed(w, on) ==
  IF on THEN [w EXCEPT !.dismissed = TRUE, !.ticker = FALSE, !.queued = FALSE, !.featured = FALSE]
        ELSE [w EXCEPT !.dismissed = FALSE]

Shelved(w, p) == [w EXCEPT !.lib = TRUE, !.path = p]
Unshelved(w) == [w EXCEPT !.lib = FALSE, !.path = None]
-----------------------------------------------------------------------------
(* Requests *)

\* A request loads the row and has made new of it so far.
BeginAt(r, op, f, at, new, p, ingest) ==
  /\ req[r] = NoReq /\ starts < MaxStarts
  /\ req' = [req EXCEPT ![r] = [op |-> op, f |-> f, at |-> at, old |-> row[f], new |-> new,
                                path |-> p, sha |-> FALSE, ingest |-> ingest]]
  /\ raced' = IF Working(f) = {} THEN raced ELSE raced \cup {f}
  /\ starts' = starts + 1
  /\ UNCHANGED <<row, files, docs, watched, troubled, faults>>

Begin(r, op, f, at, new) == BeginAt(r, op, f, at, new, None, FALSE)

Exists(f) == row[f].status # "none"

\* The four toggles of the admin panel.
FeatureFind(r, f, on) == Exists(f) /\ Begin(r, "toggle", f, "commit", SetFeatured(row[f], on))
TickerFeatureFind(r, f, on) ==
  Exists(f) /\ Begin(r, "toggle", f, "commit", SetTickerFeatured(row[f], on))
QueueForNewsletter(r, f, on) ==
  Exists(f) /\ Begin(r, "toggle", f, "commit", SetNewsletterPending(row[f], on))
DismissFind(r, f, on) == Exists(f) /\ Begin(r, "toggle", f, "commit", SetDismissed(row[f], on))

\* decide_find takes a find of any status and clears the Chroma flag first.
ApproveFind(r, f, p, publish, ingest) ==
  LET w == [row[f] EXCEPT !.kb = FALSE] IN
  /\ Exists(f)
  /\ BeginAt(r, "approve", f,
             IF publish /\ ~w.lib THEN "find file" ELSE IF ingest THEN "ingest" ELSE "commit",
             [w EXCEPT !.status = "approved"], p, ingest)

RejectFind(r, f) ==
  /\ Exists(f)
  /\ Begin(r, "reject", f, "commit", [row[f] EXCEPT !.status = "rejected", !.kb = FALSE])

\* promote_find_to_library: a published find is answered as it is.  The code also
\* asks for its URL, which GitHub's answer to every write has and which comes and
\* goes with the flag.
PromoteLibrary(r, f, p) ==
  /\ Exists(f) /\ Public(row[f]) /\ ~row[f].lib
  /\ BeginAt(r, "promote", f, "find file", row[f], p, FALSE)

UnpublishLatest(r, f) ==
  /\ Exists(f) /\ Public(row[f])
  /\ Begin(r, "withdraw", f, "commit", [row[f] EXCEPT !.status = "withdrawn"])

UnpublishLibrary(r, f) ==
  /\ Exists(f)
  /\ BeginAt(r, "unpublish", f, IF row[f].lib THEN "find file" ELSE "commit",
             Unshelved(row[f]), row[f].path, FALSE)

PurgeKb(r, f) == Exists(f) /\ Begin(r, "purge", f, "purge", [row[f] EXCEPT !.kb = FALSE])

\* mutant: the proposal is not decided.
PromoteSourceOnly(r, f, artifacts) ==
  /\ f \in Candidates /\ row[f].status = "pending" /\ watched[f] = {}
  /\ BeginAt(r, "source", f, "primary", row[f], None, artifacts)

\* promote_find_to_source, once the names are known to be free.  The artifact
\* scan of a repository is a second source.
PromoteSource(r, f, artifacts) ==
  /\ f \in Candidates /\ row[f].status = "pending" /\ watched[f] = {}
  /\ BeginAt(r, "source", f, "primary", [row[f] EXCEPT !.status = "approved"], None, artifacts)

\* A pass has flushed the row of a new event; nobody else sees it yet.
AutoIngest(r, f, p) ==
  /\ f \notin Candidates /\ ~Exists(f) /\ Working(f) = {}
  /\ BeginAt(r, "auto", f, "find file", [NoRow EXCEPT !.status = "auto_indexed"], p, TRUE)

\* _queue_proposals and the scheduler leave a proposed source to be decided.
QueueProposal(f) ==
  /\ f \in Candidates /\ ~Exists(f)
  /\ row' = [row EXCEPT ![f] = [NoRow EXCEPT !.status = "pending"]]
  /\ UNCHANGED <<files, docs, watched, req, raced, troubled, starts, faults>>

\* create_manual_find: a pasted URL goes straight to the newsletter queue, and
\* pasting it again only queues it again.
CreateManualFind(f, queue) ==
  /\ f \notin Candidates /\ Working(f) = {} /\ starts < MaxStarts
  /\ row' = [row EXCEPT ![f] =
       IF ~Exists(f) THEN [NoRow EXCEPT !.status = "auto_indexed", !.queued = queue]
       ELSE IF queue /\ ~@.queued THEN SetNewsletterPending(@, TRUE) ELSE @]
  /\ starts' = starts + 1
  /\ UNCHANGED <<files, docs, watched, req, raced, troubled, faults>>
-----------------------------------------------------------------------------
(* The stores *)

Goto(r, at) == req' = [req EXCEPT ![r].at = at]
End(r) == req' = [req EXCEPT ![r] = NoReq]
OnShelf(r) == <<req[r].f, req[r].path>> \in files

\* Where a request goes once its file is written.
AfterPublish(q) == IF q.ingest THEN "ingest" ELSE "commit"

\* _existing_file_sha; delete_library_file is done when there is no file.
FindFile(r) ==
  /\ req[r].at = "find file"
  /\ req' = [req EXCEPT ![r].sha = OnShelf(r),
       ![r].at = IF req[r].op # "unpublish" THEN "put" ELSE IF OnShelf(r) THEN "delete" ELSE "commit"]
  /\ UNCHANGED <<row, storeVars, watched, raced, troubled, starts, faults>>

\* mutant: only the flag is set and the path of the file is not kept.
PutFileForgetsPath(r) ==
  /\ req[r].at = "put" /\ req[r].sha = OnShelf(r)
  /\ files' = files \cup {<<req[r].f, req[r].path>>}
  /\ req' = [req EXCEPT ![r].at = AfterPublish(req[r]), ![r].new = Shelved(@, None)]
  /\ UNCHANGED <<row, docs, watched, raced, troubled, starts, faults>>

\* _put_file, which GitHub takes only with the sha of the file that is there.
PutFile(r) ==
  /\ req[r].at = "put" /\ req[r].sha = OnShelf(r)
  /\ files' = files \cup {<<req[r].f, req[r].path>>}
  /\ req' = [req EXCEPT ![r].at = AfterPublish(req[r]), ![r].new = Shelved(@, req[r].path)]
  /\ UNCHANGED <<row, docs, watched, raced, troubled, starts, faults>>

\* mutant: a missing permission is taken for "already gone".
DeleteFileSkipped(r) ==
  /\ req[r].at = "delete" /\ OnShelf(r)
  /\ Goto(r, "commit")
  /\ UNCHANGED <<row, storeVars, watched, raced, troubled, starts, faults>>

DeleteFile(r) ==
  /\ req[r].at = "delete" /\ OnShelf(r)
  /\ files' = files \ {<<req[r].f, req[r].path>>}
  /\ Goto(r, "commit")
  /\ UNCHANGED <<row, docs, watched, raced, troubled, starts, faults>>

\* A write GitHub refuses, or whose answer is lost after it took effect.  A pass
\* goes on without the file, a decision keeps the cleared Chroma flag, and the
\* others leave the row alone.
LibraryFails(r) ==
  LET q == req[r] IN
  /\ q.at \in {"find file", "put", "delete"}
  /\ \/ files' = files /\ UNCHANGED troubled
     \/ /\ q.at # "find file" /\ q.sha = OnShelf(r)
        /\ files' = IF q.at = "put" THEN files \cup {<<q.f, q.path>>} ELSE files \ {<<q.f, q.path>>}
        /\ troubled' = troubled \cup {q.f}
  /\ IF q.op = "auto"
     THEN Goto(r, "ingest") /\ UNCHANGED row
     ELSE /\ End(r)
          /\ row' = IF q.op = "approve" /\ q.old.kb THEN [row EXCEPT ![q.f].kb = FALSE] ELSE row
  /\ Fault
  /\ UNCHANGED <<docs, watched, raced, starts>>

\* A file appeared or went since the sha was read.
LibraryConflict(r) ==
  LET q == req[r] IN
  /\ q.at \in {"put", "delete"} /\ q.sha # OnShelf(r)
  /\ End(r)
  /\ row' = IF q.op = "approve" /\ q.old.kb THEN [row EXCEPT ![q.f].kb = FALSE] ELSE row
  /\ UNCHANGED <<storeVars, watched, raced, troubled, starts, faults>>

IngestFind(r) ==
  /\ req[r].at = "ingest"
  /\ docs' = docs \cup {req[r].f}
  /\ req' = [req EXCEPT ![r].at = "commit", ![r].new.kb = TRUE]
  /\ UNCHANGED <<row, files, watched, raced, troubled, starts, faults>>

\* mutant: the flag is set before the index answers.
IngestFailsFlagged(r) ==
  /\ req[r].at = "ingest"
  /\ IF req[r].op = "auto" THEN req' = [req EXCEPT ![r].at = "commit", ![r].new.kb = TRUE] ELSE End(r)
  /\ troubled' = IF req[r].op # "auto" /\ req[r].new.lib THEN troubled \cup {req[r].f} ELSE troubled
  /\ Fault
  /\ UNCHANGED <<row, storeVars, watched, raced, starts>>

\* A pass commits the row all the same; a decision is abandoned after its file
\* was written.
IngestFails(r) ==
  /\ req[r].at = "ingest"
  /\ IF req[r].op = "auto" THEN Goto(r, "commit") ELSE End(r)
  /\ troubled' = IF req[r].op # "auto" /\ req[r].new.lib THEN troubled \cup {req[r].f} ELSE troubled
  /\ Fault
  /\ UNCHANGED <<row, storeVars, watched, raced, starts>>

PurgeFind(r) ==
  /\ req[r].at = "purge"
  /\ docs' = docs \ {req[r].f}
  /\ Goto(r, "commit")
  /\ UNCHANGED <<row, files, watched, raced, troubled, starts, faults>>

\* Before Chroma did anything, or after it did.
PurgeFails(r) ==
  /\ req[r].at = "purge"
  /\ \/ docs' = docs /\ UNCHANGED troubled
     \/ docs' = docs \ {req[r].f} /\ troubled' = troubled \cup {req[r].f}
  /\ End(r)
  /\ Fault
  /\ UNCHANGED <<row, files, watched, raced, starts>>

\* add_watched_source commits each source on its own.
AddPromoted(r) ==
  LET q == req[r] IN
  /\ q.at \in {"primary", "artifact"} /\ q.at \notin watched[q.f]
  /\ watched' = [watched EXCEPT ![q.f] = @ \cup {q.at}]
  /\ Goto(r, IF q.at = "primary" /\ q.ingest THEN "artifact" ELSE "commit")
  /\ UNCHANGED <<row, storeVars, raced, troubled, starts, faults>>

\* The name was taken meanwhile.
AddCollides(r) ==
  /\ req[r].at \in {"primary", "artifact"} /\ req[r].at \in watched[req[r].f]
  /\ End(r)
  /\ UNCHANGED <<row, storeVars, watched, raced, troubled, starts, faults>>
-----------------------------------------------------------------------------
(* The end of a request *)

\* The columns a request changed, over what the row is by now.
Written(w, q) == [c \in DOMAIN w |-> IF q.new[c] # q.old[c] THEN q.new[c] ELSE w[c]]

Commit(r) ==
  /\ req[r].at = "commit"
  /\ row' = [row EXCEPT ![req[r].f] = Written(@, req[r])]
  /\ End(r)
  /\ UNCHANGED <<storeVars, watched, raced, troubled, starts, faults>>

\* A pass that collides with another rolls the row back and leaves what it
\* published.
RollBack(r) ==
  /\ req[r].op = "auto" /\ req[r].at = "commit"
  /\ End(r)
  /\ troubled' = troubled \cup {req[r].f}
  /\ Fault
  /\ UNCHANGED <<row, storeVars, watched, raced, starts>>

Crash ==
  /\ \E r \in Requests : req[r] # NoReq
  /\ req' = [r \in Requests |-> NoReq]
  /\ troubled' = troubled \cup {f \in Finds : Working(f) # {}}
  /\ Fault
  /\ UNCHANGED <<row, storeVars, watched, raced, starts>>

\* kb/maintenance.py, with the services stopped: Chroma is rebuilt from the
\* corpus, which has no discovery find in it.
RebuildChroma ==
  /\ \A r \in Requests : req[r] = NoReq
  /\ docs' = {}
  /\ troubled' = troubled \cup docs
  /\ Fault
  /\ UNCHANGED <<row, files, watched, req, raced, starts>>

Start(r, f) ==
  \/ \E on \in BOOLEAN : \/ FeatureFind(r, f, on) \/ TickerFeatureFind(r, f, on)
                         \/ QueueForNewsletter(r, f, on) \/ DismissFind(r, f, on)
                         \/ PromoteSource(r, f, on)
  \/ \E p \in Paths : \/ \E publish, ingest \in BOOLEAN : ApproveFind(r, f, p, publish, ingest)
                      \/ PromoteLibrary(r, f, p) \/ AutoIngest(r, f, p)
  \/ RejectFind(r, f) \/ UnpublishLatest(r, f) \/ UnpublishLibrary(r, f) \/ PurgeKb(r, f)

Step(r) ==
  \/ FindFile(r) \/ PutFile(r) \/ DeleteFile(r) \/ LibraryConflict(r)
  \/ IngestFind(r) \/ PurgeFind(r) \/ AddPromoted(r) \/ AddCollides(r) \/ Commit(r)

Next ==
  \/ \E r \in Requests, f \in Finds : Start(r, f)
  \/ \E r \in Requests : \/ Step(r) \/ LibraryFails(r) \/ IngestFails(r) \/ PurgeFails(r)
                         \/ RollBack(r)
  \/ \E f \in Finds : QueueProposal(f) \/ \E queue \in BOOLEAN : CreateManualFind(f, queue)
  \/ Crash \/ RebuildChroma

Spec == Init /\ [][Next]_vars
-----------------------------------------------------------------------------
(* Properties *)

Reqs == [op : {"none", "toggle", "approve", "reject", "promote", "withdraw", "unpublish",
               "purge", "source", "auto"},
         f : Finds \cup {None},
         at : {"none", "find file", "put", "delete", "ingest", "purge", "primary", "artifact",
               "commit"},
         old : Rows, new : Rows, path : Paths \cup {None}, sha : BOOLEAN, ingest : BOOLEAN]

\* The variables have their types, and a shelved find has a path.
TypeOK ==
  /\ row \in [Finds -> Rows]
  /\ files \subseteq Finds \X Paths /\ docs \subseteq Finds
  /\ watched \in [Finds -> SUBSET {"primary", "artifact"}]
  /\ req \in [Requests -> Reqs]
  /\ raced \subseteq Finds /\ troubled \subseteq Finds
  /\ starts \in 0..MaxStarts /\ faults \in 0..MaxFaults

Shelf(f) == {p \in Paths : <<f, p>> \in files}

\* While nothing works on a find, its row and the repository agree: the file the
\* row names is there and there is no other.  Only requests that overlapped on
\* the find, or a fault between the write to GitHub and the commit, excuse it.
ShelfMatchesRow ==
  \A f \in Finds \ (raced \cup troubled) :
    Working(f) = {} => Shelf(f) = IF row[f].lib THEN {row[f].path} ELSE {}

\* A find flagged as ingested is in Chroma: decisions clear the flag before they
\* do anything, so that no failure leaves it standing over a missing document.
\* The same excuses, and a rebuild, which does not know of finds.
FlagHasDocument ==
  \A f \in Finds \ (raced \cup troubled) : row[f].kb => f \in docs \/ Working(f) # {}

\* A dismissed find is on no public surface, whatever was toggled in which order
\* before, unless two toggles overlapped: each writes only what it changed, so
\* that "dismiss" beside "feature" can leave both flags set.
DismissedIsHidden ==
  \A f \in Finds \ raced : row[f].dismissed => ~row[f].ticker /\ ~row[f].queued

\* A proposal that became sources does not stay in the queue, where a second
\* promotion would find its names taken.
PromotedLeavesQueue ==
  \A f \in Candidates \ troubled :
    watched[f] # {} /\ Working(f) = {} => row[f].status # "pending"

\* An unpublish that ends well leaves no file at the path the row had, whatever
\* faults came before: it is how a half-done request is repaired.
UnpublishRemoves ==
  [][\A r \in Requests :
       req[r].op = "unpublish" /\ req[r].at = "commit" /\ req'[r] = NoReq /\ req[r].f \notin raced
         /\ row' # row => <<req[r].f, req[r].old.path>> \notin files']_vars
=============================================================================
