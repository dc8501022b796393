------------------------------- MODULE Review -------------------------------
(***************************************************************************)
(* The pull-request reviewer of CI (.github/scripts/claude_review.py): it  *)
(* lists the changed files page by page, takes a diff of each from GitHub  *)
(* or from git, cuts the whole diff into chunks, has a model review the    *)
(* chunks in a pool of threads and merges their reviews, and writes the    *)
(* status word from which the workflow decides the colour of the check.    *)
(*                                                                         *)
(* GitHub, git and the model API are the environment: a request to one of  *)
(* them is an action whose outcome is any of those the code handles.  The  *)
(* pull request may be pushed to at any moment; a push behind the listing  *)
(* changes nothing that the script still reads and is left out.  A file is *)
(* a number, its place in the listing; a diff is its header and the sizes  *)
(* of its hunks as they are when the diff is taken.  A push that edits the *)
(* file later makes that diff stale.                                       *)
(* Redaction rewrites text inside a hunk and is left out with the prompts, *)
(* the prices and the wording of the comment.                              *)
(***************************************************************************)
EXTENDS Integers, Sequences, FiniteSets, SequencesExt

CONSTANTS
    Files,          \* the files a pull request may change, numbers
    Reviewable,     \* the ones include_file lets through
    Shapes,         \* file -> sizes of its hunks, one function for each diff
    HeaderSize,     \* size of the lines in front of the first hunk
    ReviewBudget,   \* CLAUDE_REVIEW_MAX_CHARS, the size of a chunk
    FilesApiLimit,  \* FILES_API_LIMIT
    ReviewWorkers,  \* REVIEW_WORKERS
    PerCall,        \* output tokens a call is estimated at
    Context,        \* size of the block every call of a review in parts repeats
    CapUsd,         \* CLAUDE_REVIEW_MAX_USD, in the units of the estimate
    MaxPushes       \* bound: pushes to the pull request during the run

ASSUME ReviewAssumption ==
    /\ Reviewable \subseteq Files /\ Files \subseteq Nat /\ IsFiniteSet(Files)
    /\ Shapes \subseteq [Files -> Seq(Nat)]
    /\ {HeaderSize, ReviewBudget, FilesApiLimit, ReviewWorkers} \subseteq Nat \ {0}
    /\ {PerCall, Context, CapUsd, MaxPushes} \subseteq Nat

VARIABLES
    scope,      \* REVIEW_SCOPE with or without a PR number: "pr", "git", "full"
    key,        \* ANTHROPIC_API_KEY is set
    hunks,      \* the sizes of the hunks of every file, in the diff taken of it
    head,       \* the files HEAD_SHA of the event changes
    pr,         \* the files the pull request changes, until they are listed
    pc,         \* where the script is
    changed,    \* the PR's changed_files, or Unknown
    page,       \* the next page of the listing; a page holds one file
    listed,     \* files the API sent
    sections,   \* the diffs obtained, in order
    unfetched,  \* reviewable files without a diff
    fetched,    \* fetch_pr_head: "not yet", "yes", "no"
    gap,        \* the listing is known to be incomplete
    todo,       \* sections not packed yet
    rest,       \* hunks not packed yet of the file being cut
    current,    \* the chunk being filled
    piece,      \* the part in hand of the file being cut
    chunks,     \* the chunks filled; in the end, the diff
    running,    \* parts being reviewed
    results,    \* part -> outcome of its call
    status,     \* claude-review.status
    pushes,
    grew,       \* ghost: a push put files in while they were listed
    shrank,     \* ghost: a push took files out while they were listed
    stale       \* ghost: files edited since the diff the script has of them, or
                \* since the PR head was fetched

given == <<scope, key, hunks, head>>
listing == <<changed, page, listed, sections, unfetched, fetched, gap>>
packing == <<todo, rest, current, piece, chunks>>
calls == <<running, results>>
ghosts == <<grew, shrank, stale>>
vars == <<given, pr, pc, listing, packing, calls, status, pushes, ghosts>>

\* GitHub gave no count.
Unknown == -1

\* post_review: the body of the answer, or why there is none; each of those has
\* its own handler.
PostReview == {"body", "HTTP error", "cut off", "no connection", "not JSON"}

\* review_text_from_body: a review, one that max_tokens cut, or none; a body of a
\* shape nobody expects raises.
ReviewTextFromBody == {"ok", "truncated", "empty", "crash"}

ReviewOnce(answer) == IF answer = "body" THEN ReviewTextFromBody ELSE {"failed"}

\* The status word of one call, or "crash" for an error that escapes it
Outcomes == UNION {ReviewOnce(answer) : answer \in PostReview}

-----------------------------------------------------------------------------
(* The pieces of a diff and how chunk_diff packs them.                     *)

\* A piece is a hunk of a file; hunk 0 is the header.
Header(f) == <<f, 0>>

PieceSize(p) == IF p[2] = 0 THEN HeaderSize ELSE hunks[p[1]][p[2]]

SizeOf(pieces) ==
    LET upto[i \in 0 .. Len(pieces)] ==
          IF i = 0 THEN 0 ELSE upto[i - 1] + PieceSize(pieces[i])
    IN  upto[Len(pieces)]

HunksOf(f) == [i \in 1 .. Len(hunks[f]) |-> <<f, i>>]

FileSection(f) == <<Header(f)>> \o HunksOf(f)

\* A chunk is closed when it holds anything.
Closed(chunk) == IF chunk = <<>> THEN chunks ELSE Append(chunks, chunk)

-----------------------------------------------------------------------------
Init ==
    /\ scope \in {"pr", "git", "full"}
    /\ key \in BOOLEAN
    /\ hunks \in Shapes
    /\ pr \in SUBSET Files /\ head = pr
    /\ pc = IF scope = "pr" THEN "count" ELSE scope
    /\ changed = Unknown /\ page = 1 /\ listed = 0
    /\ sections = <<>> /\ unfetched = {} /\ fetched = "not yet" /\ gap = FALSE
    /\ todo = <<>> /\ rest = <<>> /\ current = <<>> /\ piece = <<>>
    /\ chunks = <<>> /\ running = {} /\ results = <<>>
    /\ status = "missing"
    /\ pushes = 0
    /\ grew = FALSE /\ shrank = FALSE /\ stale = {}

\* The status is the last thing the script writes.  A write_review or write_status
\* that raises is one more error run() reports; one that raises again is not
\* caught, and leaves no status.
Finish(word) ==
    \/ status' \in {word, "failed"} /\ pc' = "done"
    \/ UNCHANGED status /\ pc' = "exit"

\* A mutant for the checks: an error the script does not expect ends it.
NetMissing == UNCHANGED status /\ pc' = "done"

\* run(): whatever escapes main() still writes a status.
RunNet == Finish("failed")

\* PrChangedFiles: one request, which may fail or give no number.
PrChangedFiles ==
    /\ pc = "count"
    /\ changed' \in {Unknown, Cardinality(pr)}
    /\ pc' = "page"
    /\ UNCHANGED <<given, pr, page, listed, sections, unfetched,
                   fetched, gap, packing, calls, status, pushes, ghosts>>

\* The numbers of a set from the least to the greatest
Sorted(S) ==
    CHOOSE s \in [1 .. Cardinality(S) -> S] : \A i, j \in DOMAIN s : i < j => s[i] < s[j]

Listing == Sorted(pr)

\* include_file, as the sets of the instance have it
IncludeFile(f) == f \in Reviewable

\* A mutant for the checks: the number of files sent is taken on trust.
NoListingGap(count) == FALSE

\* What listing_gap reports once the pages have ended.
ListingGap(count) ==
    \/ count >= FilesApiLimit
    \/ changed # count

\* A page comes back empty behind the last file and behind the limit.
LastPage ==
    /\ pc = "page"
    /\ page > Len(Listing) \/ page > FilesApiLimit
    /\ gap' = ListingGap(listed)
    /\ pc' = "plan"
    /\ UNCHANGED <<given, pr, changed, page, listed, sections,
                   unfetched, fetched, packing, calls, status, pushes, ghosts>>

\* A page that fails ends the listing as a gap.
ListingFailed ==
    /\ pc = "page"
    /\ gap' = TRUE
    /\ pc' = "plan"
    /\ UNCHANGED <<given, pr, changed, page, listed, sections,
                   unfetched, fetched, packing, calls, status, pushes, ghosts>>

\* fetch_pr_head: once a run, whatever comes of it
FetchPrHead ==
    fetched' \in IF fetched = "not yet" THEN {"yes", "no"} ELSE {fetched}

\* git_file_diff needs the PR head, and git may still fail on the file.
GitFileDiff(f) ==
    \/ /\ fetched' = "yes"
       /\ sections' = Append(sections, f)
       /\ UNCHANGED unfetched
    \/ /\ unfetched' = unfetched \cup {f}
       /\ UNCHANGED sections

\* The file of the next page: its patch is in the page, or it is too large for
\* the API and git is asked for it, after one fetch of the PR head.
PrDiff ==
    /\ pc = "page"
    /\ page <= Len(Listing) /\ page <= FilesApiLimit
    /\ LET f == Listing[page] IN
       \/ /\ ~IncludeFile(f)
          /\ UNCHANGED <<sections, unfetched, fetched, stale>>
       \/ /\ IncludeFile(f)                \* with its patch
          /\ sections' = Append(sections, f)
          /\ stale' = stale \ {f}
          /\ UNCHANGED <<unfetched, fetched>>
       \/ /\ IncludeFile(f)                \* without
          /\ FetchPrHead
          /\ GitFileDiff(f)
          /\ UNCHANGED stale
    /\ listed' = listed + 1
    /\ page' = page + 1
    /\ UNCHANGED <<given, pr, pc, changed, gap, packing, calls, status,
                   pushes, grew, shrank>>

\* The author pushes while the script lists the files: some go in, some go out,
\* some whose diff the script has, or has fetched, are edited.  What comes later
\* is the matter of the next run.
Push ==
    /\ pc \in {"count", "page"}
    /\ pushes < MaxPushes
    /\ pushes' = pushes + 1
    /\ pr' \in SUBSET Files
    /\ \E edited \in SUBSET (pr \cap pr' \cap Reviewable) :
          stale' = stale \cup (IF fetched = "yes" THEN edited
                               ELSE edited \cap {sections[i] : i \in DOMAIN sections})
    /\ <<pr', stale'>> # <<pr, stale>>
    /\ grew' = (grew \/ (pc = "page" /\ ~(pr' \subseteq pr)))
    /\ shrank' = (shrank \/ (pc = "page" /\ ~(pr \subseteq pr')))
    /\ UNCHANGED <<given, pc, listing, packing, calls, status>>

LeftOut == unfetched # {} \/ gap

\* The script asks git for the diff of base and head when the API gave
\* nothing; git may fail, which nothing but run() handles.
NeedsGit == sections = <<>> /\ ~LeftOut

ReviewPlan ==
    /\ pc \in {"plan", "git"}
    /\ \/ /\ NeedsGit
          /\ sections' = Sorted(head \cap Reviewable)
          /\ pc' = "pack"
          /\ UNCHANGED status
       \/ /\ NeedsGit
          /\ RunNet
          /\ UNCHANGED sections
       \/ /\ ~NeedsGit
          /\ pc' = "pack"
          /\ UNCHANGED <<sections, status>>
    /\ todo' = sections'
    /\ UNCHANGED <<given, pr, changed, page, listed, unfetched,
                   fetched, gap, rest, current, piece, chunks, calls, pushes,
                   ghosts>>

-----------------------------------------------------------------------------
(* chunk_diff, a section or a hunk at a step.                              *)

\* A file that fits what is left of the chunk joins it; one that fits a chunk
\* of its own, or has no hunk to cut at, starts the next; any other is cut.
ChunkDiff ==
    /\ pc = "pack"
    /\ todo # <<>> /\ piece = <<>>
    /\ LET f == Head(todo)
           section == FileSection(f)
           fits == SizeOf(current) + SizeOf(section) <= ReviewBudget
           whole == SizeOf(section) <= ReviewBudget \/ hunks[f] = <<>>
       IN  \/ /\ fits
              /\ current' = current \o section
              /\ todo' = Tail(todo)
              /\ UNCHANGED <<chunks, rest, piece>>
           \/ /\ ~fits /\ whole
              /\ chunks' = Closed(current)
              /\ current' = section
              /\ todo' = Tail(todo)
              /\ UNCHANGED <<rest, piece>>
           \/ /\ ~fits /\ ~whole
              /\ piece' = <<Header(f)>>
              /\ rest' = HunksOf(f)
              /\ UNCHANGED <<chunks, current, todo>>
    /\ UNCHANGED <<given, pr, pc, listing, calls, status, pushes,
                   ghosts>>

\* A mutant for the checks: a full chunk is closed without the piece in hand.
FilledLosing == current

\* What a full chunk holds: the piece in hand too, once it has a hunk.
Filled == IF Len(piece) > 1 THEN current \o piece ELSE current

\* One hunk of a file being cut: it joins the piece in hand, or the chunk is
\* closed and the hunk starts the next one, under the header again.
CutHunk ==
    /\ pc = "pack"
    /\ piece # <<>> /\ rest # <<>>
    /\ LET hunk == Head(rest)
           full == SizeOf(current) + SizeOf(piece) + PieceSize(hunk) > ReviewBudget
       IN  \/ /\ full
              /\ chunks' = Closed(Filled)
              /\ current' = <<>>
              /\ piece' = <<Header(hunk[1]), hunk>>
           \/ /\ ~full
              /\ piece' = Append(piece, hunk)
              /\ UNCHANGED <<chunks, current>>
    /\ rest' = Tail(rest)
    /\ UNCHANGED <<given, pr, pc, listing, todo, calls, status,
                   pushes, ghosts>>

EndOfFile ==
    /\ pc = "pack"
    /\ piece # <<>> /\ rest = <<>>
    /\ current' = current \o piece
    /\ piece' = <<>>
    /\ todo' = Tail(todo)
    /\ UNCHANGED <<given, pr, pc, listing, rest, chunks, calls,
                   status, pushes, ghosts>>

EndOfDiff ==
    /\ pc = "pack"
    /\ todo = <<>>
    /\ chunks' = Closed(current)
    /\ current' = <<>>
    /\ pc' = "main"
    /\ UNCHANGED <<given, pr, listing, todo, rest, piece, calls,
                   status, pushes, ghosts>>

-----------------------------------------------------------------------------
Parts == Len(chunks)

Calls == IF Parts > 1 THEN Parts + 1 ELSE Parts

DiffSize == SizeOf(FlattenSeq(chunks))

\* Diff, repeated context, the part reviews the merge reads, and the output.
EstimateCostUsd ==
    DiffSize + Calls * PerCall
    + (IF Parts > 1 THEN Context * Calls + Parts * PerCall ELSE 0)

\* What main() decides before the first call.
Main ==
    /\ pc = "main"
    /\ CASE Parts = 0 /\ LeftOut        -> Finish("partial")
         [] Parts = 0 /\ ~LeftOut       -> Finish("skipped")
         [] Parts > 0 /\ ~key           -> Finish("no-key")
         [] Parts > 0 /\ key /\ EstimateCostUsd > CapUsd -> Finish("over-budget")
         [] OTHER                       -> pc' = "first" /\ UNCHANGED status
    /\ UNCHANGED <<given, pr, listing, packing, calls, pushes, ghosts>>

\* REVIEW_SCOPE=full: one call over a snapshot cut at the budget, or none.
MainFull ==
    /\ pc = "full"
    /\ \E word \in {"failed", "skipped"} \cup
                   (IF key THEN {"over-budget", "ok", "truncated", "empty"}
                           ELSE {"no-key"}) : Finish(word)
    /\ UNCHANGED <<given, pr, listing, packing, calls, pushes, ghosts>>

\* messages_endpoint: a base URL that is neither https nor loopback is refused by
\* SystemExit, which run() does not catch; the script ends without a status.
MessagesEndpoint ==
    /\ pc = "first" \/ (pc = "full" /\ key)
    /\ pc' = "exit"
    /\ UNCHANGED <<given, pr, listing, packing, calls, status, pushes, ghosts>>

\* A finished review with something left out is partial; any other outcome is
\* already red and keeps its own word.
Marked(word) == IF word = "ok" /\ LeftOut THEN "partial" ELSE word

\* The first part runs alone; a review in one part is this call and no more.  A
\* request that raises ends the script; an odd answer in a review of several
\* parts is only read, and raises, when all of them are in.
ReviewFirst ==
    /\ pc = "first"
    /\ \E outcome \in Outcomes :
          /\ results' = <<outcome>>
          /\ \/ outcome = "crash" /\ RunNet
             \/ outcome # "crash" /\ Parts = 1 /\ Finish(Marked(outcome))
             \/ Parts > 1 /\ pc' = "pool" /\ UNCHANGED status
    /\ UNCHANGED <<given, pr, listing, packing, running, pushes, ghosts>>

\* pool.map: the other parts start in order, ReviewWorkers at a time.
StartPart ==
    /\ pc = "pool"
    /\ Cardinality(running) < ReviewWorkers
    /\ Cardinality(DOMAIN results \cup running) < Parts
    /\ LET part == 1 + Cardinality(DOMAIN results \cup running)
       IN  running' = running \cup {part}
    /\ UNCHANGED <<given, pr, pc, listing, packing, results, status,
                   pushes, ghosts>>

PartDone(part) ==
    /\ pc = "pool"
    /\ part \in running
    /\ running' = running \ {part}
    /\ \E outcome \in Outcomes :
          results' = [i \in DOMAIN results \cup {part} |->
                        IF i = part THEN outcome ELSE results[i]]
    /\ UNCHANGED <<given, pr, pc, listing, packing, status, pushes,
                   ghosts>>

Had(outcome) == \E i \in DOMAIN results : results[i] = outcome

\* A mutant for the checks: the first part decides for all.
WorstOfFirst == results[1]

\* The most severe outcome among the parts.
Worst ==
    CASE Had("failed")    -> "failed"
      [] Had("empty")     -> "empty"
      [] Had("truncated") -> "truncated"
      [] OTHER            -> "ok"

\* All parts are in: a raised error is raised now, an unfinished part is
\* reported, and finished parts are merged by one more call.
ReviewInParts ==
    /\ pc = "pool"
    /\ running = {} /\ DOMAIN results = 1 .. Parts
    /\ \/ Had("crash") /\ RunNet
       \/ ~Had("crash") /\ Worst # "ok" /\ Finish(Worst)
       \/ ~Had("crash") /\ Worst = "ok" /\ pc' = "merge" /\ UNCHANGED status
    /\ UNCHANGED <<given, pr, listing, packing, calls, pushes, ghosts>>

MergeParts ==
    /\ pc = "merge"
    /\ \E outcome \in Outcomes :
          \/ outcome = "crash" /\ RunNet
          \/ outcome # "crash" /\ Finish(Marked(outcome))
    /\ UNCHANGED <<given, pr, listing, packing, calls, pushes, ghosts>>

\* The runner is cancelled or dies: no status is written.
Killed ==
    /\ pc \notin {"done", "exit", "killed"}
    /\ pc' = "killed"
    /\ UNCHANGED <<given, pr, listing, packing, calls, status, pushes, ghosts>>

\* What the script does itself.
Step ==
    \/ PrChangedFiles \/ LastPage \/ ListingFailed \/ PrDiff
    \/ ReviewPlan \/ ChunkDiff \/ CutHunk \/ EndOfFile \/ EndOfDiff
    \/ Main \/ MainFull \/ MessagesEndpoint
    \/ ReviewFirst \/ StartPart \/ (\E part \in running : PartDone(part))
    \/ ReviewInParts \/ MergeParts

Next == Step \/ Push \/ Killed

\* Every request has a timeout, so the script never waits for ever.
Spec == Init /\ [][Next]_vars /\ WF_vars(Step)

\* The gate of the workflow; a missing key is excused for Dependabot alone.
Green == status \in {"ok", "skipped"}

-----------------------------------------------------------------------------
GivenOK ==
    /\ scope \in {"pr", "git", "full"}
    /\ hunks \in [Files -> Seq(Nat)] /\ head \subseteq Files

ListingOK ==
    /\ pr \subseteq Files
    /\ changed \in Nat \cup {Unknown} /\ page \in Nat /\ listed \in Nat
    /\ pushes \in 0 .. MaxPushes
    /\ unfetched \subseteq Reviewable /\ fetched \in {"not yet", "yes", "no"}
    /\ stale \subseteq Files

PackingOK ==
    /\ sections \in Seq(Reviewable) /\ todo \in Seq(Reviewable) /\ rest \in Seq(Nat \X Nat)
    /\ current \in Seq(Nat \X Nat) /\ piece \in Seq(Nat \X Nat)
    /\ chunks \in Seq(Seq(Nat \X Nat))

CallsOK ==
    /\ running \subseteq 1 .. Parts /\ DOMAIN results \subseteq 1 .. Parts
    /\ results \in [DOMAIN results -> Outcomes]

ProgressOK ==
    /\ pc \in {"count", "page", "plan", "git", "full", "pack", "main", "first", "pool",
               "merge", "done", "exit", "killed"}
    /\ status \in {"missing", "ok", "skipped", "partial", "no-key", "over-budget",
                   "truncated", "empty", "failed"}

FlagsOK == {key, gap, grew, shrank} \subseteq BOOLEAN

\* The listing, the plan, the lists of pieces and the pool keep their shapes.
TypeOK == GivenOK /\ ListingOK /\ PackingOK /\ CallsOK /\ ProgressOK /\ FlagsOK

\* A finished call read this hunk of this file.
ReadBy(p) ==
    \E i \in DOMAIN results :
        /\ results[i] = "ok"
        /\ \E k \in DOMAIN chunks[i] : chunks[i][k] = p

(***************************************************************************)
(* A green check means the diff was read ("a review that verified an       *)
(* unknown fraction of the diff must not report success", review_status):  *)
(* when the gate passes, every reviewable file the pull request changed    *)
(* at the end of the listing had each of its hunks in a part whose review  *)
(* finished.  Two kinds of push are excepted, which the count cannot tell: *)
(* those that take files out and put files in while the pages are read,    *)
(* and those that edit a file whose diff the script already has.           *)
(***************************************************************************)
GreenMeansRead ==
    Green /\ scope # "full" /\ ~(grew /\ shrank) =>
        \A f \in (pr \cap Reviewable) \ stale :
            \A k \in DOMAIN FileSection(f) : ReadBy(FileSection(f)[k])

\* The hunks of a list of pieces, headers left out.
Body(p) == IF p[2] = 0 THEN <<>> ELSE <<p>>

Bodies(pieces) ==
    LET upto[i \in 0 .. Len(pieces)] ==
          IF i = 0 THEN <<>> ELSE upto[i - 1] \o Body(pieces[i])
    IN  upto[Len(pieces)]

(***************************************************************************)
(* "No character of the diff is left out" and what chunk_diff promises     *)
(* beside: the hunks of the chunks are the hunks of the diff in order, a   *)
(* hunk follows its file's header in its own chunk, a chunk over the       *)
(* budget holds one hunk, or one file without any, and a file that fits a  *)
(* chunk is in one.                                                        *)
(***************************************************************************)
ChunksCoverDiff ==
    pc = "main" =>
        /\ Bodies(FlattenSeq(chunks)) = Bodies(FlattenSeq([i \in DOMAIN sections |->
                                                             FileSection(sections[i])]))
        /\ \A i \in DOMAIN chunks :
              /\ \A k \in DOMAIN chunks[i] :
                    \E j \in 1 .. k : chunks[i][j] = Header(chunks[i][k][1])
              /\ SizeOf(chunks[i]) > ReviewBudget => Len(Bodies(chunks[i])) <= 1
              /\ \A f \in Reviewable :
                    /\ SizeOf(FileSection(f)) <= ReviewBudget
                    /\ \E k \in DOMAIN chunks[i] : chunks[i][k][1] = f
                    => \A p \in {FileSection(f)[k] : k \in DOMAIN FileSection(f)} :
                          \E k \in DOMAIN chunks[i] : chunks[i][k] = p

(***************************************************************************)
(* "Whatever escapes, the comment says what it was" (run): unless the      *)
(* runner dies, the base URL is refused or the status cannot be written,   *)
(* the script ends with a status, whatever GitHub, git and the model       *)
(* answer and however the parts interleave.                                *)
(***************************************************************************)
AlwaysGraded == <>(status # "missing" \/ pc \in {"exit", "killed"})
=============================================================================
