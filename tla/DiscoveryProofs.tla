--------------------------- MODULE DiscoveryProofs ---------------------------
(***************************************************************************)
(* For any sources, watch types and overlapping passes: the types of the   *)
(* discovery scheduler, and that a stored validator never gets ahead of    *)
(* the rows.                                                               *)
(***************************************************************************)
EXTENDS Discovery, TLAPS

USE DiscoveryAssumption

-----------------------------------------------------------------------------
(* The invariant *)

\* For a pass at a with plan P, results R and batch b.  The handlers are asked
\* for sources that have one, and a batch is the result of one source.
Storing(a, P, R, b) ==
  /\ a = "poll" => \A s \in P : kind[s] # "unregistered"
  /\ \/ b = NoBatch
     \/ /\ a = "poll" /\ b.src \in Sources /\ b.phase # "none" /\ R[b.src] # Pending
        /\ b.phase # "finds" => b.cand = None

\* The rows already there, in F, and those of a result a pass has yet to store
\* cover what a validator stands for.
Covers(F, R, s, e) == e # 0 => Items(s, e) \subseteq F \cup R

\* What is left of a result is in the batch, until its rows are committed.
Kept(b, R, F) ==
  /\ b.phase = "finds" => R \subseteq F \cup b.left \cup b.new \cup {b.cand}
  /\ b.phase = "record" => R \subseteq F

\* The validators a pass loaded (n) or was answered are covered by the rows F,
\* and its batch loses nothing.
Sound(n, R, b, F) ==
  /\ \A s \in Sources : /\ Covers(F[s], {}, s, n[s])
                        /\ Covers(F[s], R[s].finds, s, R[s].etag)
  /\ b # NoBatch => Kept(b, R[b.src].finds, F[b.src])

AllStoring == \A p \in Passes : Storing(pc[p], plan[p], res[p], batch[p])
AllSound == \A p \in Passes : Sound(snap[p], res[p], batch[p], finds)

Inv == TypeOK /\ AllStoring /\ AllSound /\ ValidatorCovered

-----------------------------------------------------------------------------
(* Versions and what handlers answer *)

\* What a version lists are versions.
LEMMA ItemsIn ==
  /\ 0 \notin Versions /\ None \notin Versions /\ Versions \subseteq Nat
  /\ \A s \in Sources : 1 \in Versions
  /\ \A s, v : v \in Versions => Items(s, v) \subseteq Versions
<1>1. Versions \subseteq Nat \ {0}
  BY DEF Versions
<1>2. ASSUME NEW s \in Sources PROVE 1 \in Versions
  BY DEF Versions
<1>3. ASSUME NEW s, NEW v \in Versions PROVE Items(s, v) \subseteq Versions
  <2>1. PICK t \in Sources : v \in 1..MaxVersion[t]
    BY DEF Versions
  <2>2. 1..v \subseteq Versions
    BY <2>1 DEF Versions
  <2>3. QED
    BY <2>2 DEF Items
<1>4. QED
  BY <1>1, <1>2, <1>3

LEMMA Constants ==
  /\ Pending \in Results /\ Errored \in Results /\ Crashed \in Results /\ NoBatch \in Batches
  /\ Errored # Pending /\ Crashed # Pending
  /\ \A r \in {Pending, Errored, Crashed} : r.etag = 0 /\ r.finds = {}
  /\ NoBatch.new = {} /\ NoBatch.src = None /\ NoBatch.cand = None /\ NoBatch.phase = "none"
<1>1. /\ Pending \in Results /\ Errored \in Results /\ Crashed \in Results
      /\ \A r \in {Pending, Errored, Crashed} : r.etag = 0 /\ r.finds = {}
  BY DEF Pending, Errored, Crashed, Results
<1>2. Pending.status = "pending" /\ Errored.status = "error" /\ Crashed.status = "crashed"
  BY DEF Pending, Errored, Crashed
<1>3. /\ NoBatch \in Batches
      /\ NoBatch.new = {} /\ NoBatch.src = None /\ NoBatch.cand = None /\ NoBatch.phase = "none"
  BY DEF NoBatch, Batches
<1>4. QED
  BY <1>1, <1>2, <1>3

\* A handler answers with the validator of what it lists, or with the one it was
\* given and perhaps nothing.
LEMMA PollIs ==
  ASSUME TypeOK, NEW s \in Sources, kind[s] # "unregistered",
         NEW e \in Versions \cup {0}, NEW v \in Versions, NEW F, Covers(F, {}, s, e)
  PROVE  /\ Poll(s, e, v) \in Results /\ Poll(s, e, v) # Pending
         /\ Covers(F, Poll(s, e, v).finds, s, Poll(s, e, v).etag)
<1> DEFINE Good(r) == r \in Results /\ r # Pending /\ Covers(F, r.finds, s, r.etag)
<1>1. Items(s, v) \subseteq Versions
  BY ItemsIn
<1>2. ASSUME NEW x \in {v, 0} PROVE Good(Listed(s, v, x))
  <2>1. /\ Listed(s, v, x) \in Results /\ Listed(s, v, x).status = "ok"
        /\ Listed(s, v, x).finds = Items(s, v) /\ Listed(s, v, x).etag = x
    BY <1>1 DEF Listed, Results
  <2>2. Pending.status = "pending"
    BY DEF Pending
  <2>3. QED
    BY <2>1, <2>2 DEF Covers
<1>3. Good(NotModified(e))
  <2>1. /\ NotModified(e) \in Results /\ NotModified(e).status = "not_modified"
        /\ NotModified(e).finds = {} /\ NotModified(e).etag = e
    BY DEF NotModified, Results
  <2>2. Pending.status = "pending"
    BY DEF Pending
  <2>3. QED
    BY <2>1, <2>2 DEF Covers
<1>4. ASSUME e = v PROVE Good(RepoPoll(s, e, v))
  <2> DEFINE r == RepoPoll(s, e, v)
  <2>1. /\ r.finds = Releases(s, v) /\ r.etag = e /\ r.status \in {"ok", "not_modified"}
        /\ r \in Results
    BY <1>1, <1>4 DEF RepoPoll, Listed, Releases, Results
  <2>2. Pending.status = "pending"
    BY DEF Pending
  <2> HIDE DEF r
  <2>3. QED
    BY <2>1, <2>2 DEF Covers, r
<1>5. kind[s] \in {"rss", "youtube", "repo", "artifacts", "web_diff", "topic", "user_org",
                   "subreddit", "saved_search"}
  BY DEF TypeOK
<1>6. Good(Poll(s, e, v))
  <2>1. \/ Poll(s, e, v) = RepoPoll(s, e, v) /\ e = v
        \/ Poll(s, e, v) = NotModified(e)
        \/ \E x \in {v, 0} : Poll(s, e, v) = Listed(s, v, x)
    BY <1>5 DEF Poll, RssPoll, YoutubePoll, RepoPoll, ArtifactPoll, PagePoll, TopicPoll,
      AccountPoll, SubredditPoll, SavedSearchPoll
  <2> HIDE DEF Good
  <2>2. QED
    BY <1>2, <1>3, <1>4, <2>1
<1>7. QED
  BY <1>6

-----------------------------------------------------------------------------
(* A step of one pass *)

\* A pass comes to stand at a with plan P, validators n, results R and batch b.
Turns(p, a, P, n, R, b) ==
  /\ pc' = [pc EXCEPT ![p] = a] /\ plan' = [plan EXCEPT ![p] = P]
  /\ snap' = [snap EXCEPT ![p] = n] /\ res' = [res EXCEPT ![p] = R]
  /\ batch' = [batch EXCEPT ![p] = b]
  /\ a \in {"idle", "dispatch", "poll"} /\ P \subseteq Sources
  /\ n \in [Sources -> Versions \cup {0}] /\ R \in [Sources -> Results] /\ b \in Batches

\* It takes nobody's lock away, and holds it with rows to commit.
Locks(p, b) ==
  /\ writer' \in Passes \cup {None}
  /\ writer' = writer \/ writer \in {None, p}
  /\ b.new # {} => writer' = p

\* Rows are only added, and the validators stay behind them.
Stores ==
  /\ kind' = kind /\ upstream' \in [Sources -> Versions]
  /\ active' \in [Sources -> {"absent", "on", "off"}] /\ due' \subseteq Sources
  /\ etag' \in [Sources -> Versions \cup {0}] /\ finds' \in [Sources -> SUBSET Versions]
  /\ \A s \in Sources : finds[s] \subseteq finds'[s] /\ Covers(finds'[s], {}, s, etag'[s])
  /\ stale' \in [Passes -> BOOLEAN] /\ faults' \in 0..MaxFaults

\* Then it is enough to look at the pass itself.
LEMMA OnePass ==
  ASSUME Inv, NEW p \in Passes, NEW a, NEW P, NEW n, NEW R, NEW b,
         Turns(p, a, P, n, R, b), Locks(p, b), Stores,
         Storing(a, P, R, b), Sound(n, R, b, finds')
  PROVE  Inv'
<1>1. /\ pc \in [Passes -> {"idle", "dispatch", "poll"}] /\ plan \in [Passes -> SUBSET Sources]
      /\ snap \in [Passes -> [Sources -> Versions \cup {0}]]
      /\ res \in [Passes -> [Sources -> Results]] /\ batch \in [Passes -> Batches]
      /\ kind \in Kinds
  BY DEF Inv, TypeOK
<1>2. /\ pc'[p] = a /\ plan'[p] = P /\ snap'[p] = n /\ res'[p] = R /\ batch'[p] = b
      /\ \A q \in Passes \ {p} : /\ pc'[q] = pc[q] /\ plan'[q] = plan[q] /\ snap'[q] = snap[q]
                                 /\ res'[q] = res[q] /\ batch'[q] = batch[q]
  BY <1>1 DEF Turns
<1>3. TypeOK'
  <2>1. /\ pc' \in [Passes -> {"idle", "dispatch", "poll"}] /\ plan' \in [Passes -> SUBSET Sources]
        /\ batch' \in [Passes -> Batches]
    BY <1>1 DEF Turns
  <2>2. /\ snap' \in [Passes -> [Sources -> Versions \cup {0}]]
        /\ res' \in [Passes -> [Sources -> Results]]
    BY <1>1 DEF Turns
  <2>3. ASSUME NEW q \in Passes, batch'[q].new # {} PROVE writer' = q
    <3>1. CASE q = p
      BY <1>2, <2>3, <3>1 DEF Locks
    <3>2. CASE q # p
      <4>1. writer = q
        BY <1>2, <2>3, <3>2 DEF Inv, TypeOK
      <4>2. q # None
        OBVIOUS
      <4>3. QED
        BY <3>2, <4>1, <4>2 DEF Locks
    <3>3. QED
      BY <3>1, <3>2
  <2>4. QED
    BY <1>1, <2>1, <2>2, <2>3 DEF TypeOK, Stores, Locks
<1>4. kind' = kind
  BY DEF Stores
<1>5. ASSUME NEW q \in Passes PROVE Storing(pc[q], plan[q], res[q], batch[q])'
  <2>1. CASE q = p
    BY <1>2, <1>4, <2>1 DEF Storing
  <2>2. CASE q # p
    BY <1>2, <1>4, <2>2 DEF Inv, AllStoring, Storing
  <2>3. QED
    BY <2>1, <2>2
<1>6. ASSUME NEW q \in Passes PROVE Sound(snap[q], res[q], batch[q], finds)'
  <2>1. CASE q = p
    BY <1>2, <1>4, <2>1 DEF Sound, Covers, Items
  <2>2. CASE q # p
    <3>1. Sound(snap[q], res[q], batch[q], finds) /\ Storing(pc[q], plan[q], res[q], batch[q])
      BY DEF Inv, AllSound, AllStoring
    <3>2. \A s \in Sources : finds[s] \subseteq finds'[s]
      BY DEF Stores
    <3>3. ASSUME NEW s \in Sources
          PROVE  /\ Covers(finds'[s], {}, s, snap[q][s])
                 /\ Covers(finds'[s], res[q][s].finds, s, res[q][s].etag)
      BY <3>1, <3>2 DEF Sound, Covers
    <3>4. ASSUME batch[q] # NoBatch
          PROVE  Kept(batch[q], res[q][batch[q].src].finds, finds'[batch[q].src])
      <4>1. batch[q].src \in Sources
        BY <3>1, <3>4 DEF Storing
      <4>2. QED
        BY <3>1, <3>2, <3>4, <4>1 DEF Sound, Kept
    <3>5. QED
      BY <1>2, <1>4, <2>2, <3>3, <3>4 DEF Sound, Covers, Items
  <2>3. QED
    BY <2>1, <2>2
<1>7. ValidatorCovered'
  BY <1>4 DEF Stores, Covers, ValidatorCovered, Items
<1>8. QED
  BY <1>3, <1>5, <1>6, <1>7 DEF Inv, AllStoring, AllSound

\* The pass ends.
LEMMA PassEnds ==
  ASSUME Inv, NEW p \in Passes, EndPass(p), Stores, finds' = finds
  PROVE  Inv'
<1> DEFINE n == [s \in Sources |-> 0]
           R == [s \in Sources |-> Pending]
<1>1. Turns(p, "idle", {}, n, R, NoBatch)
  BY Constants DEF EndPass, Turns
<1>2. Locks(p, NoBatch)
  BY Constants DEF EndPass, Unlock, Locks, Inv, TypeOK
<1>3. Storing("idle", {}, R, NoBatch)
  BY DEF Storing
<1>4. Sound(n, R, NoBatch, finds')
  BY Constants DEF Sound, Covers
<1>5. QED
  BY <1>1, <1>2, <1>3, <1>4, OnePass

\* The rows and validators are left alone.
LEMMA NothingStored ==
  ASSUME Inv, kind' = kind, finds' = finds, etag' = etag
  PROVE  /\ \A s \in Sources : finds[s] \subseteq finds'[s] /\ Covers(finds'[s], {}, s, etag'[s])
         /\ etag' \in [Sources -> Versions \cup {0}] /\ finds' \in [Sources -> SUBSET Versions]
BY DEF Inv, ValidatorCovered, TypeOK, Covers

\* What is known of a pass, and what its locals are when they do not change.
LEMMA PassIs ==
  ASSUME Inv, NEW p \in Passes
  PROVE  /\ pc[p] \in {"idle", "dispatch", "poll"} /\ plan[p] \subseteq Sources
         /\ snap[p] \in [Sources -> Versions \cup {0}] /\ res[p] \in [Sources -> Results]
         /\ batch[p] \in Batches /\ p # None
         /\ Storing(pc[p], plan[p], res[p], batch[p]) /\ Sound(snap[p], res[p], batch[p], finds)
         /\ batch[p].new # {} => writer = p
         /\ pc = [pc EXCEPT ![p] = pc[p]] /\ plan = [plan EXCEPT ![p] = plan[p]]
         /\ snap = [snap EXCEPT ![p] = snap[p]] /\ res = [res EXCEPT ![p] = res[p]]
         /\ batch = [batch EXCEPT ![p] = batch[p]]
<1>1. /\ pc \in [Passes -> {"idle", "dispatch", "poll"}] /\ plan \in [Passes -> SUBSET Sources]
      /\ snap \in [Passes -> [Sources -> Versions \cup {0}]]
      /\ res \in [Passes -> [Sources -> Results]] /\ batch \in [Passes -> Batches]
  BY DEF Inv, TypeOK
<1>2. /\ pc = [pc EXCEPT ![p] = pc[p]] /\ plan = [plan EXCEPT ![p] = plan[p]]
      /\ snap = [snap EXCEPT ![p] = snap[p]] /\ res = [res EXCEPT ![p] = res[p]]
      /\ batch = [batch EXCEPT ![p] = batch[p]]
  BY <1>1
<1>3. QED
  BY <1>1, <1>2 DEF Inv, TypeOK, AllStoring, AllSound

\* A pass begins: the validators it loads are covered.
LEMMA RunOnceStep ==
  ASSUME Inv, NEW p \in Passes, RunOnce(p)
  PROVE  Inv'
<1> DEFINE n == [s \in Sources |-> IF s \in SelectDue THEN etag[s] ELSE 0]
<1>1. TypeOK /\ Stores /\ finds' = finds
  <2>1. Reconciled \in [Sources -> {"absent", "on", "off"}]
    BY DEF Inv, TypeOK, Reconciled
  <2>2. kind' = kind /\ finds' = finds /\ etag' = etag
    BY DEF RunOnce
  <2>3. QED
    BY <2>1, <2>2, NothingStored DEF Stores, RunOnce, Inv, TypeOK
<1>2. batch[p] = NoBatch
  BY PassIs DEF RunOnce, Storing
<1>3. Turns(p, "dispatch", SelectDue, n, res[p], batch[p])
  <2>1. SelectDue \subseteq Sources /\ n \in [Sources -> Versions \cup {0}]
    BY <1>1 DEF SelectDue, TypeOK
  <2>2. QED
    BY <2>1, PassIs DEF RunOnce, Turns
<1>4. Locks(p, batch[p])
  BY <1>1, <1>2, Constants DEF Locks, RunOnce, TypeOK
<1>5. Storing("dispatch", SelectDue, res[p], batch[p])
  BY <1>2 DEF Storing
<1>6. Sound(n, res[p], batch[p], finds')
  <2>1. \A s \in Sources : Covers(finds[s], {}, s, etag[s]) /\ Covers(finds[s], {}, s, 0)
    BY DEF Inv, ValidatorCovered, Covers
  <2>2. \A s \in Sources : Covers(finds[s], {}, s, n[s])
    BY <2>1
  <2> HIDE DEF n
  <2>3. QED
    BY <1>1, <1>2, <2>2, PassIs DEF Sound
<1> HIDE DEF n
<1>7. QED
  BY <1>1, <1>3, <1>4, <1>5, <1>6, OnePass

\* Failed sources are no longer due; nothing else is recorded of them.
LEMMA FailureStores ==
  ASSUME Inv, NEW S \in SUBSET Sources, RecordFailed(S), kind' = kind, upstream' = upstream,
         stale' = stale, faults' = faults
  PROVE  Stores /\ finds' = finds
<1>1. finds' = finds /\ etag' = etag
  BY DEF RecordFailed
<1>2. QED
  BY <1>1, NothingStored DEF RecordFailed, Stores, Inv, TypeOK

LEMMA DispatchStep ==
  ASSUME Inv, NEW p \in Passes, Dispatch(p)
  PROVE  Inv'
<1> DEFINE orphans == {s \in plan[p] : kind[s] = "unregistered"}
           P == plan[p] \ orphans
<1>1. TypeOK /\ orphans \subseteq Sources
  BY PassIs DEF Inv
<1>2. Stores /\ finds' = finds
  BY <1>1, FailureStores DEF Dispatch
<1>3. batch[p] = NoBatch
  BY PassIs DEF Dispatch, Storing
<1>4. Turns(p, "poll", P, snap[p], res[p], batch[p])
  BY PassIs DEF Dispatch, Turns
<1>5. Locks(p, batch[p])
  <2>1. writer' \in {p, Unlock(p)} /\ (writer' = p => CanWrite(p) \/ writer = p)
    <3>1. plan'[p] = P /\ (plan[p] # {} => CanWrite(p))
      BY <1>1 DEF Dispatch, TypeOK
    <3>2. P # {} => plan[p] # {}
      OBVIOUS
    <3>3. CASE P = {}
      BY <3>1, <3>3, PassIs DEF Dispatch, Unlock
    <3>4. CASE P # {}
      BY <3>1, <3>2, <3>4 DEF Dispatch
    <3>5. QED
      BY <3>3, <3>4
  <2>2. QED
    BY <1>1, <1>3, <2>1, Constants DEF Locks, Unlock, CanWrite, TypeOK
<1>6. Storing("poll", P, res[p], batch[p])
  BY <1>3 DEF Storing
<1>7. Sound(snap[p], res[p], batch[p], finds')
  BY <1>2, PassIs
<1> HIDE DEF P
<1>8. QED
  BY <1>2, <1>4, <1>5, <1>6, <1>7, OnePass

\* A handler has answered.
LEMMA AnswerStep ==
  ASSUME Inv, NEW p \in Passes, NEW s \in Sources, NEW r \in Results, Answer(p, s, r),
         r # Pending, Covers(finds[s], r.finds, s, r.etag), faults' \in 0..MaxFaults
  PROVE  Inv'
<1> DEFINE R == [res[p] EXCEPT ![s] = r]
<1>1. Stores /\ finds' = finds
  <2>1. kind' = kind /\ finds' = finds /\ etag' = etag
    BY DEF Answer, dbVars
  <2>2. QED
    BY <2>1, NothingStored DEF Stores, Answer, dbVars, Inv, TypeOK
<1>2. /\ R \in [Sources -> Results] /\ R[s] = r
      /\ \A t \in Sources \ {s} : R[t] = res[p][t]
  BY PassIs
<1>3. Turns(p, pc[p], plan[p], snap[p], R, batch[p])
  BY <1>2, PassIs DEF Answer, Turns
<1>4. Locks(p, batch[p])
  BY PassIs DEF Locks, Answer, Inv, TypeOK
<1> HIDE DEF R
<1>5. batch[p] # NoBatch => batch[p].src \in Sources \ {s}
  BY PassIs DEF Storing, Answer
<1>6. Storing(pc[p], plan[p], R, batch[p])
  BY <1>2, <1>5, PassIs DEF Storing
<1>7. Sound(snap[p], R, batch[p], finds')
  <2>1. \A t \in Sources : /\ Covers(finds[t], {}, t, snap[p][t])
                           /\ Covers(finds[t], R[t].finds, t, R[t].etag)
    BY <1>2, PassIs DEF Sound
  <2>2. QED
    BY <1>1, <1>2, <1>5, <2>1, PassIs DEF Sound
<1>8. QED
  BY <1>1, <1>3, <1>4, <1>6, <1>7, OnePass

LEMMA FetchStep ==
  ASSUME Inv, NEW p \in Passes, NEW s \in Sources, FetchOk(p, s) \/ FetchFails(p, s)
  PROVE  Inv'
<1>1. CASE FetchOk(p, s)
  <2> DEFINE r == Poll(s, snap[p][s], upstream[s])
  <2>1. Answer(p, s, r) /\ faults' = faults
    BY <1>1 DEF FetchOk
  <2>2. kind[s] # "unregistered"
    BY <2>1, PassIs DEF Answer, Storing
  <2>3. upstream[s] \in Versions /\ TypeOK /\ faults' \in 0..MaxFaults
    BY <2>1 DEF Inv, TypeOK
  <2>4. Covers(finds[s], {}, s, snap[p][s]) /\ snap[p][s] \in Versions \cup {0}
    BY PassIs DEF Sound
  <2>5. r \in Results /\ r # Pending /\ Covers(finds[s], r.finds, s, r.etag)
    BY <2>2, <2>3, <2>4, PollIs
  <2> HIDE DEF r
  <2>6. QED
    BY <2>1, <2>3, <2>5, AnswerStep
<1>2. CASE FetchFails(p, s)
  <2>1. PICK r \in {Errored, Crashed} : Answer(p, s, r)
    BY <1>2 DEF FetchFails
  <2>2. r \in Results /\ r # Pending /\ Covers(finds[s], r.finds, s, r.etag)
    BY Constants DEF Covers
  <2>3. faults' \in 0..MaxFaults
    BY <1>2 DEF FetchFails, Fault, Inv, TypeOK
  <2>4. QED
    BY <2>1, <2>2, <2>3, AnswerStep
<1>3. QED
  BY <1>1, <1>2

-----------------------------------------------------------------------------
(* Storing a result *)

\* The rows of the stores are left alone by p.
LEMMA LocalStores ==
  ASSUME Inv, kind' = kind, upstream' = upstream, UNCHANGED dbVars,
         stale' \in [Passes -> BOOLEAN], faults' \in 0..MaxFaults
  PROVE  Stores /\ finds' = finds
<1>1. finds' = finds /\ etag' = etag /\ active' = active /\ due' = due
  BY DEF dbVars
<1>2. QED
  BY <1>1, NothingStored DEF Stores, Inv, TypeOK

\* A step that changes nothing of its pass but the batch, and no row.
LEMMA BatchStep ==
  ASSUME Inv, NEW p \in Passes, NEW b \in Batches, batch' = [batch EXCEPT ![p] = b],
         UNCHANGED <<pc, plan, snap, res>>, Locks(p, b), Stores,
         b # NoBatch => /\ pc[p] = "poll" /\ b.src \in Sources /\ b.phase # "none"
                        /\ res[p][b.src] # Pending
                        /\ b.phase # "finds" => b.cand = None
                        /\ Kept(b, res[p][b.src].finds, finds'[b.src])
  PROVE  Inv'
<1>1. Turns(p, pc[p], plan[p], snap[p], res[p], b)
  BY PassIs DEF Turns
<1>2. Storing(pc[p], plan[p], res[p], b)
  BY PassIs DEF Storing
<1>3. Sound(snap[p], res[p], b, finds')
  BY PassIs DEF Sound, Covers, Stores
<1>4. QED
  BY <1>1, <1>2, <1>3, OnePass

\* A result is done with.
LEMMA SettleStep ==
  ASSUME Inv, NEW p \in Passes, NEW s \in Sources, Settle(p, s), Stores, Locks(p, NoBatch)
  PROVE  Inv'
<1> DEFINE P == plan[p] \ {s}
           n == [snap[p] EXCEPT ![s] = 0]
           R == [res[p] EXCEPT ![s] = Pending]
<1>1. /\ n \in [Sources -> Versions \cup {0}] /\ R \in [Sources -> Results]
      /\ n[s] = 0 /\ R[s] = Pending
      /\ \A t \in Sources \ {s} : n[t] = snap[p][t] /\ R[t] = res[p][t]
  BY PassIs, Constants
<1>2. Turns(p, pc[p], P, n, R, NoBatch)
  BY <1>1, PassIs, Constants DEF Settle, Turns
<1>3. Storing(pc[p], P, R, NoBatch)
  BY PassIs DEF Storing
<1> HIDE DEF n, R
<1>4. Sound(n, R, NoBatch, finds')
  <2>1. Pending.etag = 0
    BY Constants
  <2>2. ASSUME NEW t \in Sources
        PROVE  Covers(finds'[t], {}, t, n[t]) /\ Covers(finds'[t], R[t].finds, t, R[t].etag)
    <3>1. CASE t = s
      BY <1>1, <2>1, <3>1 DEF Covers
    <3>2. CASE t # s
      <4>1. /\ Covers(finds[t], {}, t, snap[p][t])
            /\ Covers(finds[t], res[p][t].finds, t, res[p][t].etag)
        BY PassIs DEF Sound
      <4>2. n[t] = snap[p][t] /\ R[t] = res[p][t]
        BY <1>1, <3>2
      <4>3. finds[t] \subseteq finds'[t]
        BY DEF Stores
      <4>4. QED
        BY <4>1, <4>2, <4>3 DEF Covers
    <3>3. QED
      BY <3>1, <3>2
  <2>3. QED
    BY <2>2 DEF Sound
<1> HIDE DEF P
<1>5. QED
  BY <1>2, <1>3, <1>4, OnePass

LEMMA StoreFailureStep ==
  ASSUME Inv, NEW p \in Passes, NEW s \in Sources, StoreFailure(p, s)
  PROVE  Inv'
<1>1. Stores
  BY FailureStores DEF StoreFailure
<1>2. Locks(p, NoBatch)
  BY Constants DEF StoreFailure, Locks, CanWrite
<1>3. QED
  BY <1>1, <1>2, SettleStep DEF StoreFailure

LEMMA StoreBeginStep ==
  ASSUME Inv, NEW p \in Passes, NEW s \in Sources, StoreBegin(p, s)
  PROVE  Inv'
<1> DEFINE b == [NoBatch EXCEPT !.src = s, !.left = res[p][s].finds, !.phase = "finds"]
<1>1. res[p][s] \in Results /\ res[p][s] # Pending /\ pc[p] = "poll"
  BY PassIs DEF StoreBegin, Reached, Gathered
<1>2. /\ b \in Batches /\ b.src = s /\ b.left = res[p][s].finds /\ b.phase = "finds"
      /\ b.new = {}
  BY <1>1 DEF NoBatch, Batches, Results
<1>3. batch' = [batch EXCEPT ![p] = b] /\ UNCHANGED <<pc, plan, snap, res>>
  BY DEF StoreBegin
<1> HIDE DEF b
<1>4. Locks(p, b)
  BY <1>2 DEF Locks, StoreBegin, Inv, TypeOK
<1>5. Stores
  BY LocalStores DEF StoreBegin, Inv, TypeOK
<1>6. Kept(b, res[p][b.src].finds, finds'[b.src])
  BY <1>2 DEF Kept
<1>7. QED
  BY <1>1, <1>2, <1>3, <1>4, <1>5, <1>6, BatchStep

LEMMA LookStep ==
  ASSUME Inv, NEW p \in Passes, Look(p)
  PROVE  Inv'
<1>1. PICK i \in batch[p].left :
        batch' = [batch EXCEPT ![p].left = @ \ {i},
                    ![p].cand = IF i \in finds[batch[p].src] \cup batch[p].new THEN None ELSE i]
  BY DEF Look
<1> DEFINE c == IF i \in finds[batch[p].src] \cup batch[p].new THEN None ELSE i
           b == [batch[p] EXCEPT !.left = @ \ {i}, !.cand = c]
<1>2. batch[p] \in Batches /\ batch \in [Passes -> Batches] /\ i \in Versions
  BY PassIs DEF Batches, Inv, TypeOK
<1>3. c \in Versions \cup {None}
  BY <1>2
<1>4. /\ b \in Batches /\ b.src = batch[p].src /\ b.left = batch[p].left \ {i} /\ b.cand = c
      /\ b.new = batch[p].new /\ b.phase = batch[p].phase
  BY <1>2, <1>3 DEF Batches
<1>5. batch' = [batch EXCEPT ![p] = b] /\ UNCHANGED <<pc, plan, snap, res>>
  BY <1>1, <1>2 DEF Look
<1> HIDE DEF b
<1>6. /\ batch[p].phase = "finds" /\ batch[p].cand = None /\ batch[p] # NoBatch
      /\ pc[p] = "poll" /\ batch[p].src \in Sources /\ res[p][batch[p].src] # Pending
  BY PassIs, Constants DEF Look, Storing
<1>7. Locks(p, b)
  BY <1>4, PassIs DEF Locks, Look, Inv, TypeOK
<1>8. Stores /\ finds' = finds
  BY LocalStores DEF Look, Inv, TypeOK
<1>9. Kept(b, res[p][b.src].finds, finds'[b.src])
  <2>1. res[p][b.src].finds \subseteq
          finds[b.src] \cup batch[p].left \cup batch[p].new \cup {None}
    BY <1>4, <1>6, PassIs DEF Sound, Kept
  <2>2. res[p][b.src].finds \subseteq Versions /\ None \notin Versions
    BY <1>4, <1>6, PassIs, ItemsIn DEF Results
  <2>3. QED
    BY <1>4, <1>6, <1>8, <2>1, <2>2 DEF Kept
<1>10. QED
  BY <1>4, <1>5, <1>6, <1>7, <1>8, <1>9, BatchStep

LEMMA StoreStep ==
  ASSUME Inv, NEW p \in Passes, Store(p)
  PROVE  Inv'
<1> DEFINE b == [batch[p] EXCEPT !.cand = None, !.new = @ \cup {batch[p].cand}]
<1>1. batch[p] \in Batches /\ batch \in [Passes -> Batches] /\ batch[p].cand \in Versions
  BY PassIs DEF Store, Batches, Inv, TypeOK
<1>2. /\ b \in Batches /\ b.src = batch[p].src /\ b.left = batch[p].left /\ b.cand = None
      /\ b.new = batch[p].new \cup {batch[p].cand} /\ b.phase = batch[p].phase
  BY <1>1 DEF Batches
<1>3. batch' = [batch EXCEPT ![p] = b] /\ UNCHANGED <<pc, plan, snap, res>>
  BY <1>1 DEF Store
<1> HIDE DEF b
<1>4. /\ batch[p].phase = "finds" /\ batch[p] # NoBatch
      /\ pc[p] = "poll" /\ batch[p].src \in Sources /\ res[p][batch[p].src] # Pending
  BY PassIs, Constants DEF Store, Storing
<1>5. Locks(p, b)
  BY DEF Locks, Store, CanWrite
<1>6. Stores /\ finds' = finds
  BY LocalStores DEF Store, Inv, TypeOK
<1>7. Kept(b, res[p][b.src].finds, finds'[b.src])
  <2>1. res[p][b.src].finds \subseteq
          finds[b.src] \cup batch[p].left \cup batch[p].new \cup {batch[p].cand}
    BY <1>2, <1>4, PassIs DEF Sound, Kept
  <2>2. QED
    BY <1>2, <1>4, <1>6, <2>1 DEF Kept
<1>8. QED
  BY <1>2, <1>3, <1>4, <1>5, <1>6, <1>7, BatchStep

LEMMA RollbackStep ==
  ASSUME Inv, NEW p \in Passes, Collide(p) \/ StoreLocked(p)
  PROVE  Inv'
<1> DEFINE b == [batch[p] EXCEPT !.left = {}, !.cand = None, !.new = {}, !.phase = "failing"]
<1>1. batch[p] \in Batches /\ batch \in [Passes -> Batches]
  BY PassIs DEF Inv, TypeOK
<1>2. /\ b \in Batches /\ b.src = batch[p].src /\ b.cand = None /\ b.new = {}
      /\ b.phase = "failing"
  BY <1>1 DEF Batches
<1>3. Rollback(p) /\ faults' \in 0..MaxFaults
  BY DEF Collide, StoreLocked, Fault, Inv, TypeOK
<1>4. batch' = [batch EXCEPT ![p] = b] /\ UNCHANGED <<pc, plan, snap, res>>
  BY <1>1, <1>3 DEF Rollback
<1> HIDE DEF b
<1>5. /\ batch[p] # NoBatch
      /\ pc[p] = "poll" /\ batch[p].src \in Sources /\ res[p][batch[p].src] # Pending
  BY PassIs, Constants DEF Collide, StoreLocked, Storing
<1>6. Locks(p, b)
  BY <1>2, <1>3 DEF Locks, Rollback, Unlock, Inv, TypeOK
<1>7. Stores
  <2>1. stale' \in [Passes -> BOOLEAN]
    BY <1>3 DEF Rollback, Inv, TypeOK
  <2>2. QED
    BY <1>3, <2>1, LocalStores DEF Rollback
<1>8. Kept(b, res[p][b.src].finds, finds'[b.src])
  BY <1>2 DEF Kept
<1>9. QED
  BY <1>2, <1>4, <1>5, <1>6, <1>7, <1>8, BatchStep

\* The rows of a batch are committed, before its validator.
LEMMA CommitFindsStep ==
  ASSUME Inv, NEW p \in Passes, CommitFinds(p)
  PROVE  Inv'
<1> DEFINE b == [batch[p] EXCEPT !.new = {}, !.phase = "record"]
           s == batch[p].src
<1>1. batch[p] \in Batches /\ batch \in [Passes -> Batches] /\ finds \in [Sources -> SUBSET Versions]
  BY PassIs DEF Inv, TypeOK
<1>2. /\ b \in Batches /\ b.src = s /\ b.cand = batch[p].cand /\ b.new = {}
      /\ b.phase = "record"
  BY <1>1 DEF Batches
<1>3. batch' = [batch EXCEPT ![p] = b] /\ UNCHANGED <<pc, plan, snap, res>>
  BY <1>1 DEF CommitFinds
<1> HIDE DEF b
<1>4. /\ batch[p] # NoBatch /\ batch[p].left = {} /\ batch[p].cand = None
      /\ batch[p].phase = "finds" /\ pc[p] = "poll" /\ s \in Sources /\ res[p][s] # Pending
  BY PassIs, Constants DEF CommitFinds, Storing
<1>5. Locks(p, b)
  BY <1>2 DEF Locks, CommitFinds, CanWrite
<1>6. /\ finds' \in [Sources -> SUBSET Versions] /\ finds'[s] = finds[s] \cup batch[p].new
      /\ \A t \in Sources : finds[t] \subseteq finds'[t]
  <2>1. batch[p].new \subseteq Versions
    BY <1>1 DEF Batches
  <2>2. finds' = [finds EXCEPT ![s] = finds[s] \cup batch[p].new]
    BY <1>1, <1>4 DEF CommitFinds
  <2> HIDE DEF s
  <2>3. QED
    BY <1>1, <1>4, <2>1, <2>2
<1>7. Stores
  <2>1. \A t \in Sources : Covers(finds'[t], {}, t, etag[t])
    BY <1>6 DEF Inv, ValidatorCovered, Covers
  <2>2. QED
    BY <1>6, <2>1 DEF CommitFinds, Stores, Inv, TypeOK
<1>8. Kept(b, res[p][s].finds, finds'[s])
  <2>1. res[p][s].finds \subseteq finds[s] \cup batch[p].new \cup {None}
    BY <1>4, PassIs DEF Sound, Kept
  <2>2. res[p][s].finds \subseteq Versions /\ None \notin Versions
    BY <1>4, PassIs, ItemsIn DEF Results
  <2> HIDE DEF s
  <2>3. QED
    BY <1>2, <1>6, <2>1, <2>2 DEF Kept
<1>9. QED
  BY <1>2, <1>3, <1>4, <1>5, <1>7, <1>8, BatchStep

\* The poll is recorded: the rows of its result are there by now.
LEMMA RecordSuccessStep ==
  ASSUME Inv, NEW p \in Passes, RecordSuccess(p)
  PROVE  Inv'
<1> DEFINE s == batch[p].src
           r == res[p][s]
<1>1. batch[p] # NoBatch /\ batch[p].phase = "record" /\ s \in Sources
  BY PassIs, Constants DEF RecordSuccess, Storing
<1>2. r \in Results /\ r.finds \subseteq finds[s] /\ Covers(finds[s], r.finds, s, r.etag)
  BY <1>1, PassIs DEF Sound, Kept
<1>3. Covers(finds[s], {}, s, r.etag) /\ r.etag \in Versions \cup {0}
  BY <1>2 DEF Covers, Results
<1>4. /\ etag' = [etag EXCEPT ![s] = IF r.etag # 0 THEN r.etag ELSE @]
      /\ kind' = kind /\ upstream' = upstream /\ due' = due \ {s} /\ active' = active
      /\ finds' = finds /\ stale' = stale /\ faults' = faults /\ writer' = None
      /\ CanWrite(p) /\ Settle(p, s)
  BY DEF RecordSuccess
<1> HIDE DEF s, r
<1>5. \A t \in Sources : etag'[t] \in Versions \cup {0} /\ Covers(finds[t], {}, t, etag'[t])
  <2>1. ASSUME NEW t \in Sources PROVE etag'[t] \in {etag[t], r.etag} /\ (t # s => etag'[t] = etag[t])
    BY <1>1, <1>4 DEF Inv, TypeOK
  <2>2. \A t \in Sources : etag[t] \in Versions \cup {0} /\ Covers(finds[t], {}, t, etag[t])
    BY DEF Inv, TypeOK, ValidatorCovered, Covers
  <2>3. QED
    BY <1>3, <2>1, <2>2
<1>6. Stores
  <2>1. etag' \in [Sources -> Versions \cup {0}]
    BY <1>4, <1>5 DEF Inv, TypeOK
  <2>2. QED
    BY <1>4, <1>5, <2>1 DEF Stores, Inv, TypeOK
<1>7. Locks(p, NoBatch)
  BY <1>4, Constants DEF Locks, CanWrite
<1>8. QED
  BY <1>1, <1>4, <1>6, <1>7, SettleStep

LEMMA FailingStep ==
  ASSUME Inv, NEW p \in Passes, RecordAfterRollback(p) \/ GiveUp(p)
  PROVE  Inv'
<1>1. batch[p].src \in Sources
  BY PassIs, Constants DEF RecordAfterRollback, GiveUp, Storing
<1>2. Settle(p, batch[p].src) /\ writer' = writer
  BY DEF RecordAfterRollback, GiveUp
<1>3. Locks(p, NoBatch)
  BY <1>2, Constants DEF Locks, Inv, TypeOK
<1>4. Stores
  <2>1. CASE RecordAfterRollback(p)
    BY <1>1, <2>1, FailureStores DEF RecordAfterRollback
  <2>2. CASE GiveUp(p)
    BY <2>2, LocalStores DEF GiveUp, Fault, Inv, TypeOK
  <2>3. QED
    BY <2>1, <2>2
<1>5. QED
  BY <1>1, <1>2, <1>3, <1>4, SettleStep

\* The ways a pass ends.
LEMMA EndStep ==
  ASSUME Inv, NEW p \in Passes,
         Abort(p) \/ Finish(p) \/ StartLocked(p) \/ StoreFailureLocked(p)
  PROVE  Inv'
<1>1. /\ EndPass(p) /\ kind' = kind /\ upstream' = upstream /\ UNCHANGED dbVars
      /\ faults' \in 0..MaxFaults
  BY DEF Abort, Finish, StartLocked, StoreFailureLocked, Fault, Inv, TypeOK
<1>2. stale' \in [Passes -> BOOLEAN]
  BY <1>1 DEF EndPass, Inv, TypeOK
<1>3. Stores /\ finds' = finds
  BY <1>1, <1>2, LocalStores
<1>4. QED
  BY <1>1, <1>3, PassEnds

-----------------------------------------------------------------------------
(* Upstreams, time, operators and restarts *)

LEMMA OutsideStep ==
  ASSUME Inv, UNCHANGED <<kind, etag, finds, writer, passVars>>,
         upstream' \in [Sources -> Versions], active' \in [Sources -> {"absent", "on", "off"}],
         due' \subseteq Sources, faults' \in 0..MaxFaults
  PROVE  Inv'
<1>1. UNCHANGED <<pc, plan, snap, res, batch, stale>>
  BY DEF passVars
<1>2. TypeOK'
  BY <1>1 DEF Inv, TypeOK
<1>3. AllStoring'
  BY <1>1 DEF Inv, AllStoring, Storing
<1>4. AllSound'
  BY <1>1 DEF Inv, AllSound, Sound, Covers, Items
<1>5. ValidatorCovered'
  BY DEF Inv, ValidatorCovered, Items
<1>6. QED
  BY <1>2, <1>3, <1>4, <1>5 DEF Inv

LEMMA SourceStep ==
  ASSUME Inv, NEW s \in Sources,
         Publish(s) \/ CadenceElapses(s) \/ AddSource(s) \/ UpdateSource(s)
  PROVE  Inv'
<1>1. UNCHANGED <<kind, etag, finds, writer, passVars>>
  BY DEF Publish, CadenceElapses, AddSource, UpdateSource, dbVars
<1>2. upstream' \in [Sources -> Versions]
  <2>1. CASE Publish(s)
    <3>1. upstream[s] + 1 \in 1..MaxVersion[s]
      <4>1. upstream[s] \in Nat /\ MaxVersion[s] \in Nat /\ upstream[s] < MaxVersion[s]
        BY <2>1, ItemsIn DEF Publish, Inv, TypeOK
      <4>2. QED
        BY <4>1
    <3>2. upstream[s] + 1 \in Versions
      BY <3>1 DEF Versions
    <3>3. QED
      BY <2>1, <3>2 DEF Publish, Inv, TypeOK
  <2>2. CASE ~Publish(s)
    BY <2>2 DEF CadenceElapses, AddSource, UpdateSource, Inv, TypeOK
  <2>3. QED
    BY <2>1, <2>2
<1>3. active' \in [Sources -> {"absent", "on", "off"}] /\ due' \subseteq Sources
  BY DEF Publish, CadenceElapses, AddSource, UpdateSource, dbVars, Inv, TypeOK
<1>4. faults' \in 0..MaxFaults
  BY DEF Publish, CadenceElapses, AddSource, UpdateSource, Fault, Inv, TypeOK
<1>5. QED
  BY <1>1, <1>2, <1>3, <1>4, OutsideStep

\* A restart forgets the passes and keeps the database.
LEMMA RestartStep ==
  ASSUME Inv, Restart
  PROVE  Inv'
<1> DEFINE n == [s \in Sources |-> 0]
           R == [s \in Sources |-> Pending]
<1>1. UNCHANGED <<kind, upstream, active, due, etag, finds>>
  BY DEF Restart, dbVars
<1>2. n \in [Sources -> Versions \cup {0}] /\ R \in [Sources -> Results]
  BY Constants
<1>3. Storing("idle", {}, R, NoBatch) /\ Sound(n, R, NoBatch, finds)
  BY Constants DEF Storing, Sound, Covers
<1>4. /\ snap' = [p \in Passes |-> n] /\ res' = [p \in Passes |-> R]
      /\ plan' = [p \in Passes |-> {}] /\ pc' = [p \in Passes |-> "idle"]
      /\ batch' = [p \in Passes |-> NoBatch] /\ stale' = [p \in Passes |-> FALSE]
      /\ writer' = None /\ faults' \in 0..MaxFaults
  BY DEF Restart, Fault, Inv, TypeOK
<1> HIDE DEF n, R
<1>5. TypeOK'
  BY <1>1, <1>2, <1>4, Constants DEF Inv, TypeOK
<1>6. AllStoring'
  BY <1>1, <1>3, <1>4 DEF AllStoring, Storing
<1>7. AllSound'
  BY <1>1, <1>3, <1>4 DEF AllSound, Sound, Covers, Items
<1>8. ValidatorCovered'
  BY <1>1 DEF Inv, ValidatorCovered, Items
<1>9. QED
  BY <1>5, <1>6, <1>7, <1>8 DEF Inv

LEMMA StutterStep ==
  ASSUME Inv, UNCHANGED vars
  PROVE  Inv'
<1>1. UNCHANGED <<kind, etag, finds, writer, passVars, upstream, active, due, faults>>
  BY DEF vars, dbVars
<1>2. QED
  BY <1>1, OutsideStep DEF Inv, TypeOK

LEMMA InitInv == Init => Inv
<1> SUFFICES ASSUME Init PROVE Inv
  OBVIOUS
<1>1. TypeOK
  <2>1. upstream \in [Sources -> Versions]
    BY ItemsIn DEF Init
  <2>2. QED
    BY <2>1, Constants DEF Init, TypeOK
<1>2. AllStoring
  BY DEF Init, AllStoring, Storing
<1>3. AllSound
  BY Constants DEF Init, AllSound, Sound, Covers
<1>4. ValidatorCovered
  BY DEF Init, ValidatorCovered
<1>5. QED
  BY <1>1, <1>2, <1>3, <1>4 DEF Inv

LEMMA InvStep == Inv /\ [Next]_vars => Inv'
<1> SUFFICES ASSUME Inv, [Next]_vars PROVE Inv'
  OBVIOUS
<1>1. ASSUME NEW p \in Passes, PassStep(p) PROVE Inv'
  <2>1. ASSUME NEW s \in Sources, FetchOk(p, s) \/ StoreFailure(p, s) \/ StoreBegin(p, s)
        PROVE  Inv'
    BY <2>1, FetchStep, StoreFailureStep, StoreBeginStep
  <2>2. CASE Dispatch(p)
    BY <2>2, DispatchStep
  <2>3. CASE Abort(p) \/ Finish(p)
    BY <2>3, EndStep
  <2>4. CASE Look(p) \/ Store(p) \/ Collide(p)
    BY <2>4, LookStep, StoreStep, RollbackStep
  <2>5. CASE CommitFinds(p) \/ RecordSuccess(p) \/ RecordAfterRollback(p)
    BY <2>5, CommitFindsStep, RecordSuccessStep, FailingStep
  <2>6. QED
    BY <1>1, <2>1, <2>2, <2>3, <2>4, <2>5 DEF PassStep
<1>2. ASSUME NEW p \in Passes,
             RunOnce(p) \/ StartLocked(p) \/ StoreLocked(p) \/ GiveUp(p) \/ StoreFailureLocked(p)
      PROVE  Inv'
  BY <1>2, RunOnceStep, EndStep, RollbackStep, FailingStep
<1>3. ASSUME NEW p \in Passes, NEW s \in Sources, FetchFails(p, s) PROVE Inv'
  BY <1>3, FetchStep
<1>4. ASSUME NEW s \in Sources,
             Publish(s) \/ CadenceElapses(s) \/ AddSource(s) \/ UpdateSource(s)
      PROVE  Inv'
  BY <1>4, SourceStep
<1>5. CASE Restart
  BY <1>5, RestartStep
<1>6. CASE UNCHANGED vars
  BY <1>6, StutterStep
<1>7. QED
  BY <1>1, <1>2, <1>3, <1>4, <1>5, <1>6 DEF Next

-----------------------------------------------------------------------------
(* Results *)

LEMMA Invariance == Spec => []Inv
BY InitInv, InvStep, PTL DEF Spec

\* The variables of the scheduler keep their types, and only the holder of
\* SQLite's write lock has rows to commit.
THEOREM DiscoveryTypeCorrect == Spec => []TypeOK
<1>1. Inv => TypeOK
  BY DEF Inv
<1>2. QED
  BY <1>1, Invariance, PTL

\* A stored validator never gets ahead of the stored rows, for any number of
\* overlapping passes and whatever collides, times out, rolls back or restarts:
\* what a pass was answered is covered by the rows and the batch it still holds.
THEOREM ValidatorsAreCovered == Spec => []ValidatorCovered
<1>1. Inv => ValidatorCovered
  BY DEF Inv
<1>2. QED
  BY <1>1, Invariance, PTL
=============================================================================
