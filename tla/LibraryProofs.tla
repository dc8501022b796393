---------------------------- MODULE LibraryProofs ----------------------------
(***************************************************************************)
(* For any finds, paths and requests: the types of the curated finds, and  *)
(* that rows agree with the repository, with Chroma, with the public       *)
(* surfaces and with the watched sources except where two requests         *)
(* overlapped or a fault struck half-way.                                  *)
(***************************************************************************)
EXTENDS Library, TLAPS

USE LibraryAssumption

-----------------------------------------------------------------------------
(* The invariant *)

\* Where a request of each kind may stand.
Places(op) ==
  CASE op \in {"toggle", "reject", "withdraw"} -> {"commit"}
    [] op \in {"approve", "auto"} -> {"find file", "put", "ingest", "commit"}
    [] op = "promote" -> {"find file", "put", "commit"}
    [] op = "unpublish" -> {"find file", "delete", "commit"}
    [] op = "purge" -> {"purge", "commit"}
    [] op = "source" -> {"primary", "artifact", "commit"}
    [] OTHER -> {}

\* What is true of every request in flight by itself.
Shape(q) ==
  /\ q.f \in Finds
  /\ q.at \in Places(q.op)
  /\ q.new.status # "none"
  /\ q.new.status # q.old.status => q.new.status # "pending"
  /\ q.op \in {"approve", "promote", "auto"} => q.path \in Paths
  /\ q.op = "promote" => ~q.ingest
  /\ q.op = "purge" => ~q.new.kb
  /\ q.op = "auto" => q.f \notin Candidates /\ q.old = NoRow
  /\ q.op = "source" => q.old.status = "pending" /\ q.new.status = "approved"

\* A request works on a row that is there; a pass works, alone, on one that is
\* not.
Born(f) ==
  /\ row[f].status = "none" => row[f] = NoRow /\ watched[f] = {}
  /\ \A r \in Working(f) :
       IF req[r].op = "auto" THEN row[f] = NoRow /\ Working(f) = {r} ELSE row[f].status # "none"

Base ==
  /\ TypeOK
  /\ \A r \in Requests : req[r] = NoReq \/ Shape(req[r])
  /\ \A f \in Finds : Born(f)

\* The requests that have made a source of a proposal and will decide it.
Deciding(f) == {r \in Working(f) : req[r].op = "source" /\ req[r].at \in {"artifact", "commit"}}

Promoting(f) ==
  /\ "artifact" \in watched[f] => "primary" \in watched[f]
  /\ \A r, s \in Deciding(f) : r = s
  /\ \A r \in Deciding(f) :
       "primary" \in watched[f] /\ (req[r].at = "artifact" => "artifact" \notin watched[f])
  /\ watched[f] # {} => f \in troubled \/ row[f].status # "pending" \/ Deciding(f) # {}

\* A row is hidden when dismissed, and has a path only when shelved.
Tidy(w) == (w.dismissed => ~w.ticker /\ ~w.queued) /\ (~w.lib => w.path = None)

\* A request alone on its find.
Solo(q, w, F) ==
  /\ q.old = w /\ Tidy(q.new)
  /\ q.op = "unpublish" => /\ q.path = q.old.path
                           /\ q.at = "commit" => <<q.f, q.path>> \notin F

ShelfOf(w) == IF w.lib THEN {w.path} ELSE {}
ShelfIn(F, f) == {p \in Paths : <<f, p>> \in F}

\* The stores while a request alone on its find is under way and nothing failed.
InStep(q, F, D) ==
  /\ q.op # "unpublish" => (q.old.lib => q.new.lib)
  /\ q.at \in {"find file", "put", "delete"} => ShelfIn(F, q.f) = ShelfOf(q.old)
  /\ q.at \in {"find file", "put"} /\ q.op # "unpublish" => ~q.old.lib /\ ~q.new.lib
  /\ q.at \notin {"find file", "put", "delete"} => ShelfIn(F, q.f) = ShelfOf(q.new)
  /\ q.op = "unpublish" => ~q.new.lib
  /\ q.at \in {"purge", "primary", "artifact"} =>
       q.new.lib = q.old.lib /\ q.new.path = q.old.path
  /\ q.new.kb => q.f \in D
  /\ q.op # "purge" \/ q.at = "purge" => (q.old.kb => q.f \in D)

Settled(f, w, F, D) == ShelfIn(F, f) = ShelfOf(w) /\ (w.kb => f \in D)

Local(f) ==
  f \notin raced =>
    /\ Tidy(row[f])
    /\ \A r, s \in Working(f) : r = s
    /\ \A r \in Working(f) : Solo(req[r], row[f], files)
    /\ f \notin troubled => /\ Working(f) = {} => Settled(f, row[f], files, docs)
                            /\ \A r \in Working(f) : InStep(req[r], files, docs)

AllPromoting == \A f \in Finds : Promoting(f)
AllLocal == \A f \in Finds : Local(f)

-----------------------------------------------------------------------------
(* Rows and requests as records *)

\* No row and no request.
LEMMA NoRowIs ==
  /\ NoRow \in Rows /\ NoRow.status = "none" /\ ~NoRow.lib /\ NoRow.path = None
  /\ ~NoRow.kb /\ Tidy(NoRow)
BY DEF NoRow, Rows, Tidy

LEMMA NoReqIs == NoReq \in Reqs /\ NoReq.f = None /\ NoReq.op = "none" /\ NoReq.at = "none"
BY NoRowIs DEF NoReq, Reqs

\* What the toggles make of a row: one that is as tidy as it was.
LEMMA ToggledIs ==
  ASSUME NEW w \in Rows, NEW on \in BOOLEAN,
         NEW n \in {SetFeatured(w, on), SetTickerFeatured(w, on), SetNewsletterPending(w, on),
                    SetDismissed(w, on)}
  PROVE  /\ n \in Rows /\ n.status = w.status /\ n.lib = w.lib /\ n.path = w.path /\ n.kb = w.kb
         /\ Tidy(w) => Tidy(n)
<1>1. CASE n = SetFeatured(w, on)
  BY <1>1 DEF SetFeatured, Rows, Tidy
<1>2. CASE n = SetTickerFeatured(w, on)
  BY <1>2 DEF SetTickerFeatured, Rows, Tidy
<1>3. CASE n = SetNewsletterPending(w, on)
  BY <1>3 DEF SetNewsletterPending, Rows, Tidy
<1>4. CASE n = SetDismissed(w, on)
  BY <1>4 DEF SetDismissed, Rows, Tidy
<1>5. QED
  BY <1>1, <1>2, <1>3, <1>4

\* A commit writes the columns that changed; nobody having written the row
\* since, it becomes what the request made of it.
LEMMA WrittenIs ==
  ASSUME NEW w \in Rows, NEW q \in Reqs
  PROVE  /\ Written(w, q) \in Rows
         /\ Written(w, q).status = IF q.new.status # q.old.status THEN q.new.status ELSE w.status
         /\ q.old = w => Written(w, q) = q.new
<1>1. /\ q.new \in Rows /\ q.old \in Rows
  BY DEF Reqs
<1>2. DOMAIN w = {"status", "lib", "path", "kb", "ticker", "queued", "featured", "dismissed"}
  BY DEF Rows
<1>3. Written(w, q) = [c \in {"status", "lib", "path", "kb", "ticker", "queued", "featured",
                              "dismissed"} |-> IF q.new[c] # q.old[c] THEN q.new[c] ELSE w[c]]
  BY <1>2 DEF Written
<1>4. Written(w, q) \in Rows
  BY <1>1, <1>3 DEF Rows
<1>5. Written(w, q).status = IF q.new.status # q.old.status THEN q.new.status ELSE w.status
  BY <1>3
<1>6. ASSUME q.old = w PROVE Written(w, q) = q.new
  BY <1>1, <1>3, <1>6 DEF Rows
<1>7. QED
  BY <1>4, <1>5, <1>6

-----------------------------------------------------------------------------
(* How a request begins *)

\* What a request that begins on a find has made of its row.
Opening(q, f) ==
  /\ q \in Reqs /\ Shape(q) /\ q.f = f /\ q.old = row[f]
  /\ q.op = "auto" => ~Exists(f) /\ Working(f) = {}
  /\ q.op # "auto" => Exists(f)
  /\ Tidy(row[f]) => Tidy(q.new)
  /\ q.op = "unpublish" => /\ q.path = row[f].path /\ ~q.new.lib
                           /\ q.at = IF row[f].lib THEN "find file" ELSE "commit"
  /\ q.op # "unpublish" => q.new.lib = row[f].lib /\ q.new.path = row[f].path
  /\ q.at = "find file" /\ q.op # "unpublish" => ~row[f].lib
  /\ q.at \notin {"put", "delete", "artifact"}
  /\ q.new.kb => row[f].kb
  /\ q.op = "purge" => q.at = "purge"
  /\ q.op = "source" => q.at = "primary" /\ watched[f] = {}

Begun(r, f, q) ==
  /\ req[r] = NoReq /\ starts < MaxStarts
  /\ req' = [req EXCEPT ![r] = q]
  /\ raced' = IF Working(f) = {} THEN raced ELSE raced \cup {f}
  /\ starts' = starts + 1
  /\ UNCHANGED <<row, files, docs, watched, troubled, faults>>

\* Every request opens so.
LEMMA StartOpens ==
  ASSUME Base, NEW r \in Requests, NEW f \in Finds, Start(r, f)
  PROVE  \E q : Opening(q, f) /\ Begun(r, f, q)
<1> DEFINE w == row[f]
           Goal == \E q : Opening(q, f) /\ Begun(r, f, q)
<1>1. TypeOK /\ w \in Rows /\ Born(f)
  BY DEF Base, TypeOK
<1> HIDE DEF w
<1>2. ASSUME NEW on \in BOOLEAN,
             NEW n \in {SetFeatured(w, on), SetTickerFeatured(w, on),
                        SetNewsletterPending(w, on), SetDismissed(w, on)},
             Exists(f), Begin(r, "toggle", f, "commit", n)
      PROVE  Goal
  <2>1. /\ n \in Rows /\ n.status = w.status /\ n.lib = w.lib /\ n.path = w.path /\ n.kb = w.kb
        /\ Tidy(w) => Tidy(n)
    BY <1>1, <1>2, ToggledIs
  <2> DEFINE q == [op |-> "toggle", f |-> f, at |-> "commit", old |-> w, new |-> n,
                   path |-> None, sha |-> FALSE, ingest |-> FALSE]
  <2>2. /\ q \in Reqs /\ q.op = "toggle" /\ q.f = f /\ q.at = "commit" /\ q.old = w /\ q.new = n
        /\ q.path = None /\ q.ingest = FALSE
    BY <1>1, <1>2, <2>1 DEF Reqs
  <2>2b. Begun(r, f, q)
    BY <1>2 DEF Begin, BeginAt, Begun, w
  <2> HIDE DEF q
  <2>3. Opening(q, f)
    BY <1>2, <2>1, <2>2 DEF Opening, Shape, Places, Exists, w
  <2>4. QED
    BY <2>2b, <2>3
<1>3. ASSUME NEW on \in BOOLEAN, PromoteSource(r, f, on) PROVE Goal
  <2> DEFINE n == [w EXCEPT !.status = "approved"]
  <2>1. /\ n \in Rows /\ n.status = "approved" /\ n.lib = w.lib /\ n.path = w.path /\ n.kb = w.kb
        /\ Tidy(w) => Tidy(n)
    BY <1>1 DEF Rows, Tidy
  <2>2. BeginAt(r, "source", f, "primary", n, None, on) /\ w.status = "pending" /\ watched[f] = {}
    BY <1>3 DEF PromoteSource, w
  <2> HIDE DEF n
  <2> DEFINE q == [op |-> "source", f |-> f, at |-> "primary", old |-> w, new |-> n,
                   path |-> None, sha |-> FALSE, ingest |-> on]
  <2>3. /\ q \in Reqs /\ q.op = "source" /\ q.f = f /\ q.at = "primary" /\ q.old = w /\ q.new = n
        /\ q.path = None /\ q.ingest = on
    BY <1>1, <2>1, <2>2 DEF Reqs
  <2>3b. Begun(r, f, q)
    BY <2>2 DEF BeginAt, Begun, w
  <2> HIDE DEF q
  <2>4. Opening(q, f)
    BY <2>1, <2>2, <2>3 DEF Opening, Shape, Places, Exists, w
  <2>5. QED
    BY <2>3b, <2>4
<1>4. ASSUME NEW p \in Paths, NEW publish \in BOOLEAN, NEW ingest \in BOOLEAN,
             ApproveFind(r, f, p, publish, ingest)
      PROVE  Goal
  <2> DEFINE n == [[w EXCEPT !.kb = FALSE] EXCEPT !.status = "approved"]
             at == IF publish /\ ~[w EXCEPT !.kb = FALSE].lib THEN "find file"
                   ELSE IF ingest THEN "ingest" ELSE "commit"
  <2>1. /\ n \in Rows /\ n.status = "approved" /\ n.lib = w.lib /\ n.path = w.path /\ ~n.kb
        /\ Tidy(w) => Tidy(n)
    BY <1>1 DEF Rows, Tidy
  <2>2. at \in {"find file", "ingest", "commit"} /\ (at = "find file" => ~w.lib)
    BY <1>1 DEF Rows
  <2>3. BeginAt(r, "approve", f, at, n, p, ingest) /\ Exists(f)
    BY <1>4 DEF ApproveFind, w
  <2> HIDE DEF n, at
  <2> DEFINE q == [op |-> "approve", f |-> f, at |-> at, old |-> w, new |-> n,
                   path |-> p, sha |-> FALSE, ingest |-> ingest]
  <2>4. /\ q \in Reqs /\ q.op = "approve" /\ q.f = f /\ q.at = at /\ q.old = w /\ q.new = n
        /\ q.path = p /\ q.ingest = ingest
    BY <1>1, <2>1, <2>2, <2>3 DEF Reqs
  <2>4b. Begun(r, f, q)
    BY <2>3 DEF BeginAt, Begun, w
  <2> HIDE DEF q
  <2>5. Opening(q, f)
    BY <2>1, <2>2, <2>3, <2>4 DEF Opening, Shape, Places, w
  <2>6. QED
    BY <2>4b, <2>5
<1>5. ASSUME NEW p \in Paths, PromoteLibrary(r, f, p) PROVE Goal
  <2>1. BeginAt(r, "promote", f, "find file", w, p, FALSE) /\ Exists(f) /\ ~w.lib
    BY <1>5 DEF PromoteLibrary, w
  <2> DEFINE q == [op |-> "promote", f |-> f, at |-> "find file", old |-> w, new |-> w,
                   path |-> p, sha |-> FALSE, ingest |-> FALSE]
  <2>2. /\ q \in Reqs /\ q.op = "promote" /\ q.f = f /\ q.at = "find file" /\ q.old = w /\ q.new = w
        /\ q.path = p /\ q.ingest = FALSE
    BY <1>1, <2>1 DEF Reqs
  <2>2b. Begun(r, f, q)
    BY <2>1 DEF BeginAt, Begun, w
  <2> HIDE DEF q
  <2>3. Opening(q, f)
    BY <2>1, <2>2 DEF Opening, Shape, Places, Exists, w
  <2>4. QED
    BY <2>2b, <2>3
<1>6. ASSUME NEW p \in Paths, AutoIngest(r, f, p) PROVE Goal
  <2> DEFINE n == [NoRow EXCEPT !.status = "auto_indexed"]
  <2>1. /\ n \in Rows /\ n.status = "auto_indexed" /\ ~n.lib /\ n.path = None /\ ~n.kb /\ Tidy(n)
    BY DEF NoRow, Rows, Tidy
  <2>2. /\ BeginAt(r, "auto", f, "find file", n, p, TRUE) /\ ~Exists(f) /\ Working(f) = {}
        /\ f \notin Candidates
    BY <1>6 DEF AutoIngest
  <2>3. w = NoRow /\ ~w.lib /\ w.path = None
    BY <1>1, <2>2, NoRowIs DEF Born, Exists, w
  <2> HIDE DEF n
  <2> DEFINE q == [op |-> "auto", f |-> f, at |-> "find file", old |-> w, new |-> n,
                   path |-> p, sha |-> FALSE, ingest |-> TRUE]
  <2>4. /\ q \in Reqs /\ q.op = "auto" /\ q.f = f /\ q.at = "find file" /\ q.old = w /\ q.new = n
        /\ q.path = p /\ q.ingest = TRUE
    BY <1>1, <2>1, <2>2, <2>3 DEF Reqs
  <2>4b. Begun(r, f, q)
    BY <2>2 DEF BeginAt, Begun, w
  <2> HIDE DEF q
  <2>5. Opening(q, f)
    <3>1. Shape(q)
      BY <2>1, <2>2, <2>3, <2>4 DEF Shape, Places
    <3>2. q.new.lib = w.lib /\ q.new.path = w.path
      BY <1>1, <2>1, <2>3, <2>4 DEF Rows
    <3>3. QED
      BY <2>1, <2>2, <2>3, <2>4, <3>1, <3>2 DEF Opening, w
  <2>6. QED
    BY <2>4b, <2>5
<1>7. ASSUME NEW op \in {"reject", "withdraw", "purge"}, NEW n \in Rows, Exists(f),
             n.lib = w.lib, n.path = w.path, n.kb => w.kb, Tidy(w) => Tidy(n),
             n.status # "none", n.status # w.status => n.status # "pending",
             op = "purge" => ~n.kb,
             Begin(r, op, f, IF op = "purge" THEN "purge" ELSE "commit", n)
      PROVE  Goal
  <2> DEFINE at == IF op = "purge" THEN "purge" ELSE "commit"
  <2> DEFINE q == [op |-> op, f |-> f, at |-> at, old |-> w, new |-> n,
                   path |-> None, sha |-> FALSE, ingest |-> FALSE]
  <2>0. at \in {"purge", "commit"}
    OBVIOUS
  <2>1. /\ q \in Reqs /\ q.op = op /\ q.f = f /\ q.at = at /\ q.old = w /\ q.new = n
        /\ q.path = None /\ q.ingest = FALSE
    BY <1>1, <1>7, <2>0 DEF Reqs
  <2>1b. Begun(r, f, q)
    BY <1>7 DEF Begin, BeginAt, Begun, w
  <2> HIDE DEF q
  <2>2. Opening(q, f)
    BY <1>7, <2>1 DEF Opening, Shape, Places, w
  <2>3. QED
    BY <2>1b, <2>2
<1>8. CASE RejectFind(r, f)
  <2> DEFINE n == [w EXCEPT !.status = "rejected", !.kb = FALSE]
  <2>1. /\ n \in Rows /\ n.status = "rejected" /\ n.lib = w.lib /\ n.path = w.path /\ ~n.kb
        /\ Tidy(w) => Tidy(n)
    BY <1>1 DEF Rows, Tidy
  <2>2. Exists(f) /\ Begin(r, "reject", f, "commit", n)
    BY <1>8 DEF RejectFind, w
  <2> HIDE DEF n
  <2>3. QED
    BY <1>7, <2>1, <2>2
<1>9. CASE UnpublishLatest(r, f)
  <2> DEFINE n == [w EXCEPT !.status = "withdrawn"]
  <2>1. /\ n \in Rows /\ n.status = "withdrawn" /\ n.lib = w.lib /\ n.path = w.path
        /\ (n.kb => w.kb) /\ (Tidy(w) => Tidy(n))
    BY <1>1 DEF Rows, Tidy
  <2>2. Exists(f) /\ Begin(r, "withdraw", f, "commit", n)
    BY <1>9 DEF UnpublishLatest, w
  <2> HIDE DEF n
  <2>3. QED
    BY <1>7, <2>1, <2>2
<1>10. CASE PurgeKb(r, f)
  <2> DEFINE n == [w EXCEPT !.kb = FALSE]
  <2>1. /\ n \in Rows /\ n.status = w.status /\ n.lib = w.lib /\ n.path = w.path
        /\ ~n.kb /\ (Tidy(w) => Tidy(n))
    BY <1>1 DEF Rows, Tidy
  <2>2. Exists(f) /\ Begin(r, "purge", f, "purge", n) /\ w.status # "none"
    BY <1>10 DEF PurgeKb, Exists, w
  <2> HIDE DEF n
  <2>3. QED
    BY <1>7, <2>1, <2>2
<1>11. CASE UnpublishLibrary(r, f)
  <2> DEFINE n == Unshelved(w)
             at == IF w.lib THEN "find file" ELSE "commit"
  <2>1. /\ n \in Rows /\ n.status = w.status /\ ~n.lib /\ n.kb = w.kb /\ (Tidy(w) => Tidy(n))
    BY <1>1 DEF Rows, Tidy, Unshelved
  <2>2. /\ Exists(f) /\ w.status # "none" /\ at \in {"find file", "commit"}
        /\ BeginAt(r, "unpublish", f, at, n, w.path, FALSE) /\ w.path \in Paths \cup {None}
    BY <1>1, <1>11 DEF UnpublishLibrary, Exists, Rows, w
  <2> HIDE DEF n, at
  <2> DEFINE q == [op |-> "unpublish", f |-> f, at |-> at, old |-> w, new |-> n,
                   path |-> w.path, sha |-> FALSE, ingest |-> FALSE]
  <2>3. /\ q \in Reqs /\ q.op = "unpublish" /\ q.f = f /\ q.at = at /\ q.old = w /\ q.new = n
        /\ q.path = w.path /\ q.ingest = FALSE
    BY <1>1, <2>1, <2>2 DEF Reqs
  <2>3b. Begun(r, f, q)
    BY <2>2 DEF BeginAt, Begun, w
  <2> HIDE DEF q
  <2>4. Opening(q, f)
    BY <2>1, <2>2, <2>3 DEF Opening, Shape, Places, w, at
  <2>5. QED
    BY <2>3b, <2>4
<1>12. QED
  BY <1>2, <1>3, <1>4, <1>5, <1>6, <1>8, <1>9, <1>10, <1>11
  DEF Start, FeatureFind, TickerFeatureFind, QueueForNewsletter, DismissFind, w

-----------------------------------------------------------------------------
(* How a request goes on *)

\* A step of request r that leaves it as q (or ends it), its find's row as w and
\* the sources made from the find as W, and touches nothing of other finds.
Moves(r, q, w, W) ==
  LET p == req[r] IN
  /\ req' = [req EXCEPT ![r] = q]
  /\ q = NoReq \/ (q \in Reqs /\ Shape(q) /\ q.f = p.f /\ q.op = p.op)
  /\ row' = [row EXCEPT ![p.f] = w] /\ w \in Rows
  /\ w = row[p.f] \/ (w.status # "none" /\ (p.op = "auto" => q = NoReq))
  /\ w.status = "pending" => row[p.f].status = "pending"
  /\ watched' = [watched EXCEPT ![p.f] = W] /\ W \subseteq {"primary", "artifact"}
  /\ p.op # "source" => W = watched[p.f]
  /\ files' \subseteq Finds \X Paths
  /\ \A g \in Finds \ {p.f}, x \in Paths : <<g, x>> \in files' <=> <<g, x>> \in files
  /\ docs' \subseteq Finds /\ \A g \in Finds \ {p.f} : g \in docs' <=> g \in docs
  /\ raced' = raced /\ troubled \subseteq troubled' /\ troubled' \subseteq troubled \cup {p.f}
  /\ starts' = starts /\ faults' \in 0..MaxFaults

\* What it then has to leave of a find it was alone on.
Sound(r, q, w) ==
  LET f == req[r].f IN
  /\ Tidy(w)
  /\ q # NoReq => Solo(q, w, files')
  /\ f \notin troubled' => IF q = NoReq THEN Settled(f, w, files', docs')
                                        ELSE InStep(q, files', docs')

\* A find with one request on it, and nothing gone wrong.
Quiet(r) ==
  LET f == req[r].f IN
  /\ f \notin raced /\ Tidy(row[f]) /\ Solo(req[r], row[f], files)
  /\ f \notin troubled => InStep(req[r], files, docs)

Continues(r) == \E q, w, W : Moves(r, q, w, W) /\ (Quiet(r) => Sound(r, q, w))

\* A request under way has its shape.
LEMMA UnderWay ==
  ASSUME Base, NEW r \in Requests, req[r].at # "none"
  PROVE  /\ Shape(req[r]) /\ req[r] \in Reqs /\ req[r].f \in Finds /\ req \in [Requests -> Reqs]
         /\ row[req[r].f] \in Rows /\ watched[req[r].f] \subseteq {"primary", "artifact"}
         /\ files \subseteq Finds \X Paths /\ docs \subseteq Finds /\ faults \in 0..MaxFaults
         /\ starts \in 0..MaxStarts /\ row \in [Finds -> Rows] /\ troubled \subseteq Finds
         /\ watched \in [Finds -> SUBSET {"primary", "artifact"}]
<1>1. Shape(req[r]) /\ TypeOK
  BY NoReqIs DEF Base
<1>2. req[r].f \in Finds
  BY <1>1 DEF Shape
<1>3. QED
  BY <1>1, <1>2 DEF TypeOK

\* The stores of other finds are left alone, whatever happens to this one's.
LEMMA StoresElsewhere ==
  ASSUME Base, NEW r \in Requests, req[r].at # "none",
         \/ files' = files
         \/ files' = files \ {<<req[r].f, req[r].path>>}
         \/ files' = files \cup {<<req[r].f, req[r].path>>} /\ req[r].path \in Paths,
         docs' = docs \/ docs' = docs \cup {req[r].f} \/ docs' = docs \ {req[r].f}
  PROVE  /\ files' \subseteq Finds \X Paths
         /\ \A g \in Finds \ {req[r].f}, x \in Paths : <<g, x>> \in files' <=> <<g, x>> \in files
         /\ docs' \subseteq Finds /\ \A g \in Finds \ {req[r].f} : g \in docs' <=> g \in docs
<1>1. req[r].f \in Finds /\ files \subseteq Finds \X Paths /\ docs \subseteq Finds
  BY UnderWay
<1>2. files' \subseteq Finds \X Paths
  BY <1>1
<1>3. \A g \in Finds \ {req[r].f}, x \in Paths : <<g, x>> \in files' <=> <<g, x>> \in files
  BY <1>1
<1>4. docs' \subseteq Finds /\ \A g \in Finds \ {req[r].f} : g \in docs' <=> g \in docs
  BY <1>1
<1>5. QED
  BY <1>2, <1>3, <1>4

\* A step that leaves the row and the sources alone is a move.
LEMMA RowKept ==
  ASSUME Base, NEW r \in Requests, req[r].at # "none",
         NEW q, q = NoReq \/ (q \in Reqs /\ Shape(q) /\ q.f = req[r].f /\ q.op = req[r].op),
         req' = [req EXCEPT ![r] = q], UNCHANGED <<row, watched, raced, starts>>,
         \/ files' = files
         \/ files' = files \ {<<req[r].f, req[r].path>>}
         \/ files' = files \cup {<<req[r].f, req[r].path>>} /\ req[r].path \in Paths,
         docs' = docs \/ docs' = docs \cup {req[r].f} \/ docs' = docs \ {req[r].f},
         troubled' = troubled \/ troubled' = troubled \cup {req[r].f},
         faults' = faults \/ Fault
  PROVE  Moves(r, q, row[req[r].f], watched[req[r].f])
<1> DEFINE f == req[r].f
<1>1. /\ f \in Finds /\ row \in [Finds -> Rows] /\ faults \in 0..MaxFaults
      /\ watched \in [Finds -> SUBSET {"primary", "artifact"}]
  BY UnderWay
<1>2. /\ files' \subseteq Finds \X Paths
      /\ \A g \in Finds \ {f}, x \in Paths : <<g, x>> \in files' <=> <<g, x>> \in files
      /\ docs' \subseteq Finds /\ \A g \in Finds \ {f} : g \in docs' <=> g \in docs
  BY StoresElsewhere
<1>3. faults' \in 0..MaxFaults
  BY <1>1 DEF Fault
<1> HIDE DEF f
<1>4. row' = [row EXCEPT ![f] = row[f]] /\ watched' = [watched EXCEPT ![f] = watched[f]]
  BY <1>1
<1>5. row[f] \in Rows /\ watched[f] \subseteq {"primary", "artifact"}
  BY <1>1
<1>6. troubled \subseteq troubled' /\ troubled' \subseteq troubled \cup {f}
  BY DEF f
<1>7. QED
  BY <1>2, <1>3, <1>4, <1>5, <1>6 DEF Moves, f

\* So is a request's end that clears the Chroma flag of a decided find.
LEMMA FlagCleared ==
  ASSUME Base, NEW r \in Requests, req[r].at # "none", End(r),
         row' = IF req[r].op = "approve" /\ req[r].old.kb
                THEN [row EXCEPT ![req[r].f].kb = FALSE] ELSE row,
         UNCHANGED <<watched, docs, raced, starts>>,
         \/ files' = files
         \/ files' = files \ {<<req[r].f, req[r].path>>}
         \/ files' = files \cup {<<req[r].f, req[r].path>>} /\ req[r].path \in Paths,
         troubled' = troubled \/ troubled' = troubled \cup {req[r].f},
         faults' = faults \/ Fault
  PROVE  \E w : /\ Moves(r, NoReq, w, watched[req[r].f])
                /\ w.lib = row[req[r].f].lib /\ w.path = row[req[r].f].path
                /\ w.kb => row[req[r].f].kb
                /\ Tidy(row[req[r].f]) => Tidy(w)
<1> DEFINE f == req[r].f
<1>1. /\ f \in Finds /\ row \in [Finds -> Rows] /\ row[f] \in Rows /\ faults \in 0..MaxFaults
      /\ watched \in [Finds -> SUBSET {"primary", "artifact"}]
      /\ watched[f] \subseteq {"primary", "artifact"}
  BY UnderWay
<1>2. CASE req[r].op = "approve" /\ req[r].old.kb
  <2> DEFINE w == [row[f] EXCEPT !.kb = FALSE]
  <2>1. /\ w \in Rows /\ w.status = row[f].status /\ w.lib = row[f].lib /\ w.path = row[f].path
        /\ ~w.kb /\ (Tidy(row[f]) => Tidy(w))
    BY <1>1 DEF Rows, Tidy
  <2>2. row' = [row EXCEPT ![f] = w]
    BY <1>1, <1>2 DEF Rows
  <2>3. row[f].status # "none"
    <3>1. Born(f) /\ r \in Working(f)
      BY <1>1 DEF Base, Working
    <3>2. QED
      BY <1>2, <3>1 DEF Born
  <2>4. /\ files' \subseteq Finds \X Paths
        /\ \A g \in Finds \ {f}, x \in Paths : <<g, x>> \in files' <=> <<g, x>> \in files
        /\ docs' \subseteq Finds /\ \A g \in Finds \ {f} : g \in docs' <=> g \in docs
    BY StoresElsewhere
  <2>5. faults' \in 0..MaxFaults
    BY <1>1 DEF Fault
  <2>6. watched' = [watched EXCEPT ![f] = watched[f]]
    BY <1>1
  <2>7. troubled \subseteq troubled' /\ troubled' \subseteq troubled \cup {f}
    OBVIOUS
  <2>8. req' = [req EXCEPT ![r] = NoReq]
    BY DEF End
  <2> HIDE DEF w, f
  <2>9. Moves(r, NoReq, w, watched[f])
    BY <1>1, <1>2, <2>1, <2>2, <2>3, <2>4, <2>5, <2>6, <2>7, <2>8 DEF Moves, f
  <2>10. QED
    BY <2>1, <2>9 DEF f
<1>3. CASE ~(req[r].op = "approve" /\ req[r].old.kb)
  <2>1. Moves(r, NoReq, row[f], watched[f])
    BY <1>3, RowKept DEF End
  <2>2. QED
    BY <2>1
<1>4. QED
  BY <1>2, <1>3

\* Looking the file up.
LEMMA FindFileContinues ==
  ASSUME Base, NEW r \in Requests, FindFile(r)
  PROVE  Continues(r)
<1> DEFINE p == req[r]
           b == OnShelf(r)
           a == IF p.op # "unpublish" THEN "put" ELSE IF b THEN "delete" ELSE "commit"
           q == [p EXCEPT !.sha = b, !.at = a]
<1>1. p.at = "find file" /\ Shape(p) /\ p \in Reqs /\ req \in [Requests -> Reqs]
  BY UnderWay DEF FindFile
<1>2. b \in BOOLEAN /\ (b <=> <<p.f, p.path>> \in files)
  BY DEF OnShelf
<1>3. req' = [req EXCEPT ![r] = q] /\ UNCHANGED <<row, files, docs, watched, raced, troubled,
                                                   starts, faults>>
  BY <1>1 DEF FindFile, Reqs, storeVars
<1> HIDE DEF b
<1>4. /\ a \in {"put", "delete", "commit"} /\ (p.op # "unpublish" => a = "put")
      /\ (p.op = "unpublish" => a = IF b THEN "delete" ELSE "commit")
  OBVIOUS
<1> HIDE DEF a
<1>5. /\ q \in Reqs /\ q.f = p.f /\ q.op = p.op /\ q.at = a /\ q.old = p.old /\ q.new = p.new
      /\ q.path = p.path /\ q.ingest = p.ingest
  BY <1>1, <1>2, <1>4 DEF Reqs
<1> HIDE DEF p, q
<1>6. Shape(q)
  BY <1>1, <1>4, <1>5 DEF Shape, Places
<1>7. Moves(r, q, row[p.f], watched[p.f])
  BY <1>1, <1>3, <1>5, <1>6, RowKept DEF p
<1>8. ASSUME Quiet(r) PROVE Sound(r, q, row[p.f])
  <2>1. Solo(q, row[p.f], files')
    BY <1>2, <1>3, <1>4, <1>5, <1>8 DEF Quiet, Solo, p
  <2>2. ASSUME p.f \notin troubled PROVE InStep(q, files', docs')
    <3>1. InStep(p, files, docs) /\ Solo(p, row[p.f], files)
      BY <1>8, <2>2 DEF Quiet, p
    <3>2. CASE a = "put"
      BY <1>1, <1>3, <1>4, <1>5, <3>1, <3>2 DEF InStep
    <3>3. CASE a = "delete"
      BY <1>1, <1>3, <1>4, <1>5, <3>1, <3>3 DEF InStep
    <3>4. CASE a = "commit"
      <4>1. p.op = "unpublish" /\ p.path = p.old.path /\ <<p.f, p.path>> \notin files
        BY <1>2, <1>4, <3>1, <3>4 DEF Solo
      <4>2. ~p.new.lib /\ ShelfIn(files, p.f) = ShelfOf(p.old)
        BY <1>1, <3>1, <4>1 DEF InStep
      <4>3. ShelfIn(files, p.f) = {}
        BY <4>1, <4>2 DEF ShelfIn, ShelfOf
      <4>4. ShelfIn(files', q.f) = ShelfOf(q.new)
        BY <1>3, <1>5, <4>2, <4>3 DEF ShelfOf, ShelfIn
      <4>5. QED
        BY <1>1, <1>3, <1>5, <3>1, <3>4, <4>1, <4>2, <4>4 DEF InStep
    <3>5. QED
      BY <1>4, <3>2, <3>3, <3>4
  <2>3. q # NoReq
    BY <1>4, <1>5, NoReqIs
  <2>4. QED
    BY <1>3, <1>8, <2>1, <2>2, <2>3 DEF Sound, Quiet, p
<1>9. QED
  BY <1>7, <1>8 DEF Continues

\* Writing it.
LEMMA PutFileContinues ==
  ASSUME Base, NEW r \in Requests, PutFile(r)
  PROVE  Continues(r)
<1> DEFINE p == req[r]
           n == Shelved(p.new, p.path)
           a == AfterPublish(p)
           q == [p EXCEPT !.at = a, !.new = n]
<1>1. p.at = "put" /\ Shape(p) /\ p \in Reqs /\ req \in [Requests -> Reqs] /\ p.new \in Rows
  BY UnderWay DEF PutFile, Reqs
<1>2. p.op \in {"approve", "promote", "auto"} /\ p.path \in Paths
  BY <1>1 DEF Shape, Places
<1>3. /\ req' = [req EXCEPT ![r] = q] /\ UNCHANGED <<row, docs, watched, raced, troubled,
                                                      starts, faults>>
      /\ files' = files \cup {<<p.f, p.path>>}
  BY <1>1 DEF PutFile, Reqs
<1>4. /\ n \in Rows /\ n.lib /\ n.path = p.path /\ n.status = p.new.status /\ n.kb = p.new.kb
      /\ (Tidy(p.new) => Tidy(n))
  BY <1>1, <1>2 DEF Shelved, Rows, Tidy
<1> HIDE DEF n
<1>5. a \in {"ingest", "commit"} /\ (p.op = "promote" => a = "commit")
  BY <1>1 DEF AfterPublish, Shape
<1> HIDE DEF a
<1>6. /\ q \in Reqs /\ q.f = p.f /\ q.op = p.op /\ q.at = a /\ q.old = p.old /\ q.new = n
      /\ q.path = p.path /\ q.ingest = p.ingest
  BY <1>1, <1>4, <1>5 DEF Reqs
<1> HIDE DEF p, q
<1>7. Shape(q)
  BY <1>1, <1>2, <1>4, <1>5, <1>6 DEF Shape, Places
<1>8. Moves(r, q, row[p.f], watched[p.f])
  BY <1>1, <1>2, <1>3, <1>6, <1>7, RowKept DEF p
<1>9. ASSUME Quiet(r) PROVE Sound(r, q, row[p.f])
  <2>1. Solo(q, row[p.f], files')
    BY <1>2, <1>4, <1>6, <1>9 DEF Quiet, Solo, p
  <2>2. ASSUME p.f \notin troubled PROVE InStep(q, files', docs')
    <3>1. InStep(p, files, docs)
      BY <1>9, <2>2 DEF Quiet, p
    <3>2. ~p.old.lib /\ ShelfIn(files, p.f) = {}
      BY <1>1, <1>2, <3>1 DEF InStep, ShelfOf
    <3>3. ShelfIn(files', p.f) = {p.path}
      BY <1>2, <1>3, <3>2 DEF ShelfIn
    <3>4. ShelfIn(files', q.f) = ShelfOf(q.new)
      BY <1>4, <1>6, <3>3 DEF ShelfOf
    <3>5. QED
      BY <1>1, <1>2, <1>3, <1>4, <1>5, <1>6, <3>1, <3>2, <3>4 DEF InStep
  <2>3. q # NoReq
    BY <1>5, <1>6, NoReqIs
  <2>4. QED
    BY <1>3, <1>9, <2>1, <2>2, <2>3 DEF Sound, Quiet, p
<1>10. QED
  BY <1>8, <1>9 DEF Continues

\* Deleting it.
LEMMA DeleteFileContinues ==
  ASSUME Base, NEW r \in Requests, DeleteFile(r)
  PROVE  Continues(r)
<1> DEFINE p == req[r]
           q == [p EXCEPT !.at = "commit"]
<1>1. p.at = "delete" /\ Shape(p) /\ p \in Reqs /\ req \in [Requests -> Reqs]
  BY UnderWay DEF DeleteFile
<1>2. p.op = "unpublish"
  BY <1>1 DEF Shape, Places
<1>3. /\ req' = [req EXCEPT ![r] = q] /\ UNCHANGED <<row, docs, watched, raced, troubled,
                                                      starts, faults>>
      /\ files' = files \ {<<p.f, p.path>>}
  BY <1>1 DEF DeleteFile, Goto, Reqs
<1>4. /\ q \in Reqs /\ q.f = p.f /\ q.op = p.op /\ q.at = "commit" /\ q.old = p.old
      /\ q.new = p.new /\ q.path = p.path /\ q.ingest = p.ingest
  BY <1>1 DEF Reqs
<1> HIDE DEF p, q
<1>5. Shape(q)
  BY <1>1, <1>2, <1>4 DEF Shape, Places
<1>6. Moves(r, q, row[p.f], watched[p.f])
  BY <1>1, <1>3, <1>4, <1>5, RowKept DEF p
<1>7. ASSUME Quiet(r) PROVE Sound(r, q, row[p.f])
  <2>1. Solo(q, row[p.f], files')
    BY <1>3, <1>4, <1>7 DEF Quiet, Solo, p
  <2>2. ASSUME p.f \notin troubled PROVE InStep(q, files', docs')
    <3>1. InStep(p, files, docs) /\ p.path = p.old.path
      BY <1>2, <1>7, <2>2 DEF Quiet, Solo, p
    <3>2. ~p.new.lib /\ ShelfIn(files, p.f) = ShelfOf(p.old)
      BY <1>1, <1>2, <3>1 DEF InStep
    <3>3. ShelfIn(files', p.f) = {}
      BY <1>3, <3>1, <3>2 DEF ShelfIn, ShelfOf
    <3>4. ShelfIn(files', q.f) = ShelfOf(q.new)
      BY <1>4, <3>2, <3>3 DEF ShelfOf
    <3>5. QED
      BY <1>1, <1>2, <1>3, <1>4, <3>1, <3>2, <3>4 DEF InStep
  <2>3. q # NoReq
    BY <1>4, NoReqIs
  <2>4. QED
    BY <1>3, <1>7, <2>1, <2>2, <2>3 DEF Sound, Quiet, p
<1>8. QED
  BY <1>6, <1>7 DEF Continues

\* Ending over a file that is not what it was, or a write that fails, with the
\* find as it was but for its Chroma flag.
LEMMA GivesUp ==
  ASSUME Base, NEW r \in Requests, req[r].at \in {"find file", "put", "delete"}, End(r),
         row' = IF req[r].op = "approve" /\ req[r].old.kb
                THEN [row EXCEPT ![req[r].f].kb = FALSE] ELSE row,
         UNCHANGED <<watched, docs, raced, starts>>,
         \/ files' = files /\ troubled' = troubled
         \/ /\ troubled' = troubled \cup {req[r].f}
            /\ \/ files' = files \ {<<req[r].f, req[r].path>>}
               \/ files' = files \cup {<<req[r].f, req[r].path>>} /\ req[r].path \in Paths,
         faults' = faults \/ Fault
  PROVE  Continues(r)
<1> DEFINE p == req[r]
<1>1. Shape(p)
  BY UnderWay
<1>2. PICK w : /\ Moves(r, NoReq, w, watched[p.f])
               /\ w.lib = row[p.f].lib /\ w.path = row[p.f].path
               /\ w.kb => row[p.f].kb
               /\ Tidy(row[p.f]) => Tidy(w)
  BY FlagCleared
<1>3. ASSUME Quiet(r) PROVE Sound(r, NoReq, w)
  <2>1. ASSUME p.f \notin troubled' PROVE Settled(p.f, w, files', docs')
    <3>1. files' = files /\ p.f \notin troubled /\ docs' = docs
      BY <2>1
    <3>2. InStep(p, files, docs) /\ p.old = row[p.f]
      BY <1>3, <3>1 DEF Quiet, Solo
    <3>3. ShelfIn(files, p.f) = ShelfOf(row[p.f]) /\ (row[p.f].kb => p.f \in docs)
      BY <1>1, <3>2 DEF InStep, Shape, Places
    <3>4. QED
      BY <1>2, <3>1, <3>3 DEF Settled, ShelfOf
  <2>2. QED
    BY <1>2, <1>3, <2>1 DEF Sound, Quiet
<1>4. QED
  BY <1>2, <1>3 DEF Continues

\* Going on to a later place with the row and the files as they are.
LEMMA GoesOn ==
  ASSUME Base, NEW r \in Requests, req[r].at # "none", NEW a \in Places(req[r].op),
         a # "none", req' = [req EXCEPT ![r] = [req[r] EXCEPT !.at = a]],
         UNCHANGED <<row, files, watched, raced, starts>>,
         docs' = docs \/ docs' = docs \ {req[r].f},
         troubled' = troubled, faults' = faults \/ Fault,
         Quiet(r) /\ req[r].f \notin troubled =>
           /\ a \in {"ingest", "commit"}
           /\ ShelfIn(files, req[r].f) = ShelfOf(req[r].new)
           /\ req[r].new.kb => req[r].f \in docs'
           /\ req[r].op # "purge" => (req[r].old.kb => req[r].f \in docs'),
         req[r].op = "purge" => a = "commit", req[r].op # "unpublish"
  PROVE  Continues(r)
<1> DEFINE p == req[r]
           q == [p EXCEPT !.at = a]
<1>1. Shape(p) /\ p \in Reqs
  BY UnderWay
<1>2. a \in {"find file", "put", "delete", "ingest", "purge", "primary", "artifact", "commit"}
  BY DEF Places
<1>3. /\ q \in Reqs /\ q.f = p.f /\ q.op = p.op /\ q.at = a /\ q.old = p.old
      /\ q.new = p.new /\ q.path = p.path /\ q.ingest = p.ingest
  BY <1>1, <1>2 DEF Reqs
<1>4. req' = [req EXCEPT ![r] = q]
  OBVIOUS
<1> HIDE DEF p, q
<1>5. Shape(q)
  <2>1. a \in Places(p.op)
    BY DEF p
  <2>2. QED
    BY <1>1, <1>3, <2>1 DEF Shape
<1>6. Moves(r, q, row[p.f], watched[p.f])
  BY <1>3, <1>4, <1>5, RowKept DEF p
<1>7. ASSUME Quiet(r) PROVE Sound(r, q, row[p.f])
  <2>1. Solo(q, row[p.f], files')
    BY <1>3, <1>7 DEF Quiet, Solo, p
  <2>2. ASSUME p.f \notin troubled PROVE InStep(q, files', docs')
    <3>1. InStep(p, files, docs)
      BY <1>7, <2>2 DEF Quiet, p
    <3>2. /\ a \in {"ingest", "commit"}
          /\ ShelfIn(files', p.f) = ShelfOf(p.new)
          /\ p.new.kb => p.f \in docs'
          /\ p.op # "purge" => (p.old.kb => p.f \in docs')
          /\ p.op = "purge" => a = "commit"
          /\ p.op # "unpublish"
      BY <1>7, <2>2 DEF p
    <3>3. QED
      BY <1>3, <3>1, <3>2 DEF InStep
  <2>3. q # NoReq
    BY <1>2, <1>3, NoReqIs
  <2>4. QED
    BY <1>7, <2>1, <2>2, <2>3 DEF Sound, Quiet, p
<1>8. QED
  BY <1>6, <1>7 DEF Continues

\* The steps about the repository that do not go well.
LEMMA LibraryFailsContinues ==
  ASSUME Base, NEW r \in Requests, LibraryConflict(r) \/ LibraryFails(r)
  PROVE  Continues(r)
<1> DEFINE p == req[r]
<1>1. /\ p.at \in {"find file", "put", "delete"} /\ Shape(p) /\ p \in Reqs
      /\ req \in [Requests -> Reqs] /\ req[r].at # "none"
  BY UnderWay DEF LibraryConflict, LibraryFails
<1>2. p.at = "put" => p.path \in Paths
  BY <1>1 DEF Shape, Places
<1>3. CASE LibraryConflict(r)
  BY <1>1, <1>3, GivesUp DEF LibraryConflict, storeVars
<1>4. CASE LibraryFails(r)
  <2>1. \/ files' = files /\ troubled' = troubled
        \/ /\ troubled' = troubled \cup {p.f}
           /\ \/ files' = files \ {<<p.f, p.path>>}
              \/ files' = files \cup {<<p.f, p.path>>} /\ p.path \in Paths
    BY <1>2, <1>4 DEF LibraryFails
  <2>2. Fault /\ UNCHANGED <<docs, watched, raced, starts>>
    BY <1>4 DEF LibraryFails
  <2>3. CASE p.op # "auto"
    BY <1>1, <1>4, <2>1, <2>2, <2>3, GivesUp DEF LibraryFails
  <2>4. CASE p.op = "auto"
    <3> DEFINE q == [p EXCEPT !.at = "ingest"]
    <3>1. req' = [req EXCEPT ![r] = q] /\ row' = row
      BY <1>1, <1>4, <2>4 DEF LibraryFails, Goto, Reqs
    <3>2. /\ q \in Reqs /\ q.f = p.f /\ q.op = p.op /\ q.at = "ingest" /\ q.old = p.old
          /\ q.new = p.new /\ q.path = p.path /\ q.ingest = p.ingest
      BY <1>1 DEF Reqs
    <3> HIDE DEF p, q
    <3>3. Shape(q)
      BY <1>1, <2>4, <3>2 DEF Shape, Places
    <3>4. Moves(r, q, row[p.f], watched[p.f])
      BY <1>1, <2>1, <2>2, <3>1, <3>2, <3>3, RowKept DEF p
    <3>5. ASSUME Quiet(r) PROVE Sound(r, q, row[p.f])
      <4>1. Solo(q, row[p.f], files')
        BY <2>4, <3>2, <3>5 DEF Quiet, Solo, p
      <4>2. ASSUME p.f \notin troubled' PROVE InStep(q, files', docs')
        <5>1. files' = files /\ docs' = docs /\ InStep(p, files, docs)
          BY <2>1, <2>2, <3>5, <4>2 DEF Quiet, p
        <5>2. ShelfIn(files, p.f) = {} /\ ~p.old.lib /\ ~p.new.lib
          BY <1>1, <2>4, <5>1 DEF InStep, ShelfOf, Shape, Places
        <5>3. QED
          BY <2>4, <3>2, <5>1, <5>2 DEF InStep, ShelfOf
      <4>3. q # NoReq
        BY <3>2, NoReqIs
      <4>4. QED
        BY <3>5, <4>1, <4>2, <4>3 DEF Sound, Quiet, p
    <3>6. QED
      BY <3>4, <3>5 DEF Continues
  <2>5. QED
    BY <2>3, <2>4
<1>5. QED
  BY <1>3, <1>4

\* The steps about Chroma.
LEMMA ChromaContinues ==
  ASSUME Base, NEW r \in Requests,
         IngestFind(r) \/ IngestFails(r) \/ PurgeFind(r) \/ PurgeFails(r)
  PROVE  Continues(r)
<1> DEFINE p == req[r]
<1>1. /\ p.at \in {"ingest", "purge"} /\ Shape(p) /\ p \in Reqs
      /\ req \in [Requests -> Reqs] /\ req[r].at # "none" /\ p.new \in Rows
  BY UnderWay DEF IngestFind, IngestFails, PurgeFind, PurgeFails, Reqs
<1>2. /\ p.at = "ingest" => p.op \in {"approve", "auto"}
      /\ p.at = "purge" => p.op = "purge" /\ ~p.new.kb
  BY <1>1 DEF Shape, Places
<1>3. CASE IngestFind(r)
  <2> DEFINE n == [p.new EXCEPT !.kb = TRUE]
             q == [p EXCEPT !.at = "commit", !.new = n]
  <2>1. /\ n \in Rows /\ n.status = p.new.status /\ n.lib = p.new.lib /\ n.path = p.new.path
        /\ (Tidy(p.new) => Tidy(n))
    BY <1>1 DEF Rows, Tidy
  <2>2. /\ req' = [req EXCEPT ![r] = q] /\ docs' = docs \cup {p.f} /\ p.at = "ingest"
        /\ UNCHANGED <<row, files, watched, raced, troubled, starts, faults>>
    BY <1>1, <1>3 DEF IngestFind, Reqs
  <2> HIDE DEF n
  <2>3. /\ q \in Reqs /\ q.f = p.f /\ q.op = p.op /\ q.at = "commit" /\ q.old = p.old
        /\ q.new = n /\ q.path = p.path /\ q.ingest = p.ingest
    BY <1>1, <2>1 DEF Reqs
  <2> HIDE DEF p, q
  <2>4. Shape(q)
    BY <1>1, <1>2, <2>1, <2>2, <2>3 DEF Shape, Places
  <2>5. Moves(r, q, row[p.f], watched[p.f])
    BY <1>1, <2>2, <2>3, <2>4, RowKept DEF p
  <2>6. ASSUME Quiet(r) PROVE Sound(r, q, row[p.f])
    <3>1. Solo(q, row[p.f], files')
      BY <1>2, <2>1, <2>2, <2>3, <2>6 DEF Quiet, Solo, p
    <3>2. ASSUME p.f \notin troubled PROVE InStep(q, files', docs')
      <4>1. InStep(p, files, docs)
        BY <2>6, <3>2 DEF Quiet, p
      <4>2. ShelfIn(files, p.f) = ShelfOf(p.new) /\ (p.old.lib => p.new.lib)
        BY <1>2, <2>2, <4>1 DEF InStep
      <4>3. ShelfIn(files', q.f) = ShelfOf(q.new)
        BY <2>1, <2>2, <2>3, <4>2 DEF ShelfOf
      <4>4. QED
        BY <1>2, <2>1, <2>2, <2>3, <4>2, <4>3 DEF InStep
    <3>3. q # NoReq
      BY <2>3, NoReqIs
    <3>4. QED
      BY <2>2, <2>6, <3>1, <3>2, <3>3 DEF Sound, Quiet, p
  <2>7. QED
    BY <2>5, <2>6 DEF Continues
<1>4. CASE IngestFails(r) /\ p.op = "auto"
  <2>1. /\ req' = [req EXCEPT ![r] = [req[r] EXCEPT !.at = "commit"]] /\ p.at = "ingest"
        /\ UNCHANGED <<row, files, docs, watched, raced, troubled, starts>> /\ Fault
    BY <1>1, <1>4 DEF IngestFails, Goto, Reqs, storeVars
  <2>2. "commit" \in Places(req[r].op)
    BY <1>4 DEF Places
  <2>3. ASSUME Quiet(r), p.f \notin troubled
        PROVE  /\ ShelfIn(files, p.f) = ShelfOf(p.new) /\ (p.new.kb => p.f \in docs)
               /\ (p.old.kb => p.f \in docs)
    BY <1>4, <2>1, <2>3 DEF Quiet, InStep
  <2>4. QED
    BY <1>1, <1>4, <2>1, <2>2, <2>3, GoesOn
<1>5. CASE PurgeFails(r) \/ (IngestFails(r) /\ p.op # "auto")
  <2>1. /\ req' = [req EXCEPT ![r] = NoReq]
        /\ UNCHANGED <<row, files, watched, raced, starts>> /\ Fault
        /\ docs' \in {docs, docs \ {p.f}} /\ (docs' # docs => p.f \in troubled')
        /\ \/ p.at = "ingest" /\ troubled' = IF p.new.lib THEN troubled \cup {p.f} ELSE troubled
           \/ p.at = "purge" /\ troubled' \in {troubled, troubled \cup {p.f}}
    BY <1>5 DEF IngestFails, PurgeFails, End, storeVars
  <2>2. troubled' = troubled \/ troubled' = troubled \cup {p.f}
    BY <2>1
  <2>3. Moves(r, NoReq, row[p.f], watched[p.f])
    BY <1>1, <2>1, <2>2, RowKept
  <2>4. ASSUME Quiet(r) PROVE Sound(r, NoReq, row[p.f])
    <3>1. ASSUME p.f \notin troubled' PROVE docs' = docs /\ Settled(p.f, row[p.f], files, docs)
      <4>1. /\ InStep(p, files, docs) /\ p.old = row[p.f] /\ (p.at = "ingest" => ~p.new.lib)
            /\ docs' = docs
        BY <2>1, <2>4, <3>1 DEF Quiet, Solo
      <4>2. ShelfIn(files, p.f) = ShelfOf(p.new) /\ (p.old.kb => p.f \in docs)
            /\ (p.old.lib => p.new.lib)
        BY <1>1, <1>2, <4>1 DEF InStep
      <4>3. CASE p.at = "ingest"
        BY <4>1, <4>2, <4>3 DEF Settled, ShelfOf
      <4>4. CASE p.at = "purge"
        <5>1. ShelfOf(p.new) = ShelfOf(p.old)
          BY <4>1, <4>4 DEF InStep, ShelfOf
        <5>2. QED
          BY <4>1, <4>2, <5>1 DEF Settled
      <4>5. QED
        BY <1>1, <4>3, <4>4
    <3>2. QED
      BY <2>1, <2>4, <3>1 DEF Sound, Quiet
  <2>5. QED
    BY <2>3, <2>4 DEF Continues
<1>6. CASE PurgeFind(r)
  <2>1. /\ req' = [req EXCEPT ![r] = [req[r] EXCEPT !.at = "commit"]] /\ p.at = "purge"
        /\ UNCHANGED <<row, files, watched, raced, troubled, starts, faults>>
        /\ docs' = docs \ {p.f}
    BY <1>1, <1>6 DEF PurgeFind, Goto, Reqs
  <2>2. "commit" \in Places(req[r].op)
    BY <1>2, <2>1 DEF Places
  <2>3. ASSUME Quiet(r), p.f \notin troubled
        PROVE  ShelfIn(files, p.f) = ShelfOf(p.new)
    BY <2>1, <2>3 DEF Quiet, InStep
  <2>4. QED
    BY <1>1, <1>2, <2>1, <2>2, <2>3, GoesOn
<1>7. QED
  BY <1>3, <1>4, <1>5, <1>6

\* Making a source of a proposal.
LEMMA SourceContinues ==
  ASSUME Base, NEW r \in Requests, AddPromoted(r)
  PROVE  /\ Continues(r)
         /\ \E q, W : /\ Moves(r, q, row[req[r].f], W) /\ q \in Reqs
                      /\ W = watched[req[r].f] \cup {req[r].at}
                      /\ q.at = IF req[r].at = "primary" /\ req[r].ingest THEN "artifact"
                                ELSE "commit"
<1> DEFINE p == req[r]
           a == IF p.at = "primary" /\ p.ingest THEN "artifact" ELSE "commit"
           q == [p EXCEPT !.at = a]
           W == watched[p.f] \cup {p.at}
<1>1. /\ p.at \in {"primary", "artifact"} /\ Shape(p) /\ p \in Reqs /\ p.f \in Finds
      /\ req \in [Requests -> Reqs] /\ row \in [Finds -> Rows]
      /\ watched \in [Finds -> SUBSET {"primary", "artifact"}] /\ docs \subseteq Finds
      /\ files \subseteq Finds \X Paths /\ faults \in 0..MaxFaults
  BY UnderWay DEF AddPromoted
<1>2. p.op = "source"
  BY <1>1 DEF Shape, Places
<1>3. /\ req' = [req EXCEPT ![r] = q] /\ watched' = [watched EXCEPT ![p.f] = W]
      /\ UNCHANGED <<row, files, docs, raced, troubled, starts, faults>>
  BY <1>1 DEF AddPromoted, Goto, Reqs, storeVars
<1>4. a \in {"artifact", "commit"}
  OBVIOUS
<1> HIDE DEF a
<1>5. /\ q \in Reqs /\ q.f = p.f /\ q.op = p.op /\ q.at = a /\ q.old = p.old
      /\ q.new = p.new /\ q.path = p.path /\ q.ingest = p.ingest
  BY <1>1, <1>4 DEF Reqs
<1>6. W \subseteq {"primary", "artifact"}
  BY <1>1
<1> HIDE DEF p, q, W
<1>7. Shape(q)
  BY <1>1, <1>2, <1>4, <1>5 DEF Shape, Places
<1>8. Moves(r, q, row[p.f], W)
  <2>1. row' = [row EXCEPT ![p.f] = row[p.f]] /\ row[p.f] \in Rows
    BY <1>1, <1>3
  <2>2. QED
    BY <1>1, <1>2, <1>3, <1>5, <1>6, <1>7, <2>1 DEF Moves, p
<1>9. ASSUME Quiet(r) PROVE Sound(r, q, row[p.f])
  <2>1. Solo(q, row[p.f], files')
    BY <1>2, <1>5, <1>9 DEF Quiet, Solo, p
  <2>2. ASSUME p.f \notin troubled PROVE InStep(q, files', docs')
    <3>1. InStep(p, files, docs)
      BY <1>9, <2>2 DEF Quiet, p
    <3>2. QED
      BY <1>1, <1>2, <1>3, <1>4, <1>5, <3>1 DEF InStep
  <2>3. q # NoReq
    BY <1>4, <1>5, NoReqIs
  <2>4. QED
    BY <1>3, <1>9, <2>1, <2>2, <2>3 DEF Sound, Quiet, p
<1>10. QED
  BY <1>5, <1>8, <1>9 DEF Continues, a, W, p

\* Committing.
LEMMA CommitContinues ==
  ASSUME Base, NEW r \in Requests, Commit(r)
  PROVE  /\ Continues(r)
         /\ \E w : /\ Moves(r, NoReq, w, watched[req[r].f])
                   /\ req[r].op = "source" => w.status = "approved"
<1> DEFINE p == req[r]
           f == p.f
           w == Written(row[f], p)
<1>1. /\ p.at = "commit" /\ Shape(p) /\ p \in Reqs /\ p.f \in Finds
      /\ req \in [Requests -> Reqs] /\ row \in [Finds -> Rows] /\ row[f] \in Rows
      /\ watched \in [Finds -> SUBSET {"primary", "artifact"}] /\ docs \subseteq Finds
      /\ files \subseteq Finds \X Paths /\ faults \in 0..MaxFaults
  BY UnderWay DEF Commit
<1>2. /\ req' = [req EXCEPT ![r] = NoReq] /\ row' = [row EXCEPT ![f] = w]
      /\ UNCHANGED <<files, docs, watched, raced, troubled, starts, faults>>
  BY <1>1 DEF Commit, End, storeVars
<1>3. /\ w \in Rows
      /\ w.status = IF p.new.status # p.old.status THEN p.new.status ELSE row[f].status
      /\ p.old = row[f] => w = p.new
  BY <1>1, WrittenIs
<1>4. Born(f) /\ r \in Working(f)
  BY <1>1 DEF Base, Working
<1> HIDE DEF p, w
<1>5. w.status # "none"
  BY <1>1, <1>3, <1>4, NoRowIs DEF Shape, Born, p
<1>6. w.status = "pending" => row[f].status = "pending"
  BY <1>1, <1>3 DEF Shape
<1>7. Moves(r, NoReq, w, watched[f])
  <2>1. watched' = [watched EXCEPT ![f] = watched[f]] /\ watched[f] \subseteq {"primary", "artifact"}
    BY <1>1, <1>2
  <2>2. QED
    BY <1>1, <1>2, <1>3, <1>5, <1>6, <2>1 DEF Moves, p
<1>8. ASSUME Quiet(r) PROVE Sound(r, NoReq, w)
  <2>1. w = p.new /\ Tidy(w)
    BY <1>3, <1>8 DEF Quiet, Solo, p
  <2>2. ASSUME f \notin troubled PROVE Settled(f, w, files, docs)
    BY <1>1, <1>8, <2>1, <2>2 DEF Quiet, InStep, Settled, p
  <2>3. QED
    BY <1>2, <2>1, <2>2 DEF Sound, p
<1>9. p.op = "source" => w.status = "approved"
  BY <1>1, <1>3 DEF Shape
<1>10. QED
  BY <1>7, <1>8, <1>9 DEF Continues, p

\* Every step of a request is a move that leaves its find sound.
LEMMA StepContinues ==
  ASSUME Base, NEW r \in Requests,
         Step(r) \/ LibraryFails(r) \/ IngestFails(r) \/ PurgeFails(r) \/ RollBack(r)
  PROVE  req[r].at # "none" /\ Continues(r)
<1>1. req[r].at # "none"
  BY DEF Step, FindFile, PutFile, DeleteFile, LibraryConflict, IngestFind, PurgeFind,
    AddPromoted, AddCollides, Commit, LibraryFails, IngestFails, PurgeFails, RollBack
<1>2. CASE AddCollides(r)
  <2>1. /\ req' = [req EXCEPT ![r] = NoReq] /\ req[r].at \in {"primary", "artifact"}
        /\ UNCHANGED <<row, files, docs, watched, raced, troubled, starts, faults>>
    BY <1>2 DEF AddCollides, End, storeVars
  <2>2. Moves(r, NoReq, row[req[r].f], watched[req[r].f])
    BY <1>1, <2>1, RowKept
  <2>3. ASSUME Quiet(r) PROVE Sound(r, NoReq, row[req[r].f])
    <3>1. ASSUME req[r].f \notin troubled PROVE Settled(req[r].f, row[req[r].f], files, docs)
      <4>1. InStep(req[r], files, docs) /\ req[r].old = row[req[r].f] /\ req[r].op = "source"
        BY <1>1, <2>1, <2>3, <3>1, UnderWay DEF Quiet, Solo, Shape, Places
      <4>2. ShelfIn(files, req[r].f) = ShelfOf(row[req[r].f])
        BY <2>1, <4>1 DEF InStep, ShelfOf
      <4>3. row[req[r].f].kb => req[r].f \in docs
        BY <4>1 DEF InStep
      <4>4. QED
        BY <4>2, <4>3 DEF Settled
    <3>2. QED
      BY <2>1, <2>3, <3>1 DEF Sound, Quiet
  <2>4. QED
    BY <1>1, <2>2, <2>3 DEF Continues
<1>3. CASE RollBack(r)
  <2>1. /\ req' = [req EXCEPT ![r] = NoReq] /\ troubled' = troubled \cup {req[r].f}
        /\ UNCHANGED <<row, files, docs, watched, raced, starts>> /\ Fault
    BY <1>3 DEF RollBack, End, storeVars
  <2>2. Moves(r, NoReq, row[req[r].f], watched[req[r].f])
    BY <1>1, <2>1, RowKept
  <2>3. Quiet(r) => Sound(r, NoReq, row[req[r].f])
    BY <2>1 DEF Quiet, Sound
  <2>4. QED
    BY <1>1, <2>2, <2>3 DEF Continues
<1>4. QED
  BY <1>1, <1>2, <1>3, FindFileContinues, PutFileContinues, DeleteFileContinues,
    LibraryFailsContinues, ChromaContinues, SourceContinues, CommitContinues DEF Step

-----------------------------------------------------------------------------
(* Steps and the invariant *)

\* Who works on which find after a move.
LEMMA MovesWorking ==
  ASSUME Base, NEW r \in Requests, req[r].at # "none",
         NEW f \in Finds, f = req[r].f, NEW q, NEW w, NEW W, Moves(r, q, w, W)
  PROVE  /\ \A s \in Requests \ {r} : req'[s] = req[s]
         /\ req'[r] = q /\ r \in Working(f)
         /\ \A g \in Finds \ {f} : Working(g)' = Working(g) /\ r \notin Working(g)
         /\ q = NoReq => Working(f)' = Working(f) \ {r}
         /\ q # NoReq => Working(f)' = Working(f)
<1>1. /\ req \in [Requests -> Reqs] /\ req' = [req EXCEPT ![r] = q] /\ req[r].f = f
      /\ q = NoReq \/ q.f = f
  BY UnderWay DEF Moves
<1>2. (\A s \in Requests \ {r} : req'[s] = req[s]) /\ req'[r] = q
  BY <1>1
<1>3. NoReq.f = None /\ None \notin Finds
  BY NoReqIs
<1>4. ASSUME NEW g \in Finds \ {f} PROVE Working(g)' = Working(g) /\ r \notin Working(g)
  BY <1>1, <1>2, <1>3 DEF Working
<1>5. ASSUME q = NoReq PROVE Working(f)' = Working(f) \ {r}
  BY <1>1, <1>2, <1>3, <1>5 DEF Working
<1>6. ASSUME q # NoReq PROVE Working(f)' = Working(f)
  BY <1>1, <1>2, <1>6 DEF Working
<1>7. QED
  BY <1>2, <1>4, <1>5, <1>6 DEF Working

\* A move keeps types, shapes and births.
LEMMA MovesBase ==
  ASSUME Base, NEW r \in Requests, req[r].at # "none",
         NEW f \in Finds, f = req[r].f, NEW q, NEW w, NEW W, Moves(r, q, w, W)
  PROVE  Base'
<1>0. /\ \A s \in Requests \ {r} : req'[s] = req[s]
      /\ req'[r] = q /\ r \in Working(f)
      /\ \A x \in Finds \ {f} : Working(x)' = Working(x) /\ r \notin Working(x)
      /\ q = NoReq => Working(f)' = Working(f) \ {r}
      /\ q # NoReq => Working(f)' = Working(f)
  BY MovesWorking
<1>1. /\ f \in Finds /\ TypeOK /\ Shape(req[r]) /\ Born(f) /\ r \in Working(f)
  BY UnderWay, <1>0 DEF Base
<1>2. TypeOK'
  <2>1. q \in Reqs
    BY NoReqIs DEF Moves
  <2>2. row' \in [Finds -> Rows]
    BY <1>1 DEF TypeOK, Moves
  <2>3. req' \in [Requests -> Reqs]
    BY <1>1, <2>1 DEF TypeOK, Moves
  <2>4. watched' \in [Finds -> SUBSET {"primary", "artifact"}]
    BY <1>1 DEF TypeOK, Moves
  <2>5. raced' \subseteq Finds /\ troubled' \subseteq Finds
    BY <1>1 DEF TypeOK, Moves
  <2>6. /\ files' \subseteq Finds \X Paths /\ docs' \subseteq Finds
        /\ starts' \in 0..MaxStarts /\ faults' \in 0..MaxFaults
    BY <1>1 DEF TypeOK, Moves
  <2>7. QED
    BY <2>2, <2>3, <2>4, <2>5, <2>6 DEF TypeOK
<1>3. ASSUME NEW s \in Requests PROVE req'[s] = NoReq \/ Shape(req'[s])
  <2>1. CASE s = r
    BY <2>1, <1>0 DEF Moves
  <2>2. CASE s # r
    BY <2>2, <1>0 DEF Base
  <2>3. QED
    BY <2>1, <2>2
<1>4. ASSUME NEW g \in Finds PROVE Born(g)'
  <2>1. CASE g # f
    <3>1. /\ row'[g] = row[g] /\ watched'[g] = watched[g] /\ Working(g)' = Working(g)
          /\ \A s \in Working(g) : req'[s] = req[s]
      BY <1>1, <2>1, <1>0 DEF Moves, TypeOK, Working
    <3>2. QED
      BY <3>1 DEF Base, Born
  <2>2. CASE g = f
    <3>1. row'[f] = w /\ watched'[f] = W
      BY <1>1 DEF Moves, TypeOK
    <3>2. w.status = "none" => w = NoRow /\ W = {}
      BY <1>1 DEF Born, Moves
    <3>3. ASSUME NEW s \in Working(f)'
          PROVE  IF req'[s].op = "auto" THEN w = NoRow /\ Working(f)' = {s} ELSE w.status # "none"
      <4>1. s \in Working(f)
        BY <1>1, <3>3, <1>0
      <4>2. CASE s = r
        <5>1. q # NoReq /\ req'[s] = q /\ Working(f)' = Working(f)
          BY <1>0, <3>3, <4>2
        <5>2. q.op = req[r].op
          BY <5>1 DEF Moves
        <5>3. CASE q.op = "auto"
          BY <1>1, <4>2, <5>1, <5>2, <5>3 DEF Born, Moves
        <5>4. CASE q.op # "auto"
          BY <1>1, <4>2, <5>1, <5>2, <5>4 DEF Born, Moves
        <5>5. QED
          BY <4>2, <5>1, <5>3, <5>4
      <4>3. CASE s # r
        <5>1. req'[s] = req[s] /\ req[s].op # "auto"
          BY <1>1, <4>1, <4>3, <1>0 DEF Born, Working
        <5>2. row[f].status # "none"
          BY <1>1, <4>1, <5>1 DEF Born
        <5>3. QED
          BY <5>1, <5>2 DEF Moves
      <4>4. QED
        BY <4>2, <4>3
    <3>4. QED
      BY <2>2, <3>1, <3>2, <3>3 DEF Born
  <2>3. QED
    BY <2>1, <2>2
<1>5. QED
  BY <1>2, <1>3, <1>4 DEF Base

\* And, where it leaves its find sound, rows in step with the stores.
LEMMA MovesLocal ==
  ASSUME Base, AllLocal, NEW r \in Requests, req[r].at # "none",
         NEW f \in Finds, f = req[r].f, NEW q, NEW w, NEW W,
         Moves(r, q, w, W), Quiet(r) => Sound(r, q, w)
  PROVE  AllLocal'
<1> SUFFICES ASSUME NEW g \in Finds, g \notin raced'
    PROVE  /\ Tidy(row'[g]) /\ \A s, t \in Working(g)' : s = t
           /\ \A s \in Working(g)' : Solo(req'[s], row'[g], files')
           /\ g \notin troubled' =>
                /\ Working(g)' = {} => Settled(g, row'[g], files', docs')
                /\ \A s \in Working(g)' : InStep(req'[s], files', docs')
  BY DEF AllLocal, Local
<1>0. /\ \A s \in Requests \ {r} : req'[s] = req[s]
      /\ req'[r] = q /\ r \in Working(f)
      /\ \A x \in Finds \ {f} : Working(x)' = Working(x) /\ r \notin Working(x)
      /\ q = NoReq => Working(f)' = Working(f) \ {r}
      /\ q # NoReq => Working(f)' = Working(f)
  BY MovesWorking
<1>1. /\ f \in Finds /\ row \in [Finds -> Rows] /\ r \in Working(f) /\ Local(g)
      /\ raced' = raced /\ troubled \subseteq troubled'
  BY UnderWay, <1>0 DEF AllLocal, Moves
<1>2. CASE g # f
  <2>1. /\ row'[g] = row[g] /\ Working(g)' = Working(g)
        /\ \A s \in Working(g) : req'[s] = req[s] /\ req[s].f = g
        /\ g \in docs' <=> g \in docs
    BY <1>1, <1>2, <1>0 DEF Moves, Working
  <2>2. \A x \in Paths : <<g, x>> \in files' <=> <<g, x>> \in files
    BY <1>2 DEF Moves
  <2>3. ShelfIn(files', g) = ShelfIn(files, g)
    BY <2>2 DEF ShelfIn
  <2>4. ASSUME NEW s \in Working(g)' PROVE Solo(req'[s], row'[g], files')
    <3>1. Solo(req[s], row[g], files) /\ req'[s] = req[s] /\ req[s].f = g
      BY <1>1, <2>1, <2>4 DEF Local
    <3>2. <<g, req[s].path>> \notin files => <<g, req[s].path>> \notin files'
      <4>1. files' \subseteq Finds \X Paths
        BY DEF Moves
      <4>2. QED
        BY <2>2, <4>1
    <3>3. QED
      BY <2>1, <3>1, <3>2 DEF Solo
  <2>5. ASSUME g \notin troubled'
        PROVE  /\ Working(g)' = {} => Settled(g, row'[g], files', docs')
               /\ \A s \in Working(g)' : InStep(req'[s], files', docs')
    <3>1. /\ Working(g) = {} => Settled(g, row[g], files, docs)
          /\ \A s \in Working(g) : InStep(req[s], files, docs)
      BY <1>1, <2>5 DEF Local
    <3>2. Working(g)' = {} => Settled(g, row'[g], files', docs')
      BY <2>1, <2>3, <3>1 DEF Settled
    <3>3. ASSUME NEW s \in Working(g)' PROVE InStep(req'[s], files', docs')
      <4>1. req'[s] = req[s] /\ req[s].f = g /\ InStep(req[s], files, docs)
        BY <2>1, <3>1, <3>3
      <4>2. InStep(req[s], files', docs')
        BY <2>1, <2>3, <4>1 DEF InStep
      <4>3. QED
        BY <4>1, <4>2
    <3>4. QED
      BY <3>2, <3>3
  <2>6. QED
    BY <1>1, <2>1, <2>4, <2>5 DEF Local
<1>3. CASE g = f
  <2>1. Working(f) = {r} /\ Quiet(r) /\ row'[f] = w
    BY <1>1, <1>3 DEF Local, Quiet, Moves
  <2>2. Sound(r, q, w)
    BY <2>1
  <2>3. CASE q = NoReq
    <3>1. Working(f)' = {}
      BY <2>1, <2>3, <1>0
    <3>2. QED
      BY <1>3, <2>1, <2>2, <2>3, <3>1 DEF Sound
  <2>4. CASE q # NoReq
    <3>1. Working(f)' = {r} /\ req'[r] = q
      BY <2>1, <2>4, <1>0
    <3>2. QED
      BY <1>3, <2>1, <2>2, <2>4, <3>1 DEF Sound
  <2>5. QED
    BY <2>3, <2>4
<1>4. QED
  BY <1>2, <1>3

\* A move of a request that makes no source keeps the proposals right.
LEMMA MovesPromoting ==
  ASSUME Base, AllPromoting, NEW r \in Requests, req[r].at # "none",
         NEW f \in Finds, f = req[r].f, NEW q, NEW w, NEW W, Moves(r, q, w, W),
         NEW g \in Finds, g # f \/ req[r].op # "source"
  PROVE  Promoting(g)'
<1>1. /\ \A s \in Requests \ {r} : req'[s] = req[s]
      /\ req'[r] = q /\ r \in Working(f)
      /\ \A x \in Finds \ {f} : Working(x)' = Working(x) /\ r \notin Working(x)
      /\ q = NoReq => Working(f)' = Working(f) \ {r}
      /\ q # NoReq => Working(f)' = Working(f)
  BY MovesWorking
<1>2. /\ row \in [Finds -> Rows] /\ watched \in [Finds -> SUBSET {"primary", "artifact"}]
      /\ Promoting(g)
  BY UnderWay DEF AllPromoting
<1>3. /\ watched'[g] = watched[g] /\ troubled \subseteq troubled'
      /\ row'[g].status = "pending" => row[g].status = "pending"
  <2>1. CASE g = f
    BY <1>2, <2>1 DEF Moves
  <2>2. CASE g # f
    BY <1>2, <2>2 DEF Moves
  <2>3. QED
    BY <2>1, <2>2
<1>4. /\ Deciding(g)' = Deciding(g) /\ \A s \in Deciding(g) : req'[s] = req[s]
  <2>1. CASE g # f
    BY <1>1, <2>1 DEF Deciding, Working
  <2>2. CASE g = f
    <3>1. req[r].op # "source" /\ (q # NoReq => q.op # "source")
      BY <2>2 DEF Moves
    <3>2. QED
      BY <1>1, <2>2, <3>1 DEF Deciding, Working
  <2>3. QED
    BY <2>1, <2>2
<1>5. QED
  BY <1>2, <1>3, <1>4 DEF Promoting

\* The steps of a promotion keep them right too.
LEMMA SourcePromoting ==
  ASSUME Base, AllPromoting, NEW r \in Requests, NEW f \in Finds, f = req[r].f,
         req[r].op = "source", AddPromoted(r) \/ AddCollides(r) \/ Commit(r)
  PROVE  AllPromoting'
<1>1. /\ Shape(req[r]) /\ row \in [Finds -> Rows] /\ req[r].at # "none"
      /\ watched \in [Finds -> SUBSET {"primary", "artifact"}] /\ Promoting(f)
  BY UnderWay DEF AllPromoting, AddPromoted, AddCollides, Commit
<1>2. ASSUME NEW q, NEW w, NEW W, Moves(r, q, w, W),
             Promoting(f)'
      PROVE  AllPromoting'
  BY <1>1, <1>2, MovesPromoting DEF AllPromoting
<1>3. ASSUME NEW q, NEW w, NEW W, Moves(r, q, w, W)
      PROVE  /\ \A s \in Requests \ {r} : req'[s] = req[s]
             /\ req'[r] = q /\ r \in Working(f)
             /\ q = NoReq => Working(f)' = Working(f) \ {r}
             /\ q # NoReq => Working(f)' = Working(f) /\ q.op = "source"
             /\ watched'[f] = W /\ row'[f] = w /\ troubled \subseteq troubled'
  <2>1. /\ \A s \in Requests \ {r} : req'[s] = req[s]
        /\ req'[r] = q /\ r \in Working(f)
        /\ q = NoReq => Working(f)' = Working(f) \ {r}
        /\ q # NoReq => Working(f)' = Working(f)
    BY <1>1, <1>3, MovesWorking
  <2>2. /\ watched'[f] = W /\ row'[f] = w /\ troubled \subseteq troubled'
        /\ q # NoReq => q.op = "source"
    BY <1>1, <1>3 DEF Moves
  <2>3. QED
    BY <2>1, <2>2
<1>4. CASE AddPromoted(r)
  <2>1. PICK q, W : /\ Moves(r, q, row[f], W) /\ q \in Reqs
                    /\ W = watched[f] \cup {req[r].at}
                    /\ q.at = IF req[r].at = "primary" /\ req[r].ingest THEN "artifact"
                              ELSE "commit"
    BY <1>4, SourceContinues
  <2>2. q # NoReq /\ q.at \in {"artifact", "commit"}
    BY <2>1, NoReqIs
  <2>3. /\ \A s \in Requests \ {r} : req'[s] = req[s]
        /\ req'[r] = q /\ r \in Working(f) /\ Working(f)' = Working(f) /\ q.op = "source"
        /\ watched'[f] = W
    BY <1>3, <2>1, <2>2
  <2>4. CASE req[r].at = "primary"
    <3>1. "primary" \notin watched[f] /\ "artifact" \notin watched[f] /\ Deciding(f) = {}
      BY <1>1, <1>4, <2>4 DEF AddPromoted, Promoting
    <3>2. Deciding(f)' = {r}
      BY <2>2, <2>3, <3>1 DEF Deciding, Working
    <3>3. W = watched[f] \cup {"primary"} /\ "artifact" \notin W
      BY <2>1, <2>4, <3>1
    <3>4. Promoting(f)'
      BY <2>3, <3>2, <3>3 DEF Promoting
    <3>5. QED
      BY <1>2, <2>1, <3>4
  <2>5. CASE req[r].at = "artifact"
    <3>1. r \in Deciding(f) /\ Deciding(f) = {r} /\ "primary" \in watched[f]
      BY <1>1, <2>3, <2>5 DEF Deciding, Promoting
    <3>2. Deciding(f)' = {r} /\ q.at = "commit"
      BY <2>1, <2>2, <2>3, <2>5, <3>1 DEF Deciding, Working
    <3>3. W = watched[f] \cup {"artifact"}
      BY <2>1, <2>5
    <3>4. Promoting(f)'
      BY <2>3, <3>1, <3>2, <3>3 DEF Promoting
    <3>5. QED
      BY <1>2, <2>1, <3>4
  <2>6. QED
    BY <1>4, <2>4, <2>5 DEF AddPromoted
<1>5. CASE AddCollides(r)
  <2>1. /\ req' = [req EXCEPT ![r] = NoReq] /\ req[r].at \in {"primary", "artifact"}
        /\ req[r].at \in watched[f]
        /\ UNCHANGED <<row, files, docs, watched, raced, troubled, starts, faults>>
    BY <1>5 DEF AddCollides, End, storeVars
  <2>2. Moves(r, NoReq, row[f], watched[f])
    BY <1>1, <2>1, RowKept
  <2>3. r \notin Deciding(f)
    BY <1>1, <2>1 DEF Deciding, Promoting
  <2>4. /\ Working(f)' = Working(f) \ {r} /\ \A s \in Requests \ {r} : req'[s] = req[s]
    BY <1>3, <2>2
  <2>5. Deciding(f)' = Deciding(f) /\ \A s \in Deciding(f) : req'[s] = req[s]
    BY <2>3, <2>4 DEF Deciding, Working
  <2>6. Promoting(f)'
    BY <1>1, <2>1, <2>5 DEF Promoting
  <2>7. QED
    BY <1>2, <2>2, <2>6
<1>6. CASE Commit(r)
  <2>1. PICK w : Moves(r, NoReq, w, watched[f]) /\ w.status = "approved"
    BY <1>6, CommitContinues
  <2>2. /\ Working(f)' = Working(f) \ {r} /\ \A s \in Requests \ {r} : req'[s] = req[s]
        /\ watched'[f] = watched[f] /\ row'[f] = w
    BY <1>3, <2>1
  <2>3. Deciding(f)' \subseteq Deciding(f) /\ \A s \in Deciding(f)' : req'[s] = req[s]
    BY <2>2 DEF Deciding, Working
  <2>4. Promoting(f)'
    BY <1>1, <2>1, <2>2, <2>3 DEF Promoting
  <2>5. QED
    BY <1>2, <2>1, <2>4
<1>7. QED
  BY <1>4, <1>5, <1>6

Inv == Base /\ AllPromoting /\ AllLocal

\* So every step of a request keeps the invariant.
LEMMA RequestStep ==
  ASSUME Inv, NEW r \in Requests,
         Step(r) \/ LibraryFails(r) \/ IngestFails(r) \/ PurgeFails(r) \/ RollBack(r)
  PROVE  Inv'
<1>1. req[r].at # "none" /\ Continues(r) /\ Shape(req[r])
  BY StepContinues, UnderWay DEF Inv
<1>2. PICK q, w, W : Moves(r, q, w, W) /\ (Quiet(r) => Sound(r, q, w))
  BY <1>1 DEF Continues
<1>3. PICK f \in Finds : f = req[r].f
  BY <1>1 DEF Shape
<1>4. Base'
  BY <1>1, <1>2, <1>3, MovesBase DEF Inv
<1>5. AllLocal'
  BY <1>1, <1>2, <1>3, MovesLocal DEF Inv
<1>6. AllPromoting'
  <2>1. CASE req[r].op # "source"
    <3>1. ASSUME NEW g \in Finds PROVE Promoting(g)'
      BY <1>1, <1>2, <1>3, <2>1, MovesPromoting DEF Inv
    <3>2. QED
      BY <3>1 DEF AllPromoting
  <2>2. CASE req[r].op = "source"
    <3>1. AddPromoted(r) \/ AddCollides(r) \/ Commit(r)
      <4>1. req[r].at \in {"primary", "artifact", "commit"}
        BY <1>1, <2>2 DEF Shape, Places
      <4>2. QED
        BY <2>2, <4>1 DEF Step, FindFile, PutFile, DeleteFile, LibraryConflict, IngestFind,
          PurgeFind, LibraryFails, IngestFails, PurgeFails, RollBack
    <3>2. QED
      BY <1>3, <2>2, <3>1, SourcePromoting DEF Inv
  <2>3. QED
    BY <2>1, <2>2
<1>7. QED
  BY <1>4, <1>5, <1>6 DEF Inv

-----------------------------------------------------------------------------
(* Requests that begin, rows that appear, crashes and rebuilds *)

\* A request that begins is one more at work on its find.
LEMMA BegunWorking ==
  ASSUME Base, NEW r \in Requests, NEW f \in Finds, NEW q, Opening(q, f), Begun(r, f, q)
  PROVE  /\ \A s \in Requests \ {r} : req'[s] = req[s]
         /\ req'[r] = q /\ q # NoReq
         /\ \A g \in Finds : r \notin Working(g)
         /\ \A g \in Finds \ {f} : Working(g)' = Working(g)
         /\ Working(f)' = Working(f) \cup {r}
<1>1. /\ req \in [Requests -> Reqs] /\ req' = [req EXCEPT ![r] = q] /\ req[r] = NoReq /\ q.f = f
      /\ NoReq.f = None /\ None \notin Finds
  BY NoReqIs DEF Base, TypeOK, Begun, Opening
<1>2. (\A s \in Requests \ {r} : req'[s] = req[s]) /\ req'[r] = q /\ q # NoReq
  BY <1>1
<1>3. QED
  BY <1>1, <1>2 DEF Working

\* A request that begins keeps types, shapes and births: a pass finds no row
\* and nobody at work, and the others find a row.
LEMMA BegunBase ==
  ASSUME Base, NEW r \in Requests, NEW f \in Finds, NEW q, Opening(q, f), Begun(r, f, q)
  PROVE  Base'
<1>1. /\ \A s \in Requests \ {r} : req'[s] = req[s]
      /\ req'[r] = q /\ q # NoReq
      /\ \A g \in Finds : r \notin Working(g)
      /\ \A g \in Finds \ {f} : Working(g)' = Working(g)
      /\ Working(f)' = Working(f) \cup {r}
  BY BegunWorking
<1>2. TypeOK'
  <2>1. TypeOK /\ q \in Reqs
    BY DEF Base, Opening
  <2>2. req' \in [Requests -> Reqs]
    BY <2>1 DEF Begun, TypeOK
  <2>3. starts' \in 0..MaxStarts
    BY <2>1 DEF Begun, TypeOK
  <2>4. raced' \subseteq Finds
    BY <2>1 DEF Begun, TypeOK
  <2>5. QED
    BY <2>1, <2>2, <2>3, <2>4 DEF Begun, TypeOK
<1>3. ASSUME NEW s \in Requests PROVE req'[s] = NoReq \/ Shape(req'[s])
  <2>1. CASE s = r
    BY <1>1, <2>1 DEF Opening
  <2>2. CASE s # r
    BY <1>1, <2>2 DEF Base
  <2>3. QED
    BY <2>1, <2>2
<1>4. ASSUME NEW g \in Finds PROVE Born(g)'
  <2>1. /\ row' = row /\ watched' = watched /\ Born(g)
        /\ \A s \in Working(g) : s \in Requests \ {r} /\ req'[s] = req[s]
    BY <1>1 DEF Begun, Base, Working
  <2>2. CASE g # f
    BY <1>1, <2>1, <2>2 DEF Born
  <2>3. CASE g = f
    <3>1. CASE q.op = "auto"
      <4>1. row[f].status = "none" /\ Working(f) = {}
        BY <3>1 DEF Opening, Exists
      <4>2. row[f] = NoRow /\ Working(f)' = {r}
        BY <1>1, <2>1, <2>3, <4>1 DEF Born
      <4>3. QED
        BY <1>1, <2>1, <2>3, <3>1, <4>1, <4>2 DEF Born
    <3>2. CASE q.op # "auto"
      <4>1. row[f].status # "none"
        BY <3>2 DEF Opening, Exists
      <4>2. \A s \in Working(f) : req[s].op # "auto"
        BY <2>1, <2>3, <4>1, NoRowIs DEF Born
      <4>3. \A s \in Working(f)' : req'[s].op # "auto"
        BY <1>1, <2>1, <2>3, <3>2, <4>2
      <4>4. QED
        BY <2>1, <2>3, <4>1, <4>3 DEF Born
    <3>3. QED
      BY <3>1, <3>2
  <2>4. QED
    BY <2>2, <2>3
<1>5. QED
  BY <1>2, <1>3, <1>4 DEF Base

\* Promotions decide what they decided: one that begins has made no source yet.
LEMMA BegunPromoting ==
  ASSUME Base, AllPromoting, NEW r \in Requests, NEW f \in Finds, NEW q, Opening(q, f),
         Begun(r, f, q)
  PROVE  AllPromoting'
<1>1. /\ \A s \in Requests \ {r} : req'[s] = req[s]
      /\ req'[r] = q /\ q # NoReq
      /\ \A g \in Finds : r \notin Working(g)
      /\ \A g \in Finds \ {f} : Working(g)' = Working(g)
      /\ Working(f)' = Working(f) \cup {r}
  BY BegunWorking
<1>2. q.op = "source" => q.at = "primary"
  BY DEF Opening
<1>3. ASSUME NEW g \in Finds PROVE Promoting(g)'
  <2>1. /\ row' = row /\ watched' = watched /\ troubled' = troubled /\ Promoting(g)
        /\ \A s \in Working(g) : s \in Requests \ {r} /\ req'[s] = req[s]
    BY <1>1 DEF Begun, AllPromoting, Working
  <2>2. Deciding(g)' = Deciding(g) /\ \A s \in Deciding(g) : req'[s] = req[s]
    BY <1>1, <1>2, <2>1 DEF Deciding
  <2>3. QED
    BY <2>1, <2>2 DEF Promoting
<1>4. QED
  BY <1>3 DEF AllPromoting

\* A request that begins alone on its find is in step with the stores.
LEMMA BegunLocal ==
  ASSUME Base, AllLocal, NEW r \in Requests, NEW f \in Finds, NEW q, Opening(q, f),
         Begun(r, f, q)
  PROVE  AllLocal'
<1>1. /\ \A s \in Requests \ {r} : req'[s] = req[s]
      /\ req'[r] = q /\ q # NoReq
      /\ \A g \in Finds : r \notin Working(g)
      /\ \A g \in Finds \ {f} : Working(g)' = Working(g)
      /\ Working(f)' = Working(f) \cup {r}
  BY BegunWorking
<1>2. ASSUME NEW g \in Finds PROVE Local(g)'
  <2>1. /\ row' = row /\ files' = files /\ docs' = docs /\ troubled' = troubled
        /\ raced \subseteq raced' /\ Local(g)
        /\ \A s \in Working(g) : s \in Requests \ {r} /\ req'[s] = req[s]
    BY <1>1 DEF Begun, AllLocal, Working
  <2>2. CASE g # f
    BY <1>1, <2>1, <2>2 DEF Local
  <2>3. CASE g = f /\ Working(f) # {}
    <3>1. f \in raced'
      BY <2>3 DEF Begun
    <3>2. QED
      BY <2>3, <3>1 DEF Local
  <2>4. CASE g = f /\ Working(f) = {} /\ f \in raced
    BY <2>1, <2>4 DEF Local
  <2>5. CASE g = f /\ Working(f) = {} /\ f \notin raced
    <3>1. Working(f)' = {r} /\ Tidy(row[f])
      BY <1>1, <2>1, <2>5 DEF Local
    <3>2. Solo(q, row[f], files)
      <4>1. ASSUME q.op = "unpublish", q.at = "commit" PROVE <<q.f, q.path>> \notin files
        <5>1. ~row[f].lib /\ q.path = row[f].path
          BY <4>1 DEF Opening
        <5>2. q.path = None
          BY <3>1, <5>1 DEF Tidy
        <5>3. files \subseteq Finds \X Paths
          BY DEF Base, TypeOK
        <5>4. QED
          BY <5>2, <5>3
      <4>2. QED
        BY <3>1, <4>1 DEF Solo, Opening
    <3>3. ASSUME f \notin troubled PROVE InStep(q, files, docs)
      <4>1. ShelfIn(files, f) = ShelfOf(row[f]) /\ (row[f].kb => f \in docs)
        BY <2>1, <2>5, <3>3 DEF Local, Settled
      <4>2. q.f = f /\ q.old = row[f]
        BY DEF Opening
      <4>3. q.op # "unpublish" => ShelfOf(q.new) = ShelfOf(q.old)
        BY <4>2 DEF Opening, ShelfOf
      <4>4. q.op = "unpublish" /\ q.at = "commit" => ShelfOf(q.new) = ShelfOf(q.old)
        BY <4>2 DEF Opening, ShelfOf
      <4>5. q.at \notin {"find file", "put", "delete"} => ShelfIn(files, f) = ShelfOf(q.new)
        <5>1. q.op = "unpublish" => q.at \in {"find file", "commit"}
          BY DEF Opening
        <5>2. QED
          BY <4>1, <4>2, <4>3, <4>4, <5>1
      <4>6. q.op # "unpublish" => (q.old.lib => q.new.lib)
        BY <4>2 DEF Opening
      <4>7. q.at \in {"purge", "primary", "artifact"} =>
              q.new.lib = q.old.lib /\ q.new.path = q.old.path
        BY <4>2 DEF Opening
      <4>8. q.at \in {"find file", "put"} /\ q.op # "unpublish" => ~q.old.lib /\ ~q.new.lib
        BY <4>2 DEF Opening
      <4>9. q.new.kb => f \in docs
        BY <4>1 DEF Opening
      <4>10. QED
        BY <4>1, <4>2, <4>5, <4>6, <4>7, <4>8, <4>9 DEF InStep, Opening
    <3>4. QED
      BY <1>1, <2>1, <2>5, <3>1, <3>2, <3>3 DEF Local
  <2>6. QED
    BY <2>2, <2>3, <2>4, <2>5
<1>3. QED
  BY <1>2 DEF AllLocal

\* So a request that begins keeps the invariant.
LEMMA StartStep ==
  ASSUME Inv, NEW r \in Requests, NEW f \in Finds, Start(r, f)
  PROVE  Inv'
<1>1. PICK q : Opening(q, f) /\ Begun(r, f, q)
  BY StartOpens DEF Inv
<1>2. Base'
  BY <1>1, BegunBase DEF Inv
<1>3. AllPromoting'
  BY <1>1, BegunPromoting DEF Inv
<1>4. AllLocal'
  BY <1>1, BegunLocal DEF Inv
<1>5. QED
  BY <1>2, <1>3, <1>4 DEF Inv

\* The row of a find nobody works on is written: it appears, or keeps its status
\* and what the stores are about.
LEMMA RowWritten ==
  ASSUME Inv, NEW f \in Finds, NEW n \in Rows, Working(f) = {},
         row' = [row EXCEPT ![f] = n], n.status # "none",
         Exists(f) => n.status = row[f].status,
         n.lib = row[f].lib, n.path = row[f].path, n.kb = row[f].kb, Tidy(row[f]) => Tidy(n),
         starts' \in 0..MaxStarts,
         UNCHANGED <<files, docs, watched, req, raced, troubled, faults>>
  PROVE  Inv'
<1>1. TypeOK /\ Base /\ \A g \in Finds : Born(g) /\ Promoting(g) /\ Local(g)
  BY DEF Inv, Base, AllPromoting, AllLocal
<1>2. row'[f] = n /\ \A g \in Finds \ {f} : row'[g] = row[g]
  BY <1>1 DEF TypeOK
<1>3. \A g \in Finds : Working(g)' = Working(g)
  BY DEF Working
<1>4. Base'
  <2>1. TypeOK'
    BY <1>1 DEF TypeOK
  <2>2. \A s \in Requests : req'[s] = NoReq \/ Shape(req'[s])
    BY <1>1 DEF Base
  <2>3. ASSUME NEW g \in Finds PROVE Born(g)'
    BY <1>1, <1>2, <1>3 DEF Born
  <2>4. QED
    BY <2>1, <2>2, <2>3 DEF Base
<1>5. ASSUME NEW g \in Finds PROVE Promoting(g)'
  <2>1. Deciding(g)' = Deciding(g)
    BY <1>3 DEF Deciding
  <2>2. CASE g # f
    BY <1>1, <1>2, <2>1, <2>2 DEF Promoting
  <2>3. CASE g = f
    <3>1. Deciding(f) = {}
      BY DEF Deciding
    <3>2. watched[f] # {} => row[f].status # "none" /\ n.status = row[f].status
      BY <1>1 DEF Born, Exists
    <3>3. QED
      BY <1>1, <1>2, <2>1, <2>3, <3>1, <3>2 DEF Promoting
  <2>4. QED
    BY <2>2, <2>3
<1>6. ASSUME NEW g \in Finds PROVE Local(g)'
  <2>1. CASE g # f
    BY <1>1, <1>2, <1>3, <2>1 DEF Local
  <2>2. CASE g = f
    <3>1. ShelfOf(n) = ShelfOf(row[f])
      BY DEF ShelfOf
    <3>2. Settled(f, row[f], files, docs) => Settled(f, n, files, docs)
      BY <3>1 DEF Settled
    <3>3. QED
      BY <1>1, <1>2, <1>3, <2>2, <3>2 DEF Local
  <2>3. QED
    BY <2>1, <2>2
<1>7. QED
  BY <1>4, <1>5, <1>6 DEF Inv, AllPromoting, AllLocal

\* A proposal appears in the queue.
LEMMA QueueProposalStep ==
  ASSUME Inv, NEW f \in Finds, QueueProposal(f)
  PROVE  Inv'
<1> DEFINE n == [NoRow EXCEPT !.status = "pending"]
<1>1. /\ n \in Rows /\ n.status = "pending" /\ ~n.lib /\ n.path = None /\ ~n.kb /\ Tidy(n)
      /\ n.lib = NoRow.lib /\ n.path = NoRow.path /\ n.kb = NoRow.kb
  BY DEF NoRow, Rows, Tidy
<1>2. TypeOK /\ Born(f) /\ f \in Candidates /\ row[f] = NoRow /\ ~Exists(f)
  BY DEF Inv, Base, QueueProposal, Born, Exists
<1>3. Working(f) = {}
  <2>1. ASSUME NEW s \in Working(f) PROVE FALSE
    <3>1. req[s].op = "auto" /\ req[s].f = f /\ s \in Requests
      BY <1>2, <2>1, NoRowIs DEF Born, Working
    <3>2. Shape(req[s])
      BY <3>1, NoReqIs DEF Inv, Base
    <3>3. QED
      BY <1>2, <3>1, <3>2 DEF Shape
  <2>2. QED
    BY <2>1
<1>4. /\ row' = [row EXCEPT ![f] = n] /\ starts' \in 0..MaxStarts
      /\ UNCHANGED <<files, docs, watched, req, raced, troubled, faults>>
  BY <1>2 DEF QueueProposal, TypeOK
<1> HIDE DEF n
<1>5. QED
  BY <1>1, <1>2, <1>3, <1>4, RowWritten

\* A pasted find appears, or is queued again.
LEMMA CreateManualFindStep ==
  ASSUME Inv, NEW f \in Finds, NEW queue \in BOOLEAN, CreateManualFind(f, queue)
  PROVE  Inv'
<1> DEFINE w == row[f]
           new == [NoRow EXCEPT !.status = "auto_indexed", !.queued = queue]
           again == SetNewsletterPending(w, TRUE)
<1>1. TypeOK /\ Born(f) /\ w \in Rows /\ Working(f) = {}
  BY DEF Inv, Base, TypeOK, CreateManualFind
<1>2. /\ starts' \in 0..MaxStarts /\ UNCHANGED <<files, docs, watched, req, raced, troubled, faults>>
      /\ row' = [row EXCEPT ![f] = IF ~Exists(f) THEN new
                                   ELSE IF queue /\ ~w.queued THEN again ELSE w]
  BY <1>1 DEF CreateManualFind, TypeOK
<1>3. CASE ~Exists(f)
  <2>1. /\ new \in Rows /\ new.status # "none" /\ Tidy(new)
        /\ new.lib = NoRow.lib /\ new.path = NoRow.path /\ new.kb = NoRow.kb
    BY DEF NoRow, Rows, Tidy
  <2>2. w = NoRow
    BY <1>1, <1>3 DEF Born, Exists
  <2>3. row' = [row EXCEPT ![f] = new]
    BY <1>2, <1>3
  <2> HIDE DEF new
  <2>4. QED
    BY <1>1, <1>2, <1>3, <2>1, <2>2, <2>3, RowWritten
<1>4. CASE Exists(f) /\ queue /\ ~w.queued
  <2>1. /\ again \in Rows /\ again.status = w.status /\ again.lib = w.lib
        /\ again.path = w.path /\ again.kb = w.kb /\ (Tidy(w) => Tidy(again))
    BY <1>1, ToggledIs
  <2>2. row' = [row EXCEPT ![f] = again] /\ w.status # "none"
    BY <1>2, <1>4 DEF Exists
  <2> HIDE DEF again
  <2>3. QED
    BY <1>1, <1>2, <1>4, <2>1, <2>2, RowWritten
<1>5. CASE Exists(f) /\ ~(queue /\ ~w.queued)
  <2>1. row' = [row EXCEPT ![f] = w] /\ w.status # "none"
    BY <1>2, <1>5 DEF Exists
  <2>2. QED
    BY <1>1, <1>2, <1>5, <2>1, RowWritten
<1>6. QED
  BY <1>3, <1>4, <1>5

\* A crash ends every request and excuses the finds they worked on.
LEMMA CrashStep ==
  ASSUME Inv, Crash
  PROVE  Inv'
<1>1. TypeOK /\ \A g \in Finds : Born(g) /\ Promoting(g) /\ Local(g)
  BY DEF Inv, Base, AllPromoting, AllLocal
<1>2. /\ req' = [r \in Requests |-> NoReq] /\ NoReq \in Reqs
      /\ \A g \in Finds : Working(g)' = {} /\ Deciding(g)' = {}
  BY NoReqIs DEF Crash, Working, Deciding
<1>3. /\ \A g \in Finds : Working(g) # {} => g \in troubled'
      /\ troubled \subseteq troubled' /\ troubled' \subseteq Finds
      /\ faults' \in 0..MaxFaults
      /\ UNCHANGED <<row, files, docs, watched, raced, starts>>
  BY <1>1 DEF Crash, Fault, storeVars, TypeOK
<1>4. Base'
  <2>1. TypeOK'
    BY <1>1, <1>2, <1>3 DEF TypeOK
  <2>2. \A g \in Finds : Born(g)'
    BY <1>1, <1>2, <1>3 DEF Born
  <2>3. QED
    BY <1>2, <2>1, <2>2 DEF Base
<1>5. ASSUME NEW g \in Finds PROVE Promoting(g)'
  <2>1. Deciding(g) # {} => g \in troubled'
    BY <1>3 DEF Deciding
  <2>2. QED
    BY <1>1, <1>2, <1>3, <2>1 DEF Promoting
<1>6. ASSUME NEW g \in Finds PROVE Local(g)'
  BY <1>1, <1>2, <1>3 DEF Local
<1>7. QED
  BY <1>4, <1>5, <1>6 DEF Inv, AllPromoting, AllLocal

\* A rebuild forgets the documents of the finds it excuses.
LEMMA RebuildChromaStep ==
  ASSUME Inv, RebuildChroma
  PROVE  Inv'
<1>1. TypeOK /\ \A g \in Finds : Born(g) /\ Promoting(g) /\ Local(g)
  BY DEF Inv, Base, AllPromoting, AllLocal
<1>2. /\ troubled' = troubled \cup docs /\ docs' = {} /\ troubled' \subseteq Finds
      /\ faults' \in 0..MaxFaults
      /\ UNCHANGED <<row, files, watched, req, raced, starts>>
  BY <1>1 DEF RebuildChroma, Fault, TypeOK
<1>3. \A g \in Finds : Working(g)' = Working(g) /\ Working(g) = {}
  BY NoReqIs DEF RebuildChroma, Working
<1>4. Base'
  <2>1. TypeOK'
    BY <1>1, <1>2 DEF TypeOK
  <2>2. \A g \in Finds : Born(g)'
    BY <1>1, <1>2, <1>3 DEF Born
  <2>3. \A s \in Requests : req'[s] = NoReq \/ Shape(req'[s])
    BY <1>2 DEF Inv, Base
  <2>4. QED
    BY <2>1, <2>2, <2>3 DEF Base
<1>5. ASSUME NEW g \in Finds PROVE Promoting(g)'
  <2>1. Deciding(g)' = Deciding(g)
    BY <1>2, <1>3 DEF Deciding
  <2>2. QED
    BY <1>1, <1>2, <2>1 DEF Promoting
<1>6. ASSUME NEW g \in Finds PROVE Local(g)'
  <2>1. ASSUME Settled(g, row[g], files, docs), g \notin troubled'
        PROVE  Settled(g, row[g], files, docs')
    BY <1>2, <2>1 DEF Settled
  <2>2. QED
    BY <1>1, <1>2, <1>3, <2>1 DEF Local
<1>7. QED
  BY <1>4, <1>5, <1>6 DEF Inv, AllPromoting, AllLocal

\* Nothing happens.
LEMMA StutterStep ==
  ASSUME Inv, UNCHANGED vars
  PROVE  Inv'
<1>1. UNCHANGED <<row, files, docs, watched, req, raced, troubled, starts, faults>>
  BY DEF vars
<1>2. \A g \in Finds : Working(g)' = Working(g) /\ Deciding(g)' = Deciding(g)
  BY <1>1 DEF Working, Deciding
<1>3. Base'
  <2>1. TypeOK'
    BY <1>1 DEF Inv, Base, TypeOK
  <2>2. \A g \in Finds : Born(g)'
    BY <1>1, <1>2 DEF Inv, Base, Born
  <2>3. QED
    BY <1>1, <2>1, <2>2 DEF Inv, Base
<1>4. AllPromoting'
  BY <1>1, <1>2 DEF Inv, AllPromoting, Promoting
<1>5. AllLocal'
  BY <1>1, <1>2 DEF Inv, AllLocal, Local
<1>6. QED
  BY <1>3, <1>4, <1>5 DEF Inv

LEMMA InitInv == Init => Inv
<1> SUFFICES ASSUME Init PROVE Inv
  OBVIOUS
<1>1. Base
  BY NoRowIs, NoReqIs DEF Init, Base, TypeOK, Born, Working
<1>2. \A f \in Finds : Working(f) = {} /\ Deciding(f) = {}
  BY NoReqIs DEF Init, Working, Deciding
<1>3. AllPromoting
  BY <1>2 DEF Init, AllPromoting, Promoting
<1>4. AllLocal
  BY <1>2, NoRowIs DEF Init, AllLocal, Local, Settled, ShelfIn, ShelfOf
<1>5. QED
  BY <1>1, <1>3, <1>4 DEF Inv

LEMMA InvStep == Inv /\ [Next]_vars => Inv'
<1> SUFFICES ASSUME Inv, [Next]_vars PROVE Inv'
  OBVIOUS
<1>1. ASSUME NEW r \in Requests, NEW f \in Finds, Start(r, f) PROVE Inv'
  BY <1>1, StartStep
<1>2. ASSUME NEW r \in Requests,
             Step(r) \/ LibraryFails(r) \/ IngestFails(r) \/ PurgeFails(r) \/ RollBack(r)
      PROVE  Inv'
  BY <1>2, RequestStep
<1>3. ASSUME NEW f \in Finds, QueueProposal(f) PROVE Inv'
  BY <1>3, QueueProposalStep
<1>4. ASSUME NEW f \in Finds, NEW queue \in BOOLEAN, CreateManualFind(f, queue) PROVE Inv'
  BY <1>4, CreateManualFindStep
<1>5. CASE Crash
  BY <1>5, CrashStep
<1>6. CASE RebuildChroma
  BY <1>6, RebuildChromaStep
<1>7. CASE UNCHANGED vars
  BY <1>7, StutterStep
<1>8. QED
  BY <1>1, <1>2, <1>3, <1>4, <1>5, <1>6, <1>7 DEF Next

LEMMA Invariance == Spec => []Inv
BY InitInv, InvStep, PTL DEF Spec

-----------------------------------------------------------------------------
(* Results *)

\* The variables of curation keep their types.
THEOREM LibraryTypeCorrect == Spec => []TypeOK
<1>1. Inv => TypeOK
  BY DEF Inv, Base
<1>2. QED
  BY <1>1, Invariance, PTL

\* While nobody works on a find, the repository holds exactly the file its row
\* names, unless requests overlapped on it or a fault struck half-way.
THEOREM ShelvesMatchRows == Spec => []ShelfMatchesRow
<1>1. Inv => ShelfMatchesRow
  BY DEF Inv, AllLocal, Local, Settled, ShelfIn, ShelfOf, ShelfMatchesRow, Shelf
<1>2. QED
  BY <1>1, Invariance, PTL

\* A find flagged as ingested has its document in Chroma, with the same excuses.
THEOREM FlagsHaveDocuments == Spec => []FlagHasDocument
<1>1. Inv => FlagHasDocument
  BY DEF Inv, AllLocal, Local, Settled, FlagHasDocument
<1>2. QED
  BY <1>1, Invariance, PTL

\* A dismissed find is on no public surface unless two requests overlapped on it.
THEOREM DismissedFindsAreHidden == Spec => []DismissedIsHidden
<1>1. Inv => DismissedIsHidden
  BY DEF Inv, AllLocal, Local, Tidy, DismissedIsHidden
<1>2. QED
  BY <1>1, Invariance, PTL

\* A proposal that became sources leaves the queue, overlapping promotions
\* included, unless a fault struck half-way.
THEOREM PromotedProposalsLeave == Spec => []PromotedLeavesQueue
<1>1. Inv => PromotedLeavesQueue
  BY DEF Inv, AllPromoting, Promoting, Deciding, PromotedLeavesQueue
<1>2. QED
  BY <1>1, Invariance, PTL

\* An unpublish that nothing overlapped and that ends by writing its row leaves
\* no file at the path it found there, whatever failed before.
THEOREM UnpublishTakesTheFile == Spec => UnpublishRemoves
<1>1. ASSUME Inv, [Next]_vars, NEW r \in Requests,
             req[r].op = "unpublish", req[r].at = "commit", req'[r] = NoReq,
             req[r].f \notin raced, row' # row
      PROVE  <<req[r].f, req[r].old.path>> \notin files'
  <2>1. req[r] # NoReq /\ req[r].f \in Finds /\ r \in Working(req[r].f)
    BY <1>1, NoReqIs DEF Inv, Base, Shape, Working
  <2>2. <<req[r].f, req[r].old.path>> \notin files
    BY <1>1, <2>1 DEF Inv, AllLocal, Local, Solo
  <2>3. ASSUME files' # files PROVE FALSE
    <3>1. PICK s \in Requests : PutFile(s) \/ DeleteFile(s) \/ LibraryFails(s)
      <4>1. ASSUME NEW s \in Requests, NEW f \in Finds, Start(s, f) PROVE FALSE
        BY <2>3, <4>1 DEF Start, FeatureFind, TickerFeatureFind, QueueForNewsletter, DismissFind,
          PromoteSource, ApproveFind, PromoteLibrary, AutoIngest, RejectFind, UnpublishLatest,
          UnpublishLibrary, PurgeKb, Begin, BeginAt
      <4>2. ASSUME NEW s \in Requests,
                   \/ FindFile(s) \/ LibraryConflict(s) \/ IngestFind(s) \/ PurgeFind(s)
                   \/ AddPromoted(s) \/ AddCollides(s) \/ Commit(s) \/ IngestFails(s)
                   \/ PurgeFails(s) \/ RollBack(s)
            PROVE  FALSE
        BY <2>3, <4>2 DEF FindFile, LibraryConflict, IngestFind, PurgeFind, AddPromoted,
          AddCollides, Commit, IngestFails, PurgeFails, RollBack, storeVars
      <4>3. ASSUME NEW f \in Finds,
                   QueueProposal(f) \/ \E queue \in BOOLEAN : CreateManualFind(f, queue)
            PROVE  FALSE
        BY <2>3, <4>3 DEF QueueProposal, CreateManualFind
      <4>4. ~Crash /\ ~RebuildChroma /\ ~UNCHANGED vars
        BY <2>3 DEF Crash, RebuildChroma, vars, storeVars
      <4>5. QED
        BY <1>1, <4>1, <4>2, <4>3, <4>4 DEF Next, Step
    <3>2. s # r
      BY <1>1, <3>1 DEF PutFile, DeleteFile, LibraryFails
    <3>3. req'[r] = req[r]
      <4>1. req \in [Requests -> Reqs]
        BY <1>1 DEF Inv, Base, TypeOK
      <4>2. QED
        BY <3>1, <3>2, <4>1 DEF PutFile, DeleteFile, LibraryFails, Goto, End
    <3>4. QED
      BY <1>1, <2>1, <3>3
  <2>4. QED
    BY <2>2, <2>3
<1>2. Inv /\ [Next]_vars =>
        [\A r \in Requests :
           req[r].op = "unpublish" /\ req[r].at = "commit" /\ req'[r] = NoReq
             /\ req[r].f \notin raced /\ row' # row
             => <<req[r].f, req[r].old.path>> \notin files']_vars
  BY <1>1
<1>3. QED
  BY <1>2, Invariance, PTL DEF Spec, UnpublishRemoves
=============================================================================
