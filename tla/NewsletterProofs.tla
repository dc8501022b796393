-------------------------- MODULE NewsletterProofs --------------------------
(***************************************************************************)
(* For any number of issues, finds, subscribers, dispatchers and editors:  *)
(* the types of the pipeline, that nobody is mailed an issue more often    *)
(* than it was approved, that only a fault strands an issue in sending,    *)
(* and that one curator's edits keep finds and issues coherent.            *)
(***************************************************************************)
EXTENDS Newsletter, FiniteSetTheorems, WellFoundedInduction, TLAPS

USE NewsletterAssumption

-----------------------------------------------------------------------------
(* Least and greatest numbers *)

\* A set of numbers that is not empty has a least one.
LEMMA LeastNumber ==
  ASSUME NEW T, T \subseteq Nat, T # {}
  PROVE  \E m \in T : \A n \in T : m <= n
<1> DEFINE R == OpToRel(<, Nat)
<1>1. IsWellFoundedOn(R, Nat)
  BY NatLessThanWellFounded
<1>2. \A x, y \in Nat : x < y => <<x, y>> \in R
  BY DEF OpToRel
<1> HIDE DEF R
<1>3. PICK m \in T : \A n \in T : ~(<<n, m>> \in R)
  BY <1>1, WFMin
<1>4. ASSUME NEW n \in T PROVE m <= n
  <2>1. n \in Nat /\ m \in Nat /\ ~(n < m)
    BY <1>2, <1>3
  <2>2. QED  BY <2>1
<1>5. QED
  BY <1>4

\* Numbers up to a bound that are all below n or equal have a greatest one: the
\* induction is on the bound, through the least bound without one.
LEMMA GreatestNumber ==
  ASSUME NEW n \in Nat, NEW f \in [1..n -> Nat], NEW D \in SUBSET (1..n)
  PROVE  \E b \in {f[i] : i \in D} \cup {0} : \A i \in D : f[i] <= b
<1> DEFINE Top(k) == \E b \in {f[i] : i \in D \cap (1..k)} \cup {0} :
                       \A i \in D \cap (1..k) : f[i] <= b
           Bad == {k \in 0..n : ~Top(k)}
<1>1. Top(0)
  OBVIOUS
<1>2. ASSUME NEW k \in 0..n, k # 0, Top(k - 1) PROVE Top(k)
  <2>1. PICK b \in {f[i] : i \in D \cap (1..(k - 1))} \cup {0} :
          \A i \in D \cap (1..(k - 1)) : f[i] <= b
    BY <1>2
  <2>2. k \in 1..n /\ 1..k = (1..(k - 1)) \cup {k} /\ f[k] \in Nat /\ b \in Nat
    <3>1. k \in 1..n
      BY <1>2
    <3>2. 1..k = (1..(k - 1)) \cup {k}
      BY <3>1
    <3>3. b \in Nat
      BY <1>2
    <3>4. QED  BY <3>1, <3>2, <3>3
  <2>3. CASE k \in D /\ b < f[k]
    <3>1. \A i \in D \cap (1..k) : f[i] <= f[k]
      BY <2>1, <2>2, <2>3
    <3>2. f[k] \in {f[i] : i \in D \cap (1..k)}
      BY <2>2, <2>3
    <3>3. QED
      BY <3>1, <3>2
  <2>4. CASE ~(k \in D /\ b < f[k])
    <3>1. \A i \in D \cap (1..k) : f[i] <= b
      BY <2>1, <2>2, <2>4
    <3>2. b \in {f[i] : i \in D \cap (1..k)} \cup {0}
      BY <2>1, <2>2
    <3>3. QED
      BY <3>1, <3>2
  <2>5. QED
    BY <2>3, <2>4
<1>3. Bad = {}
  <2> SUFFICES ASSUME Bad # {} PROVE FALSE
    OBVIOUS
  <2>1. PICK k \in Bad : \A j \in Bad : k <= j
    <3>1. Bad \subseteq Nat
      OBVIOUS
    <3> HIDE DEF Bad
    <3>2. QED  BY <3>1, LeastNumber
  <2> HIDE DEF Top
  <2>2. k \in 0..n /\ k # 0 /\ ~Top(k)
    BY <1>1
  <2>3. Top(k - 1)
    BY <2>1, <2>2
  <2>4. QED
    BY <1>2, <2>2, <2>3
<1>4. Top(n)
  <2> HIDE DEF Top
  <2> QED  BY <1>3
<1>5. D \cap (1..n) = D
  OBVIOUS
<1>6. QED
  BY <1>4, <1>5

-----------------------------------------------------------------------------
(* Types *)

JobRecs ==
  [op : {"idle", "create", "populate", "compose", "assign", "dismiss", "restore",
         "queue", "unpublish", "delete"},
   issue : Issues \cup {None}, read : Statuses \cup Issues \cup {None},
   finds : SUBSET Finds, pend : SUBSET Finds, dis : SUBSET Finds, pub : SUBSET Finds,
   label : Nat \X Nat, tries : Nat, flag : BOOLEAN]

\* The issue of a request that has one to write is an issue.
JobShape(j) ==
  j.op \in {"populate", "unpublish", "delete"} => j.issue \in Issues

Typed ==
  /\ TypeOK
  /\ job \in [Editors -> JobRecs] /\ \A e \in Editors : JobShape(job[e])
  /\ \A i \in Issues : status[i] = "approved" => licence[i] > 0

\* _next_ship_number reads a number: the greatest one given out.
LEMMA LastShipType ==
  ASSUME TypeOK
  PROVE  LastShip \in Nat
<1> DEFINE P(n) == \A m \in Ships : m <= n
<1>1. \E n \in Ships \cup {0} : P(n)
  <2>1. ship \in [1..MaxIssues -> Nat] /\ Rows \in SUBSET (1..MaxIssues)
    BY DEF TypeOK, Issues, Rows
  <2>2. PICK b \in {ship[i] : i \in Rows} \cup {0} : \A i \in Rows : ship[i] <= b
    BY <2>1, GreatestNumber
  <2>3. QED
    BY <2>2 DEF Ships
<1>2. LastShip = CHOOSE n \in Ships \cup {0} : P(n)
  BY DEF LastShip
<1>3. LastShip \in Ships \cup {0}
  BY <1>1, <1>2
<1>4. Ships \subseteq Nat
  BY DEF Ships, TypeOK, Rows
<1>5. QED
  BY <1>3, <1>4

\* next_display_label gives a label.
LEMMA NextLabelType ==
  ASSUME TypeOK
  PROVE  NextLabel \in Nat \X Nat
<1> DEFINE S == {i \in Rows : ship[i] = 0 /\ label[i][1] = LastShip}
<1>1. IsFiniteSet(1..MaxIssues)
  BY FS_Interval
<1>2. S \subseteq 1..MaxIssues
  BY DEF Rows, Issues
<1>3. Cardinality(S) \in Nat
  BY <1>1, <1>2, FS_Subset, FS_CardinalityType
<1> HIDE DEF S
<1>4. NextLabel = <<LastShip, Cardinality(S) + 1>>
  BY DEF NextLabel, S
<1>5. QED
  BY <1>3, <1>4, LastShipType

\* A new issue gets the first row that is not in use.
LEMMA NewIssueIs ==
  ASSUME CanCreate
  PROVE  NewIssue \in Issues /\ status[NewIssue] = "none"
<1> DEFINE T == {i \in Issues : status[i] = "none"}
           P(i) == status[i] = "none" /\ \A j \in 1..(i - 1) : status[j] # "none"
<1>1. T \subseteq Nat /\ T # {}
  BY DEF CanCreate, Issues
<1>2. PICK m \in T : \A n \in T : m <= n
  <2> HIDE DEF T
  <2> QED  BY <1>1, LeastNumber
<1>3. m \in Issues /\ P(m)
  BY <1>2 DEF Issues
<1>4. NewIssue = CHOOSE i \in Issues : P(i)
  BY DEF NewIssue
<1> HIDE DEF P
<1>5. NewIssue \in Issues /\ P(NewIssue)
  BY <1>3, <1>4
<1>6. QED
  BY <1>5 DEF P

\* A request that has nothing to do has the type of a request.
LEMMA IdleType == Idle \in JobRecs /\ JobShape(Idle) /\ Idle.op = "idle"
BY DEF Idle, JobRecs, JobShape, Statuses

\* What a request reads of finds has its type.
LEMMA ReadFindsType ==
  ASSUME NEW j \in JobRecs, NEW F \in SUBSET Finds
  PROVE  /\ ReadFinds(j, F) \in JobRecs
         /\ ReadFinds(j, F).op = j.op /\ ReadFinds(j, F).issue = j.issue
         /\ ReadFinds(j, F).finds = F /\ ReadFinds(j, F).pend = F \cap pending
         /\ ReadFinds(j, F).dis = F \cap dismissed
BY DEF ReadFinds, JobRecs

\* What a request writes, and what two requests write over one another, are finds.
LEMMA TurnTyped ==
  ASSUME Typed, NEW e \in Editors, NEW j \in JobRecs, Turn(e, j)
  PROVE  job' = [job EXCEPT ![e] = j] /\ crossed \subseteq crossed' /\ crossed' \subseteq Finds
<1>1. \A k \in JobRecs : Writes(k) \subseteq Finds
  BY DEF Writes, JobRecs
<1>2. \A k, m \in JobRecs : Clash(k, m) \subseteq Finds
  BY <1>1 DEF Clash, Orphans
<1>3. \A x \in Editors : Clash(j, job[x]) \subseteq Finds
  BY <1>2 DEF Typed
<1>4. QED
  BY <1>3 DEF Turn, Typed, TypeOK

\* A request that goes on without writing keeps the types.
LEMMA ReadsTyped ==
  ASSUME Typed, NEW e \in Editors, NEW j \in JobRecs, JobShape(j),
         Turn(e, j) \/ (job' = [job EXCEPT ![e] = j] /\ UNCHANGED crossed),
         UNCHANGED <<issueVars, findVars, active, dispVars, faults, mails, licence>>
  PROVE  Typed'
<1>1. job' = [job EXCEPT ![e] = j] /\ crossed' \subseteq Finds
  BY TurnTyped DEF Typed, TypeOK
<1>2. TypeOK' /\ job' \in [Editors -> JobRecs] /\ \A x \in Editors : JobShape(job'[x])
  BY <1>1 DEF Typed, TypeOK, issueVars, findVars, dispVars
<1>3. QED
  BY <1>2 DEF Typed, issueVars

\* The requests of editors keep the types.
LEMMA EditorTyped ==
  ASSUME Typed, NEW e \in Editors,
         CreateRead(e, TRUE) \/ PopulateWrite(e) \/ Editor(e)
  PROVE  Typed'
<1>1. TypeOK /\ job \in [Editors -> JobRecs] /\ job[e] \in JobRecs /\ JobShape(job[e])
  BY DEF Typed
<1>2. NextLabel \in Nat \X Nat
  BY <1>1, NextLabelType
<1>3. ASSUME NEW auto \in BOOLEAN, CreateRead(e, auto) PROVE Typed'
  <2> DEFINE j == [Idle EXCEPT !.op = "create", !.label = NextLabel, !.flag = auto]
  <2>1. j \in JobRecs /\ JobShape(j)
    BY <1>2, IdleType DEF JobRecs, JobShape
  <2>2. Turn(e, j)
    BY <1>3 DEF CreateRead, Start
  <2> HIDE DEF j
  <2>3. QED
    BY <1>3, <2>1, <2>2, ReadsTyped DEF CreateRead
<1>4. ASSUME NEW st \in {"draft", "skipped", "awaiting_approval"}, NEW l \in Nat \X Nat,
             NEW F \in SUBSET Finds, Insert(st, l, F),
             job' \in [Editors -> JobRecs], \A x \in Editors : JobShape(job'[x]),
             crossed' \subseteq Finds, UNCHANGED <<findVars, active, dispVars, faults, mails, licence>>
      PROVE  Typed'
  <2>1. TypeOK'
    BY <1>1, <1>4 DEF TypeOK, Insert, Statuses, findVars, dispVars
  <2>2. QED
    BY <1>1, <1>4, <2>1 DEF Typed, Insert, TypeOK
<1>5. CASE CreateInsert(e)
  <2>1. job[e].label \in Nat \X Nat /\ Insert("draft", job[e].label, {})
    BY <1>1, <1>5 DEF CreateInsert, JobRecs
  <2>2. NewIssue \in Issues
    BY <1>5, NewIssueIs DEF CreateInsert
  <2>3. /\ job' \in [Editors -> JobRecs] /\ \A x \in Editors : JobShape(job'[x])
        /\ crossed' \subseteq Finds
    <3>1. CASE Finish(e)
      BY <1>1, <3>1, IdleType DEF Typed, TypeOK, Finish
    <3>2. ASSUME NEW F \in SUBSET Eligible,
                 Turn(e, [Idle EXCEPT !.op = "populate", !.issue = NewIssue, !.finds = F])
          PROVE  /\ job' \in [Editors -> JobRecs] /\ \A x \in Editors : JobShape(job'[x])
                 /\ crossed' \subseteq Finds
      <4> DEFINE j == [Idle EXCEPT !.op = "populate", !.issue = NewIssue, !.finds = F]
      <4>1. j \in JobRecs /\ j.issue = NewIssue
        BY <2>2, IdleType DEF JobRecs, Eligible
      <4>2. Turn(e, j)
        BY <3>2
      <4> HIDE DEF j
      <4>3. QED
        BY <1>1, <2>2, <4>1, <4>2, TurnTyped DEF Typed, JobShape
    <3>3. QED
      BY <1>5, <3>1, <3>2 DEF CreateInsert
  <2>4. {} \in SUBSET Finds /\ "draft" \in {"draft", "skipped", "awaiting_approval"}
    OBVIOUS
  <2>5. UNCHANGED <<findVars, active, dispVars, faults, mails, licence>>
    BY <1>5 DEF CreateInsert
  <2>6. QED
    BY <1>4, <2>1, <2>3, <2>4, <2>5
<1>6. CASE CreateCollides(e)
  <2>1. CASE Finish(e)
    BY <1>6, <2>1, IdleType, ReadsTyped DEF CreateCollides, Finish
  <2>2. CASE Turn(e, [job[e] EXCEPT !.tries = @ + 1, !.label = NextLabel])
    <3> DEFINE n == job[e].tries + 1
               j == [job[e] EXCEPT !.tries = n, !.label = NextLabel]
    <3>1. n \in Nat
      BY <1>1 DEF JobRecs
    <3>2. Turn(e, j)
      BY <2>2
    <3> HIDE DEF n
    <3>3. j \in JobRecs /\ j.op = job[e].op /\ job[e].op = "create"
      BY <1>1, <1>2, <1>6, <3>1 DEF JobRecs, CreateCollides
    <3> HIDE DEF j
    <3>4. JobShape(j)
      BY <3>3 DEF JobShape
    <3>5. QED
      BY <1>6, <3>2, <3>3, <3>4, ReadsTyped DEF CreateCollides
  <2>3. QED
    BY <1>6, <2>1, <2>2 DEF CreateCollides
<1>7. CASE PopulateWrite(e)
  <2>1. job[e].issue \in Issues /\ job[e].finds \in SUBSET Finds
    BY <1>1, <1>7 DEF PopulateWrite, JobShape, JobRecs
  <2>2. TypeOK'
    BY <1>1, <1>7, <2>1 DEF TypeOK, PopulateWrite, Finish, issueVars, dispVars
  <2>3. QED
    BY <1>1, <1>7, <2>2, IdleType DEF Typed, PopulateWrite, Finish, issueVars
<1>8. ASSUME NEW force \in BOOLEAN, ComposeRead(e, force) PROVE Typed'
  <2> DEFINE F == pending \ dismissed
             j == [Idle EXCEPT !.op = "compose", !.label = NextLabel, !.finds = F,
                               !.flag = force]
  <2>1. F \in SUBSET Finds
    BY <1>1 DEF TypeOK
  <2> HIDE DEF F
  <2>2. j \in JobRecs /\ JobShape(j)
    BY <1>2, <2>1, IdleType DEF JobRecs, JobShape
  <2>3. Turn(e, j)
    BY <1>8 DEF ComposeRead, Start, F
  <2> HIDE DEF j
  <2>4. QED
    BY <1>8, <2>2, <2>3, ReadsTyped DEF ComposeRead
<1>9. CASE ComposeInsert(e)
  <2>1. job[e].label \in Nat \X Nat /\ job[e].finds \in SUBSET Finds
    BY <1>1 DEF JobRecs
  <2>2. job' = [job EXCEPT ![e] = Idle]
    BY <1>9 DEF ComposeInsert, Finish
  <2>3. /\ job' \in [Editors -> JobRecs] /\ \A x \in Editors : JobShape(job'[x])
        /\ crossed' = crossed /\ crossed' \subseteq Finds
    BY <1>1, <1>9, <2>2, IdleType DEF Typed, TypeOK, ComposeInsert, Finish
  <2>4. CASE UNCHANGED issueVars
    BY <1>9, <2>2, <2>3, <2>4, IdleType, ReadsTyped DEF ComposeInsert
  <2>5. CASE ~UNCHANGED issueVars
    <3> DEFINE st == IF job[e].finds = {} /\ ~job[e].flag THEN "skipped" ELSE "awaiting_approval"
    <3>1. Insert(st, job[e].label, job[e].finds)
      BY <1>9, <2>5 DEF ComposeInsert
    <3>2. st \in {"draft", "skipped", "awaiting_approval"}
      OBVIOUS
    <3> HIDE DEF st
    <3>3. QED
      BY <1>4, <1>9, <2>1, <2>3, <3>1, <3>2 DEF ComposeInsert
  <2>6. QED
    BY <2>4, <2>5
<1>10. ASSUME NEW i \in Issues, UnpublishRead(e, i) PROVE Typed'
  <2> DEFINE j == [Idle EXCEPT !.op = "unpublish", !.issue = i, !.read = status[i]]
  <2>1. status[i] \in Statuses
    BY <1>1 DEF TypeOK
  <2>2. j \in JobRecs /\ JobShape(j)
    BY <2>1, IdleType DEF JobRecs, JobShape
  <2>3. Turn(e, j)
    BY <1>10 DEF UnpublishRead, Start
  <2> HIDE DEF j
  <2>4. QED
    BY <1>10, <2>2, <2>3, ReadsTyped DEF UnpublishRead
<1>11. CASE UnpublishWrite(e)
  <2>1. job[e].issue \in Issues
    BY <1>1, <1>11 DEF UnpublishWrite, JobShape
  <2>2. /\ status' \in [Issues -> Statuses] /\ sched' \in [Issues -> {"none", "future", "due"}]
        /\ unpub' \subseteq Issues
        /\ \A i \in Issues : status'[i] = "approved" => status[i] = "approved"
    <3>1. /\ status' = status \/ status' = [status EXCEPT ![job[e].issue] = "awaiting_approval"]
          /\ sched' = sched \/ sched' = [sched EXCEPT ![job[e].issue] = "none"]
          /\ unpub' = unpub \/ unpub' = unpub \cup {job[e].issue}
      BY <1>11 DEF UnpublishWrite
    <3>2. /\ status \in [Issues -> Statuses] /\ sched \in [Issues -> {"none", "future", "due"}]
          /\ unpub \subseteq Issues
      BY <1>1 DEF TypeOK
    <3>3. status' \in [Issues -> Statuses]
      BY <2>1, <3>1, <3>2 DEF Statuses
    <3>4. sched' \in [Issues -> {"none", "future", "due"}] /\ unpub' \subseteq Issues
      BY <2>1, <3>1, <3>2
    <3>5. \A i \in Issues : status'[i] = "approved" => status[i] = "approved"
      BY <2>1, <3>1, <3>2
    <3>6. QED
      BY <3>3, <3>4, <3>5
  <2>3. TypeOK'
    BY <1>1, <1>11, <2>2 DEF TypeOK, UnpublishWrite, Finish, findVars, dispVars
  <2>4. QED
    BY <1>1, <1>11, <2>2, <2>3, IdleType DEF Typed, UnpublishWrite, Finish
<1>12. QED
  BY <1>3, <1>5, <1>6, <1>7, <1>8, <1>9, <1>10, <1>11 DEF Editor

\* The requests that write finds keep the types.
LEMMA CuratorTyped ==
  ASSUME Typed, NEW e \in Editors, Curator(e)
  PROVE  Typed'
<1>1. TypeOK /\ job \in [Editors -> JobRecs] /\ job[e] \in JobRecs /\ JobShape(job[e])
  BY DEF Typed
<1>2. ASSUME NEW j \in JobRecs, JobShape(j), job' = [job EXCEPT ![e] = j], TypeOK',
             UNCHANGED <<status, licence>>
      PROVE  Typed'
  BY <1>1, <1>2 DEF Typed
<1>3. job[e].finds \in SUBSET Finds /\ job[e].pend \in SUBSET Finds
      /\ job[e].dis \in SUBSET Finds /\ job[e].issue \in Issues \cup {None}
  BY <1>1 DEF JobRecs
<1>4. CASE CreateRead(e, TRUE) \/ PopulateWrite(e)
  BY <1>4, EditorTyped
<1>5. ASSUME NEW f \in Finds, NEW i \in Issues \cup {None}, AssignRead(e, f, i) PROVE Typed'
  <2> DEFINE a == [Idle EXCEPT !.op = "assign", !.issue = i, !.read = tag[f]]
             j == ReadFinds(a, {f})
  <2>1. a \in JobRecs /\ a.op = "assign"
    BY <1>1, IdleType DEF JobRecs, TypeOK
  <2>2. Turn(e, j)
    BY <1>5 DEF AssignRead, Start
  <2> HIDE DEF a
  <2>3. j \in JobRecs /\ j.op = "assign"
    BY <2>1, ReadFindsType
  <2> HIDE DEF j
  <2>4. QED
    BY <1>5, <2>2, <2>3, ReadsTyped DEF AssignRead, JobShape
<1>6. ASSUME NEW f \in Finds, NEW op \in {"dismiss", "restore", "queue"}, FindRead(e, f, op)
      PROVE Typed'
  <2> DEFINE a == [Idle EXCEPT !.op = op]
             j == ReadFinds(a, {f})
  <2>1. a \in JobRecs /\ a.op = op
    BY IdleType DEF JobRecs
  <2>2. Turn(e, j)
    BY <1>6 DEF FindRead, Start
  <2> HIDE DEF a
  <2>3. j \in JobRecs /\ j.op = op
    BY <2>1, ReadFindsType
  <2> HIDE DEF j
  <2>4. QED
    BY <1>6, <2>2, <2>3, ReadsTyped DEF FindRead, JobShape
<1>7. ASSUME NEW i \in Issues, DeleteRead(e, i) PROVE Typed'
  <2> DEFINE a == [Idle EXCEPT !.op = "delete", !.issue = i, !.read = status[i]]
             j == ReadFinds(a, Tagged(i))
  <2>1. a \in JobRecs /\ a.op = "delete" /\ a.issue = i
    BY <1>1, IdleType DEF JobRecs, TypeOK
  <2>2. Turn(e, j)
    BY <1>7 DEF DeleteRead, Start
  <2> HIDE DEF a
  <2>3. j \in JobRecs /\ j.op = "delete" /\ j.issue = i
    BY <2>1, ReadFindsType DEF Tagged
  <2> HIDE DEF j
  <2>4. QED
    BY <1>7, <2>2, <2>3, ReadsTyped DEF DeleteRead, JobShape
<1>8. CASE AssignWrite(e) \/ DismissWrite(e) \/ QueueWrite(e)
  <2>1. /\ job' = [job EXCEPT ![e] = Idle]
        /\ UNCHANGED <<issueVars, published, crossed, active, dispVars, faults, mails, licence>>
    BY <1>8 DEF AssignWrite, DismissWrite, QueueWrite, Finish
  <2>2. tag' \in [Finds -> Issues \cup {None}]
    BY <1>1, <1>3, <1>8 DEF AssignWrite, DismissWrite, QueueWrite, TypeOK
  <2>3. pending' \subseteq Finds /\ dismissed' \subseteq Finds
    BY <1>1, <1>3, <1>8 DEF AssignWrite, DismissWrite, QueueWrite, TypeOK
  <2>4. TypeOK'
    BY <1>1, <2>1, <2>2, <2>3 DEF TypeOK, issueVars, dispVars
  <2>5. QED
    BY <1>2, <2>1, <2>4, IdleType DEF issueVars
<1>9. CASE DeleteWrite(e)
  <2>1. job[e].issue \in Issues
    BY <1>1, <1>9 DEF DeleteWrite, JobShape
  <2>2. job' = [job EXCEPT ![e] = Idle]
    BY <1>9 DEF DeleteWrite, Finish
  <2>3. /\ status' \in [Issues -> Statuses]
        /\ \A i \in Issues : status'[i] = "approved" => status[i] = "approved"
    BY <1>1, <1>9 DEF DeleteWrite, TypeOK, Statuses
  <2>4. /\ sched' \in [Issues -> {"none", "future", "due"}] /\ unpub' \subseteq Issues
        /\ ship' \in [Issues -> Nat] /\ label' \in [Issues -> Nat \X Nat]
        /\ snap' \in [Issues -> SUBSET Finds]
    BY <1>1, <1>9 DEF DeleteWrite, TypeOK
  <2>5. /\ tag' \in [Finds -> Issues \cup {None}] /\ pending' \subseteq Finds
        /\ published' \subseteq Finds
    BY <1>1, <1>9 DEF DeleteWrite, TypeOK
  <2>6. TypeOK'
    BY <1>1, <1>9, <2>3, <2>4, <2>5 DEF DeleteWrite, Finish, TypeOK, dispVars
  <2>7. QED
    BY <1>1, <1>9, <2>2, <2>3, <2>6, IdleType DEF DeleteWrite, Typed
<1>10. QED
  BY <1>4, <1>5, <1>6, <1>7, <1>8, <1>9 DEF Curator

\* Approvals, cancellations, the clock and the subscribers keep the types.
LEMMA AdminTyped ==
  ASSUME Typed,
         \/ \E i \in Issues : Approve(i) \/ CancelSend(i) \/ ComesDue(i)
         \/ \E u \in Subs : Subscribe(u) \/ Unsubscribe(u)
  PROVE  Typed'
<1>1. TypeOK /\ licence \in [Issues -> 0..MaxApprovals] /\ status \in [Issues -> Statuses]
      /\ sched \in [Issues -> {"none", "future", "due"}]
  BY DEF Typed, TypeOK
<1>2. ASSUME NEW i \in Issues, Approve(i) \/ CancelSend(i) PROVE Typed'
  <2>1. status' \in [Issues -> Statuses] /\ sched' \in [Issues -> {"none", "future", "due"}]
    BY <1>1, <1>2 DEF Approve, CancelSend, Statuses
  <2>2. /\ licence' \in [Issues -> 0..MaxApprovals]
        /\ \A k \in Issues : status'[k] = "approved" => licence'[k] > 0
    BY <1>1, <1>2 DEF Approve, CancelSend, Typed
  <2>3. TypeOK'
    BY <1>1, <1>2, <2>1, <2>2 DEF Approve, CancelSend, TypeOK, findVars, dispVars
  <2>4. QED
    BY <1>2, <2>2, <2>3 DEF Approve, CancelSend, Typed
<1>3. ASSUME NEW i \in Issues, ComesDue(i) PROVE Typed'
  <2>1. sched' \in [Issues -> {"none", "future", "due"}]
    BY <1>1, <1>3 DEF ComesDue
  <2>2. TypeOK'
    BY <1>1, <1>3, <2>1 DEF ComesDue, TypeOK, findVars, dispVars
  <2>3. QED
    BY <1>3, <2>2 DEF ComesDue, Typed
<1>4. ASSUME NEW u \in Subs, Subscribe(u) \/ Unsubscribe(u) PROVE Typed'
  <2>1. TypeOK'
    BY <1>1, <1>4 DEF Subscribe, Unsubscribe, TypeOK, issueVars, findVars, dispVars
  <2>2. QED
    BY <1>4, <2>1 DEF Subscribe, Unsubscribe, Typed, issueVars
<1>5. QED
  BY <1>2, <1>3, <1>4

\* A dispatcher that leaves its issue is on none.
LEMMA LeaveTyped ==
  ASSUME Typed, NEW d \in Dispatchers, NEW dead \in BOOLEAN, Leave(d, dead)
  PROVE  /\ dpc' \in [Dispatchers -> {"idle", "loop", "snapshot", "number", "send"}]
         /\ due' \in [Dispatchers -> SUBSET Issues]
         /\ cur' \in [Dispatchers -> Issues \cup {None}]
         /\ \A x \in Dispatchers : cur'[x] = None <=> dpc'[x] \in {"idle", "loop"}
         /\ num' \in [Dispatchers -> Nat] /\ tries' \in [Dispatchers -> 0..(Attempts - 1)]
         /\ rcpt' \in [Dispatchers -> SUBSET Subs]
<1>1. TypeOK
  BY DEF Typed
<1>2. /\ dpc' \in [Dispatchers -> {"idle", "loop", "snapshot", "number", "send"}]
      /\ due' \in [Dispatchers -> SUBSET Issues]
      /\ cur' \in [Dispatchers -> Issues \cup {None}]
  BY <1>1 DEF Leave, TypeOK
<1>3. \A x \in Dispatchers : cur'[x] = None <=> dpc'[x] \in {"idle", "loop"}
  BY <1>1 DEF Leave, TypeOK
<1>4. /\ num' \in [Dispatchers -> Nat] /\ tries' \in [Dispatchers -> 0..(Attempts - 1)]
      /\ rcpt' \in [Dispatchers -> SUBSET Subs]
  BY <1>1 DEF Leave, TypeOK
<1>5. QED
  BY <1>2, <1>3, <1>4

\* The steps of a dispatcher keep the types.
LEMMA WorkingTyped ==
  ASSUME Typed, NEW d \in Dispatchers, Working(d) \/ Fault(d)
  PROVE  Typed'
<1>1. TypeOK /\ status \in [Issues -> Statuses]
  BY DEF Typed, TypeOK
<1> DEFINE Disp == /\ dpc' \in [Dispatchers -> {"idle", "loop", "snapshot", "number", "send"}]
                   /\ due' \in [Dispatchers -> SUBSET Issues]
                   /\ cur' \in [Dispatchers -> Issues \cup {None}]
                   /\ \A x \in Dispatchers : cur'[x] = None <=> dpc'[x] \in {"idle", "loop"}
                   /\ num' \in [Dispatchers -> Nat]
                   /\ tries' \in [Dispatchers -> 0..(Attempts - 1)]
                   /\ rcpt' \in [Dispatchers -> SUBSET Subs]
<1>2. ASSUME Disp, UNCHANGED <<issueVars, findVars, editorSide, faults, mails>> PROVE Typed'
  <2>1. TypeOK'
    BY <1>1, <1>2 DEF TypeOK, issueVars, findVars, editorSide
  <2>2. QED
    BY <1>2, <2>1 DEF Typed, issueVars, editorSide
<1>3. ASSUME NEW i \in Issues, NEW dead \in BOOLEAN, Revert(i), Leave(d, dead),
             faults' \in 0..MaxFaults, UNCHANGED <<findVars, editorSide, mails>>
      PROVE  Typed'
  <2>1. Disp
    BY <1>3, LeaveTyped
  <2>2. /\ status' \in [Issues -> Statuses] /\ sched' \in [Issues -> {"none", "future", "due"}]
        /\ \A k \in Issues : status'[k] = "approved" => status[k] = "approved"
    BY <1>1, <1>3 DEF Revert, Statuses, TypeOK
  <2>3. TypeOK'
    BY <1>1, <1>3, <2>1, <2>2 DEF TypeOK, Revert, findVars, editorSide
  <2>4. QED
    BY <1>3, <2>2, <2>3 DEF Typed, editorSide
<1>4. CASE Collect(d) \/ Done(d)
  <2>1. /\ dpc[d] \in {"idle", "loop"} /\ UNCHANGED <<cur, num, tries, rcpt>>
        /\ dpc' = [dpc EXCEPT ![d] = "loop"] \/ dpc' = [dpc EXCEPT ![d] = "idle"]
    BY <1>4 DEF Collect, Done
  <2>2. /\ dpc' \in [Dispatchers -> {"idle", "loop", "snapshot", "number", "send"}]
        /\ \A x \in Dispatchers : dpc'[x] \in {"idle", "loop"} <=> dpc[x] \in {"idle", "loop"}
    BY <1>1, <2>1 DEF TypeOK
  <2>3. due' \in [Dispatchers -> SUBSET Issues]
    <3>1. due \in [Dispatchers -> SUBSET Issues]
      BY <1>1 DEF TypeOK
    <3>2. PICK ids \in SUBSET Issues : due' = due \/ due' = [due EXCEPT ![d] = ids]
      BY <1>4 DEF Collect, Done
    <3>3. QED
      BY <3>1, <3>2
  <2>4. Disp
    BY <1>1, <2>1, <2>2, <2>3 DEF TypeOK
  <2>5. QED
    BY <1>2, <1>4, <2>4 DEF Collect, Done
<1>5. ASSUME NEW i \in Issues, Take(d, i) PROVE Typed'
  <2>1. due' \in [Dispatchers -> SUBSET Issues]
    BY <1>1, <1>5 DEF Take, TypeOK
  <2>2. CASE status[i] = "approved"
    <3>1. /\ dpc' \in [Dispatchers -> {"idle", "loop", "snapshot", "number", "send"}]
          /\ cur' \in [Dispatchers -> Issues \cup {None}]
          /\ \A x \in Dispatchers : cur'[x] = None <=> dpc'[x] \in {"idle", "loop"}
      <4>1. /\ dpc \in [Dispatchers -> {"idle", "loop", "snapshot", "number", "send"}]
            /\ cur \in [Dispatchers -> Issues \cup {None}]
            /\ \A x \in Dispatchers : cur[x] = None <=> dpc[x] \in {"idle", "loop"}
        BY <1>1 DEF TypeOK
      <4>2. dpc' = [dpc EXCEPT ![d] = "snapshot"] /\ cur' = [cur EXCEPT ![d] = i]
        BY <1>5, <2>2 DEF Take
      <4>3. dpc' \in [Dispatchers -> {"idle", "loop", "snapshot", "number", "send"}]
        BY <4>1, <4>2
      <4>4. cur' \in [Dispatchers -> Issues \cup {None}]
        BY <4>1, <4>2
      <4>5. i # None
        OBVIOUS
      <4>6. QED
        BY <4>1, <4>2, <4>3, <4>4, <4>5
    <3>2. /\ status' \in [Issues -> Statuses]
          /\ \A k \in Issues : status'[k] = "approved" => status[k] = "approved"
      BY <1>1, <1>5, <2>2 DEF Take, Statuses
    <3>3. TypeOK'
      BY <1>1, <1>5, <2>1, <3>1, <3>2 DEF TypeOK, Take, findVars, editorSide
    <3>4. QED
      BY <1>5, <3>2, <3>3 DEF Typed, Take, editorSide
  <2>3. CASE status[i] # "approved"
    <3>1. TypeOK'
      BY <1>1, <1>5, <2>1, <2>3 DEF TypeOK, Take, findVars, editorSide
    <3>2. QED
      BY <1>5, <2>3, <3>1 DEF Typed, Take, editorSide
  <2>4. QED
    BY <2>2, <2>3
<1>6. CASE Vanished(d)
  <2>1. PICK dead \in BOOLEAN : Leave(d, dead)
    BY <1>6 DEF Vanished
  <2>2. Disp
    BY <2>1, LeaveTyped
  <2>3. QED
    BY <1>2, <1>6, <2>2 DEF Vanished
<1>7. CASE Snapshot(d)
  <2>1. LastShip + 1 \in Nat /\ Tagged(cur[d]) \in SUBSET Finds
    BY <1>1, LastShipType DEF Tagged
  <2>2. snap' \in [Issues -> SUBSET Finds]
    BY <1>1, <1>7, <2>1 DEF Snapshot, TypeOK
  <2>3. /\ dpc' \in [Dispatchers -> {"idle", "loop", "snapshot", "number", "send"}]
        /\ num' \in [Dispatchers -> Nat]
        /\ \A x \in Dispatchers : cur[x] = None <=> dpc'[x] \in {"idle", "loop"}
    BY <1>1, <1>7, <2>1 DEF Snapshot, TypeOK
  <2>4. TypeOK'
    BY <1>1, <1>7, <2>2, <2>3 DEF TypeOK, Snapshot, findVars, editorSide
  <2>5. QED
    BY <1>7, <2>4 DEF Typed, Snapshot, editorSide
<1>8. CASE AssignNumber(d)
  <2>1. ship' \in [Issues -> Nat] /\ label' \in [Issues -> Nat \X Nat]
    BY <1>1, <1>8 DEF AssignNumber, TypeOK
  <2>2. /\ dpc' \in [Dispatchers -> {"idle", "loop", "snapshot", "number", "send"}]
        /\ rcpt' \in [Dispatchers -> SUBSET Subs]
        /\ \A x \in Dispatchers : cur[x] = None <=> dpc'[x] \in {"idle", "loop"}
    BY <1>1, <1>8 DEF AssignNumber, TypeOK
  <2>3. TypeOK'
    BY <1>1, <1>8, <2>1, <2>2 DEF TypeOK, AssignNumber, findVars, editorSide
  <2>4. QED
    BY <1>8, <2>3 DEF Typed, AssignNumber, editorSide
<1>9. CASE NumberCollides(d)
  <2>1. cur[d] \in Issues
    BY <1>9 DEF NumberCollides, Rows
  <2>2. CASE tries[d] + 1 < Attempts
    <3>1. LastShip + 1 \in Nat
      BY <1>1, LastShipType
    <3>2. tries' \in [Dispatchers -> 0..(Attempts - 1)] /\ num' \in [Dispatchers -> Nat]
      <4>1. /\ tries \in [Dispatchers -> 0..(Attempts - 1)] /\ num \in [Dispatchers -> Nat]
            /\ tries' = [tries EXCEPT ![d] = tries[d] + 1]
            /\ num' = [num EXCEPT ![d] = LastShip + 1]
        BY <1>1, <1>9, <2>2 DEF NumberCollides, TypeOK
      <4>2. tries[d] + 1 \in 0..(Attempts - 1)
        BY <2>2, <4>1
      <4>3. tries' \in [Dispatchers -> 0..(Attempts - 1)]
        BY <4>1, <4>2
      <4>4. num' \in [Dispatchers -> Nat]
        BY <3>1, <4>1
      <4>5. QED
        BY <4>3, <4>4
    <3>3. UNCHANGED <<issueVars, dpc, due, cur, rcpt, findVars, editorSide, faults, mails>>
      BY <1>9, <2>2 DEF NumberCollides
    <3>4. TypeOK'
      BY <1>1, <3>2, <3>3 DEF TypeOK, issueVars, findVars, editorSide
    <3>5. QED
      BY <3>3, <3>4 DEF Typed, issueVars, editorSide
  <2>3. CASE ~(tries[d] + 1 < Attempts)
    <3>1. Revert(cur[d]) /\ Leave(d, FALSE) /\ UNCHANGED <<findVars, editorSide, faults, mails>>
      BY <1>9, <2>3 DEF NumberCollides
    <3>2. QED
      BY <1>1, <1>3, <2>1, <3>1 DEF TypeOK
  <2>4. QED
    BY <2>2, <2>3
<1>10. ASSUME NEW u \in Subs, NEW ok \in BOOLEAN, Mail(d, u, ok) PROVE Typed'
  <2>1. rcpt' \in [Dispatchers -> SUBSET Subs]
    BY <1>1, <1>10 DEF Mail, TypeOK
  <2>2. mails' \in [Issues -> [Subs -> Nat]]
    BY <1>1, <1>10 DEF Mail, TypeOK
  <2>3. TypeOK'
    BY <1>1, <1>10, <2>1, <2>2 DEF TypeOK, Mail, issueVars, findVars, editorSide
  <2>4. QED
    BY <1>10, <2>3 DEF Typed, Mail, issueVars, editorSide
<1>11. CASE FinishSend(d)
  <2>1. Disp
    BY <1>11, LeaveTyped DEF FinishSend
  <2>2. cur[d] \in Issues
    BY <1>11 DEF FinishSend, Rows
  <2>3. pending' \subseteq Finds /\ published' \subseteq Finds
    BY <1>1, <1>11, <2>2 DEF FinishSend, TypeOK, Tagged
  <2>4. /\ status' \in [Issues -> Statuses]
        /\ \A k \in Issues : status'[k] = "approved" => status[k] = "approved"
    BY <1>1, <1>11 DEF FinishSend, Statuses
  <2>5. TypeOK'
    BY <1>1, <1>11, <2>1, <2>3, <2>4 DEF TypeOK, FinishSend, editorSide
  <2>6. QED
    BY <1>11, <2>4, <2>5 DEF Typed, FinishSend, editorSide
<1>12. CASE Fault(d)
  <2>1. faults' \in 0..MaxFaults
    BY <1>1, <1>12 DEF Fault, TypeOK
  <2>2. cur[d] \in Issues
    BY <1>1, <1>12 DEF Fault, TypeOK
  <2>3. CASE Revert(cur[d]) /\ Leave(d, FALSE)
    BY <1>3, <1>12, <2>1, <2>2, <2>3 DEF Fault
  <2>4. ASSUME NEW dead \in BOOLEAN, UNCHANGED issueVars, Leave(d, dead) PROVE Typed'
    <3>1. Disp
      BY <2>4, LeaveTyped
    <3>2. TypeOK'
      BY <1>1, <1>12, <2>1, <2>4, <3>1 DEF Fault, TypeOK, issueVars, findVars, editorSide
    <3>3. QED
      BY <1>12, <2>4, <3>2 DEF Fault, Typed, issueVars, editorSide
  <2>5. QED
    BY <1>12, <2>3, <2>4 DEF Fault
<1>13. QED
  BY <1>4, <1>5, <1>6, <1>7, <1>8, <1>9, <1>10, <1>11, <1>12 DEF Working

\* A crash and the start after it keep the types.
LEMMA CrashTyped ==
  ASSUME Typed, Crash
  PROVE  Typed'
<1>1. TypeOK
  BY DEF Typed
<1>2. /\ dpc' \in [Dispatchers -> {"idle", "loop", "snapshot", "number", "send"}]
      /\ due' \in [Dispatchers -> SUBSET Issues]
      /\ cur' \in [Dispatchers -> Issues \cup {None}]
      /\ \A x \in Dispatchers : cur'[x] = None <=> dpc'[x] \in {"idle", "loop"}
      /\ num' \in [Dispatchers -> Nat]
      /\ tries' \in [Dispatchers -> 0..(Attempts - 1)]
      /\ rcpt' \in [Dispatchers -> SUBSET Subs]
  BY DEF Crash
<1>3. job' \in [Editors -> JobRecs] /\ \A x \in Editors : JobShape(job'[x])
  BY IdleType DEF Crash
<1>4. faults' \in 0..MaxFaults
  BY <1>1 DEF Crash, TypeOK
<1>5. CASE CatchupFinds = {}
  <2>1. TypeOK'
    BY <1>1, <1>2, <1>4, <1>5 DEF Crash, TypeOK, issueVars
  <2>2. QED
    BY <1>3, <1>5, <2>1 DEF Crash, Typed, issueVars
<1>6. CASE CatchupFinds # {}
  <2>1. AssignCatchup /\ NewIssue \in Issues /\ NextLabel \in Nat \X Nat
    BY <1>1, <1>6, NewIssueIs, NextLabelType DEF Crash, AssignCatchup
  <2>2. tag' \in [Finds -> Issues \cup {None}]
    BY <1>1, <2>1 DEF AssignCatchup, TypeOK
  <2>3. /\ status' \in [Issues -> Statuses] /\ label' \in [Issues -> Nat \X Nat]
        /\ snap' \in [Issues -> SUBSET Finds] /\ UNCHANGED <<sched, unpub, ship>>
        /\ \A k \in Issues : status'[k] = "approved" => status[k] = "approved"
    BY <1>1, <2>1 DEF AssignCatchup, Insert, Statuses, TypeOK
  <2>4. TypeOK'
    BY <1>1, <1>2, <1>4, <2>2, <2>3 DEF Crash, TypeOK
  <2>5. QED
    BY <1>3, <2>3, <2>4 DEF Crash, Typed
<1>7. QED
  BY <1>5, <1>6

\* The types are inductive.
LEMMA TypedStep == Typed /\ [Next]_vars => Typed'
<1> SUFFICES ASSUME Typed, [Next]_vars PROVE Typed'
  OBVIOUS
<1>1. CASE UNCHANGED vars
  BY <1>1 DEF Typed, TypeOK, vars, issueVars, findVars, dispVars
<1>2. QED
  BY <1>1, CuratorTyped, EditorTyped, AdminTyped, WorkingTyped, CrashTyped DEF Next

\* So they hold initially.
LEMMA TypedInit == Init => Typed
<1> SUFFICES ASSUME Init PROVE Typed
  OBVIOUS
<1>1. /\ status \in [Issues -> Statuses] /\ sched \in [Issues -> {"none", "future", "due"}]
      /\ unpub \subseteq Issues /\ ship \in [Issues -> Nat] /\ label \in [Issues -> Nat \X Nat]
      /\ snap \in [Issues -> SUBSET Finds]
  BY DEF Init, Statuses
<1>2. /\ tag \in [Finds -> Issues \cup {None}] /\ pending \subseteq Finds
      /\ dismissed \subseteq Finds /\ published \subseteq Finds /\ active \subseteq Subs
  BY DEF Init
<1>3. /\ dpc \in [Dispatchers -> {"idle", "loop", "snapshot", "number", "send"}]
      /\ due \in [Dispatchers -> SUBSET Issues]
      /\ cur \in [Dispatchers -> Issues \cup {None}]
      /\ \A x \in Dispatchers : cur[x] = None <=> dpc[x] \in {"idle", "loop"}
      /\ num \in [Dispatchers -> Nat] /\ tries \in [Dispatchers -> 0..(Attempts - 1)]
      /\ rcpt \in [Dispatchers -> SUBSET Subs]
  BY DEF Init
<1>4. /\ faults \in 0..MaxFaults /\ mails \in [Issues -> [Subs -> Nat]]
      /\ licence \in [Issues -> 0..MaxApprovals] /\ crossed \subseteq Finds
  BY DEF Init
<1>5. job \in [Editors -> JobRecs] /\ \A e \in Editors : JobShape(job[e])
  BY IdleType DEF Init
<1>6. \A i \in Issues : status[i] # "approved"
  BY DEF Init
<1>7. QED
  BY <1>1, <1>2, <1>3, <1>4, <1>5, <1>6 DEF Typed, TypeOK

\* Every variable of the pipeline keeps its type, and a dispatcher is on an
\* issue exactly from its flip to the end of its send loop (_dispatch_issue).
THEOREM NewsletterTypeCorrect == Spec => []TypeOK
<1>1. Spec => []Typed
  BY TypedInit, TypedStep, PTL DEF Spec
<1>2. Typed => TypeOK
  BY DEF Typed
<1>3. QED
  BY <1>1, <1>2, PTL
-----------------------------------------------------------------------------
(* Mails and approvals *)

\* A dispatcher that may still mail issue i to u.
Holds(d, i, u) ==
  /\ cur[d] = i
  /\ dpc[d] \in {"snapshot", "number"} \/ (dpc[d] = "send" /\ u \in rcpt[d])

Holders(i, u) == {d \in Dispatchers : Holds(d, i, u)}

Unused(i) == IF status[i] = "approved" THEN 1 ELSE 0

\* Every mail sent, every mail a dispatcher may still send and an approval
\* nobody has taken yet are paid for by an approval of their own.
Funded ==
  \A i \in Issues, u \in Subs :
    mails[i][u] + Cardinality(Holders(i, u)) + Unused(i) <= licence[i]

\* No issue becomes approved or starts to be sent.
Aside ==
  \A i \in Issues : status'[i] = status[i] \/ status'[i] \notin {"approved", "sending"}

\* Requests of editors neither approve, nor send, nor touch a dispatcher.
LEMMA EditorsAside ==
  ASSUME Typed, NEW e \in Editors, Editor(e) \/ Curator(e)
  PROVE  Aside /\ UNCHANGED <<dispVars, mails, licence, faults>>
<1>1. status \in [Issues -> Statuses]
  BY DEF Typed, TypeOK
<1>2. ASSUME NEW st \in {"draft", "skipped", "awaiting_approval"}, NEW l, NEW F,
             Insert(st, l, F)
      PROVE  Aside
  BY <1>1, <1>2 DEF Insert, Aside
<1>3. CASE UNCHANGED issueVars
  <2>1. Aside
    BY <1>3 DEF Aside, issueVars
  <2>2. QED
    BY <2>1 DEF Editor, Curator, CreateRead, CreateInsert, CreateCollides, PopulateWrite,
      ComposeRead, ComposeInsert, AssignRead, AssignWrite, FindRead, DismissWrite, QueueWrite,
      UnpublishRead, UnpublishWrite, DeleteRead, DeleteWrite
<1>4. CASE CreateInsert(e)
  <2>1. Insert("draft", job[e].label, {})
    BY <1>4 DEF CreateInsert
  <2>2. QED
    BY <1>2, <1>4, <2>1 DEF CreateInsert
<1>5. CASE ComposeInsert(e) /\ ~UNCHANGED issueVars
  <2> DEFINE st == IF job[e].finds = {} /\ ~job[e].flag THEN "skipped" ELSE "awaiting_approval"
  <2>1. Insert(st, job[e].label, job[e].finds)
    BY <1>5 DEF ComposeInsert
  <2>2. st \in {"draft", "skipped", "awaiting_approval"}
    OBVIOUS
  <2> HIDE DEF st
  <2>3. Aside
    BY <1>2, <2>1, <2>2
  <2>4. QED
    BY <1>5, <2>3 DEF ComposeInsert
<1>6. CASE UnpublishWrite(e) \/ DeleteWrite(e)
  <2>1. /\ UNCHANGED <<dispVars, mails, licence, faults>>
        /\ \/ status' = status
           \/ status' = [status EXCEPT ![job[e].issue] = "awaiting_approval"]
           \/ status' = [status EXCEPT ![job[e].issue] = "deleted"]
    BY <1>6 DEF UnpublishWrite, DeleteWrite
  <2>2. Aside
    BY <1>1, <2>1 DEF Aside
  <2>3. QED
    BY <2>1, <2>2
<1>7. UNCHANGED issueVars \/ CreateInsert(e) \/ ComposeInsert(e) \/ UnpublishWrite(e)
        \/ DeleteWrite(e)
  BY DEF Editor, Curator, CreateRead, CreateCollides, PopulateWrite,
      ComposeRead, AssignRead, AssignWrite, FindRead, DismissWrite, QueueWrite,
      UnpublishRead, DeleteRead
<1>8. QED
  BY <1>3, <1>4, <1>5, <1>6, <1>7

\* Sets of dispatchers have a size.
LEMMA HoldersCount ==
  ASSUME NEW i \in Issues, NEW u \in Subs
  PROVE  /\ IsFiniteSet(Holders(i, u)) /\ Cardinality(Holders(i, u)) \in Nat
         /\ IsFiniteSet(Holders(i, u)') /\ Cardinality(Holders(i, u)') \in Nat
         /\ Holders(i, u)' \subseteq Holders(i, u)
              => Cardinality(Holders(i, u)') <= Cardinality(Holders(i, u))
<1>1. Holders(i, u) \subseteq Dispatchers /\ Holders(i, u)' \subseteq Dispatchers
  BY DEF Holders
<1>2. IsFiniteSet(Holders(i, u)) /\ IsFiniteSet(Holders(i, u)')
  BY <1>1, FS_Subset
<1>3. QED
  BY <1>2, FS_Subset, FS_CardinalityType

\* A step that approves nothing, mails nothing and lets no dispatcher take
\* anything up keeps the balance.
LEMMA FundedKeeps ==
  ASSUME Typed, Funded, UNCHANGED <<mails, licence>>,
         \A i \in Issues : status'[i] = "approved" => status[i] = "approved",
         \A i \in Issues, u \in Subs : Holders(i, u)' \subseteq Holders(i, u)
  PROVE  Funded'
<1> SUFFICES ASSUME NEW i \in Issues, NEW u \in Subs
    PROVE  mails'[i][u] + Cardinality(Holders(i, u)') + Unused(i)' <= licence'[i]
  BY DEF Funded
<1>1. mails[i][u] \in Nat /\ licence[i] \in Nat
  BY DEF Typed, TypeOK
<1>2. Unused(i) \in Nat /\ Unused(i)' \in Nat /\ Unused(i)' <= Unused(i)
  BY DEF Unused
<1>3. mails[i][u] + Cardinality(Holders(i, u)) + Unused(i) <= licence[i]
  BY DEF Funded
<1>4. mails'[i][u] = mails[i][u] /\ licence'[i] = licence[i]
  OBVIOUS
<1>5. QED
  BY <1>1, <1>2, <1>3, <1>4, HoldersCount

\* Approvals and cancellations keep the balance.
LEMMA AdminFunded ==
  ASSUME Typed, Funded, NEW i \in Issues, Approve(i) \/ CancelSend(i)
  PROVE  Funded'
<1> SUFFICES ASSUME NEW k \in Issues, NEW u \in Subs
    PROVE  mails'[k][u] + Cardinality(Holders(k, u)') + Unused(k)' <= licence'[k]
  BY DEF Funded
<1>1. mails[k][u] \in Nat /\ licence \in [Issues -> Nat] /\ status \in [Issues -> Statuses]
  BY DEF Typed, TypeOK
<1>2. Holders(k, u)' = Holders(k, u) /\ mails' = mails
  BY DEF Approve, CancelSend, dispVars, Holders, Holds
<1>3. mails[k][u] + Cardinality(Holders(k, u)) + Unused(k) <= licence[k]
  BY DEF Funded
<1>4. Cardinality(Holders(k, u)) \in Nat
  BY HoldersCount
<1>5. licence'[k] - Unused(k)' = licence[k] - Unused(k) /\ licence'[k] \in Int
      /\ Unused(k) \in Nat /\ Unused(k)' \in Nat
  <2>1. CASE k = i
    BY <1>1, <2>1 DEF Approve, CancelSend, Unused
  <2>2. CASE k # i
    BY <1>1, <2>2 DEF Approve, CancelSend, Unused
  <2>3. QED
    BY <2>1, <2>2
<1>6. QED
  BY <1>1, <1>2, <1>3, <1>4, <1>5

\* The steps of a dispatcher keep the balance.
LEMMA WorkingFunded ==
  ASSUME Typed, Funded, NEW d \in Dispatchers, Working(d) \/ Fault(d)
  PROVE  Funded'
<1>1. /\ status \in [Issues -> Statuses] /\ licence \in [Issues -> Nat]
      /\ mails \in [Issues -> [Subs -> Nat]]
      /\ dpc \in [Dispatchers -> {"idle", "loop", "snapshot", "number", "send"}]
      /\ cur \in [Dispatchers -> Issues \cup {None}]
      /\ rcpt \in [Dispatchers -> SUBSET Subs]
      /\ \A x \in Dispatchers : cur[x] = None <=> dpc[x] \in {"idle", "loop"}
  BY DEF Typed, TypeOK
<1>2. ASSUME NEW dead \in BOOLEAN, Leave(d, dead)
      PROVE  \A i \in Issues, u \in Subs : Holders(i, u)' \subseteq Holders(i, u)
  BY <1>1, <1>2 DEF Leave, Holders, Holds
<1>3. ASSUME NEW i \in Issues, Revert(i)
      PROVE  \A k \in Issues : status'[k] = "approved" => status[k] = "approved"
  BY <1>1, <1>3 DEF Revert
<1>4. CASE Collect(d) \/ Done(d)
  <2>1. \A i \in Issues, u \in Subs : Holders(i, u)' \subseteq Holders(i, u)
    BY <1>1, <1>4 DEF Collect, Done, Holders, Holds
  <2>2. QED
    BY <1>4, <2>1, FundedKeeps DEF Collect, Done, issueVars, editorSide
<1>5. CASE Vanished(d)
  <2>1. PICK dead \in BOOLEAN : Leave(d, dead)
    BY <1>5 DEF Vanished
  <2>2. QED
    BY <1>2, <1>5, <2>1, FundedKeeps DEF Vanished, issueVars, editorSide
<1>6. CASE Snapshot(d)
  <2>1. \A i \in Issues, u \in Subs : Holders(i, u)' \subseteq Holders(i, u)
    BY <1>1, <1>6 DEF Snapshot, Holders, Holds
  <2>2. QED
    BY <1>6, <2>1, FundedKeeps DEF Snapshot, editorSide
<1>7. CASE AssignNumber(d)
  <2>1. \A i \in Issues, u \in Subs : Holders(i, u)' \subseteq Holders(i, u)
    BY <1>1, <1>7 DEF AssignNumber, Holders, Holds
  <2>2. QED
    BY <1>7, <2>1, FundedKeeps DEF AssignNumber, editorSide
<1>8. CASE NumberCollides(d)
  <2>1. cur[d] \in Issues
    BY <1>8 DEF NumberCollides, Rows
  <2>2. CASE tries[d] + 1 < Attempts
    <3>1. UNCHANGED <<issueVars, dpc, cur, rcpt, mails, editorSide>>
      BY <1>8, <2>2 DEF NumberCollides
    <3>2. \A i \in Issues, u \in Subs : Holders(i, u)' \subseteq Holders(i, u)
      BY <3>1 DEF Holders, Holds
    <3>3. QED
      BY <3>1, <3>2, FundedKeeps DEF issueVars, editorSide
  <2>3. CASE ~(tries[d] + 1 < Attempts)
    <3>1. Revert(cur[d]) /\ Leave(d, FALSE) /\ UNCHANGED <<mails, licence>>
      BY <1>8, <2>3 DEF NumberCollides, editorSide
    <3>2. QED
      BY <1>2, <1>3, <2>1, <3>1, FundedKeeps
  <2>4. QED
    BY <2>2, <2>3
<1>9. CASE FinishSend(d)
  <2>1. \A k \in Issues : status'[k] = "approved" => status[k] = "approved"
    BY <1>1, <1>9 DEF FinishSend
  <2>2. QED
    BY <1>2, <1>9, <2>1, FundedKeeps DEF FinishSend, editorSide
<1>10. CASE Fault(d)
  <2>1. PICK dead \in BOOLEAN : Leave(d, dead)
    BY <1>10 DEF Fault
  <2>2. cur[d] \in Issues
    BY <1>1, <1>10 DEF Fault
  <2>3. \A k \in Issues : status'[k] = "approved" => status[k] = "approved"
    BY <1>3, <1>10, <2>2 DEF Fault, issueVars
  <2>4. QED
    BY <1>2, <1>10, <2>1, <2>3, FundedKeeps DEF Fault, editorSide
<1>11. ASSUME NEW i \in Issues, Take(d, i) PROVE Funded'
  <2>1. CASE status[i] # "approved"
    <3>1. UNCHANGED <<status, dpc, cur, rcpt, mails, licence>>
      BY <1>11, <2>1 DEF Take, editorSide
    <3>2. \A k \in Issues, u \in Subs : Holders(k, u)' \subseteq Holders(k, u)
      BY <3>1 DEF Holders, Holds
    <3>3. QED
      BY <3>1, <3>2, FundedKeeps
  <2>2. CASE status[i] = "approved"
    <3> SUFFICES ASSUME NEW k \in Issues, NEW u \in Subs
        PROVE  mails'[k][u] + Cardinality(Holders(k, u)') + Unused(k)' <= licence'[k]
      BY DEF Funded
    <3>1. /\ status' = [status EXCEPT ![i] = "sending"] /\ dpc' = [dpc EXCEPT ![d] = "snapshot"]
          /\ cur' = [cur EXCEPT ![d] = i] /\ dpc[d] = "loop"
          /\ UNCHANGED <<rcpt, mails, licence>>
      BY <1>11, <2>2 DEF Take, editorSide
    <3>2. mails[k][u] + Cardinality(Holders(k, u)) + Unused(k) <= licence[k]
      BY DEF Funded
    <3>3. mails[k][u] \in Nat /\ licence[k] \in Nat /\ Cardinality(Holders(k, u)) \in Nat
      BY <1>1, HoldersCount
    <3>4. CASE k = i
      <4>1. d \notin Holders(k, u) /\ Holders(k, u)' = Holders(k, u) \union {d}
        BY <1>1, <3>1, <3>4 DEF Holders, Holds
      <4>2. Cardinality(Holders(k, u)') = Cardinality(Holders(k, u)) + 1
        BY <4>1, HoldersCount, FS_AddElement
      <4>3. Unused(k) = 1 /\ Unused(k)' = 0
        BY <1>1, <2>2, <3>1, <3>4 DEF Unused
      <4>4. QED
        BY <3>1, <3>2, <3>3, <4>2, <4>3
    <3>5. CASE k # i
      <4>1. Holders(k, u)' = Holders(k, u)
        BY <1>1, <3>1, <3>5 DEF Holders, Holds
      <4>2. Unused(k)' = Unused(k)
        BY <1>1, <3>1, <3>5 DEF Unused
      <4>3. QED
        BY <3>1, <3>2, <4>1, <4>2
    <3>6. QED
      BY <3>4, <3>5
  <2>3. QED
    BY <2>1, <2>2
<1>12. ASSUME NEW u \in Subs, NEW ok \in BOOLEAN, Mail(d, u, ok) PROVE Funded'
  <2>1. /\ dpc[d] = "send" /\ u \in rcpt[d] /\ rcpt' = [rcpt EXCEPT ![d] = rcpt[d] \ {u}]
        /\ UNCHANGED <<status, licence, dpc, cur>>
    BY <1>12 DEF Mail, issueVars, editorSide
  <2>2. cur[d] \in Issues
    BY <1>1, <2>1
  <2>3. CASE ~ok
    <3>1. mails' = mails
      BY <1>12, <2>3 DEF Mail
    <3>2. \A k \in Issues, v \in Subs : Holders(k, v)' \subseteq Holders(k, v)
      BY <1>1, <2>1 DEF Holders, Holds
    <3>3. QED
      BY <2>1, <3>1, <3>2, FundedKeeps
  <2>4. CASE ok
    <3> SUFFICES ASSUME NEW k \in Issues, NEW v \in Subs
        PROVE  mails'[k][v] + Cardinality(Holders(k, v)') + Unused(k)' <= licence'[k]
      BY DEF Funded
    <3>1. mails' = [mails EXCEPT ![cur[d]][u] = @ + 1]
      BY <1>12, <2>4 DEF Mail
    <3>2. mails[k][v] + Cardinality(Holders(k, v)) + Unused(k) <= licence[k]
      BY DEF Funded
    <3>3. mails[k][v] \in Nat /\ licence[k] \in Nat /\ Cardinality(Holders(k, v)) \in Nat
          /\ Cardinality(Holders(k, v)') \in Nat /\ Unused(k) \in Nat /\ Unused(k)' = Unused(k)
      BY <1>1, <2>1, HoldersCount DEF Unused
    <3>4. CASE k = cur[d] /\ v = u
      <4>1. d \in Holders(k, v) /\ Holders(k, v)' = Holders(k, v) \ {d}
        BY <1>1, <2>1, <3>4 DEF Holders, Holds
      <4>2. Cardinality(Holders(k, v)') = Cardinality(Holders(k, v)) - 1
        <5>1. IsFiniteSet(Holders(k, v))
          BY HoldersCount
        <5>2. Cardinality(Holders(k, v) \ {d}) = Cardinality(Holders(k, v)) - 1
          BY <4>1, <5>1, FS_RemoveElement
        <5>3. QED
          BY <4>1, <5>2
      <4>3. mails'[k][v] = mails[k][v] + 1
        BY <1>1, <3>1, <3>4
      <4>4. QED
        BY <2>1, <3>2, <3>3, <4>2, <4>3
    <3>5. CASE ~(k = cur[d] /\ v = u)
      <4>1. Holders(k, v)' = Holders(k, v)
        BY <1>1, <2>1, <3>5 DEF Holders, Holds
      <4>2. mails'[k][v] = mails[k][v]
        BY <1>1, <3>1, <3>5
      <4>3. QED
        BY <2>1, <3>2, <3>3, <4>1, <4>2
    <3>6. QED
      BY <3>4, <3>5
  <2>5. QED
    BY <2>3, <2>4
<1>13. QED
  BY <1>4, <1>5, <1>6, <1>7, <1>8, <1>9, <1>10, <1>11, <1>12 DEF Working

\* So every step keeps it.
LEMMA FundedStep ==
  ASSUME Typed, Funded, [Next]_vars
  PROVE  Funded'
<1>1. ASSUME UNCHANGED <<dispVars, mails, licence>>,
             \A i \in Issues : status'[i] = "approved" => status[i] = "approved"
      PROVE  Funded'
  <2>1. \A i \in Issues, u \in Subs : Holders(i, u)' \subseteq Holders(i, u)
    BY <1>1 DEF Holders, Holds, dispVars
  <2>2. QED
    BY <1>1, <2>1, FundedKeeps
<1>2. CASE UNCHANGED vars
  BY <1>1, <1>2 DEF vars, issueVars
<1>3. ASSUME NEW e \in Editors, Editor(e) \/ Curator(e) PROVE Funded'
  BY <1>1, <1>3, EditorsAside DEF Aside
<1>4. ASSUME NEW i \in Issues, ComesDue(i) PROVE Funded'
  BY <1>1, <1>4 DEF ComesDue
<1>5. ASSUME NEW u \in Subs, Subscribe(u) \/ Unsubscribe(u) PROVE Funded'
  BY <1>1, <1>5 DEF Subscribe, Unsubscribe, issueVars
<1>6. CASE Crash
  <2>1. \A i \in Issues, u \in Subs : Holders(i, u)' \subseteq Holders(i, u)
    BY <1>6 DEF Crash, Holders, Holds
  <2>2. \A i \in Issues : status'[i] = "approved" => status[i] = "approved"
    BY <1>6 DEF Crash, AssignCatchup, Insert, issueVars, Typed, TypeOK
  <2>3. QED
    BY <1>6, <2>1, <2>2, FundedKeeps DEF Crash
<1>7. QED
  BY <1>2, <1>3, <1>4, <1>5, <1>6, AdminFunded, WorkingFunded DEF Next

\* Nobody is mailed an issue more often than the operator approved it and did
\* not cancel, whatever dispatchers, unpublications and crashes do
\* (_dispatch_issue's flip, cancel_scheduled_send).
THEOREM MailsAreApproved == Spec => []SendsAreApproved
<1>1. Init => Funded
  <2> SUFFICES ASSUME Init, NEW i \in Issues, NEW u \in Subs
      PROVE  mails[i][u] + Cardinality(Holders(i, u)) + Unused(i) <= licence[i]
    BY DEF Funded
  <2>1. Holders(i, u) = {}
    BY DEF Init, Holders, Holds
  <2>2. mails[i][u] = 0 /\ licence[i] = 0 /\ Unused(i) = 0
    BY DEF Init, Unused
  <2>3. QED
    BY <2>1, <2>2, FS_EmptySet
<1>2. Typed /\ Funded => SendsAreApproved
  <2> SUFFICES ASSUME Typed, Funded, NEW i \in Issues, NEW u \in Subs
      PROVE  mails[i][u] <= licence[i]
    BY DEF SendsAreApproved
  <2>1. mails[i][u] \in Nat /\ licence[i] \in Nat /\ Unused(i) \in Nat
    BY DEF Typed, TypeOK, Unused
  <2>2. mails[i][u] + Cardinality(Holders(i, u)) + Unused(i) <= licence[i]
    BY DEF Funded
  <2>3. QED
    BY <2>1, <2>2, HoldersCount
<1>3. QED
  BY <1>1, <1>2, TypedInit, TypedStep, FundedStep, PTL DEF Spec

-----------------------------------------------------------------------------
(* Issues in sending *)

\* An issue in sending has its dispatcher, unless something failed.
Attended ==
  faults > 0 \/ \A i \in Issues : status[i] = "sending" => \E d \in Dispatchers : cur[d] = i

\* A dispatcher's step leaves no issue in sending behind.
LEMMA WorkingAttended ==
  ASSUME Typed, Attended, NEW d \in Dispatchers, Working(d)
  PROVE  Attended'
<1> SUFFICES ASSUME faults = 0, NEW i \in Issues, status'[i] = "sending"
    PROVE  \E x \in Dispatchers : cur'[x] = i
  <2>1. faults' = faults
    BY DEF Working, Collect, Take, Vanished, Snapshot, AssignNumber, NumberCollides, Mail,
      FinishSend, Done
  <2>2. faults \in Nat
    BY DEF Typed, TypeOK
  <2>3. QED
    BY <2>1, <2>2 DEF Attended
<1>1. /\ status \in [Issues -> Statuses] /\ cur \in [Dispatchers -> Issues \cup {None}]
      /\ \A x \in Dispatchers : cur[x] = None <=> dpc[x] \in {"idle", "loop"}
  BY DEF Typed, TypeOK
<1>2. status[i] = "sending" => \E x \in Dispatchers : cur[x] = i
  BY DEF Attended
<1>3. ASSUME NEW dead \in BOOLEAN, Leave(d, dead), status[i] = "sending", cur[d] # i
      PROVE  \E x \in Dispatchers : cur'[x] = i
  BY <1>1, <1>2, <1>3 DEF Leave
<1>4. CASE Collect(d) \/ Done(d) \/ Snapshot(d) \/ AssignNumber(d)
             \/ \E u \in Subs, ok \in BOOLEAN : Mail(d, u, ok)
  <2>1. UNCHANGED <<status, cur>>
    BY <1>4 DEF Collect, Done, Snapshot, AssignNumber, Mail, issueVars
  <2>2. QED
    BY <1>2, <2>1
<1>5. ASSUME NEW k \in Issues, Take(d, k) PROVE \E x \in Dispatchers : cur'[x] = i
  <2>1. CASE status[k] = "approved"
    <3>1. /\ cur' = [cur EXCEPT ![d] = k] /\ status' = [status EXCEPT ![k] = "sending"]
          /\ cur[d] = None
      BY <1>1, <1>5, <2>1 DEF Take
    <3>2. CASE k = i
      BY <1>1, <3>1, <3>2
    <3>3. CASE k # i
      BY <1>1, <1>2, <3>1, <3>3
    <3>4. QED
      BY <3>2, <3>3
  <2>2. CASE status[k] # "approved"
    BY <1>2, <1>5, <2>2 DEF Take
  <2>3. QED
    BY <2>1, <2>2
<1>6. CASE Vanished(d)
  <2>1. PICK dead \in BOOLEAN : Leave(d, dead)
    BY <1>6 DEF Vanished
  <2>2. status[i] = "sending" /\ cur[d] # i
    BY <1>6 DEF Vanished, issueVars, Rows
  <2>3. QED
    BY <1>3, <2>1, <2>2
<1>7. CASE NumberCollides(d)
  <2>1. CASE tries[d] + 1 < Attempts
    BY <1>2, <1>7, <2>1 DEF NumberCollides, issueVars
  <2>2. CASE ~(tries[d] + 1 < Attempts)
    <3>1. status' = [status EXCEPT ![cur[d]] = "awaiting_approval"] /\ Leave(d, FALSE)
      BY <1>7, <2>2 DEF NumberCollides, Revert
    <3>2. status[i] = "sending" /\ cur[d] # i
      BY <1>1, <3>1
    <3>3. QED
      BY <1>3, <3>1, <3>2
  <2>3. QED
    BY <2>1, <2>2
<1>8. CASE FinishSend(d)
  <2>1. status' = [status EXCEPT ![cur[d]] = "sent"] /\ Leave(d, FALSE)
    BY <1>8 DEF FinishSend
  <2>2. status[i] = "sending" /\ cur[d] # i
    BY <1>1, <2>1
  <2>3. QED
    BY <1>3, <2>1, <2>2
<1>9. QED
  BY <1>4, <1>5, <1>6, <1>7, <1>8 DEF Working

\* Nothing else leaves one behind either, a fault excepted.
LEMMA AttendedStep ==
  ASSUME Typed, Attended, [Next]_vars
  PROVE  Attended'
<1>1. ASSUME UNCHANGED <<cur, faults>>,
             \A i \in Issues : status'[i] = "sending" => status[i] = "sending"
      PROVE  Attended'
  BY <1>1 DEF Attended
<1>2. CASE UNCHANGED vars
  BY <1>1, <1>2 DEF vars, issueVars, dispVars
<1>3. ASSUME NEW e \in Editors, Editor(e) \/ Curator(e) PROVE Attended'
  BY <1>1, <1>3, EditorsAside DEF Aside, dispVars
<1>4. ASSUME NEW i \in Issues, Approve(i) \/ CancelSend(i) \/ ComesDue(i) PROVE Attended'
  BY <1>1, <1>4 DEF Approve, CancelSend, ComesDue, dispVars, Typed, TypeOK
<1>5. ASSUME NEW u \in Subs, Subscribe(u) \/ Unsubscribe(u) PROVE Attended'
  BY <1>1, <1>5 DEF Subscribe, Unsubscribe, issueVars, dispVars
<1>6. CASE Crash \/ \E d \in Dispatchers : Fault(d)
  <2>1. faults' > 0
    <3>1. faults \in Nat
      BY DEF Typed, TypeOK
    <3>2. faults' = faults + 1
      BY <1>6 DEF Crash, Fault
    <3>3. QED
      BY <3>1, <3>2
  <2>2. QED
    BY <2>1 DEF Attended
<1>7. QED
  BY <1>2, <1>3, <1>4, <1>5, <1>6, WorkingAttended DEF Next

\* "a collision cannot strand an issue in `sending`"
\* (_assign_ship_number_with_retry): only a crash or a failed write does.
THEOREM OnlyFaultsStrand == Spec => []StrandedOnlyByFault
<1>1. Init => Attended
  BY DEF Init, Attended
<1>2. Typed /\ Attended => StrandedOnlyByFault
  BY DEF Attended, StrandedOnlyByFault
<1>3. QED
  BY <1>1, <1>2, TypedInit, TypedStep, AttendedStep, PTL DEF Spec

-----------------------------------------------------------------------------
(* Finds and issues *)

\* What a request has read is still true of what it alone will write.
Fresh(j, rows, tags, pend, dis, crs) ==
  LET own == j.finds \ crs IN
  /\ j.op \in {"populate", "assign"} /\ own # {} => j.issue \in rows \cup {None}
  /\ j.op = "populate" => own \cap dis = {}
  /\ j.op \in {"assign", "queue"} => own \cap dis \subseteq j.dis
  /\ j.op = "dismiss" => own \cap pend \subseteq j.pend
  /\ j.op = "delete" => {f \in Finds : tags[f] = j.issue} \subseteq j.finds \cup crs

AllFresh ==
  \A e \in Editors : Fresh(job[e], Rows, tag, pending, dismissed, crossed)

\* What two requests would write over one another is known.
Apart ==
  \A x, y \in Editors : x # y => Clash(job[x], job[y]) \subseteq crossed

\* Coherent, with what a proof of it needs.
Curated == FindsCoherent /\ AllFresh /\ Apart

\* Steps that take no row away, tag and dismiss nothing and queue nothing.
Keeping ==
  /\ Rows \subseteq Rows' /\ UNCHANGED <<tag, dismissed>> /\ pending' \subseteq pending
  /\ crossed \subseteq crossed'

\* What such a step finds fresh stays so.
LEMMA FreshKept ==
  ASSUME Keeping, NEW j, Fresh(j, Rows, tag, pending, dismissed, crossed)
  PROVE  Fresh(j, Rows', tag', pending', dismissed', crossed')
BY DEF Keeping, Fresh

\* And it keeps what is coherent.
LEMMA CoherentKept ==
  ASSUME Curated, Keeping
  PROVE  FindsCoherent'
BY DEF Keeping, Curated, FindsCoherent

\* A step of nobody's request keeps finds and issues coherent.
LEMMA CuratedKept ==
  ASSUME Curated, Keeping, UNCHANGED job
  PROVE  Curated'
<1>1. AllFresh'
  BY FreshKept DEF Curated, AllFresh
<1>2. Apart'
  BY DEF Curated, Apart, Keeping
<1>3. QED
  BY <1>1, <1>2, CoherentKept DEF Curated

\* A request that has ended has nothing to write.
LEMMA IdleFresh ==
  /\ \A rows, tags, pend, dis, crs : Fresh(Idle, rows, tags, pend, dis, crs)
  /\ \A k : Clash(Idle, k) = {} /\ Clash(k, Idle) = {}
<1>1. Idle.op = "idle" /\ Idle.finds = {}
  BY DEF Idle
<1>2. Writes(Idle) = {} /\ \A k : Orphans(Idle, k) = {} /\ Orphans(k, Idle) = {}
  BY <1>1 DEF Writes, Orphans
<1>3. QED
  BY <1>1, <1>2 DEF Fresh, Clash

\* A request that goes on leaves the others what is theirs.
LEMMA TurnApart ==
  ASSUME Typed, Apart, NEW e \in Editors, NEW j, Turn(e, j)
  PROVE  Apart' /\ crossed \subseteq crossed' /\ job' = [job EXCEPT ![e] = j]
<1>1. /\ job \in [Editors -> JobRecs] /\ job' = [job EXCEPT ![e] = j]
      /\ crossed \subseteq crossed'
      /\ \A x \in Editors \ {e} : Clash(j, job[x]) \subseteq crossed'
  BY DEF Typed, Turn
<1>2. \A k, m : Clash(k, m) = Clash(m, k)
  BY DEF Clash
<1>3. ASSUME NEW x \in Editors, NEW y \in Editors, x # y
      PROVE  Clash(job'[x], job'[y]) \subseteq crossed'
  <2>1. CASE x = e
    BY <1>1, <1>3, <2>1
  <2>2. CASE y = e
    BY <1>1, <1>2, <1>3, <2>2
  <2>3. CASE x # e /\ y # e
    BY <1>1, <1>3, <2>3 DEF Apart
  <2>4. QED
    BY <2>1, <2>2, <2>3
<1>4. QED
  BY <1>1, <1>3 DEF Apart

\* Nor does one that ends.
LEMMA FinishApart ==
  ASSUME Typed, Apart, NEW e \in Editors, Finish(e)
  PROVE  Apart' /\ crossed' = crossed /\ job' = [job EXCEPT ![e] = Idle]
<1>1. /\ job \in [Editors -> JobRecs] /\ job' = [job EXCEPT ![e] = Idle]
      /\ crossed' = crossed
  BY DEF Typed, Finish
<1>2. ASSUME NEW x \in Editors, NEW y \in Editors, x # y
      PROVE  Clash(job'[x], job'[y]) \subseteq crossed'
  BY <1>1, <1>2, IdleFresh DEF Apart
<1>3. QED
  BY <1>1, <1>2 DEF Apart

\* A row that changes its status without being deleted stays a row.
LEMMA RowsStay ==
  ASSUME status \in [Issues -> Statuses], NEW i, NEW st \in Statuses \ {"none", "deleted"},
         status' = [status EXCEPT ![i] = st]
  PROVE  Rows \subseteq Rows'
BY DEF Rows

\* Dispatchers, approvals and subscribers take no row away and write no tag.
LEMMA OthersKeep ==
  ASSUME Typed,
         \/ \E i \in Issues : Approve(i) \/ CancelSend(i) \/ ComesDue(i)
         \/ \E u \in Subs : Subscribe(u) \/ Unsubscribe(u)
         \/ \E d \in Dispatchers : Working(d) \/ Fault(d)
  PROVE  Keeping /\ UNCHANGED job
<1>1. status \in [Issues -> Statuses]
  BY DEF Typed, TypeOK
<1>2. ASSUME UNCHANGED status PROVE Rows \subseteq Rows'
  BY <1>2 DEF Rows
<1>3. ASSUME NEW i, Revert(i) PROVE Rows \subseteq Rows'
  BY <1>1, <1>3, RowsStay DEF Revert, Statuses
<1>4. ASSUME NEW i \in Issues, Approve(i) \/ CancelSend(i) \/ ComesDue(i)
      PROVE Keeping /\ UNCHANGED job
  <2>1. Rows \subseteq Rows'
    BY <1>1, <1>2, <1>4, RowsStay DEF Approve, CancelSend, ComesDue, Statuses
  <2>2. QED
    BY <1>4, <2>1 DEF Approve, CancelSend, ComesDue, Keeping, findVars
<1>5. ASSUME NEW u \in Subs, Subscribe(u) \/ Unsubscribe(u) PROVE Keeping /\ UNCHANGED job
  BY <1>2, <1>5 DEF Subscribe, Unsubscribe, Keeping, issueVars, findVars
<1>6. ASSUME NEW d \in Dispatchers, Working(d) \/ Fault(d) PROVE Keeping /\ UNCHANGED job
  <2>1. /\ UNCHANGED <<tag, dismissed, job, crossed>> /\ pending' \subseteq pending
    BY <1>6 DEF Working, Fault, Collect, Take, Vanished, Snapshot, AssignNumber,
      NumberCollides, Mail, FinishSend, Done, findVars, editorSide
  <2>2. CASE UNCHANGED status \/ Revert(cur[d])
    BY <1>2, <1>3, <2>1, <2>2 DEF Keeping
  <2>3. CASE FinishSend(d) \/ \E i \in Issues : Take(d, i)
    <3>1. CASE FinishSend(d)
      <4>1. status' = [status EXCEPT ![cur[d]] = "sent"]
        BY <3>1 DEF FinishSend
      <4>2. QED
        BY <1>1, <2>1, <4>1, RowsStay DEF Statuses, Keeping
    <3>2. ASSUME NEW i \in Issues, Take(d, i) PROVE Keeping
      <4>1. UNCHANGED status \/ status' = [status EXCEPT ![i] = "sending"]
        BY <3>2 DEF Take
      <4>2. Rows \subseteq Rows'
        BY <1>1, <1>2, <4>1, RowsStay DEF Statuses
      <4>3. QED
        BY <2>1, <4>2 DEF Keeping
    <3>3. QED
      BY <2>1, <2>3, <3>1, <3>2
  <2>4. \/ UNCHANGED status \/ Revert(cur[d]) \/ FinishSend(d) \/ \E i \in Issues : Take(d, i)
    BY <1>6 DEF Working, Fault, Collect, Vanished, Snapshot, AssignNumber,
      NumberCollides, Mail, Done, issueVars
  <2>5. QED
    BY <2>1, <2>2, <2>3, <2>4 DEF Keeping
<1>7. QED
  BY <1>4, <1>5, <1>6

\* A new issue is one more row.
LEMMA InsertKeeps ==
  ASSUME Typed, CanCreate, NEW st \in {"draft", "skipped", "awaiting_approval"}, NEW l, NEW F,
         Insert(st, l, F)
  PROVE  Rows \subseteq Rows' /\ NewIssue \in Rows'
<1>1. status \in [Issues -> Statuses] /\ NewIssue \in Issues
  BY NewIssueIs DEF Typed, TypeOK
<1>2. status' = [status EXCEPT ![NewIssue] = st]
  BY DEF Insert
<1>3. QED
  BY <1>1, <1>2, RowsStay DEF Rows, Statuses

\* A request that goes on keeps finds and issues coherent.
LEMMA TurnKeeps ==
  ASSUME Typed, Curated, NEW e \in Editors, NEW j, Turn(e, j),
         Rows \subseteq Rows', UNCHANGED findVars,
         Fresh(j, Rows', tag', pending', dismissed', crossed')
  PROVE  Curated'
<1>1. job \in [Editors -> JobRecs] /\ job' = [job EXCEPT ![e] = j]
  BY DEF Typed, Turn
<1>2. Apart' /\ Keeping
  BY TurnApart DEF Curated, Keeping, findVars
<1>3. ASSUME NEW x \in Editors
      PROVE  Fresh(job'[x], Rows', tag', pending', dismissed', crossed')
  <2>1. CASE x = e
    BY <1>1, <2>1
  <2>2. CASE x # e
    <3>1. job'[x] = job[x] /\ Fresh(job[x], Rows, tag, pending, dismissed, crossed)
      BY <1>1, <2>2 DEF Curated, AllFresh
    <3>2. QED
      BY <1>2, <3>1, FreshKept
  <2>3. QED
    BY <2>1, <2>2
<1>4. QED
  BY <1>2, <1>3, CoherentKept DEF Curated, AllFresh

\* The request of e writes its own finds, and deletes no row but its own.
Writing(e) ==
  LET own == Writes(job[e]) IN
  /\ \A f \in Finds :
       tag'[f] = tag[f] \/ (f \in own /\ tag'[f] \in {None, job[e].issue})
  /\ pending' \subseteq pending \cup own /\ dismissed' \subseteq dismissed \cup own
  /\ \/ Rows \subseteq Rows'
     \/ job[e].op = "delete" /\ Rows \ {job[e].issue} \subseteq Rows'

\* What another request has read stays fresh.
LEMMA OthersFresh ==
  ASSUME Typed, Curated, NEW e \in Editors, NEW x \in Editors, x # e,
         Writing(e), crossed' = crossed
  PROVE  Fresh(job[x], Rows', tag', pending', dismissed', crossed')
<1> DEFINE j == job[x]
           k == job[e]
           own == j.finds \ crossed
<1>1. /\ j \in JobRecs /\ JobShape(j) /\ None \notin Issues
      /\ Fresh(j, Rows, tag, pending, dismissed, crossed)
      /\ Clash(k, j) \subseteq crossed
  BY NewsletterAssumption DEF Typed, Curated, AllFresh, Apart
<1>2. /\ \A f \in Finds :
           tag'[f] = tag[f] \/ (f \in Writes(k) /\ tag'[f] \in {None, k.issue})
      /\ pending' \subseteq pending \cup Writes(k)
      /\ dismissed' \subseteq dismissed \cup Writes(k)
      /\ \/ Rows \subseteq Rows'
         \/ k.op = "delete" /\ Rows \ {k.issue} \subseteq Rows'
  BY DEF Writing
<1> HIDE DEF j, k
<1>3. j.op # "compose" => Writes(j) = j.finds
  BY DEF Writes
<1>4. j.op # "compose" => own \cap Writes(k) = {}
  BY <1>1, <1>3 DEF Clash
<1>5. j.op # "compose" => own \cap dismissed' \subseteq dismissed
                          /\ own \cap pending' \subseteq pending
  BY <1>2, <1>4
<1>6. ASSUME j.op \in {"populate", "assign"}, own # {} PROVE j.issue \in Rows' \cup {None}
  <2>1. j.issue \in Rows \cup {None}
    BY <1>1, <1>6 DEF Fresh
  <2>2. ASSUME k.op = "delete", k.issue = j.issue PROVE FALSE
    <3>1. Orphans(k, j) = j.finds
      BY <1>3, <1>6, <2>2 DEF Orphans
    <3>2. QED
      BY <1>1, <1>6, <3>1 DEF Clash
  <2>3. QED
    BY <1>2, <2>1, <2>2
<1>7. ASSUME j.op = "delete", NEW f \in Finds, tag'[f] = j.issue
      PROVE  f \in j.finds \cup crossed
  <2>1. CASE tag[f] = j.issue
    BY <1>1, <1>7, <2>1 DEF Fresh
  <2>2. CASE tag[f] # j.issue
    <3>1. f \in Writes(k) /\ k.issue = j.issue
      BY <1>1, <1>2, <1>7, <2>2 DEF JobShape
    <3>2. f \in Orphans(j, k)
      BY <1>7, <3>1 DEF Orphans
    <3>3. QED
      BY <1>1, <3>2 DEF Clash
  <2>3. QED
    BY <2>1, <2>2
<1>8. Fresh(j, Rows', tag', pending', dismissed', crossed)
  <2>1. /\ j.op = "populate" => own \cap dismissed' = {}
        /\ j.op \in {"assign", "queue"} => own \cap dismissed' \subseteq j.dis
        /\ j.op = "dismiss" => own \cap pending' \subseteq j.pend
    BY <1>1, <1>5 DEF Fresh
  <2>2. j.op = "delete" => {f \in Finds : tag'[f] = j.issue} \subseteq j.finds \cup crossed
    BY <1>7
  <2>3. QED
    BY <1>6, <2>1, <2>2 DEF Fresh
<1>9. QED
  BY <1>8 DEF j

\* A request that ends on a coherent database keeps it so.
LEMMA FinishKeeps ==
  ASSUME Typed, Curated, NEW e \in Editors, Finish(e), Writing(e), FindsCoherent'
  PROVE  Curated'
<1>1. job \in [Editors -> JobRecs] /\ job' = [job EXCEPT ![e] = Idle] /\ crossed' = crossed
  BY DEF Typed, Finish
<1>2. ASSUME NEW x \in Editors
      PROVE  Fresh(job'[x], Rows', tag', pending', dismissed', crossed')
  <2>1. CASE x = e
    BY <1>1, <2>1, IdleFresh
  <2>2. CASE x # e
    <3>1. job'[x] = job[x]
      BY <1>1, <2>2
    <3>2. QED
      BY <1>1, <2>2, <3>1, OthersFresh
  <2>3. QED
    BY <2>1, <2>2
<1>3. QED
  BY <1>2, FinishApart DEF Curated, AllFresh

\* Editors keep finds and issues coherent.
LEMMA EditorCurated ==
  ASSUME Typed, Curated, NEW e \in Editors,
         Editor(e) \/ CreateRead(e, TRUE)
  PROVE  Curated'
<1>1. status \in [Issues -> Statuses] /\ job[e] \in JobRecs /\ job \in [Editors -> JobRecs]
  BY DEF Typed, TypeOK
<1>2. ASSUME UNCHANGED status PROVE Rows \subseteq Rows'
  BY <1>2 DEF Rows
<1>3. ASSUME NEW j, j.op \notin {"populate", "assign", "dismiss", "queue", "delete"},
             Turn(e, j), UNCHANGED findVars, Rows \subseteq Rows'
      PROVE  Curated'
  BY <1>3, TurnKeeps DEF Fresh
<1>4. ASSUME Rows \subseteq Rows', UNCHANGED findVars, Finish(e) PROVE Curated'
  <2>1. Keeping /\ Writing(e)
    BY <1>4 DEF Keeping, Writing, Finish, findVars
  <2>2. QED
    BY <1>4, <2>1, CoherentKept, FinishKeeps
<1>5. ASSUME NEW auto \in BOOLEAN, CreateRead(e, auto) PROVE  Curated'
  <2> DEFINE j == [Idle EXCEPT !.op = "create", !.label = NextLabel, !.flag = auto]
  <2>1. j.op = "create"
    BY DEF Idle
  <2>2. Turn(e, j) /\ UNCHANGED <<status, findVars>>
    BY <1>5 DEF CreateRead, Start, issueVars
  <2> HIDE DEF j
  <2>3. QED
    BY <1>2, <1>3, <2>1, <2>2
<1>6. CASE CreateInsert(e)
  <2>1. CanCreate /\ Insert("draft", job[e].label, {}) /\ UNCHANGED findVars
    BY <1>6 DEF CreateInsert
  <2>2. Rows \subseteq Rows' /\ NewIssue \in Rows'
    BY <2>1, InsertKeeps
  <2>3. ASSUME NEW F \in SUBSET Eligible,
               Turn(e, [Idle EXCEPT !.op = "populate", !.issue = NewIssue, !.finds = F])
        PROVE  Curated'
    <3> DEFINE j == [Idle EXCEPT !.op = "populate", !.issue = NewIssue, !.finds = F]
    <3>1. j.op = "populate" /\ j.issue = NewIssue /\ j.finds = F
      BY DEF Idle
    <3>2. Turn(e, j)
      BY <2>3
    <3> HIDE DEF j
    <3>3. F \cap dismissed' = {}
      BY <2>1 DEF Eligible, findVars
    <3>4. Fresh(j, Rows', tag', pending', dismissed', crossed')
      BY <2>2, <3>1, <3>3 DEF Fresh
    <3>5. QED
      BY <2>1, <2>2, <3>2, <3>4, TurnKeeps
  <2>4. QED
    BY <1>4, <1>6, <2>1, <2>2, <2>3 DEF CreateInsert
<1>7. CASE CreateCollides(e)
  <2>1. Rows \subseteq Rows' /\ UNCHANGED findVars /\ job[e].op = "create"
    BY <1>2, <1>7 DEF CreateCollides, issueVars
  <2>2. CASE Finish(e)
    BY <1>4, <2>1, <2>2
  <2>3. CASE Turn(e, [job[e] EXCEPT !.tries = @ + 1, !.label = NextLabel])
    <3> DEFINE j == [job[e] EXCEPT !.tries = @ + 1, !.label = NextLabel]
    <3>1. j.op = "create" /\ Turn(e, j)
      BY <1>1, <2>1, <2>3 DEF JobRecs
    <3> HIDE DEF j
    <3>2. QED
      BY <1>3, <2>1, <3>1
  <2>4. QED
    BY <1>7, <2>2, <2>3 DEF CreateCollides
<1>8. ASSUME NEW force \in BOOLEAN, ComposeRead(e, force) PROVE Curated'
  <2> DEFINE j == [Idle EXCEPT !.op = "compose", !.label = NextLabel,
                               !.finds = pending \ dismissed, !.flag = force]
  <2>1. j.op = "compose"
    BY DEF Idle
  <2>2. Turn(e, j) /\ UNCHANGED <<status, findVars>>
    BY <1>8 DEF ComposeRead, Start, issueVars
  <2> HIDE DEF j
  <2>3. QED
    BY <1>2, <1>3, <2>1, <2>2
<1>9. CASE ComposeInsert(e)
  <2>1. Rows \subseteq Rows'
    <3>1. CASE UNCHANGED issueVars
      BY <1>2, <3>1 DEF issueVars
    <3>2. CASE ~UNCHANGED issueVars
      <4> DEFINE st == IF job[e].finds = {} /\ ~job[e].flag THEN "skipped" ELSE "awaiting_approval"
      <4>1. CanCreate /\ Insert(st, job[e].label, job[e].finds)
        BY <1>9, <3>2 DEF ComposeInsert
      <4>2. st \in {"draft", "skipped", "awaiting_approval"}
        OBVIOUS
      <4> HIDE DEF st
      <4>3. QED
        BY <4>1, <4>2, InsertKeeps
    <3>3. QED
      BY <3>1, <3>2
  <2>2. QED
    BY <1>4, <1>9, <2>1 DEF ComposeInsert
<1>10. ASSUME NEW i \in Issues, UnpublishRead(e, i) PROVE Curated'
  <2> DEFINE j == [Idle EXCEPT !.op = "unpublish", !.issue = i, !.read = status[i]]
  <2>1. j.op = "unpublish"
    BY DEF Idle
  <2>2. Turn(e, j) /\ UNCHANGED <<status, findVars>>
    BY <1>10 DEF UnpublishRead, Start, issueVars
  <2> HIDE DEF j
  <2>3. QED
    BY <1>2, <1>3, <2>1, <2>2
<1>11. CASE UnpublishWrite(e)
  <2>1. status' = status \/ status' = [status EXCEPT ![job[e].issue] = "awaiting_approval"]
    BY <1>11 DEF UnpublishWrite
  <2>2. Rows \subseteq Rows'
    <3>1. CASE status' = status
      BY <3>1 DEF Rows
    <3>2. CASE status' = [status EXCEPT ![job[e].issue] = "awaiting_approval"]
      BY <1>1, <3>2, RowsStay DEF Statuses
    <3>3. QED
      BY <2>1, <3>1, <3>2
  <2>3. UNCHANGED findVars /\ Finish(e)
    BY <1>11 DEF UnpublishWrite
  <2>4. QED
    BY <1>4, <2>2, <2>3
<1>12. QED
  BY <1>5, <1>6, <1>7, <1>8, <1>9, <1>10, <1>11 DEF Editor

\* Curators keep finds and issues coherent.
LEMMA CuratorCurated ==
  ASSUME Typed, Curated, NEW e \in Editors, Curator(e)
  PROVE  Curated'
<1> DEFINE own == job[e].finds \ crossed
<1>1. /\ status \in [Issues -> Statuses] /\ job[e] \in JobRecs /\ JobShape(job[e])
      /\ tag \in [Finds -> Issues \cup {None}]
      /\ Fresh(job[e], Rows, tag, pending, dismissed, crossed)
      /\ \A f \in Finds \ crossed : tag[f] # None => tag[f] \in Rows
      /\ pending \cap dismissed \subseteq crossed
  BY DEF Typed, TypeOK, Curated, AllFresh, FindsCoherent
<1>2. ASSUME UNCHANGED status PROVE Rows' = Rows
  BY <1>2 DEF Rows
<1>3. ASSUME job[e].op # "compose" PROVE Writes(job[e]) = job[e].finds
  BY <1>3 DEF Writes
<1>4. CASE CreateRead(e, TRUE)
  BY <1>4, EditorCurated
<1>5. ASSUME NEW f \in Finds, NEW i \in Issues \cup {None}, AssignRead(e, f, i) PROVE Curated'
  <2> DEFINE a == [Idle EXCEPT !.op = "assign", !.issue = i, !.read = tag[f]]
             j == ReadFinds(a, {f})
  <2>1. a \in JobRecs /\ a.op = "assign" /\ a.issue = i
    BY <1>1, IdleType DEF JobRecs
  <2>2. Turn(e, j) /\ UNCHANGED <<status, findVars>>
    BY <1>5 DEF AssignRead, Start, issueVars
  <2>3. i = None \/ i \in Rows
    BY <1>5 DEF AssignRead
  <2> HIDE DEF a
  <2>4. j.op = "assign" /\ j.issue = i /\ j.finds = {f} /\ j.dis = {f} \cap dismissed
    BY <2>1, ReadFindsType
  <2> HIDE DEF j
  <2>5. Fresh(j, Rows', tag', pending', dismissed', crossed')
    BY <1>2, <2>2, <2>3, <2>4 DEF Fresh, findVars
  <2>6. QED
    BY <1>2, <2>2, <2>5, TurnKeeps
<1>6. ASSUME NEW f \in Finds, NEW op \in {"dismiss", "restore", "queue"}, FindRead(e, f, op)
      PROVE Curated'
  <2> DEFINE a == [Idle EXCEPT !.op = op]
             j == ReadFinds(a, {f})
  <2>1. a \in JobRecs /\ a.op = op
    BY IdleType DEF JobRecs
  <2>2. Turn(e, j) /\ UNCHANGED <<status, findVars>>
    BY <1>6 DEF FindRead, Start, issueVars
  <2> HIDE DEF a
  <2>3. /\ j.op = op /\ j.finds = {f} /\ j.dis = {f} \cap dismissed
        /\ j.pend = {f} \cap pending
    BY <2>1, ReadFindsType
  <2> HIDE DEF j
  <2>4. Fresh(j, Rows', tag', pending', dismissed', crossed')
    BY <2>2, <2>3 DEF Fresh, findVars
  <2>5. QED
    BY <1>2, <2>2, <2>4, TurnKeeps
<1>7. ASSUME NEW i \in Issues, DeleteRead(e, i) PROVE Curated'
  <2> DEFINE a == [Idle EXCEPT !.op = "delete", !.issue = i, !.read = status[i]]
             j == ReadFinds(a, Tagged(i))
  <2>1. a \in JobRecs /\ a.op = "delete" /\ a.issue = i
    BY <1>1, IdleType DEF JobRecs
  <2>2. Turn(e, j) /\ UNCHANGED <<status, findVars>>
    BY <1>7 DEF DeleteRead, Start, issueVars
  <2> HIDE DEF a
  <2>3. j.op = "delete" /\ j.issue = i /\ j.finds = Tagged(i)
    BY <2>1, ReadFindsType DEF Tagged
  <2> HIDE DEF j
  <2>4. Fresh(j, Rows', tag', pending', dismissed', crossed')
    BY <2>2, <2>3 DEF Fresh, Tagged, findVars
  <2>5. QED
    BY <1>2, <2>2, <2>4, TurnKeeps
<1>8. CASE PopulateWrite(e)
  <2>1. /\ own # {} => job[e].issue \in Rows \cup {None}
        /\ own \cap dismissed = {} /\ Rows' = Rows
        /\ tag' = [f \in Finds |-> IF f \in job[e].finds THEN job[e].issue ELSE tag[f]]
        /\ pending' = pending \cup job[e].finds /\ dismissed' = dismissed
        /\ Finish(e) /\ crossed' = crossed /\ Writes(job[e]) = job[e].finds
    BY <1>1, <1>2, <1>3, <1>8 DEF PopulateWrite, Fresh, Finish, issueVars
  <2>2. FindsCoherent'
    BY <1>1, <2>1 DEF FindsCoherent
  <2>3. Writing(e)
    BY <2>1 DEF Writing
  <2>4. QED
    BY <2>1, <2>2, <2>3, FinishKeeps
<1>9. CASE AssignWrite(e)
  <2>1. /\ own # {} => job[e].issue \in Rows \cup {None}
        /\ own \cap dismissed \subseteq job[e].dis /\ Rows' = Rows
        /\ Finish(e) /\ crossed' = crossed /\ Writes(job[e]) = job[e].finds
    BY <1>1, <1>2, <1>3, <1>9 DEF AssignWrite, Fresh, Finish, issueVars
  <2>2. \/ tag' = tag
        \/ tag' = [f \in Finds |-> IF f \in job[e].finds THEN job[e].issue ELSE tag[f]]
    BY <1>9 DEF AssignWrite
  <2>3. /\ \/ pending' \subseteq pending
           \/ pending' \subseteq pending \cup job[e].finds /\ dismissed' = dismissed \ job[e].dis
        /\ dismissed' \subseteq dismissed
    BY <1>9 DEF AssignWrite
  <2>4. FindsCoherent'
    <3>1. \A f \in Finds \ crossed : tag'[f] # None => tag'[f] \in Rows'
      BY <1>1, <2>1, <2>2
    <3>2. pending' \cap dismissed' \subseteq crossed'
      BY <1>1, <2>1, <2>3
    <3>3. QED
      BY <2>1, <3>1, <3>2 DEF FindsCoherent
  <2>5. Writing(e)
    BY <2>1, <2>2, <2>3 DEF Writing
  <2>6. QED
    BY <2>1, <2>4, <2>5, FinishKeeps
<1>10. CASE DismissWrite(e) \/ QueueWrite(e)
  <2>1. /\ Rows' = Rows /\ tag' = tag
        /\ Finish(e) /\ crossed' = crossed /\ Writes(job[e]) = job[e].finds
    BY <1>2, <1>3, <1>10 DEF DismissWrite, QueueWrite, Finish, issueVars
  <2>2. pending' \cap dismissed' \subseteq crossed
    <3>1. CASE DismissWrite(e)
      BY <1>1, <3>1 DEF DismissWrite, Fresh
    <3>2. CASE QueueWrite(e)
      BY <1>1, <3>2 DEF QueueWrite, Fresh
    <3>3. QED
      BY <1>10, <3>1, <3>2
  <2>3. pending' \subseteq pending \cup job[e].finds /\ dismissed' \subseteq dismissed \cup job[e].finds
    BY <1>10 DEF DismissWrite, QueueWrite
  <2>4. FindsCoherent' /\ Writing(e)
    BY <1>1, <2>1, <2>2, <2>3 DEF FindsCoherent, Writing
  <2>5. QED
    BY <2>1, <2>4, FinishKeeps
<1>11. CASE DeleteWrite(e)
  <2>1. /\ {f \in Finds : tag[f] = job[e].issue} \subseteq job[e].finds \cup crossed
        /\ tag' = [f \in Finds |-> IF f \in job[e].finds THEN None ELSE tag[f]]
        /\ status' = [status EXCEPT ![job[e].issue] = "deleted"]
        /\ pending' \subseteq pending /\ dismissed' = dismissed /\ job[e].op = "delete"
        /\ Finish(e) /\ crossed' = crossed /\ Writes(job[e]) = job[e].finds
    BY <1>1, <1>3, <1>11 DEF DeleteWrite, Fresh, Finish
  <2>2. Rows \ {job[e].issue} \subseteq Rows'
    BY <1>1, <2>1 DEF Rows
  <2>3. \A f \in Finds \ crossed : tag'[f] # None => tag'[f] \in Rows'
    BY <1>1, <2>1, <2>2
  <2>4. FindsCoherent' /\ Writing(e)
    BY <1>1, <2>1, <2>2, <2>3 DEF FindsCoherent, Writing
  <2>5. QED
    BY <2>1, <2>4, FinishKeeps
<1>12. QED
  BY <1>4, <1>5, <1>6, <1>7, <1>8, <1>9, <1>10, <1>11 DEF Curator

\* So does a crash, whose restart tags queued finds onto a draft of its own.
LEMMA CrashCurated ==
  ASSUME Typed, Curated, Crash
  PROVE  Curated'
<1>1. AllFresh' /\ Apart'
  BY IdleFresh DEF Crash, AllFresh, Apart
<1>2. UNCHANGED <<pending, dismissed, crossed>>
  BY DEF Crash
<1>3. CASE CatchupFinds = {}
  <2>1. UNCHANGED <<status, tag>>
    BY <1>3 DEF Crash, issueVars
  <2>2. QED
    BY <1>1, <1>2, <2>1 DEF Curated, FindsCoherent, Rows
<1>4. CASE CatchupFinds # {}
  <2>1. AssignCatchup
    BY <1>4 DEF Crash
  <2>2. Rows \subseteq Rows' /\ NewIssue \in Rows'
    BY <2>1, InsertKeeps DEF AssignCatchup
  <2>3. \A f \in Finds \ crossed : tag'[f] # None => tag'[f] \in Rows'
    BY <2>1, <2>2 DEF AssignCatchup, Curated, FindsCoherent
  <2>4. QED
    BY <1>1, <1>2, <2>3 DEF Curated, FindsCoherent
<1>5. QED
  BY <1>3, <1>4

\* However operators, the daily cycle, dispatchers and restarts interleave, a find
\* that only one request at a time was about to write is never left tagged to an
\* issue that is gone, and never queued and dismissed at once (delete_issue,
\* set_find_dismissed, assign_find_to_issue, create_manual_find,
\* auto_populate_draft).
THEOREM CuratorsKeepCoherent == Spec => []FindsCoherent
<1>1. Init => Curated
  <2> SUFFICES ASSUME Init PROVE Curated
    OBVIOUS
  <2>1. AllFresh /\ Apart
    BY IdleFresh DEF Init, AllFresh, Apart
  <2>2. FindsCoherent
    BY DEF Init, FindsCoherent
  <2>3. QED
    BY <2>1, <2>2 DEF Curated
<1>2. Typed /\ Curated /\ [Next]_vars => Curated'
  <2> SUFFICES ASSUME Typed, Curated, [Next]_vars PROVE Curated'
    OBVIOUS
  <2>1. CASE UNCHANGED vars
    <3>1. Keeping /\ UNCHANGED job
      BY <2>1 DEF vars, issueVars, findVars, Keeping, Rows
    <3>2. QED
      BY <3>1, CuratedKept
  <2>2. ASSUME NEW e \in Editors, Editor(e) \/ Curator(e) PROVE Curated'
    BY <2>2, EditorCurated, CuratorCurated
  <2>3. QED
    BY <2>1, <2>2, OthersKeep, CuratedKept, CrashCurated DEF Next
<1>3. Curated => FindsCoherent
  BY DEF Curated
<1>4. QED
  BY <1>1, <1>2, <1>3, TypedInit, TypedStep, PTL DEF Spec
=============================================================================
