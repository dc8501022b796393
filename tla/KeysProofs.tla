----------------------------- MODULE KeysProofs ------------------------------
(***************************************************************************)
(* For any providers, routes, deployments and concurrent requests: the     *)
(* live routes follow the key store.  For any number of checks and any     *)
(* course of the clock: the alert of the failed validations goes out, and  *)
(* concurrent checks send no more than one each.                           *)
(***************************************************************************)
EXTENDS Keys, KeyMonitor, FiniteSetTheorems, TLAPS

-----------------------------------------------------------------------------
(* The monitor: the invariant *)

USE MonitorAssumption

CheckSet == [at : {"none", "record", "count", "dedup", "send", "mark"},
             p : Watched \cup {Nobody}, stamp : Nat]

\* No check works with a time that is still to come, and an alert on record or
\* about to be was sent.
MonitorBase ==
  /\ MonitorTypeOK
  /\ \A q \in Checks : check[q] = NoCheck \/
       (check[q].p \in Watched /\ check[q].at # "none" /\ check[q].stamp <= now)
  /\ \A q \in Checks : check[q].at = "mark" => check[q].stamp <= latest[check[q].p]
  /\ \A p \in Watched : counted[p] <= now /\ alert[p] <= latest[p] /\ IsFiniteSet(failed[p])

\* The checks of p that will still see to an alert of the last count's hour
Pending(p) ==
  {q \in Busy(p) : \/ check[q].at = "count"
                   \/ check[q].at \in {"dedup", "send"} /\ check[q].stamp > counted[p] - Hour}

\* An alert that is due is out, or somebody's business.
SeenTo(p) ==
  p \notin missed /\ Cardinality(Recent(p, counted[p])) >= Threshold
    => latest[p] > counted[p] - Hour \/ Pending(p) # {}

Sending(p) == {q \in Busy(p) : check[q].at = "send"}
Marking(p) == {q \in Busy(p) : check[q].at = "mark"}

\* While no alert of the hour is on record every alert sent has its sender
\* waiting to record it; afterwards only those past the look still send.
Sparing(p) ==
  /\ ~Fresh(alert[p], now) => sent[p] <= Cardinality(Marking(p)) + loose[p]
  /\ Fresh(alert[p], now) =>
       sent[p] + Cardinality(Sending(p)) <= Cardinality(Checks) + loose[p]

MonitorInv == MonitorBase /\ \A p \in Watched : SeenTo(p) /\ Sparing(p)

LEMMA NoCheckIs ==
  NoCheck \in CheckSet /\ NoCheck.p = Nobody /\ NoCheck.at = "none" /\ Nobody \notin Watched
BY DEF NoCheck, CheckSet

\* A check that stands somewhere is the check of a provider.
LEMMA Standing ==
  ASSUME MonitorBase, NEW q \in Checks, check[q].at # "none"
  PROVE  /\ check[q] \in CheckSet /\ check[q].p \in Watched /\ check[q].stamp \in Nat
         /\ check[q].stamp <= now /\ now \in Nat /\ check \in [Checks -> CheckSet]
<1>1. check \in [Checks -> CheckSet] /\ now \in Nat
  BY DEF MonitorBase, MonitorTypeOK, CheckSet
<1>2. QED
  BY <1>1, NoCheckIs DEF MonitorBase, CheckSet

\* The checks that send or mark are some of the checks.
LEMMA SendersFew ==
  ASSUME NEW p
  PROVE  /\ IsFiniteSet(Sending(p)) /\ IsFiniteSet(Marking(p))
         /\ Cardinality(Sending(p)) \in Nat /\ Cardinality(Marking(p)) \in Nat
         /\ Cardinality(Checks) \in Nat
         /\ Cardinality(Sending(p)) + Cardinality(Marking(p)) <= Cardinality(Checks)
<1>1. /\ Sending(p) \subseteq Checks /\ Marking(p) \subseteq Checks
      /\ Sending(p) \cap Marking(p) = {} /\ Sending(p) \cup Marking(p) \subseteq Checks
  BY DEF Sending, Marking, Busy
<1>2. IsFiniteSet(Sending(p)) /\ IsFiniteSet(Marking(p))
  BY <1>1, FS_Subset
<1>3. /\ Cardinality(Sending(p)) \in Nat /\ Cardinality(Marking(p)) \in Nat
      /\ Cardinality(Checks) \in Nat
  BY <1>2, FS_CardinalityType
<1>4. Cardinality(Sending(p) \cup Marking(p)) <= Cardinality(Checks)
  BY <1>1, FS_Subset
<1>5. /\ Cardinality(Sending(p) \cup Marking(p)) =
           Cardinality(Sending(p)) + Cardinality(Marking(p)) - Cardinality(Sending(p) \cap Marking(p))
      /\ Cardinality(Sending(p) \cap Marking(p)) = 0
  BY <1>1, <1>2, FS_Union, FS_EmptySet
<1>6. QED
  BY <1>2, <1>3, <1>4, <1>5

\* One element more or less.
LEMMA OneMore ==
  ASSUME NEW S, IsFiniteSet(S), NEW q
  PROVE  /\ q \notin S => Cardinality(S \cup {q}) = Cardinality(S) + 1
         /\ q \in S => Cardinality(S \ {q}) = Cardinality(S) - 1
         /\ Cardinality(S) \in Nat
         /\ q \in S => Cardinality(S) >= 1
<1>1. Cardinality(S) \in Nat
  BY FS_CardinalityType
<1>2. q \notin S => Cardinality(S \cup {q}) = Cardinality(S) + 1
  BY FS_AddElement
<1>3. q \in S => Cardinality(S \ {q}) = Cardinality(S) - 1
  BY FS_RemoveElement
<1>4. q \in S => Cardinality(S \ {q}) \in Nat
  BY FS_RemoveElement, FS_CardinalityType
<1>5. QED
  BY <1>1, <1>2, <1>3, <1>4

Ind(b) == IF b THEN 1 ELSE 0

\* A check of p goes on to x, or ends; what it does to the checks of each provider.
CheckMoves(q, p, x) ==
  /\ check' = [check EXCEPT ![q] = x] /\ x \in CheckSet /\ p = check[q].p
  /\ x = NoCheck \/ (x.p = p /\ x.at # "none" /\ x.stamp <= now)

LEMMA MoveEffect ==
  ASSUME MonitorBase, NEW q \in Checks, check[q].at # "none", NEW p \in Watched, NEW x,
         CheckMoves(q, p, x)
  PROVE  /\ \A g \in Watched \ {p} : Busy(g)' = Busy(g) /\ \A s \in Busy(g) : check'[s] = check[s]
         /\ check' \in [Checks -> CheckSet] /\ check'[q] = x
         /\ \A s \in Checks \ {q} : check'[s] = check[s]
         /\ q \in Busy(p)
         /\ x # NoCheck => Busy(p)' = Busy(p)
         /\ x = NoCheck => Busy(p)' = Busy(p) \ {q} /\ x.at = "none"
         /\ Cardinality(Sending(p)') + Ind(check[q].at = "send") =
              Cardinality(Sending(p)) + Ind(x.at = "send")
         /\ Cardinality(Marking(p)') + Ind(check[q].at = "mark") =
              Cardinality(Marking(p)) + Ind(x.at = "mark")
<1>1. /\ check \in [Checks -> CheckSet] /\ check' = [check EXCEPT ![q] = x] /\ x \in CheckSet
      /\ p = check[q].p
      /\ x # NoCheck => x.p = p
      /\ NoCheck.p # p /\ NoCheck.at = "none"
  BY Standing, NoCheckIs DEF CheckMoves
<1>2. /\ check' \in [Checks -> CheckSet] /\ check'[q] = x
      /\ \A s \in Checks \ {q} : check'[s] = check[s]
  BY <1>1
<1>3. /\ \A g \in Watched \ {p} : Busy(g)' = Busy(g) /\ \A s \in Busy(g) : check'[s] = check[s]
      /\ q \in Busy(p)
      /\ x # NoCheck => Busy(p)' = Busy(p)
      /\ x = NoCheck => Busy(p)' = Busy(p) \ {q} /\ x.at = "none"
  <2>1. ASSUME NEW g \in Watched \ {p}
        PROVE  Busy(g)' = Busy(g) /\ \A s \in Busy(g) : check'[s] = check[s]
    <3>1. check[q].p # g /\ x.p # g
      BY <1>1, NoCheckIs
    <3>2. QED
      BY <1>2, <3>1 DEF Busy
  <2>2. QED
    BY <1>1, <1>2, <2>1 DEF Busy
<1>4. /\ x.at = "send" => Sending(p)' = Sending(p) \cup {q}
      /\ x.at # "send" => Sending(p)' = Sending(p) \ {q}
      /\ q \in Sending(p) <=> check[q].at = "send"
  BY <1>1, <1>2, <1>3 DEF Sending, Busy
<1>5. /\ x.at = "mark" => Marking(p)' = Marking(p) \cup {q}
      /\ x.at # "mark" => Marking(p)' = Marking(p) \ {q}
      /\ q \in Marking(p) <=> check[q].at = "mark"
  BY <1>1, <1>2, <1>3 DEF Marking, Busy
<1>6. ASSUME NEW S, IsFiniteSet(S), NEW T, NEW b \in BOOLEAN, NEW c \in BOOLEAN, q \in S <=> b,
             c => T = S \cup {q}, ~c => T = S \ {q}
      PROVE  Cardinality(T) + Ind(b) = Cardinality(S) + Ind(c)
  <2>1. Cardinality(S) \in Nat
    BY <1>6, OneMore
  <2>2. CASE b /\ c
    <3>1. T = S
      BY <1>6, <2>2
    <3>2. QED
      BY <2>1, <2>2, <3>1 DEF Ind
  <2>3. CASE b /\ ~c
    BY <1>6, <2>1, <2>3, OneMore DEF Ind
  <2>4. CASE ~b /\ c
    BY <1>6, <2>1, <2>4, OneMore DEF Ind
  <2>5. CASE ~b /\ ~c
    <3>1. T = S
      BY <1>6, <2>5
    <3>2. QED
      BY <2>1, <2>5, <3>1 DEF Ind
  <2>6. QED
    BY <2>2, <2>3, <2>4, <2>5
<1>7. IsFiniteSet(Sending(p)) /\ IsFiniteSet(Marking(p))
  BY SendersFew
<1>8. Cardinality(Sending(p)') + Ind(check[q].at = "send") =
        Cardinality(Sending(p)) + Ind(x.at = "send")
  BY <1>4, <1>6, <1>7
<1>9. Cardinality(Marking(p)') + Ind(check[q].at = "mark") =
        Cardinality(Marking(p)) + Ind(x.at = "mark")
  BY <1>5, <1>6, <1>7
<1>10. QED
  BY <1>2, <1>3, <1>8, <1>9

-----------------------------------------------------------------------------
(* The monitor: its steps *)

\* What a step of a check of p leaves alone.
Aside(p) ==
  /\ now' = now
  /\ \A g \in Watched \ {p} :
       /\ failed'[g] = failed[g] /\ alert'[g] = alert[g] /\ counted'[g] = counted[g]
       /\ latest'[g] = latest[g] /\ sent'[g] = sent[g] /\ loose'[g] = loose[g]
       /\ g \in missed' <=> g \in missed

\* A step of a check of p keeps the invariant if it keeps the types and p's part.
LEMMA CheckStepKeeps ==
  ASSUME MonitorInv, NEW q \in Checks, check[q].at # "none", NEW p \in Watched, NEW x,
         CheckMoves(q, p, x), Aside(p),
         failed' \in [Watched -> SUBSET [at : Nat, id : Nat]],
         alert' \in [Watched -> Int], latest' \in [Watched -> Int], counted' \in [Watched -> Nat],
         missed' \subseteq Watched, sent' \in [Watched -> Nat], loose' \in [Watched -> Nat],
         begun' = begun, upsets' \in 0..MaxUpsets,
         counted'[p] <= now, alert'[p] <= latest'[p], IsFiniteSet(failed'[p]),
         latest[p] <= latest'[p], x.at = "mark" => x.stamp <= latest'[p],
         SeenTo(p)', Sparing(p)'
  PROVE  MonitorInv'
<1>1. /\ \A g \in Watched \ {p} : Busy(g)' = Busy(g) /\ \A s \in Busy(g) : check'[s] = check[s]
      /\ check' \in [Checks -> CheckSet] /\ check'[q] = x
      /\ \A s \in Checks \ {q} : check'[s] = check[s]
  BY MoveEffect DEF MonitorInv
<1>2. MonitorBase /\ now' = now
  BY DEF MonitorInv, Aside
<1>3. MonitorTypeOK'
  BY <1>1, <1>2 DEF MonitorBase, MonitorTypeOK, CheckSet
<1>4. \A s \in Checks : check'[s] = NoCheck \/
        (check'[s].p \in Watched /\ check'[s].at # "none" /\ check'[s].stamp <= now')
  BY <1>1, <1>2 DEF MonitorBase, CheckMoves
<1>5. \A g \in Watched : /\ counted'[g] <= now' /\ alert'[g] <= latest'[g]
                         /\ IsFiniteSet(failed'[g])
  BY <1>2 DEF MonitorBase, Aside
<1>9. ASSUME NEW s \in Checks, check'[s].at = "mark"
      PROVE  check'[s].stamp <= latest'[check'[s].p]
  <2>1. CASE s = q
    <3>1. x # NoCheck /\ x.p = p
      BY <1>1, <1>9, <2>1, NoCheckIs DEF CheckMoves
    <3>2. QED
      BY <1>1, <1>9, <2>1, <3>1
  <2>2. CASE s # q
    <3>1. check'[s] = check[s] /\ check[s].at = "mark"
      BY <1>1, <1>9, <2>2
    <3>2. /\ check[s].p \in Watched /\ check[s].stamp \in Nat
          /\ check[s].stamp <= latest[check[s].p]
      BY <1>2, <3>1, Standing DEF MonitorBase
    <3>3. latest \in [Watched -> Int]
      BY <1>2 DEF MonitorBase, MonitorTypeOK
    <3>4. CASE check[s].p = p
      <4>1. latest[p] \in Int /\ latest'[p] \in Int
        BY <3>3
      <4>2. QED
        BY <3>1, <3>2, <3>4, <4>1
    <3>5. CASE check[s].p # p
      BY <3>1, <3>2, <3>5 DEF Aside
    <3>6. QED
      BY <3>4, <3>5
  <2>3. QED
    BY <2>1, <2>2
<1>6. MonitorBase'
  BY <1>3, <1>4, <1>5, <1>9 DEF MonitorBase
<1>7. ASSUME NEW g \in Watched \ {p} PROVE SeenTo(g)' /\ Sparing(g)'
  <2>1. /\ Busy(g)' = Busy(g) /\ \A s \in Busy(g) : check'[s] = check[s]
        /\ now' = now /\ failed'[g] = failed[g] /\ alert'[g] = alert[g] /\ counted'[g] = counted[g]
        /\ latest'[g] = latest[g] /\ sent'[g] = sent[g] /\ loose'[g] = loose[g]
        /\ g \in missed' <=> g \in missed
        /\ SeenTo(g) /\ Sparing(g)
    BY <1>1, <1>7 DEF Aside, MonitorInv
  <2>2. /\ Pending(g)' = Pending(g) /\ Sending(g)' = Sending(g) /\ Marking(g)' = Marking(g)
        /\ Recent(g, counted[g])' = Recent(g, counted[g])
    BY <2>1 DEF Pending, Sending, Marking, Recent
  <2>3. QED
    BY <2>1, <2>2 DEF SeenTo, Sparing, Fresh
<1>8. QED
  BY <1>6, <1>7 DEF MonitorInv

\* Where a check is when it takes a step.
At(q, p, at) ==
  /\ MonitorInv /\ MonitorBase /\ MonitorTypeOK /\ SeenTo(p) /\ Sparing(p)
  /\ p \in Watched /\ p = check[q].p /\ check[q].at = at /\ at # "none"
  /\ check[q] \in CheckSet /\ check[q].stamp \in Nat /\ check[q].stamp <= now /\ now \in Nat
  /\ check \in [Checks -> CheckSet]
  /\ counted[p] \in Nat /\ counted[p] <= now /\ alert[p] \in Int /\ latest[p] \in Int
  /\ alert[p] <= latest[p] /\ sent[p] \in Nat /\ loose[p] \in Nat /\ IsFiniteSet(failed[p])
  /\ at = "mark" => check[q].stamp <= latest[p]

LEMMA AtIs ==
  ASSUME MonitorInv, NEW q \in Checks, NEW at, check[q].at = at, at # "none"
  PROVE  At(q, check[q].p, at)
<1>1. /\ check[q] \in CheckSet /\ check[q].p \in Watched /\ check[q].stamp \in Nat
      /\ check[q].stamp <= now /\ now \in Nat /\ check \in [Checks -> CheckSet]
  BY Standing DEF MonitorInv
<1>2. QED
  BY <1>1 DEF MonitorInv, MonitorBase, MonitorTypeOK, At

\* The three ways a check moves on.
LEMMA MovesOn ==
  ASSUME NEW q \in Checks, NEW p, NEW a, At(q, p, a),
         NEW at \in {"record", "count", "dedup", "send", "mark"}
  PROVE  /\ Goes(q, at) => \E x : /\ CheckMoves(q, p, x) /\ x.at = at /\ x.p = p /\ x.stamp = now
                                  /\ x # NoCheck
         /\ Keeps(q, at) => \E x : /\ CheckMoves(q, p, x) /\ x.at = at /\ x.p = p
                                   /\ x.stamp = check[q].stamp /\ x # NoCheck
         /\ Ends(q) => \E x : CheckMoves(q, p, x) /\ x = NoCheck
<1>1. /\ check \in [Checks -> CheckSet] /\ check[q] \in CheckSet /\ now \in Nat
      /\ p = check[q].p /\ p \in Watched /\ check[q].stamp <= now
  BY DEF At
<1>2. ASSUME Goes(q, at)
      PROVE  \E x : /\ CheckMoves(q, p, x) /\ x.at = at /\ x.p = p /\ x.stamp = now /\ x # NoCheck
  <2> DEFINE x == [check[q] EXCEPT !.at = at, !.stamp = now]
  <2>1. x \in CheckSet /\ x.at = at /\ x.p = p /\ x.stamp = now
    BY <1>1 DEF CheckSet
  <2>2. check' = [check EXCEPT ![q] = x]
    BY <1>1, <1>2 DEF Goes
  <2> HIDE DEF x
  <2>3. CheckMoves(q, p, x) /\ x # NoCheck
    BY <1>1, <2>1, <2>2, NoCheckIs DEF CheckMoves
  <2>4. QED
    BY <2>1, <2>3
<1>3. ASSUME Keeps(q, at)
      PROVE  \E x : /\ CheckMoves(q, p, x) /\ x.at = at /\ x.p = p
                    /\ x.stamp = check[q].stamp /\ x # NoCheck
  <2> DEFINE x == [check[q] EXCEPT !.at = at]
  <2>1. x \in CheckSet /\ x.at = at /\ x.p = p /\ x.stamp = check[q].stamp
    BY <1>1 DEF CheckSet
  <2>2. check' = [check EXCEPT ![q] = x]
    BY <1>1, <1>3 DEF Keeps
  <2> HIDE DEF x
  <2>3. CheckMoves(q, p, x) /\ x # NoCheck
    BY <1>1, <2>1, <2>2, NoCheckIs DEF CheckMoves
  <2>4. QED
    BY <2>1, <2>3
<1>4. ASSUME Ends(q) PROVE \E x : CheckMoves(q, p, x) /\ x = NoCheck
  <2>1. PICK x : x = NoCheck
    OBVIOUS
  <2>2. CheckMoves(q, p, x)
    BY <1>1, <1>4, <2>1, NoCheckIs DEF Ends, CheckMoves
  <2>3. QED
    BY <2>1, <2>2
<1>5. QED
  BY <1>2, <1>3, <1>4

\* What a move of a check of p does to p's part.
LEMMA MoveOwn ==
  ASSUME NEW q \in Checks, NEW p, NEW a, At(q, p, a), NEW x, CheckMoves(q, p, x)
  PROVE  /\ check'[q] = x /\ (\A s \in Checks \ {q} : check'[s] = check[s]) /\ q \in Busy(p)
         /\ x # NoCheck => Busy(p)' = Busy(p)
         /\ x = NoCheck => Busy(p)' = Busy(p) \ {q} /\ x.at = "none"
         /\ Cardinality(Sending(p)') + Ind(a = "send") = Cardinality(Sending(p)) + Ind(x.at = "send")
         /\ Cardinality(Marking(p)') + Ind(a = "mark") = Cardinality(Marking(p)) + Ind(x.at = "mark")
         /\ Cardinality(Sending(p)) \in Nat /\ Cardinality(Marking(p)) \in Nat
         /\ Cardinality(Sending(p)') \in Nat /\ Cardinality(Marking(p)') \in Nat
         /\ Cardinality(Checks) \in Nat
         /\ Cardinality(Sending(p)) + Cardinality(Marking(p)) <= Cardinality(Checks)
<1>1. MonitorBase /\ check[q].at = a /\ a # "none" /\ p \in Watched
  BY DEF At
<1>2. /\ Cardinality(Sending(p)) \in Nat /\ Cardinality(Marking(p)) \in Nat
      /\ Cardinality(Checks) \in Nat
      /\ Cardinality(Sending(p)) + Cardinality(Marking(p)) <= Cardinality(Checks)
  BY SendersFew
<1>3. /\ check'[q] = x /\ (\A s \in Checks \ {q} : check'[s] = check[s]) /\ q \in Busy(p)
      /\ x # NoCheck => Busy(p)' = Busy(p)
      /\ x = NoCheck => Busy(p)' = Busy(p) \ {q} /\ x.at = "none"
      /\ Cardinality(Sending(p)') + Ind(check[q].at = "send") =
           Cardinality(Sending(p)) + Ind(x.at = "send")
      /\ Cardinality(Marking(p)') + Ind(check[q].at = "mark") =
           Cardinality(Marking(p)) + Ind(x.at = "mark")
  BY <1>1, MoveEffect
<1>4. IsFiniteSet(Sending(p)') /\ IsFiniteSet(Marking(p)')
  <2>1. Sending(p)' \subseteq Checks /\ Marking(p)' \subseteq Checks
    BY DEF Sending, Marking, Busy
  <2>2. QED
    BY <2>1, FS_Subset
<1>5. Cardinality(Sending(p)') \in Nat /\ Cardinality(Marking(p)') \in Nat
  BY <1>4, FS_CardinalityType
<1>6. QED
  BY <1>1, <1>2, <1>3, <1>5

\* p's checks that see to the alert stay, but for the one that moves.
LEMMA PendingKept ==
  ASSUME NEW q \in Checks, NEW p, NEW a, At(q, p, a), NEW x, CheckMoves(q, p, x),
         counted'[p] = counted[p]
  PROVE  /\ Pending(p) \ {q} \subseteq Pending(p)'
         /\ x # NoCheck /\ x.at = "count" => q \in Pending(p)'
         /\ x # NoCheck /\ x.at \in {"dedup", "send"} /\ x.stamp > counted[p] - Hour
              => q \in Pending(p)'
         /\ q \in Pending(p) /\ a # "count"
              => a \in {"dedup", "send"} /\ check[q].stamp > counted[p] - Hour
<1>1. /\ check'[q] = x /\ (\A s \in Checks \ {q} : check'[s] = check[s]) /\ q \in Busy(p)
      /\ x # NoCheck => Busy(p)' = Busy(p)
      /\ x = NoCheck => Busy(p)' = Busy(p) \ {q} /\ x.at = "none"
  BY MoveOwn
<1>2. Busy(p) \subseteq Checks /\ check[q].at = a
  BY DEF Busy, At
<1>3. QED
  BY <1>1, <1>2 DEF Pending

\* record_attempt: whoever records counts next.
LEMMA RecordAttemptStep ==
  ASSUME MonitorInv, NEW q \in Checks, RecordAttempt(q)
  PROVE  MonitorInv'
<1>1. PICK p : p = check[q].p
  OBVIOUS
<1>2. At(q, p, "record")
  BY <1>1, AtIs DEF RecordAttempt
<1>3. PICK x : CheckMoves(q, p, x) /\ x.at = "count" /\ x.p = p /\ x.stamp = now /\ x # NoCheck
  BY <1>2, MovesOn DEF RecordAttempt
<1>4. /\ UNCHANGED <<now, alert, counted, latest, missed, sent, loose, begun, upsets>>
      /\ failed' = [failed EXCEPT ![p] =
                      @ \cup {[at |-> check[q].stamp, id |-> Cardinality(@)]}]
  BY <1>1 DEF RecordAttempt, ghostVars
<1>5. /\ failed \in [Watched -> SUBSET [at : Nat, id : Nat]] /\ p \in Watched
      /\ IsFiniteSet(failed[p]) /\ check[q].stamp \in Nat
  BY <1>2 DEF At, MonitorTypeOK
<1>6. PICK row1 : row1 = [at |-> check[q].stamp, id |-> Cardinality(failed[p])]
  OBVIOUS
<1>7. row1 \in [at : Nat, id : Nat] /\ IsFiniteSet(failed[p] \cup {row1})
  BY <1>5, <1>6, FS_CardinalityType, FS_AddElement
<1>8. failed' = [failed EXCEPT ![p] = failed[p] \cup {row1}]
  BY <1>4, <1>6
<1>9. /\ failed' \in [Watched -> SUBSET [at : Nat, id : Nat]] /\ IsFiniteSet(failed'[p])
      /\ \A g \in Watched \ {p} : failed'[g] = failed[g]
  BY <1>5, <1>7, <1>8
<1>10. SeenTo(p)'
  BY <1>2, <1>3, <1>4, PendingKept DEF SeenTo
<1>11. Sparing(p)'
  <2>1. /\ Cardinality(Sending(p)') = Cardinality(Sending(p))
        /\ Cardinality(Marking(p)') = Cardinality(Marking(p))
    BY <1>2, <1>3, MoveOwn DEF Ind
  <2>2. QED
    BY <1>2, <1>4, <2>1 DEF Sparing, At
<1>12. Aside(p)
  BY <1>4, <1>9 DEF Aside
<1>13. alert'[p] <= latest'[p] /\ latest[p] <= latest'[p] /\ counted'[p] <= now
  BY <1>2, <1>4 DEF At
<1>14. QED
  BY <1>2, <1>3, <1>4, <1>5, <1>9, <1>10, <1>11, <1>12, <1>13, CheckStepKeeps
  DEF At, MonitorTypeOK

\* A refusal that could not be recorded.
LEMMA RecordAttemptFailsStep ==
  ASSUME MonitorInv, NEW q \in Checks, RecordAttemptFails(q)
  PROVE  MonitorInv'
<1>1. PICK p : p = check[q].p
  OBVIOUS
<1>2. At(q, p, "record")
  BY <1>1, AtIs DEF RecordAttemptFails
<1>3. PICK x : /\ CheckMoves(q, p, x)
               /\ \/ x.at = "count" /\ x.p = p /\ x.stamp = now /\ x # NoCheck
                  \/ x = NoCheck
  BY <1>2, MovesOn DEF RecordAttemptFails
<1>4. /\ UNCHANGED <<now, failed, alert, counted, latest, missed, sent, loose, begun>>
      /\ upsets' \in 0..MaxUpsets
  BY <1>2 DEF RecordAttemptFails, ghostVars, rowVars, Upset, At, MonitorTypeOK
<1>5. SeenTo(p)'
  <2>1. q \notin Pending(p)
    BY <1>2 DEF Pending, At
  <2>2. Pending(p) \subseteq Pending(p)'
    BY <1>2, <1>3, <1>4, <2>1, PendingKept
  <2>3. Recent(p, counted[p])' = Recent(p, counted[p])
    BY <1>4 DEF Recent
  <2>4. QED
    BY <1>2, <1>4, <2>2, <2>3 DEF SeenTo, At
<1>6. Sparing(p)'
  <2>1. x.at \in {"count", "none"}
    BY <1>3, NoCheckIs
  <2>2. /\ Cardinality(Sending(p)') = Cardinality(Sending(p))
        /\ Cardinality(Marking(p)') = Cardinality(Marking(p))
    BY <1>2, <1>3, <2>1, MoveOwn DEF Ind
  <2>3. QED
    BY <1>2, <1>4, <2>2 DEF Sparing, At
<1>7. Aside(p)
  BY <1>4 DEF Aside
<1>8. x.at # "mark"
  BY <1>3, NoCheckIs
<1>9. alert'[p] <= latest'[p] /\ latest[p] <= latest'[p] /\ counted'[p] <= now
  BY <1>2, <1>4 DEF At
<1>10. QED
  BY <1>2, <1>3, <1>4, <1>5, <1>6, <1>7, <1>8, <1>9, CheckStepKeeps DEF At, MonitorTypeOK

\* _check_and_alert: whoever finds the threshold reached sees to the alert.
LEMMA CheckAndAlertStep ==
  ASSUME MonitorInv, NEW q \in Checks, CheckAndAlert(q)
  PROVE  MonitorInv'
<1>1. PICK p : p = check[q].p
  OBVIOUS
<1>2. At(q, p, "count")
  BY <1>1, AtIs DEF CheckAndAlert
<1>3. PICK t : t = check[q].stamp
  OBVIOUS
<1>4. PICK x : /\ CheckMoves(q, p, x)
               /\ IF Cardinality(Recent(p, t)) >= Threshold
                  THEN x.at = "dedup" /\ x.p = p /\ x.stamp = now /\ x # NoCheck
                  ELSE x = NoCheck
  BY <1>1, <1>2, <1>3, MovesOn DEF CheckAndAlert
<1>5. /\ UNCHANGED <<now, failed, alert, latest, sent, loose, begun, upsets>>
      /\ counted' = [counted EXCEPT ![p] = t] /\ missed' = missed \ {p}
  BY <1>1, <1>3 DEF CheckAndAlert, rowVars
<1>6. t \in Nat /\ t <= now /\ now \in Nat /\ counted \in [Watched -> Nat] /\ p \in Watched
  BY <1>2, <1>3 DEF At, MonitorTypeOK
<1>7. /\ counted' \in [Watched -> Nat] /\ counted'[p] = t
      /\ \A g \in Watched \ {p} : counted'[g] = counted[g]
  BY <1>5, <1>6
<1>8. SeenTo(p)'
  <2>1. Recent(p, counted[p])' = Recent(p, t)
    BY <1>5, <1>7 DEF Recent
  <2>2. CASE Cardinality(Recent(p, t)) >= Threshold
    <3>1. x.at = "dedup" /\ x.stamp = now /\ x # NoCheck
      BY <1>4, <2>2
    <3>2. check'[q] = x /\ q \in Busy(p)'
      BY <1>2, <1>4, <3>1, MoveOwn
    <3>3. x.stamp > counted'[p] - Hour
      BY <1>6, <1>7, <3>1
    <3>4. q \in Pending(p)'
      BY <3>1, <3>2, <3>3 DEF Pending
    <3>5. QED
      BY <3>4 DEF SeenTo
  <2>3. CASE ~(Cardinality(Recent(p, t)) >= Threshold)
    BY <2>1, <2>3 DEF SeenTo
  <2>4. QED
    BY <2>2, <2>3
<1>9. Sparing(p)'
  <2>1. x.at \in {"dedup", "none"}
    BY <1>4, NoCheckIs
  <2>2. /\ Cardinality(Sending(p)') = Cardinality(Sending(p))
        /\ Cardinality(Marking(p)') = Cardinality(Marking(p))
    BY <1>2, <1>4, <2>1, MoveOwn DEF Ind
  <2>3. QED
    BY <1>2, <1>5, <2>2 DEF Sparing, At
<1>10. Aside(p)
  BY <1>5, <1>7 DEF Aside
<1>11. x.at # "mark" /\ CheckMoves(q, p, x)
  BY <1>4, NoCheckIs
<1>12. alert'[p] <= latest'[p] /\ latest[p] <= latest'[p] /\ counted'[p] <= now
  BY <1>2, <1>5, <1>6, <1>7 DEF At
<1>13. QED
  BY <1>2, <1>5, <1>6, <1>7, <1>8, <1>9, <1>10, <1>11, <1>12, CheckStepKeeps
  DEF At, MonitorTypeOK

LEMMA CheckFailsStep ==
  ASSUME MonitorInv, NEW q \in Checks, CheckFails(q)
  PROVE  MonitorInv'
<1>1. PICK p : p = check[q].p
  OBVIOUS
<1>2. At(q, p, "count")
  BY <1>1, AtIs DEF CheckFails
<1>3. PICK x : CheckMoves(q, p, x) /\ x = NoCheck
  BY <1>2, MovesOn DEF CheckFails
<1>4. /\ UNCHANGED <<now, failed, alert, counted, latest, sent, loose, begun>>
      /\ upsets' \in 0..MaxUpsets /\ missed' = missed \cup {p}
  BY <1>1, <1>2 DEF CheckFails, rowVars, Upset, At, MonitorTypeOK
<1>5. SeenTo(p)'
  BY <1>4 DEF SeenTo
<1>6. Sparing(p)'
  <2>1. /\ Cardinality(Sending(p)') = Cardinality(Sending(p))
        /\ Cardinality(Marking(p)') = Cardinality(Marking(p))
    BY <1>2, <1>3, NoCheckIs, MoveOwn DEF Ind
  <2>2. QED
    BY <1>2, <1>4, <2>1 DEF Sparing, At
<1>7. Aside(p)
  BY <1>4 DEF Aside
<1>8. missed' \subseteq Watched
  BY <1>2, <1>4 DEF At, MonitorTypeOK
<1>9. QED
  BY <1>2, <1>3, <1>4, <1>5, <1>6, <1>7, <1>8, NoCheckIs, CheckStepKeeps
  DEF At, MonitorTypeOK


-----------------------------------------------------------------------------
(* The monitor: _send_alert *)

\* A check that ends because of the alert on record leaves one of the hour behind.
LEMMA DedupStep ==
  ASSUME MonitorInv, NEW q \in Checks, Dedup(q)
  PROVE  MonitorInv'
<1>1. PICK p : p = check[q].p
  OBVIOUS
<1>2. At(q, p, "dedup")
  BY <1>1, AtIs DEF Dedup
<1>3. PICK x : /\ CheckMoves(q, p, x)
               /\ IF Fresh(alert[p], now) THEN x = NoCheck
                  ELSE x.at = "send" /\ x.p = p /\ x.stamp = check[q].stamp /\ x # NoCheck
  BY <1>1, <1>2, MovesOn DEF Dedup
<1>4. UNCHANGED <<now, failed, alert, counted, latest, missed, sent, loose, begun, upsets>>
  BY DEF Dedup, rowVars, ghostVars
<1>5. SeenTo(p)'
  <2>1. Recent(p, counted[p])' = Recent(p, counted[p])
    BY <1>4 DEF Recent
  <2>2. CASE Fresh(alert[p], now)
    <3>1. latest[p] > counted[p] - Hour
      BY <1>2, <2>2 DEF At, Fresh
    <3>2. QED
      BY <1>4, <3>1 DEF SeenTo
  <2>3. CASE ~Fresh(alert[p], now)
    <3>1. Pending(p) \subseteq Pending(p)'
      BY <1>2, <1>3, <1>4, <2>3, PendingKept
    <3>2. QED
      BY <1>2, <1>4, <2>1, <3>1 DEF SeenTo, At
  <2>4. QED
    BY <2>2, <2>3
<1>6. Sparing(p)'
  <2>1. Cardinality(Marking(p)') = Cardinality(Marking(p))
    BY <1>2, <1>3, NoCheckIs, MoveOwn DEF Ind
  <2>2. Fresh(alert[p], now) => Cardinality(Sending(p)') = Cardinality(Sending(p))
    BY <1>2, <1>3, NoCheckIs, MoveOwn DEF Ind
  <2>3. QED
    BY <1>2, <1>4, <2>1, <2>2 DEF Sparing, At
<1>7. Aside(p)
  BY <1>4 DEF Aside
<1>8. QED
  BY <1>2, <1>3, <1>4, <1>5, <1>6, <1>7, NoCheckIs, CheckStepKeeps
  DEF At, MonitorTypeOK

\* One more of something counted for p.
LEMMA PlusOne ==
  ASSUME NEW f \in [Watched -> Nat], NEW g, NEW p \in Watched, g = [f EXCEPT ![p] = @ + 1]
  PROVE  /\ g \in [Watched -> Nat] /\ g[p] = f[p] + 1 /\ \A h \in Watched \ {p} : g[h] = f[h]
OBVIOUS

LEMMA DedupFailsStep ==
  ASSUME MonitorInv, NEW q \in Checks, DedupFails(q)
  PROVE  MonitorInv'
<1>1. PICK p : p = check[q].p
  OBVIOUS
<1>2. At(q, p, "dedup")
  BY <1>1, AtIs DEF DedupFails
<1>3. PICK x : /\ CheckMoves(q, p, x) /\ x.at = "send" /\ x.p = p /\ x.stamp = check[q].stamp
               /\ x # NoCheck
  BY <1>2, MovesOn DEF DedupFails
<1>4. /\ UNCHANGED <<now, failed, alert, counted, latest, missed, sent, begun>>
      /\ upsets' \in 0..MaxUpsets /\ loose' = [loose EXCEPT ![p] = @ + 1]
  BY <1>1, <1>2 DEF DedupFails, rowVars, Upset, At, MonitorTypeOK
<1>5. /\ loose' \in [Watched -> Nat] /\ loose'[p] = loose[p] + 1
      /\ \A h \in Watched \ {p} : loose'[h] = loose[h]
  BY <1>2, <1>4, PlusOne DEF At, MonitorTypeOK
<1>6. SeenTo(p)'
  <2>1. Recent(p, counted[p])' = Recent(p, counted[p])
    BY <1>4 DEF Recent
  <2>2. Pending(p) \subseteq Pending(p)'
    BY <1>2, <1>3, <1>4, PendingKept
  <2>3. QED
    BY <1>2, <1>4, <2>1, <2>2 DEF SeenTo, At
<1>7. Sparing(p)'
  <2>1. /\ Cardinality(Marking(p)') = Cardinality(Marking(p))
        /\ Cardinality(Sending(p)') = Cardinality(Sending(p)) + 1
        /\ Cardinality(Sending(p)) \in Nat /\ Cardinality(Marking(p)) \in Nat
        /\ Cardinality(Checks) \in Nat
    BY <1>2, <1>3, MoveOwn DEF Ind
  <2>2. QED
    BY <1>2, <1>4, <1>5, <2>1 DEF Sparing, At
<1>8. Aside(p)
  BY <1>4, <1>5 DEF Aside
<1>9. QED
  BY <1>2, <1>3, <1>4, <1>5, <1>6, <1>7, <1>8, CheckStepKeeps DEF At, MonitorTypeOK

\* An alert that is out: what it does to the latest one.
LEMMA OutIs ==
  ASSUME NEW q \in Checks, NEW p, At(q, p, "send"), Out(p, check[q].stamp)
  PROVE  /\ sent' \in [Watched -> Nat] /\ sent'[p] = sent[p] + 1
         /\ latest' \in [Watched -> Int] /\ latest[p] <= latest'[p] /\ check[q].stamp <= latest'[p]
         /\ \A h \in Watched \ {p} : sent'[h] = sent[h] /\ latest'[h] = latest[h]
         /\ latest[p] \in Int /\ latest'[p] \in Int
<1>1. /\ sent \in [Watched -> Nat] /\ latest \in [Watched -> Int] /\ p \in Watched
      /\ check[q].stamp \in Nat
  BY DEF At, MonitorTypeOK
<1>2. /\ sent' \in [Watched -> Nat] /\ sent'[p] = sent[p] + 1
      /\ \A h \in Watched \ {p} : sent'[h] = sent[h]
  BY <1>1, PlusOne DEF Out
<1>3. PICK t : t = check[q].stamp
  OBVIOUS
<1>4. latest' = [latest EXCEPT ![p] = IF t > latest[p] THEN t ELSE latest[p]]
  BY <1>3 DEF Out
<1>5. t \in Int /\ latest[p] \in Int
  BY <1>1, <1>3
<1>6. /\ latest' \in [Watched -> Int] /\ latest'[p] = IF t > latest[p] THEN t ELSE latest[p]
      /\ \A h \in Watched \ {p} : latest'[h] = latest[h]
  BY <1>1, <1>4, <1>5
<1>7. latest[p] <= latest'[p] /\ t <= latest'[p] /\ latest'[p] \in Int
  BY <1>5, <1>6
<1>8. QED
  BY <1>1, <1>2, <1>3, <1>5, <1>6, <1>7

\* Sending keeps the promise: the sender's own time is in the hour if it was
\* the one to see to the alert.
LEMMA OutKeeps ==
  ASSUME NEW q \in Checks, NEW p, At(q, p, "send"), Out(p, check[q].stamp), NEW x,
         CheckMoves(q, p, x), UNCHANGED <<failed, counted, missed>>
  PROVE  SeenTo(p)'
<1>1. /\ latest[p] <= latest'[p] /\ check[q].stamp <= latest'[p]
      /\ latest[p] \in Int /\ latest'[p] \in Int
  BY OutIs
<1>2. check[q].stamp \in Nat /\ counted[p] \in Nat /\ SeenTo(p)
  BY DEF At
<1>3. Recent(p, counted[p])' = Recent(p, counted[p])
  BY DEF Recent
<1>4. CASE q \in Pending(p)
  <2>1. check[q].stamp > counted[p] - Hour
    BY <1>4, PendingKept
  <2>2. latest'[p] > counted'[p] - Hour
    BY <1>1, <1>2, <2>1
  <2>3. QED
    BY <2>2 DEF SeenTo
<1>5. CASE q \notin Pending(p)
  <2>1. Pending(p) \subseteq Pending(p)'
    BY <1>5, PendingKept
  <2>2. latest[p] > counted[p] - Hour => latest'[p] > counted'[p] - Hour
    BY <1>1, <1>2
  <2>3. QED
    BY <1>2, <1>3, <2>1, <2>2 DEF SeenTo
<1>6. QED
  BY <1>4, <1>5

LEMMA SendAlertStep ==
  ASSUME MonitorInv, NEW q \in Checks, SendAlert(q)
  PROVE  MonitorInv'
<1>1. PICK p : p = check[q].p
  OBVIOUS
<1>2. At(q, p, "send")
  BY <1>1, AtIs DEF SendAlert
<1>3. PICK x : /\ CheckMoves(q, p, x) /\ x.at = "mark" /\ x.p = p /\ x.stamp = check[q].stamp
               /\ x # NoCheck
  BY <1>2, MovesOn DEF SendAlert
<1>4. /\ UNCHANGED <<now, failed, alert, counted, missed, loose, begun, upsets>>
      /\ Out(p, check[q].stamp)
  BY <1>1 DEF SendAlert, rowVars
<1>5. /\ sent' \in [Watched -> Nat] /\ sent'[p] = sent[p] + 1
      /\ latest' \in [Watched -> Int] /\ latest[p] <= latest'[p] /\ check[q].stamp <= latest'[p]
      /\ \A h \in Watched \ {p} : sent'[h] = sent[h] /\ latest'[h] = latest[h]
      /\ latest[p] \in Int /\ latest'[p] \in Int
  BY <1>2, <1>4, OutIs
<1>6. SeenTo(p)'
  BY <1>2, <1>3, <1>4, OutKeeps
<1>7. Sparing(p)'
  <2>1. /\ Cardinality(Marking(p)') = Cardinality(Marking(p)) + 1
        /\ Cardinality(Sending(p)') + 1 = Cardinality(Sending(p))
        /\ Cardinality(Sending(p)) \in Nat /\ Cardinality(Marking(p)) \in Nat
        /\ Cardinality(Sending(p)') \in Nat /\ Cardinality(Checks) \in Nat
    BY <1>2, <1>3, MoveOwn DEF Ind
  <2>2. QED
    BY <1>2, <1>4, <1>5, <2>1 DEF Sparing, At
<1>8. Aside(p)
  BY <1>4, <1>5 DEF Aside
<1>9. alert'[p] <= latest'[p]
  BY <1>2, <1>4, <1>5 DEF At
<1>10. QED
  BY <1>2, <1>3, <1>4, <1>5, <1>6, <1>7, <1>8, <1>9, CheckStepKeeps DEF At, MonitorTypeOK

LEMMA SendFailsStep ==
  ASSUME MonitorInv, NEW q \in Checks, SendFails(q)
  PROVE  MonitorInv'
<1>1. PICK p : p = check[q].p
  OBVIOUS
<1>2. At(q, p, "send")
  BY <1>1, AtIs DEF SendFails
<1>3. PICK x : CheckMoves(q, p, x) /\ x = NoCheck
  BY <1>2, MovesOn DEF SendFails
<1>4. UNCHANGED <<now, failed, alert, counted, begun>> /\ upsets' \in 0..MaxUpsets
  BY <1>2 DEF SendFails, rowVars, Upset, At, MonitorTypeOK
<1>5. /\ Cardinality(Marking(p)') = Cardinality(Marking(p))
      /\ Cardinality(Sending(p)') + 1 = Cardinality(Sending(p))
      /\ Cardinality(Sending(p)) \in Nat /\ Cardinality(Marking(p)) \in Nat
      /\ Cardinality(Sending(p)') \in Nat /\ Cardinality(Checks) \in Nat
  BY <1>2, <1>3, NoCheckIs, MoveOwn DEF Ind
<1>6. CASE missed' = missed \cup {p} /\ UNCHANGED <<sent, latest, loose>>
  <2>1. SeenTo(p)'
    BY <1>6 DEF SeenTo
  <2>2. Sparing(p)'
    BY <1>2, <1>4, <1>5, <1>6 DEF Sparing, At
  <2>3. Aside(p) /\ missed' \subseteq Watched
    BY <1>2, <1>4, <1>6 DEF Aside, At, MonitorTypeOK
  <2>4. QED
    BY <1>2, <1>3, <1>4, <1>6, <2>1, <2>2, <2>3, NoCheckIs, CheckStepKeeps
    DEF At, MonitorTypeOK
<1>7. CASE Out(p, check[q].stamp) /\ loose' = [loose EXCEPT ![p] = @ + 1] /\ UNCHANGED missed
  <2>1. /\ sent' \in [Watched -> Nat] /\ sent'[p] = sent[p] + 1
        /\ latest' \in [Watched -> Int] /\ latest[p] <= latest'[p]
        /\ \A h \in Watched \ {p} : sent'[h] = sent[h] /\ latest'[h] = latest[h]
        /\ latest[p] \in Int /\ latest'[p] \in Int
    BY <1>2, <1>7, OutIs
  <2>2. /\ loose' \in [Watched -> Nat] /\ loose'[p] = loose[p] + 1
        /\ \A h \in Watched \ {p} : loose'[h] = loose[h]
    BY <1>2, <1>7, PlusOne DEF At, MonitorTypeOK
  <2>3. SeenTo(p)'
    BY <1>2, <1>3, <1>4, <1>7, OutKeeps
  <2>4. Sparing(p)'
    BY <1>2, <1>4, <1>5, <2>1, <2>2 DEF Sparing, At
  <2>5. Aside(p)
    BY <1>4, <1>7, <2>1, <2>2 DEF Aside
  <2>6. alert'[p] <= latest'[p]
    BY <1>2, <1>4, <2>1 DEF At
  <2>7. QED
    BY <1>2, <1>3, <1>4, <1>7, <2>1, <2>2, <2>3, <2>4, <2>5, <2>6, NoCheckIs, CheckStepKeeps
    DEF At, MonitorTypeOK
<1>8. QED
  BY <1>1, <1>6, <1>7 DEF SendFails

\* Nobody's alerts run out.
LEMMA NoneRunOut ==
  ASSUME MonitorTypeOK, RunOut({})
  PROVE  sent' = sent /\ loose' = loose
BY DEF RunOut, MonitorTypeOK

\* The mark: the alert on record was sent, and only senders past the look still send.
LEMMA MarkAlertStep ==
  ASSUME MonitorInv, NEW q \in Checks, MarkAlert(q)
  PROVE  MonitorInv'
<1>1. PICK p : p = check[q].p
  OBVIOUS
<1>2. At(q, p, "mark")
  BY <1>1, AtIs DEF MarkAlert
<1>3. PICK x : CheckMoves(q, p, x) /\ x = NoCheck
  BY <1>2, MovesOn DEF MarkAlert
<1>4. PICK t : t = check[q].stamp
  OBVIOUS
<1>5. /\ UNCHANGED <<now, failed, counted, latest, missed, begun, upsets>>
      /\ alert' = [alert EXCEPT ![p] = t]
      /\ RunOut(IF Fresh(t, now) THEN {} ELSE {p})
  BY <1>1, <1>4 DEF MarkAlert
<1>6. /\ t \in Nat /\ t <= latest[p] /\ alert \in [Watched -> Int] /\ p \in Watched
      /\ sent \in [Watched -> Nat] /\ loose \in [Watched -> Nat] /\ MonitorTypeOK
  BY <1>2, <1>4 DEF At, MonitorTypeOK
<1>7. /\ alert' \in [Watched -> Int] /\ alert'[p] = t
      /\ \A g \in Watched \ {p} : alert'[g] = alert[g]
  BY <1>5, <1>6
<1>8. /\ sent' \in [Watched -> Nat] /\ loose' \in [Watched -> Nat]
      /\ \A g \in Watched \ {p} : sent'[g] = sent[g] /\ loose'[g] = loose[g]
      /\ Fresh(t, now) => sent'[p] = sent[p] /\ loose'[p] = loose[p]
      /\ ~Fresh(t, now) => sent'[p] = 0 /\ loose'[p] = 0
  <2>1. CASE Fresh(t, now)
    BY <1>5, <1>6, <2>1, NoneRunOut
  <2>2. CASE ~Fresh(t, now)
    BY <1>5, <1>6, <2>2 DEF RunOut
  <2>3. QED
    BY <2>1, <2>2
<1>9. SeenTo(p)'
  <2>1. Recent(p, counted[p])' = Recent(p, counted[p])
    BY <1>5 DEF Recent
  <2>2. q \notin Pending(p)
    BY <1>2 DEF Pending, At
  <2>3. Pending(p) \subseteq Pending(p)'
    BY <1>2, <1>3, <1>5, <2>2, PendingKept
  <2>4. QED
    BY <1>2, <1>5, <2>1, <2>3 DEF SeenTo, At
<1>10. Sparing(p)'
  <2>1. /\ Cardinality(Marking(p)') + 1 = Cardinality(Marking(p))
        /\ Cardinality(Sending(p)') = Cardinality(Sending(p))
        /\ Cardinality(Sending(p)) \in Nat /\ Cardinality(Marking(p)) \in Nat
        /\ Cardinality(Marking(p)') \in Nat /\ Cardinality(Checks) \in Nat
        /\ Cardinality(Sending(p)) + Cardinality(Marking(p)) <= Cardinality(Checks)
    BY <1>2, <1>3, NoCheckIs, MoveOwn DEF Ind
  <2>2. /\ Fresh(alert[p], now)' <=> Fresh(t, now)
        /\ sent[p] \in Nat /\ loose[p] \in Nat /\ Sparing(p)
    BY <1>2, <1>5, <1>7 DEF Fresh, At
  <2>3. QED
    BY <1>8, <2>1, <2>2 DEF Sparing
<1>11. Aside(p)
  BY <1>5, <1>7, <1>8 DEF Aside
<1>12. /\ alert'[p] <= latest'[p] /\ latest[p] <= latest'[p] /\ counted'[p] <= now
       /\ x.at # "mark"
  BY <1>2, <1>3, <1>5, <1>6, <1>7, NoCheckIs DEF At
<1>13. QED
  BY <1>2, <1>3, <1>5, <1>7, <1>8, <1>9, <1>10, <1>11, <1>12, CheckStepKeeps
  DEF At, MonitorTypeOK

LEMMA MarkFailsStep ==
  ASSUME MonitorInv, NEW q \in Checks, MarkFails(q)
  PROVE  MonitorInv'
<1>1. PICK p : p = check[q].p
  OBVIOUS
<1>2. At(q, p, "mark")
  BY <1>1, AtIs DEF MarkFails
<1>3. PICK x : CheckMoves(q, p, x) /\ x = NoCheck
  BY <1>2, MovesOn DEF MarkFails
<1>4. /\ UNCHANGED <<now, failed, alert, counted, latest, missed, sent, begun>>
      /\ upsets' \in 0..MaxUpsets /\ loose' = [loose EXCEPT ![p] = @ + 1]
  BY <1>1, <1>2 DEF MarkFails, rowVars, Upset, At, MonitorTypeOK
<1>5. /\ loose' \in [Watched -> Nat] /\ loose'[p] = loose[p] + 1
      /\ \A h \in Watched \ {p} : loose'[h] = loose[h]
  BY <1>2, <1>4, PlusOne DEF At, MonitorTypeOK
<1>6. SeenTo(p)'
  <2>1. Recent(p, counted[p])' = Recent(p, counted[p])
    BY <1>4 DEF Recent
  <2>2. q \notin Pending(p)
    BY <1>2 DEF Pending, At
  <2>3. Pending(p) \subseteq Pending(p)'
    BY <1>2, <1>3, <1>4, <2>2, PendingKept
  <2>4. QED
    BY <1>2, <1>4, <2>1, <2>3 DEF SeenTo, At
<1>7. Sparing(p)'
  <2>1. /\ Cardinality(Marking(p)') + 1 = Cardinality(Marking(p))
        /\ Cardinality(Sending(p)') = Cardinality(Sending(p))
        /\ Cardinality(Sending(p)) \in Nat /\ Cardinality(Marking(p)) \in Nat
        /\ Cardinality(Marking(p)') \in Nat /\ Cardinality(Checks) \in Nat
    BY <1>2, <1>3, NoCheckIs, MoveOwn DEF Ind
  <2>2. QED
    BY <1>2, <1>4, <1>5, <2>1 DEF Sparing, At
<1>8. Aside(p)
  BY <1>4, <1>5 DEF Aside
<1>9. /\ alert'[p] <= latest'[p] /\ latest[p] <= latest'[p] /\ counted'[p] <= now
      /\ x.at # "mark"
  BY <1>2, <1>3, <1>4, NoCheckIs DEF At
<1>10. QED
  BY <1>2, <1>3, <1>4, <1>5, <1>6, <1>7, <1>8, <1>9, CheckStepKeeps DEF At, MonitorTypeOK

-----------------------------------------------------------------------------
(* The monitor: a new refusal, the clock and a restart *)

LEMMA RefusedStep ==
  ASSUME MonitorInv, NEW q \in Checks, NEW p \in Watched, Refused(q, p)
  PROVE  MonitorInv'
<1>1. /\ check[q] = NoCheck /\ begun < MaxChecks /\ begun' = begun + 1
      /\ check' = [check EXCEPT ![q] = [at |-> "record", p |-> p, stamp |-> now]]
      /\ UNCHANGED <<now, failed, alert, counted, latest, missed, sent, loose, upsets>>
  BY DEF Refused, rowVars, ghostVars
<1>2. MonitorBase /\ MonitorTypeOK /\ check \in [Checks -> CheckSet] /\ now \in Nat
  BY DEF MonitorInv, MonitorBase, MonitorTypeOK, CheckSet
<1>3. PICK x : x = [at |-> "record", p |-> p, stamp |-> now]
  OBVIOUS
<1>4. x \in CheckSet /\ x.at = "record" /\ x.p = p /\ x.stamp = now
  BY <1>2, <1>3 DEF CheckSet
<1>5. /\ check' \in [Checks -> CheckSet] /\ check'[q] = x
      /\ \A s \in Checks \ {q} : check'[s] = check[s]
  BY <1>1, <1>2, <1>3, <1>4
<1>6. MonitorTypeOK'
  <2>1. begun' \in 0..MaxChecks
    BY <1>1, <1>2 DEF MonitorTypeOK
  <2>2. QED
    BY <1>1, <1>2, <1>5, <2>1 DEF MonitorTypeOK, CheckSet
<1>7. MonitorBase'
  <2>1. ASSUME NEW s \in Checks
        PROVE  /\ \/ check'[s] = NoCheck
                  \/ check'[s].p \in Watched /\ check'[s].at # "none" /\ check'[s].stamp <= now'
               /\ check'[s].at = "mark" => check'[s].stamp <= latest'[check'[s].p]
    <3>1. CASE s = q
      BY <1>1, <1>2, <1>4, <1>5, <3>1
    <3>2. CASE s # q
      BY <1>1, <1>2, <1>5, <3>2 DEF MonitorBase
    <3>3. QED
      BY <3>1, <3>2
  <2>2. \A g \in Watched : counted'[g] <= now' /\ alert'[g] <= latest'[g] /\ IsFiniteSet(failed'[g])
    BY <1>1, <1>2 DEF MonitorBase
  <2>3. QED
    BY <1>6, <2>1, <2>2 DEF MonitorBase
<1>8. ASSUME NEW g \in Watched PROVE SeenTo(g)' /\ Sparing(g)'
  <2>1. SeenTo(g) /\ Sparing(g)
    BY DEF MonitorInv
  <2>2. check[q].p # g
    BY <1>1, NoCheckIs
  <2>3. /\ Pending(g)' = Pending(g) /\ Sending(g)' = Sending(g) /\ Marking(g)' = Marking(g)
    BY <1>1, <1>4, <1>5, <2>2, NoCheckIs, Zenon DEF Pending, Sending, Marking, Busy
  <2>4. Recent(g, counted[g])' = Recent(g, counted[g])
    BY <1>1 DEF Recent
  <2>5. QED
    BY <1>1, <2>1, <2>3, <2>4 DEF SeenTo, Sparing, Fresh
<1>9. QED
  BY <1>7, <1>8 DEF MonitorInv

LEMMA TickStep ==
  ASSUME MonitorInv, Tick
  PROVE  MonitorInv'
<1>1. PICK P : /\ P = {p \in Watched : Fresh(alert[p], now) /\ ~Fresh(alert[p], now + 1)}
               /\ RunOut(P)
  BY DEF Tick
<1>2. /\ now < LastTick /\ now' = now + 1
      /\ UNCHANGED <<check, failed, alert, counted, latest, missed, begun, upsets>>
  BY DEF Tick, rowVars
<1>3. MonitorBase /\ MonitorTypeOK /\ now \in Nat /\ check \in [Checks -> CheckSet]
  BY DEF MonitorInv, MonitorBase, MonitorTypeOK, CheckSet
<1>4. /\ sent' = [p \in Watched |-> IF p \in P THEN 0 ELSE sent[p]]
      /\ loose' = [p \in Watched |-> IF p \in P THEN 0 ELSE loose[p]]
      /\ sent \in [Watched -> Nat] /\ loose \in [Watched -> Nat]
  BY <1>1, <1>3 DEF RunOut, MonitorTypeOK
<1>5. sent' \in [Watched -> Nat] /\ loose' \in [Watched -> Nat]
  BY <1>4
<1>6. MonitorTypeOK'
  <2>1. now' \in 0..LastTick
    BY <1>2, <1>3 DEF MonitorTypeOK
  <2>2. QED
    BY <1>2, <1>3, <1>5, <2>1 DEF MonitorTypeOK
<1>7. MonitorBase'
  <2>1. \A s \in Checks : check'[s] = NoCheck \/
          (check'[s].p \in Watched /\ check'[s].at # "none" /\ check'[s].stamp <= now')
    BY <1>2, <1>3 DEF MonitorBase, CheckSet
  <2>2. \A g \in Watched : counted[g] \in Nat
    BY <1>3 DEF MonitorTypeOK
  <2>3. \A g \in Watched : counted'[g] <= now' /\ alert'[g] <= latest'[g] /\ IsFiniteSet(failed'[g])
    BY <1>2, <1>3, <2>2 DEF MonitorBase
  <2>4. \A s \in Checks : check'[s].at = "mark" => check'[s].stamp <= latest'[check'[s].p]
    BY <1>2, <1>3 DEF MonitorBase
  <2>5. QED
    BY <1>6, <2>1, <2>3, <2>4 DEF MonitorBase
<1>8. ASSUME NEW g \in Watched PROVE SeenTo(g)' /\ Sparing(g)'
  <2>1. SeenTo(g) /\ Sparing(g)
    BY DEF MonitorInv
  <2>2. /\ Pending(g)' = Pending(g) /\ Sending(g)' = Sending(g) /\ Marking(g)' = Marking(g)
        /\ Recent(g, counted[g])' = Recent(g, counted[g])
    BY <1>2 DEF Pending, Sending, Marking, Busy, Recent
  <2>3. SeenTo(g)'
    BY <1>2, <2>1, <2>2 DEF SeenTo
  <2>4. Cardinality(Sending(g)) \in Nat /\ Cardinality(Marking(g)) \in Nat
    BY SendersFew
  <2>5. alert[g] \in Int /\ alert'[g] = alert[g]
    BY <1>2, <1>3 DEF MonitorTypeOK
  <2>6. Fresh(alert[g], now)' => Fresh(alert[g], now)
    BY <1>2, <1>3, <2>5 DEF Fresh
  <2>7. Fresh(alert[g], now)' <=> Fresh(alert[g], now + 1)
    BY <1>2, <2>5 DEF Fresh
  <2>8. CASE g \in P
    <3>1. ~Fresh(alert[g], now)' /\ sent'[g] = 0 /\ loose'[g] = 0
      BY <1>1, <1>4, <2>7, <2>8
    <3>2. QED
      BY <2>2, <2>3, <2>4, <3>1 DEF Sparing
  <2>9. CASE g \notin P
    <3>1. sent'[g] = sent[g] /\ loose'[g] = loose[g]
      BY <1>4, <2>9
    <3>2. Fresh(alert[g], now)' <=> Fresh(alert[g], now)
      BY <1>1, <2>6, <2>7, <2>9
    <3>3. QED
      BY <2>1, <2>2, <2>3, <3>1, <3>2 DEF Sparing
  <2>10. QED
    BY <2>8, <2>9
<1>9. QED
  BY <1>7, <1>8 DEF MonitorInv

\* A restart: what was under way is missed, and what was sent is not on record.
LEMMA MonitorRestartStep ==
  ASSUME MonitorInv, MonitorRestart
  PROVE  MonitorInv'
<1>1. /\ check' = [q \in Checks |-> NoCheck]
      /\ UNCHANGED <<now, failed, alert, counted, latest, sent, begun>>
      /\ missed' = missed \cup {p \in Watched :
           \E q \in Busy(p) : check[q].at \in {"count", "dedup", "send"}}
      /\ loose' = [p \in Watched |-> loose[p] + Cardinality(Marking(p))]
      /\ upsets < MaxUpsets /\ upsets' = upsets + 1
  BY DEF MonitorRestart, Upset, rowVars, Marking
<1>2. MonitorBase /\ MonitorTypeOK
  BY DEF MonitorInv, MonitorBase
<1>3. \A p \in Watched : loose[p] \in Nat /\ sent[p] \in Nat
  BY <1>2 DEF MonitorTypeOK
<1>4. \A p \in Watched : Cardinality(Marking(p)) \in Nat
  BY SendersFew
<1>5. loose' \in [Watched -> Nat] /\ \A p \in Watched : loose'[p] = loose[p] + Cardinality(Marking(p))
  BY <1>1, <1>3, <1>4
<1>6. upsets' \in 0..MaxUpsets /\ missed' \subseteq Watched
  BY <1>1, <1>2 DEF MonitorTypeOK
<1>7. check' \in [Checks -> CheckSet] /\ \A s \in Checks : check'[s] = NoCheck
  BY <1>1, NoCheckIs
<1>8. MonitorTypeOK'
  BY <1>1, <1>2, <1>5, <1>6, <1>7 DEF MonitorTypeOK, CheckSet
<1>9. MonitorBase'
  <2>1. \A g \in Watched : counted'[g] <= now' /\ alert'[g] <= latest'[g] /\ IsFiniteSet(failed'[g])
    BY <1>1, <1>2 DEF MonitorBase
  <2>2. \A s \in Checks : check'[s] = NoCheck /\ check'[s].at # "mark"
    BY <1>7, NoCheckIs
  <2>3. QED
    BY <1>8, <2>1, <2>2 DEF MonitorBase
<1>10. ASSUME NEW g \in Watched PROVE SeenTo(g)' /\ Sparing(g)'
  <2>1. SeenTo(g) /\ Sparing(g)
    BY DEF MonitorInv
  <2>2. /\ Sending(g)' = {} /\ Marking(g)' = {}
    BY <1>7, <1>10, NoCheckIs DEF Sending, Marking, Busy
  <2>3. Recent(g, counted[g])' = Recent(g, counted[g])
    BY <1>1 DEF Recent
  <2>4. SeenTo(g)'
    <3>1. CASE Pending(g) = {}
      BY <1>1, <2>1, <2>3, <3>1 DEF SeenTo
    <3>2. CASE Pending(g) # {}
      <4>1. \E q \in Busy(g) : check[q].at \in {"count", "dedup", "send"}
        BY <3>2 DEF Pending
      <4>2. g \in missed'
        BY <1>1, <4>1
      <4>3. QED
        BY <4>2 DEF SeenTo
    <3>3. QED
      BY <3>1, <3>2
  <2>5. Sparing(g)'
    <3>1. /\ Cardinality(Sending(g)) \in Nat /\ Cardinality(Marking(g)) \in Nat
          /\ Cardinality(Checks) \in Nat
      BY SendersFew
    <3>2. Cardinality(Sending(g)') = 0 /\ Cardinality(Marking(g)') = 0
      BY <2>2, FS_EmptySet
    <3>3. /\ loose'[g] = loose[g] + Cardinality(Marking(g)) /\ loose[g] \in Nat /\ sent[g] \in Nat
          /\ sent'[g] = sent[g] /\ (Fresh(alert[g], now)' <=> Fresh(alert[g], now))
      BY <1>1, <1>3, <1>5 DEF Fresh
    <3>4. QED
      BY <2>1, <3>1, <3>2, <3>3 DEF Sparing
  <2>6. QED
    BY <2>4, <2>5
<1>11. QED
  BY <1>9, <1>10 DEF MonitorInv

LEMMA MonitorStarts ==
  ASSUME MonitorInit
  PROVE  MonitorInv
<1>1. /\ now = 0 /\ begun = 0 /\ upsets = 0 /\ missed = {}
      /\ check = [q \in Checks |-> NoCheck]
      /\ \A p \in Watched : /\ failed[p] = {} /\ alert[p] = Never /\ latest[p] = Never
                            /\ counted[p] = 0 /\ sent[p] = 0 /\ loose[p] = 0
  BY DEF MonitorInit
<1>2. Never \in Int
  BY DEF Never
<1>3. check \in [Checks -> CheckSet] /\ \A s \in Checks : check[s] = NoCheck
  BY <1>1, NoCheckIs
<1>4. MonitorTypeOK
  <2>1. /\ failed \in [Watched -> SUBSET [at : Nat, id : Nat]]
        /\ alert \in [Watched -> Int] /\ latest \in [Watched -> Int]
        /\ counted \in [Watched -> Nat] /\ sent \in [Watched -> Nat] /\ loose \in [Watched -> Nat]
    BY <1>2 DEF MonitorInit
  <2>2. QED
    BY <1>1, <1>3, <2>1 DEF MonitorTypeOK, CheckSet
<1>5. MonitorBase
  <2>1. IsFiniteSet({})
    BY FS_EmptySet
  <2>2. QED
    BY <1>1, <1>2, <1>3, <1>4, <2>1, NoCheckIs DEF MonitorBase
<1>6. ASSUME NEW g \in Watched PROVE SeenTo(g) /\ Sparing(g)
  <2>1. Recent(g, counted[g]) = {} /\ Sending(g) = {} /\ Marking(g) = {}
    BY <1>1, <1>3, NoCheckIs DEF Recent, Sending, Marking, Busy
  <2>2. Cardinality({}) = 0 /\ Cardinality(Checks) \in Nat
    BY FS_EmptySet, FS_CardinalityType
  <2>3. QED
    BY <1>1, <2>1, <2>2 DEF SeenTo, Sparing
<1>7. QED
  BY <1>5, <1>6 DEF MonitorInv

LEMMA MonitorKeeps ==
  ASSUME MonitorInv, [MonitorNext]_monitorVars
  PROVE  MonitorInv'
<1>1. CASE UNCHANGED monitorVars
  <2>1. UNCHANGED <<now, check, failed, alert, counted, latest, missed, sent, loose, begun, upsets>>
    BY <1>1 DEF monitorVars, rowVars, ghostVars
  <2>2. MonitorBase'
    BY <2>1 DEF MonitorInv, MonitorBase, MonitorTypeOK
  <2>3. ASSUME NEW g \in Watched PROVE SeenTo(g)' /\ Sparing(g)'
    <3>1. SeenTo(g) /\ Sparing(g)
      BY DEF MonitorInv
    <3>2. /\ Pending(g)' = Pending(g) /\ Sending(g)' = Sending(g) /\ Marking(g)' = Marking(g)
          /\ Recent(g, counted[g])' = Recent(g, counted[g])
      BY <2>1 DEF Pending, Sending, Marking, Busy, Recent
    <3>3. QED
      BY <2>1, <3>1, <3>2 DEF SeenTo, Sparing, Fresh
  <2>4. QED
    BY <2>2, <2>3 DEF MonitorInv
<1>2. ASSUME NEW q \in Checks, CheckStep(q) PROVE MonitorInv'
  BY <1>2, RecordAttemptStep, CheckAndAlertStep, DedupStep, SendAlertStep, MarkAlertStep
  DEF CheckStep
<1>3. ASSUME NEW q \in Checks, CheckUpset(q) PROVE MonitorInv'
  BY <1>3, RecordAttemptFailsStep, CheckFailsStep, DedupFailsStep, SendFailsStep, MarkFailsStep
  DEF CheckUpset
<1>4. QED
  BY <1>1, <1>2, <1>3, RefusedStep, TickStep, MonitorRestartStep DEF MonitorNext

-----------------------------------------------------------------------------
(* The monitor: the theorems *)

\* For any number of checks and any course of the clock, the variables of the
\* monitor have their types.
THEOREM MonitorTypeCorrect == MonitorSpec => []MonitorTypeOK
<1>1. MonitorInv => MonitorTypeOK
  BY DEF MonitorInv, MonitorBase
<1>2. QED
  BY <1>1, MonitorStarts, MonitorKeeps, PTL DEF MonitorSpec

\* For any number of concurrent checks, any threshold and any course of the
\* clock, an alert that is due by the last count has gone out once the checks
\* are through, unless a count or the webhook failed or the process stopped
\* (_check_and_alert and _send_alert in core/key_validation_monitor.py).
THEOREM DueAlertsFire == MonitorSpec => []AlertFires
<1>1. MonitorInv => AlertFires
  <2>1. SUFFICES ASSUME MonitorInv, NEW p \in Watched \ missed, Busy(p) = {},
                        Cardinality(Recent(p, counted[p])) >= Threshold
                 PROVE  latest[p] > counted[p] - Hour
    BY DEF AlertFires
  <2>2. SeenTo(p) /\ Pending(p) = {}
    BY <2>1 DEF MonitorInv, Pending
  <2>3. QED
    BY <2>1, <2>2 DEF SeenTo
<1>2. QED
  BY <1>1, MonitorStarts, MonitorKeeps, PTL DEF MonitorSpec

\* For any number of concurrent checks and any course of the clock, no more
\* alerts go out between the ends of two recorded alerts' hours than there are
\* checks, but for the looks that failed and the alerts that could not be
\* recorded (the de-duplication of _send_alert).
THEOREM AlertsAreFew == MonitorSpec => []AlertsBounded
<1>1. MonitorInv => AlertsBounded
  <2>1. SUFFICES ASSUME MonitorInv, NEW p \in Watched
                 PROVE  sent[p] <= Cardinality(Checks) + loose[p]
    BY DEF AlertsBounded
  <2>2. Sparing(p) /\ sent[p] \in Nat /\ loose[p] \in Nat
    BY <2>1 DEF MonitorInv, MonitorBase, MonitorTypeOK
  <2>3. /\ Cardinality(Sending(p)) \in Nat /\ Cardinality(Marking(p)) \in Nat
        /\ Cardinality(Checks) \in Nat
        /\ Cardinality(Sending(p)) + Cardinality(Marking(p)) <= Cardinality(Checks)
    BY SendersFew
  <2>4. QED
    BY <2>2, <2>3 DEF Sparing
<1>2. QED
  BY <1>1, MonitorStarts, MonitorKeeps, PTL DEF MonitorSpec

-----------------------------------------------------------------------------
(* The store: the invariant *)

USE KeysAssumption, RoutesAssumption

\* Where a change of each kind may stand.
Places(op) ==
  {"list", "rotate"} \cup CASE op = "set" -> {"store"} [] OTHER -> {"erase"}

\* What is true of every change in flight by itself.
Shape(x) ==
  /\ x.p \in Providers /\ x.op \in {"set", "delete"} /\ x.at \in Places(x.op)
  /\ x.todo \subseteq RoutesOf(x.p)
  /\ x.at \in {"store", "list", "rotate"} => x.key \in Keys

Base == TypeOK /\ \A q \in Requests : req[q] = NoReq \/ Shape(req[q])

\* The changes of p that have written the store and rotate its routes.
Turning(p) == {q \in Changing(p) : req[q].at \in {"list", "rotate"}}

\* The routes of p use the store's key, but for those of the catalog that are not
\* there yet.
Fits(p) ==
  \A r \in RoutesOf(p) : live[r] = Effective(p) \/ (r \in Catalog /\ live[r] = None)

\* A rotation to the key of the store: the routes it has reached use that key.
HalfWay(q, p) ==
  /\ Effective(p) = req[q].key
  /\ req[q].at = "rotate" =>
       \A r \in RoutesOf(p) \ req[q].todo : live[r] \in {None, req[q].key}

\* Without drift a change has its provider to itself, and the routes fit except
\* while it rotates them.
InStep(p) ==
  /\ \A q \in Changing(p) : req[q].alone => Changing(p) = {q}
  /\ p \notin drift => \A q \in Changing(p) : req[q].alone
  /\ \A q \in Turning(p) : req[q].alone /\ (req[q].op = "set" \/ p \notin drift) => HalfWay(q, p)
  /\ p \notin drift /\ Turning(p) = {} => Fits(p)

AllInStep == \A p \in Providers : InStep(p)

Inv == Base /\ AllInStep

-----------------------------------------------------------------------------
(* Requests *)

Reqs == [op : {"none", "set", "delete"}, p : Providers \cup {None},
         key : Keys \cup {None},
         at : {"none", "store", "erase", "list", "rotate"},
         todo : SUBSET Routes, alone : BOOLEAN]

LEMMA NoReqIs == NoReq \in Reqs /\ NoReq.p = None /\ NoReq.op = "none" /\ NoReq.at = "none"
BY DEF NoReq, Reqs

LEMMA ReqsIs == TypeOK => req \in [Requests -> Reqs]
BY DEF TypeOK, Reqs

\* A request that stands somewhere has a shape.
LEMMA UnderWay ==
  ASSUME Base, NEW q \in Requests, req[q].at # "none"
  PROVE  req[q] # NoReq /\ Shape(req[q]) /\ req[q] \in Reqs
BY NoReqIs, ReqsIs DEF Base

\* The key of the store or of the environment is a key, if there is one.
LEMMA EffectiveIs ==
  ASSUME TypeOK, NEW p \in Providers
  PROVE  Effective(p) \in Keys \cup {None} /\ env[p] \in Keys \cup {None}
<1>1. row[p] \in Rows /\ env[p] \in Keys \cup {None}
  BY DEF TypeOK
<1>2. Decrypt(row[p], token) \in Keys \cup {None}
  BY <1>1 DEF Decrypt, Rows
<1>3. QED
  BY <1>1, <1>2 DEF Effective

\* A request goes on to x, or ends.
Moves(q, x) ==
  /\ req' = [req EXCEPT ![q] = x] /\ x \in Reqs
  /\ \/ x = NoReq
     \/ Shape(x) /\ x.p = req[q].p /\ x.op = req[q].op /\ x.alone = req[q].alone

\* It keeps types and shapes, with variables of the right types.
LEMMA MovesBase ==
  ASSUME Base, NEW q \in Requests, NEW x, Moves(q, x),
         env' = env, token' = token, row' \in [Providers -> Rows], backup' = backup,
         live' \in [Routes -> Keys \cup {None}], bucket' = bucket,
         drift' \subseteq Providers,
         starts' = starts, faults' \in 0..MaxFaults
  PROVE  Base'
<1>1. req \in [Requests -> Reqs] /\ TypeOK /\ x \in Reqs
  BY ReqsIs DEF Base, Moves
<1>2. req' \in [Requests -> Reqs]
  BY <1>1 DEF Moves
<1>3. TypeOK'
  BY <1>1, <1>2 DEF TypeOK, Reqs
<1>4. ASSUME NEW s \in Requests PROVE req'[s] = NoReq \/ Shape(req'[s])
  <2>1. req'[s] = x \/ req'[s] = req[s]
    BY <1>1 DEF Moves
  <2>2. QED
    BY <2>1 DEF Base, Moves
<1>5. QED
  BY <1>3, <1>4 DEF Base

-----------------------------------------------------------------------------
(* Steps that change keys *)

\* The providers a step is not about stay in step.
LEMMA OthersInStep ==
  ASSUME AllInStep, NEW p \in Providers, InStep(p)', env' = env, token' = token,
         \A g \in Providers \ {p} :
           /\ Changing(g)' = Changing(g) /\ \A s \in Changing(g) : req'[s] = req[s]
           /\ row'[g] = row[g] /\ (g \in drift' <=> g \in drift)
           /\ \A r \in RoutesOf(g) : live'[r] = live[r]
  PROVE  AllInStep'
<1>1. ASSUME NEW g \in Providers \ {p} PROVE InStep(g)'
  <2>1. /\ InStep(g) /\ Changing(g)' = Changing(g) /\ \A s \in Changing(g) : req'[s] = req[s]
        /\ row'[g] = row[g] /\ (g \in drift' <=> g \in drift)
        /\ \A r \in RoutesOf(g) : live'[r] = live[r]
    BY <1>1 DEF AllInStep
  <2>2. Turning(g)' = Turning(g) /\ \A s \in Turning(g) : s \in Changing(g) /\ req'[s] = req[s]
    BY <2>1 DEF Turning
  <2>3. Effective(g)' = Effective(g) /\ (Fits(g) => Fits(g)')
    BY <2>1 DEF Effective, Decrypt, Fits
  <2>4. \A s \in Turning(g) : HalfWay(s, g) => HalfWay(s, g)'
    BY <2>1, <2>2, <2>3 DEF HalfWay
  <2>5. QED
    BY <2>1, <2>2, <2>3, <2>4 DEF InStep
<1>2. QED
  BY <1>1 DEF AllInStep

\* What a move does to the changes of each provider.
Shifts(q, p, x) ==
  /\ \A g \in Providers \ {p} :
       Changing(g)' = Changing(g) /\ \A s \in Changing(g) : req'[s] = req[s]
  /\ q \in Changing(p) /\ req'[q] = x
  /\ \A s \in Changing(p) : s # q => req'[s] = req[s]
  /\ x = NoReq => Changing(p)' = Changing(p) \ {q}
  /\ x # NoReq => Changing(p)' = Changing(p) /\ x.alone = req[q].alone

LEMMA MovesChanging ==
  ASSUME Base, NEW q \in Requests, req[q].at # "none", NEW p \in Providers, p = req[q].p,
         NEW x, Moves(q, x)
  PROVE  Shifts(q, p, x)
<1>1. /\ req \in [Requests -> Reqs] /\ req' = [req EXCEPT ![q] = x]
      /\ NoReq.p = None /\ None \notin Providers
      /\ x # NoReq => x.p = p /\ x.alone = req[q].alone
  BY NoReqIs, ReqsIs DEF Base, Moves
<1>2. req'[q] = x /\ \A s \in Requests \ {q} : req'[s] = req[s]
  BY <1>1
<1>3. QED
  BY <1>1, <1>2 DEF Changing, Shifts

\* A change that has written the store begins to rotate, or ends because there
\* is nothing to rotate to.
Begins(q, p, x) ==
  \/ x = NoReq /\ p \in drift'
  \/ /\ x # NoReq /\ x.at = "list"
     /\ Effective(p)' = x.key \/ (x.op = "delete" /\ p \in drift')

LEMMA RotationBegins ==
  ASSUME Base, AllInStep, NEW q \in Requests, req[q].at # "none", NEW p \in Providers,
         p = req[q].p, NEW x, Moves(q, x), Begins(q, p, x),
         env' = env, token' = token, live' = live, drift \subseteq drift',
         \A g \in Providers \ {p} : row'[g] = row[g] /\ (g \in drift' <=> g \in drift)
  PROVE  AllInStep'
<1>1. /\ \A g \in Providers \ {p} :
           Changing(g)' = Changing(g) /\ \A s \in Changing(g) : req'[s] = req[s]
      /\ q \in Changing(p) /\ req'[q] = x
      /\ \A s \in Changing(p) : s # q => req'[s] = req[s]
      /\ x = NoReq => Changing(p)' = Changing(p) \ {q}
      /\ x # NoReq => Changing(p)' = Changing(p) /\ x.alone = req[q].alone
  <2>1. Shifts(q, p, x)
    BY MovesChanging
  <2>2. QED
    BY <2>1 DEF Shifts
<1>2. InStep(p)
  BY DEF AllInStep
<1>3. \A s \in Changing(p) : req[s].alone => s = q
  BY <1>1, <1>2 DEF InStep
<1>4. CASE x = NoReq
  <2>1. p \in drift'
    BY <1>4 DEF Begins
  <2>2. \A s \in Changing(p)' : ~req'[s].alone
    BY <1>1, <1>3, <1>4
  <2>3. Turning(p)' \subseteq Changing(p)'
    BY DEF Turning
  <2>4. InStep(p)'
    BY <2>1, <2>2, <2>3 DEF InStep
  <2>5. QED
    BY <1>1, <2>4, OthersInStep
<1>5. CASE x # NoReq
  <2>1. /\ Changing(p)' = Changing(p) /\ x.at = "list"
        /\ \A s \in Changing(p) : req'[s].alone = req[s].alone
    BY <1>1, <1>5 DEF Begins
  <2>2. q \in Turning(p)' /\ Turning(p)' \subseteq Changing(p)
    BY <1>1, <2>1 DEF Turning
  <2>3. Effective(p)' = x.key => HalfWay(q, p)'
    BY <1>1, <2>1 DEF HalfWay
  <2>4. \A s \in Turning(p)' :
          req'[s].alone /\ (req'[s].op = "set" \/ p \notin drift') => HalfWay(s, p)'
    BY <1>1, <1>3, <1>5, <2>1, <2>2, <2>3 DEF Begins
  <2>5. \A s \in Changing(p)' : req'[s].alone => Changing(p)' = {s}
    BY <1>2, <2>1 DEF InStep
  <2>6. p \notin drift' => \A s \in Changing(p)' : req'[s].alone
    BY <1>2, <2>1 DEF InStep
  <2>7. InStep(p)'
    BY <2>2, <2>4, <2>5, <2>6 DEF InStep
  <2>8. QED
    BY <1>1, <2>7, OthersInStep
<1>6. QED
  BY <1>4, <1>5

\* A step of a change that keeps the providers in step keeps the invariant.
LEMMA KeyStepKeeps ==
  ASSUME Inv, NEW q \in Requests, NEW x, Moves(q, x), AllInStep',
         env' = env, token' = token, row' \in [Providers -> Rows], backup' = backup,
         live' \in [Routes -> Keys \cup {None}], bucket' = bucket,
         drift' \subseteq Providers, starts' = starts, faults' \in 0..MaxFaults
  PROVE  Inv'
BY MovesBase DEF Inv

\* The key is in the store, under the token that effective_key reads with.
LEMMA SetKeyStep ==
  ASSUME Inv, NEW q \in Requests, SetKey(q)
  PROVE  Inv'
<1>1. PICK p \in Providers : p = req[q].p
  BY UnderWay DEF SetKey, Inv, Shape
<1>2. /\ TypeOK /\ req[q] \in Reqs /\ Shape(req[q]) /\ req \in [Requests -> Reqs]
      /\ req[q].at = "store"
  BY UnderWay, ReqsIs DEF SetKey, Inv, Base
<1>3. req[q].op = "set" /\ req[q].key \in Keys /\ token \in Tokens
  BY <1>2 DEF Shape, Places, TypeOK
<1> DEFINE x == [req[q] EXCEPT !.at = "list"]
           w == [key |-> req[q].key, token |-> token]
<1>4. /\ x \in Reqs /\ x.at = "list" /\ x.p = p /\ x.op = "set" /\ x.alone = req[q].alone
      /\ x.todo = req[q].todo /\ x.key = req[q].key
  BY <1>1, <1>2, <1>3 DEF Reqs
<1>5. req' = [req EXCEPT ![q] = x] /\ row' = [row EXCEPT ![p] = w]
  BY <1>1, <1>2 DEF SetKey
<1>6. w \in Rows /\ w # None /\ w.key = req[q].key /\ w.token = token
  <2>1. w \in [key : Keys, token : Tokens]
    BY <1>3
  <2>2. QED
    BY <2>1, RowsAssumption DEF Rows
<1> HIDE DEF x, w
<1>7. row' \in [Providers -> Rows] /\ row'[p] = w /\ \A g \in Providers \ {p} : row'[g] = row[g]
  BY <1>2, <1>5, <1>6 DEF TypeOK
<1>8. Moves(q, x) /\ x # NoReq
  BY <1>1, <1>2, <1>3, <1>4, <1>5, NoReqIs DEF Moves, Shape, Places
<1>9. /\ UNCHANGED <<env, token, backup, live, bucket, drift, starts, faults>>
  BY DEF SetKey
<1>10. Effective(p)' = x.key
  BY <1>3, <1>4, <1>6, <1>7, <1>9 DEF Effective, Decrypt
<1>11. Begins(q, p, x)
  BY <1>4, <1>8, <1>10 DEF Begins
<1>12. AllInStep'
  BY <1>1, <1>2, <1>3, <1>7, <1>8, <1>9, <1>11, RotationBegins DEF Inv
<1>13. QED
  BY <1>2, <1>4, <1>7, <1>8, <1>9, <1>12, KeyStepKeeps DEF TypeOK

\* A key that could not be stored changes nothing.
LEMMA SetKeyFailsStep ==
  ASSUME Inv, NEW q \in Requests, SetKeyFails(q)
  PROVE  Inv'
<1>1. /\ TypeOK /\ Shape(req[q]) /\ req[q].at = "store"
  BY UnderWay DEF SetKeyFails, Inv, Base
<1>2. PICK p \in Providers : p = req[q].p
  BY <1>1 DEF Shape
<1>3. PICK x : x = NoReq
  OBVIOUS
<1>4. Moves(q, x)
  BY <1>3, NoReqIs DEF SetKeyFails, Moves
<1>5. /\ UNCHANGED <<env, token, row, backup, live, bucket, drift, starts>>
      /\ faults' \in 0..MaxFaults
  BY <1>1 DEF SetKeyFails, storeVars, Fault, TypeOK
<1>6. /\ \A g \in Providers \ {p} :
           Changing(g)' = Changing(g) /\ \A s \in Changing(g) : req'[s] = req[s]
      /\ \A s \in Changing(p) : s # q => req'[s] = req[s]
      /\ Changing(p)' = Changing(p) \ {q} /\ q \in Changing(p)
  <2>1. Shifts(q, p, x)
    BY <1>1, <1>2, <1>3, <1>4, MovesChanging DEF Inv
  <2>2. QED
    BY <1>3, <2>1 DEF Shifts
<1>7. InStep(p)'
  <2>1. InStep(p) /\ q \notin Turning(p)
    BY <1>1 DEF Inv, AllInStep, Turning
  <2>2. Turning(p)' = Turning(p) /\ Turning(p) \subseteq Changing(p)'
    BY <1>6, <2>1 DEF Turning
  <2>3. Effective(p)' = Effective(p) /\ (Fits(p) => Fits(p)')
    BY <1>5 DEF Effective, Decrypt, Fits
  <2>4. \A s \in Changing(p)' : s \in Changing(p) /\ req'[s] = req[s] /\ ~req[s].alone
    BY <1>6, <2>1 DEF InStep
  <2>5. QED
    BY <1>5, <2>1, <2>2, <2>3, <2>4 DEF InStep
<1>8. AllInStep'
  BY <1>5, <1>6, <1>7, OthersInStep DEF Inv
<1>9. QED
  BY <1>1, <1>4, <1>5, <1>8, KeyStepKeeps DEF TypeOK

\* A deletion goes on to the environment's key.  When it failed, or there is no
\* such key, the routes drift.
LEMMA DeleteKeyStep ==
  ASSUME Inv, NEW q \in Requests, DeleteKey(q) \/ DeleteKeyFails(q)
  PROVE  Inv'
<1>1. req[q].at = "erase" /\ AfterDelete(q)
  BY DEF DeleteKey, DeleteKeyFails
<1>2. /\ TypeOK /\ req[q] \in Reqs /\ Shape(req[q]) /\ req \in [Requests -> Reqs]
  BY <1>1, UnderWay, ReqsIs DEF Inv, Base
<1>3. PICK p \in Providers : p = req[q].p
  BY <1>2 DEF Shape
<1>4. req[q].op = "delete" /\ env[p] \in Keys \cup {None}
  BY <1>1, <1>2, EffectiveIs DEF Shape, Places
<1> DEFINE y == [req[q] EXCEPT !.at = "list", !.key = env[p]]
<1>5. /\ y \in Reqs /\ y.at = "list" /\ y.p = p /\ y.op = "delete" /\ y.alone = req[q].alone
      /\ y.todo = req[q].todo /\ y.key = env[p]
  BY <1>2, <1>3, <1>4 DEF Reqs
<1>6. req' = [req EXCEPT ![q] = IF env[p] = None THEN NoReq ELSE y]
  BY <1>1, <1>2, <1>3 DEF AfterDelete
<1> HIDE DEF y
<1>7. /\ UNCHANGED <<env, token, backup, live, bucket, starts>>
      /\ faults' \in 0..MaxFaults
  BY <1>2 DEF DeleteKey, DeleteKeyFails, storeVars, Fault, TypeOK
<1>8. row' \in [Providers -> Rows] /\ \A g \in Providers \ {p} : row'[g] = row[g]
  BY <1>2, <1>3 DEF DeleteKey, DeleteKeyFails, storeVars, TypeOK, Rows
<1>9. /\ drift' \in {drift, drift \cup {p}}
      /\ env[p] = None => p \in drift'
      /\ p \in drift' \/ row'[p] = None
  <2>1. CASE DeleteKey(q)
    <3>1. row' = [row EXCEPT ![p] = None]
      BY <1>3, <2>1 DEF DeleteKey
    <3>2. QED
      BY <1>2, <1>3, <2>1, <3>1 DEF DeleteKey, TypeOK
  <2>2. CASE DeleteKeyFails(q)
    BY <1>3, <2>2 DEF DeleteKeyFails
  <2>3. QED
    BY <2>1, <2>2
<1>10. PICK x : x = IF env[p] = None THEN NoReq ELSE y
  OBVIOUS
<1>11. Moves(q, x) /\ x.at \in {"none", "list"}
  <2>1. env[p] # None => Shape(y)
    BY <1>2, <1>3, <1>4, <1>5 DEF Shape, Places
  <2>2. QED
    BY <1>3, <1>4, <1>5, <1>6, <1>10, <2>1, NoReqIs DEF Moves
<1>12. Begins(q, p, x)
  <2>1. row'[p] = None => Effective(p)' = env[p]
    BY <1>7 DEF Effective, Decrypt
  <2>2. y # NoReq
    BY <1>5, NoReqIs
  <2>3. QED
    BY <1>5, <1>9, <1>10, <2>1, <2>2 DEF Begins
<1>13. AllInStep'
  BY <1>1, <1>3, <1>4, <1>7, <1>8, <1>9, <1>11, <1>12, RotationBegins DEF Inv
<1>14. drift' \subseteq Providers
  BY <1>2, <1>9 DEF TypeOK
<1>15. QED
  BY <1>1, <1>2, <1>7, <1>8, <1>11, <1>13, <1>14, KeyStepKeeps DEF TypeOK

\* The rotation takes the routes there are; the others have no key.
LEMMA ListRoutesStep ==
  ASSUME Inv, NEW q \in Requests, ListRoutes(q)
  PROVE  Inv'
<1>1. /\ TypeOK /\ req[q] \in Reqs /\ Shape(req[q]) /\ req \in [Requests -> Reqs]
      /\ req[q].at = "list"
  BY UnderWay, ReqsIs DEF ListRoutes, Inv, Base
<1>2. PICK p \in Providers : p = req[q].p
  BY <1>1 DEF Shape
<1>3. req[q].op \in {"set", "delete"} /\ req[q].key \in Keys
  BY <1>1 DEF Shape, Places
<1>4. PICK T : T = RoutesOf(p) \cap AllRoutes
  OBVIOUS
<1>5. T \subseteq RoutesOf(p) /\ T \in SUBSET Routes /\ \A r \in RoutesOf(p) \ T : live[r] = None
  BY <1>4 DEF RoutesOf, AllRoutes
<1> DEFINE x == [req[q] EXCEPT !.at = "rotate", !.todo = T]
<1>6. /\ x \in Reqs /\ x.at = "rotate" /\ x.p = p /\ x.op = req[q].op /\ x.alone = req[q].alone
      /\ x.todo = T /\ x.key = req[q].key
  BY <1>1, <1>2, <1>5 DEF Reqs
<1>7. req' = [req EXCEPT ![q] = x]
  BY <1>1, <1>2, <1>4 DEF ListRoutes
<1> HIDE DEF x
<1>8. Moves(q, x) /\ x # NoReq
  BY <1>2, <1>3, <1>5, <1>6, <1>7, NoReqIs DEF Moves, Shape, Places
<1>9. UNCHANGED <<env, token, row, backup, live, bucket, drift, starts, faults>>
  BY DEF ListRoutes, storeVars
<1>10. /\ \A g \in Providers \ {p} :
            Changing(g)' = Changing(g) /\ \A s \in Changing(g) : req'[s] = req[s]
       /\ q \in Changing(p) /\ req'[q] = x
       /\ \A s \in Changing(p) : s # q => req'[s] = req[s]
       /\ Changing(p)' = Changing(p)
  <2>1. Shifts(q, p, x)
    BY <1>1, <1>2, <1>8, MovesChanging DEF Inv
  <2>2. QED
    BY <1>8, <2>1 DEF Shifts
<1>11. InStep(p)'
  <2>1. InStep(p)
    BY DEF Inv, AllInStep
  <2>2. \A s \in Changing(p) : req'[s].alone = req[s].alone /\ req'[s].op = req[s].op
    BY <1>6, <1>10
  <2>3. Turning(p)' = Turning(p) /\ q \in Turning(p) /\ Turning(p) \subseteq Changing(p)
    BY <1>1, <1>6, <1>10 DEF Turning
  <2>4. \A s \in Changing(p) : req[s].alone => s = q
    BY <1>10, <2>1 DEF InStep
  <2>5. HalfWay(q, p) => HalfWay(q, p)'
    <3>1. Effective(p)' = Effective(p)
      BY <1>9 DEF Effective, Decrypt
    <3>2. QED
      BY <1>5, <1>6, <1>9, <1>10, <3>1 DEF HalfWay
  <2>6. \A s \in Turning(p)' :
          req'[s].alone /\ (req'[s].op = "set" \/ p \notin drift') => HalfWay(s, p)'
    BY <1>9, <2>1, <2>2, <2>3, <2>4, <2>5 DEF InStep
  <2>7. QED
    BY <1>9, <1>10, <2>1, <2>2, <2>3, <2>6 DEF InStep
<1>12. AllInStep'
  BY <1>9, <1>10, <1>11, OthersInStep DEF Inv
<1>13. QED
  BY <1>1, <1>8, <1>9, <1>12, KeyStepKeeps DEF TypeOK

\* One more route has the key.
LEMMA RotateStep ==
  ASSUME Inv, NEW q \in Requests, Rotate(q)
  PROVE  Inv'
<1>1. /\ TypeOK /\ req[q] \in Reqs /\ Shape(req[q]) /\ req \in [Requests -> Reqs]
      /\ req[q].at = "rotate"
  BY UnderWay, ReqsIs DEF Rotate, Inv, Base
<1>2. PICK p \in Providers : p = req[q].p
  BY <1>1 DEF Shape
<1>3. /\ req[q].op \in {"set", "delete"} /\ req[q].key \in Keys
      /\ req[q].todo \subseteq RoutesOf(p)
  BY <1>1, <1>2 DEF Shape, Places
<1>4. PICK r \in req[q].todo : /\ live' = [live EXCEPT ![r] = IF @ = None THEN None ELSE req[q].key]
                               /\ req' = [req EXCEPT ![q].todo = @ \ {r}]
  BY DEF Rotate
<1> DEFINE x == [req[q] EXCEPT !.todo = @ \ {r}]
<1>5. /\ x \in Reqs /\ x.at = "rotate" /\ x.p = p /\ x.op = req[q].op /\ x.alone = req[q].alone
      /\ x.todo = req[q].todo \ {r} /\ x.key = req[q].key
  BY <1>1, <1>2 DEF Reqs
<1>6. req' = [req EXCEPT ![q] = x]
  BY <1>1, <1>4
<1> HIDE DEF x
<1>7. Moves(q, x) /\ x # NoReq
  BY <1>2, <1>3, <1>5, <1>6, NoReqIs DEF Moves, Shape, Places
<1>8. UNCHANGED <<env, token, row, backup, bucket, drift, starts, faults>>
  BY DEF Rotate, storeVars
<1>9. /\ r \in Routes /\ BudgetId(r) = p
      /\ live' \in [Routes -> Keys \cup {None}] /\ live'[r] \in {None, req[q].key}
      /\ \A s \in Routes : s # r => live'[s] = live[s]
  BY <1>1, <1>3, <1>4 DEF TypeOK, RoutesOf
<1>10. /\ \A g \in Providers \ {p} :
            Changing(g)' = Changing(g) /\ \A s \in Changing(g) : req'[s] = req[s]
       /\ q \in Changing(p) /\ req'[q] = x
       /\ \A s \in Changing(p) : s # q => req'[s] = req[s]
       /\ Changing(p)' = Changing(p)
  <2>1. Shifts(q, p, x)
    BY <1>1, <1>2, <1>7, MovesChanging DEF Inv
  <2>2. QED
    BY <1>7, <2>1 DEF Shifts
<1>11. \A g \in Providers \ {p} : \A s \in RoutesOf(g) : live'[s] = live[s]
  BY <1>9 DEF RoutesOf
<1>12. InStep(p)'
  <2>1. InStep(p)
    BY DEF Inv, AllInStep
  <2>2. \A s \in Changing(p) : /\ req'[s].alone = req[s].alone /\ req'[s].op = req[s].op
                               /\ req'[s].at = req[s].at
    BY <1>1, <1>5, <1>10
  <2>3. Turning(p)' = Turning(p) /\ q \in Turning(p) /\ Turning(p) \subseteq Changing(p)
    BY <1>1, <1>10, <2>2 DEF Turning
  <2>4. \A s \in Changing(p) : req[s].alone => s = q
    BY <1>10, <2>1 DEF InStep
  <2>5. HalfWay(q, p) => HalfWay(q, p)'
    <3>1. Effective(p)' = Effective(p)
      BY <1>8 DEF Effective, Decrypt
    <3>2. RoutesOf(p) \subseteq Routes
      BY DEF RoutesOf
    <3>3. QED
      BY <1>1, <1>5, <1>9, <1>10, <3>1, <3>2 DEF HalfWay
  <2>6. \A s \in Turning(p)' :
          req'[s].alone /\ (req'[s].op = "set" \/ p \notin drift') => HalfWay(s, p)'
    BY <1>8, <2>1, <2>2, <2>3, <2>4, <2>5 DEF InStep
  <2>7. QED
    BY <1>8, <1>10, <2>1, <2>2, <2>3, <2>6 DEF InStep
<1>13. AllInStep'
  BY <1>8, <1>10, <1>11, <1>12, OthersInStep DEF Inv
<1>14. QED
  BY <1>1, <1>5, <1>7, <1>8, <1>9, <1>13, KeyStepKeeps DEF TypeOK

\* The rotation is over: the routes it reached fit, and a route without a
\* provider lets its provider drift.
LEMMA RotatedStep ==
  ASSUME Inv, NEW q \in Requests, Rotated(q)
  PROVE  Inv'
<1>1. /\ TypeOK /\ req[q] \in Reqs /\ Shape(req[q]) /\ req \in [Requests -> Reqs]
      /\ req[q].at = "rotate" /\ req[q].todo = {}
  BY UnderWay, ReqsIs DEF Rotated, Inv, Base
<1>2. PICK p \in Providers : p = req[q].p
  BY <1>1 DEF Shape
<1>3. req[q].op \in {"set", "delete"} /\ req[q].key \in Keys
  BY <1>1 DEF Shape, Places
<1>6. PICK x : x = NoReq
  OBVIOUS
<1>7. Moves(q, x)
  BY <1>1, <1>6, NoReqIs DEF Rotated, Moves
<1>8. UNCHANGED <<env, token, row, backup, live, bucket, starts, faults>>
  BY DEF Rotated, storeVars
<1>9. drift' = IF \E r \in RoutesOf(p) \ Catalog : live[r] = None THEN drift \cup {p}
               ELSE IF req[q].op = "set" /\ req[q].alone THEN drift \ {p} ELSE drift
  BY <1>2 DEF Rotated
<1>10. /\ \A g \in Providers \ {p} :
            Changing(g)' = Changing(g) /\ \A s \in Changing(g) : req'[s] = req[s]
       /\ q \in Changing(p) /\ req'[q] = NoReq
       /\ \A s \in Changing(p) : s # q => req'[s] = req[s]
       /\ Changing(p)' = Changing(p) \ {q}
  <2>1. Base /\ req[q].at # "none"
    BY <1>1 DEF Inv
  <2>2. Shifts(q, p, x)
    BY <1>2, <1>7, <2>1, MovesChanging
  <2>3. QED
    BY <1>6, <2>2 DEF Shifts
<1>11. InStep(p)'
  <2>1. InStep(p)
    BY DEF Inv, AllInStep
  <2>2. \A s \in Changing(p) : req[s].alone => s = q /\ Changing(p) = {q}
    BY <1>10, <2>1 DEF InStep
  <2>3. Changing(p)' \subseteq Changing(p) /\ \A s \in Changing(p)' : req'[s].alone = req[s].alone
    BY <1>7, <1>10
  <2>4. Turning(p)' \subseteq Changing(p)' /\ q \notin Turning(p)' /\ q \in Turning(p)
    BY <1>1, <1>7, <1>10 DEF Turning
  <2>5. \A s \in Changing(p)' : req'[s].alone => Changing(p)' = {s}
    BY <2>2, <2>3
  <2>6. \A s \in Turning(p)' : ~req'[s].alone
    BY <2>2, <2>3, <2>4
  <2>7. p \notin drift' => req[q].alone /\ HalfWay(q, p)
    BY <1>3, <1>9, <1>10, <2>1, <2>4 DEF InStep
  <2>8. p \notin drift' => \A r \in RoutesOf(p) \ Catalog : live[r] # None
    BY <1>9
  <2>9. p \notin drift' => Fits(p)'
    <3>1. Effective(p)' = Effective(p)
      BY <1>8 DEF Effective, Decrypt
    <3>2. QED
      BY <1>1, <1>8, <2>7, <2>8, <3>1 DEF HalfWay, Fits
  <2>10. p \notin drift' => \A s \in Changing(p)' : req'[s].alone
    BY <1>10, <2>2, <2>3, <2>7
  <2>11. QED
    BY <2>5, <2>6, <2>9, <2>10 DEF InStep
<1>12. /\ drift' \subseteq Providers
       /\ \A g \in Providers \ {p} : g \in drift' <=> g \in drift
  BY <1>1, <1>9 DEF TypeOK
<1>13. AllInStep'
  BY <1>8, <1>10, <1>11, <1>12, OthersInStep DEF Inv
<1>14. QED
  BY <1>1, <1>7, <1>8, <1>12, <1>13, KeyStepKeeps DEF TypeOK

-----------------------------------------------------------------------------
(* Requests that come in, backups and restarts *)

\* A change of p that comes in takes the others' privilege, and nothing else.
LEMMA JoinedIs ==
  ASSUME Base, NEW p \in Providers
  PROVE  /\ Joined(p) \in [Requests -> Reqs]
         /\ \A s \in Requests :
              /\ req[s] = NoReq => Joined(p)[s] = NoReq
              /\ Shape(req[s]) => Shape(Joined(p)[s])
              /\ s \notin Changing(p) => Joined(p)[s] = req[s]
              /\ s \in Changing(p) => ~Joined(p)[s].alone
              /\ Joined(p)[s].op = req[s].op /\ Joined(p)[s].p = req[s].p
              /\ Joined(p)[s].at = req[s].at
<1>1. req \in [Requests -> Reqs]
  BY ReqsIs DEF Base
<1>2. ASSUME NEW s \in Requests
      PROVE  /\ Joined(p)[s] \in Reqs
             /\ Joined(p)[s].op = req[s].op /\ Joined(p)[s].p = req[s].p
             /\ Joined(p)[s].at = req[s].at /\ Joined(p)[s].todo = req[s].todo
             /\ Joined(p)[s].key = req[s].key
             /\ Joined(p)[s].alone = (req[s].alone /\ s \notin Changing(p))
  <2>1. req[s] \in Reqs
    BY <1>1
  <2>2. PICK b \in BOOLEAN : b = (req[s].alone /\ s \notin Changing(p))
    OBVIOUS
  <2>3. Joined(p)[s] = [req[s] EXCEPT !.alone = b]
    BY <2>2 DEF Joined
  <2>4. QED
    BY <2>1, <2>2, <2>3 DEF Reqs
<1>3. ASSUME NEW s \in Requests, s \notin Changing(p) PROVE Joined(p)[s] = req[s]
  <2>1. req[s] \in Reqs
    BY <1>1
  <2>2. Joined(p)[s] = [req[s] EXCEPT !.alone = req[s].alone]
    <3>1. (req[s].alone /\ s \notin Changing(p)) = req[s].alone
      BY <1>3, <2>1 DEF Reqs
    <3>2. QED
      BY <3>1 DEF Joined
  <2>3. QED
    BY <2>1, <2>2 DEF Reqs
<1>4. ASSUME NEW s \in Requests, req[s] = NoReq PROVE Joined(p)[s] = NoReq
  BY <1>3, <1>4, NoReqIs DEF Changing
<1>5. ASSUME NEW s \in Requests, Shape(req[s]) PROVE Shape(Joined(p)[s])
  BY <1>2, <1>5 DEF Shape
<1>6. Joined(p) \in [Requests -> Reqs]
  BY <1>2 DEF Joined
<1>7. QED
  BY <1>2, <1>3, <1>4, <1>5, <1>6

\* A change comes in.
LEMMA BeginStep ==
  ASSUME Inv, NEW q \in Requests, NEW p \in Providers, NEW op \in {"set", "delete"},
         NEW key \in Keys \cup {None}, NEW at \in {"store", "erase"},
         at \in Places(op), at = "store" => key \in Keys, Begin(q, op, p, key, at)
  PROVE  Inv'
<1>1. /\ Base /\ TypeOK /\ req \in [Requests -> Reqs] /\ req[q] = NoReq /\ NoReq.at = "none"
      /\ NoReq.p = None /\ InStep(p)
  BY ReqsIs, NoReqIs DEF Inv, Base, Begin, AllInStep
<1>2. PICK alone \in BOOLEAN : alone = (Changing(p) = {})
  OBVIOUS
<1> DEFINE y == [op |-> op, p |-> p, key |-> key, at |-> at, todo |-> {}, alone |-> alone]
<1>3. /\ y \in Reqs /\ y.op = op /\ y.p = p /\ y.at = at /\ y.alone = alone /\ y.todo = {}
      /\ y.key = key
  BY DEF Reqs
<1>4. req' = [Joined(p) EXCEPT ![q] = y]
  BY <1>2 DEF Begin
<1> HIDE DEF y
<1>5. Shape(y)
  BY <1>3 DEF Shape
<1>6. PICK j : j = Joined(p)
  OBVIOUS
<1>7. /\ j \in [Requests -> Reqs]
      /\ \A s \in Requests :
           /\ req[s] = NoReq => j[s] = NoReq
           /\ Shape(req[s]) => Shape(j[s])
           /\ s \notin Changing(p) => j[s] = req[s]
           /\ s \in Changing(p) => ~j[s].alone
           /\ j[s].op = req[s].op /\ j[s].p = req[s].p /\ j[s].at = req[s].at
  BY <1>1, <1>6, JoinedIs
<1>8. req'[q] = y /\ \A s \in Requests \ {q} : req'[s] = j[s]
  BY <1>4, <1>6, <1>7
<1>9. req' \in [Requests -> Reqs]
  BY <1>3, <1>4, <1>6, <1>7
<1>10. /\ UNCHANGED <<env, token, row, backup, live, faults>>
       /\ drift' = IF Changing(p) # {} THEN drift \cup {p} ELSE drift
       /\ starts' \in 0..MaxStarts /\ bucket' \in 0..Burst
  BY <1>1 DEF Begin, storeVars, Count, IsAllowed, TypeOK
<1>11. Base'
  <2>1. TypeOK'
    BY <1>1, <1>9, <1>10 DEF TypeOK, Reqs
  <2>2. \A s \in Requests : req'[s] = NoReq \/ Shape(req'[s])
    BY <1>1, <1>5, <1>7, <1>8 DEF Base
  <2>3. QED
    BY <2>1, <2>2 DEF Base
<1>12. /\ \A g \in Providers : q \notin Changing(g) /\ Changing(g) \subseteq Requests
       /\ \A g \in Providers \ {p} : Changing(g)' = Changing(g)
       /\ Changing(p)' = Changing(p) \cup {q}
  BY <1>1, <1>3, <1>7, <1>8 DEF Changing
<1>13. ASSUME NEW g \in Providers \ {p}
       PROVE  Changing(g)' = Changing(g) /\ \A s \in Changing(g) : req'[s] = req[s]
  <2>1. \A s \in Changing(g) : s \in Requests \ {q} /\ s \notin Changing(p)
    BY <1>12 DEF Changing
  <2>2. QED
    BY <1>7, <1>8, <1>12, <2>1
<1>14. InStep(p)'
  <2>1. Effective(p)' = Effective(p) /\ (Fits(p) => Fits(p)')
    BY <1>10 DEF Effective, Decrypt, Fits
  <2>2. \A s \in Changing(p) : ~req'[s].alone /\ req'[s].at = req[s].at
    BY <1>7, <1>8, <1>12
  <2>3. req'[q].alone = (Changing(p) = {}) /\ req'[q].at \notin {"list", "rotate"}
    BY <1>2, <1>3, <1>8
  <2>4. Turning(p)' = Turning(p) /\ Turning(p) \subseteq Changing(p)
    BY <1>12, <2>2, <2>3 DEF Turning
  <2>5. CASE Changing(p) = {}
    <3>1. Changing(p)' = {q} /\ Turning(p)' = {} /\ Turning(p) = {} /\ drift' = drift
      BY <1>10, <1>12, <2>4, <2>5
    <3>2. req'[q].alone
      BY <2>3, <2>5
    <3>3. QED
      BY <1>1, <2>1, <3>1, <3>2 DEF InStep
  <2>6. CASE Changing(p) # {}
    <3>1. p \in drift' /\ \A s \in Changing(p)' : ~req'[s].alone
      BY <1>10, <1>12, <2>2, <2>3, <2>6
    <3>2. QED
      BY <1>12, <2>4, <3>1 DEF InStep
  <2>7. QED
    BY <2>5, <2>6
<1>15. \A g \in Providers \ {p} : g \in drift' <=> g \in drift
  BY <1>10
<1>16. AllInStep'
  BY <1>10, <1>13, <1>14, <1>15, OthersInStep DEF Inv
<1>17. QED
  BY <1>11, <1>16 DEF Inv

\* A row comes back from the backup.
LEMMA ImportEncryptedStep ==
  ASSUME Inv, NEW p \in Providers, ImportEncrypted(p)
  PROVE  Inv'
<1>1. Base /\ TypeOK /\ backup \in [Providers -> Rows]
  BY DEF Inv, Base, TypeOK, ImportEncrypted
<1>2. /\ Joined(p) \in [Requests -> Reqs]
      /\ \A s \in Requests :
           /\ req[s] = NoReq => Joined(p)[s] = NoReq
           /\ Shape(req[s]) => Shape(Joined(p)[s])
           /\ s \notin Changing(p) => Joined(p)[s] = req[s]
           /\ s \in Changing(p) => ~Joined(p)[s].alone
           /\ Joined(p)[s].op = req[s].op /\ Joined(p)[s].p = req[s].p
           /\ Joined(p)[s].at = req[s].at
  BY <1>1, JoinedIs
<1>3. req' = Joined(p)
  BY DEF ImportEncrypted
<1>4. PICK j : j = Joined(p)
  OBVIOUS
<1>5. /\ req' = j /\ j \in [Requests -> Reqs]
      /\ \A s \in Requests :
           /\ req[s] = NoReq => j[s] = NoReq
           /\ Shape(req[s]) => Shape(j[s])
           /\ s \notin Changing(p) => j[s] = req[s]
           /\ s \in Changing(p) => ~j[s].alone
           /\ j[s].op = req[s].op /\ j[s].p = req[s].p /\ j[s].at = req[s].at
  BY <1>2, <1>3, <1>4
<1>6. /\ UNCHANGED <<env, token, backup, live, bucket, faults>>
      /\ drift' = drift \cup {p} /\ starts' \in 0..MaxStarts
      /\ row' \in [Providers -> Rows] /\ \A g \in Providers \ {p} : row'[g] = row[g]
  <2>1. starts' \in 0..MaxStarts
    BY <1>1 DEF ImportEncrypted, Count, TypeOK
  <2>2. row' = [row EXCEPT ![p] = backup[p]] /\ row \in [Providers -> Rows]
    BY <1>1 DEF ImportEncrypted, TypeOK
  <2>3. row' \in [Providers -> Rows] /\ \A g \in Providers \ {p} : row'[g] = row[g]
    BY <1>1, <2>2
  <2>4. QED
    BY <2>1, <2>3 DEF ImportEncrypted
<1>7. Base'
  <2>1. TypeOK'
    BY <1>1, <1>5, <1>6 DEF TypeOK, Reqs
  <2>2. \A s \in Requests : req'[s] = NoReq \/ Shape(req'[s])
    BY <1>1, <1>5 DEF Base
  <2>3. QED
    BY <2>1, <2>2 DEF Base
<1>8. \A g \in Providers : Changing(g)' = Changing(g) /\ Changing(g) \subseteq Requests
  BY <1>5 DEF Changing
<1>10. ASSUME NEW g \in Providers \ {p}
       PROVE  Changing(g)' = Changing(g) /\ \A s \in Changing(g) : req'[s] = req[s]
  <2>1. \A s \in Changing(g) : s \in Requests /\ s \notin Changing(p)
    BY DEF Changing
  <2>2. QED
    BY <1>5, <1>8, <2>1
<1>11. InStep(p)'
  <2>1. p \in drift' /\ \A s \in Changing(p)' : ~req'[s].alone
    BY <1>5, <1>6, <1>8
  <2>2. Turning(p)' \subseteq Changing(p)'
    BY DEF Turning
  <2>3. QED
    BY <2>1, <2>2 DEF InStep
<1>12. \A g \in Providers \ {p} : g \in drift' <=> g \in drift
  BY <1>6
<1>13. AllInStep'
  BY <1>6, <1>10, <1>11, <1>12, OthersInStep DEF Inv
<1>14. QED
  BY <1>7, <1>13 DEF Inv

\* A route of the catalog comes up on the environment's key.
LEMMA SynthesizeStep ==
  ASSUME Inv, NEW r \in Routes, Synthesize(r)
  PROVE  Inv'
<1>1. PICK p \in Providers : p = BudgetId(r)
  OBVIOUS
<1>2. /\ Base /\ TypeOK /\ req \in [Requests -> Reqs] /\ InStep(p)
      /\ env[p] \in Keys \cup {None} /\ Effective(p) \in Keys \cup {None}
  BY ReqsIs, EffectiveIs DEF Inv, Base, AllInStep
<1>3. /\ r \in Catalog /\ live[r] = None /\ env[p] \in Keys
      /\ live' = [live EXCEPT ![r] = env[p]]
      /\ UNCHANGED <<env, token, row, backup, bucket, starts, faults>>
  BY <1>1, <1>2 DEF Synthesize, storeVars
<1>4. /\ live' \in [Routes -> Keys \cup {None}] /\ live'[r] = env[p]
      /\ \A s \in Routes \ {r} : live'[s] = live[s]
  BY <1>2, <1>3 DEF TypeOK
<1>5. Effective(p)' = Effective(p)
  BY <1>3 DEF Effective, Decrypt
<1>6. \A g \in Providers \ {p} : \A s \in RoutesOf(g) : live'[s] = live[s]
  BY <1>1, <1>4 DEF RoutesOf
<1>7. CASE Effective(p) = env[p]
  <2>1. UNCHANGED <<req, drift>>
    BY <1>1, <1>7 DEF Synthesize
  <2>2. Base'
    <3>1. TypeOK'
      BY <1>2, <1>3, <1>4, <2>1 DEF TypeOK
    <3>2. QED
      BY <1>2, <2>1, <3>1 DEF Base
  <2>3. \A g \in Providers : Changing(g)' = Changing(g) /\ Turning(g)' = Turning(g)
    BY <2>1 DEF Changing, Turning
  <2>4. Fits(p) => Fits(p)'
    <3>1. RoutesOf(p) \subseteq Routes
      BY DEF RoutesOf
    <3>2. QED
      BY <1>4, <1>5, <1>7, <3>1 DEF Fits
  <2>5. \A s \in Turning(p) : HalfWay(s, p) => HalfWay(s, p)'
    <3>1. RoutesOf(p) \subseteq Routes
      BY DEF RoutesOf
    <3>2. QED
      BY <1>4, <1>5, <1>7, <2>1, <3>1 DEF HalfWay
  <2>6. InStep(p)'
    BY <1>2, <2>1, <2>3, <2>4, <2>5 DEF InStep
  <2>7. AllInStep'
    BY <1>3, <1>6, <2>1, <2>3, <2>6, OthersInStep DEF Inv
  <2>8. QED
    BY <2>2, <2>7 DEF Inv
<1>8. CASE Effective(p) # env[p]
  <2>1. /\ drift' = drift \cup {p}
        /\ req' = [q \in Requests |-> [req[q] EXCEPT
                     !.alone = @ /\ ~(q \in Changing(p) /\ req[q].at = "rotate")]]
    BY <1>1, <1>8 DEF Synthesize
  <2>2. ASSUME NEW s \in Requests
        PROVE  /\ req'[s] \in Reqs /\ req'[s].op = req[s].op /\ req'[s].p = req[s].p
               /\ req'[s].at = req[s].at /\ req'[s].todo = req[s].todo
               /\ req'[s].key = req[s].key
               /\ req'[s].alone = (req[s].alone /\ ~(s \in Changing(p) /\ req[s].at = "rotate"))
    <3>1. req[s] \in Reqs
      BY <1>2
    <3>2. PICK b \in BOOLEAN : b = (req[s].alone /\ ~(s \in Changing(p) /\ req[s].at = "rotate"))
      OBVIOUS
    <3>3. req'[s] = [req[s] EXCEPT !.alone = b]
      BY <2>1, <3>2
    <3>4. QED
      BY <3>1, <3>2, <3>3 DEF Reqs
  <2>3. ASSUME NEW s \in Requests, s \notin Changing(p) PROVE req'[s] = req[s]
    <3>1. req[s] \in Reqs
      BY <1>2
    <3>2. (req[s].alone /\ ~(s \in Changing(p) /\ req[s].at = "rotate")) = req[s].alone
      BY <2>3, <3>1 DEF Reqs
    <3>3. req'[s] = [req[s] EXCEPT !.alone = req[s].alone]
      BY <2>1, <3>2
    <3>4. QED
      BY <3>1, <3>3 DEF Reqs
  <2>4. req' \in [Requests -> Reqs]
    BY <2>1, <2>2
  <2>5. Base'
    <3>1. TypeOK'
      BY <1>2, <1>3, <1>4, <2>1, <2>4 DEF TypeOK, Reqs
    <3>2. ASSUME NEW s \in Requests PROVE req'[s] = NoReq \/ Shape(req'[s])
      <4>1. CASE req[s] = NoReq
        BY <2>3, <4>1, NoReqIs DEF Changing
      <4>2. CASE Shape(req[s])
        BY <2>2, <4>2 DEF Shape
      <4>3. QED
        BY <1>2, <4>1, <4>2 DEF Base
    <3>3. QED
      BY <3>1, <3>2 DEF Base
  <2>6. \A g \in Providers : Changing(g)' = Changing(g) /\ Changing(g) \subseteq Requests
    BY <2>2 DEF Changing
  <2>7. ASSUME NEW g \in Providers \ {p}
        PROVE  Changing(g)' = Changing(g) /\ \A s \in Changing(g) : req'[s] = req[s]
    <3>1. \A s \in Changing(g) : s \in Requests /\ s \notin Changing(p)
      BY DEF Changing
    <3>2. QED
      BY <2>3, <2>6, <3>1
  <2>8. InStep(p)'
    <3>1. \A s \in Changing(p)' : req'[s].alone => req[s].alone
      BY <2>2, <2>6
    <3>2. \A s \in Changing(p)' : req'[s].alone => Changing(p)' = {s}
      BY <1>2, <2>6, <3>1 DEF InStep
    <3>3. ASSUME NEW s \in Turning(p)', req'[s].alone, req'[s].op = "set" PROVE HalfWay(s, p)'
      <4>1. s \in Changing(p) /\ s \in Requests /\ req'[s].at \in {"list", "rotate"}
        BY <2>6, <3>3 DEF Turning
      <4>2. /\ s \in Turning(p) /\ req[s].alone /\ req[s].op = "set" /\ req'[s].at # "rotate"
            /\ req'[s].key = req[s].key
        BY <2>2, <3>3, <4>1 DEF Turning
      <4>3. QED
        BY <1>2, <1>5, <4>2 DEF InStep, HalfWay
    <3>4. p \in drift'
      BY <2>1
    <3>5. QED
      BY <3>2, <3>3, <3>4 DEF InStep
  <2>9. \A g \in Providers \ {p} : g \in drift' <=> g \in drift
    BY <2>1
  <2>10. AllInStep'
    BY <1>3, <1>6, <2>7, <2>8, <2>9, OthersInStep DEF Inv
  <2>11. QED
    BY <2>5, <2>10 DEF Inv
<1>9. QED
  BY <1>7, <1>8

\* A boot reads the keys of every provider it does not misread.
LEMMA BootFits ==
  ASSUME TypeOK, NEW t \in Tokens, NEW p \in Providers \ Misread(t), NEW r \in RoutesOf(p) \ Catalog
  PROVE  BuildRoutes[r] = IF Decrypt(row[p], t) # None THEN Decrypt(row[p], t) ELSE env[p]
<1>1. r \in Routes /\ BudgetId(r) = p /\ Kind[r] \in {"claude", "gemini", "openrouter"}
  BY DEF RoutesOf
<1>2. \/ row[p] = None
      \/ p = "anthropic" /\ env[p] = None /\ row[p].token = BootToken /\ t = BootToken
  BY DEF Misread
<1>3. row[p] = None => Decrypt(row[p], t) = None /\ Decrypt(row[p], BootToken) = None
  BY DEF Decrypt
<1>4. CASE Kind[r] = "claude"
  <2>1. p = "anthropic" /\ BuildRoutes[r] = GetApiKey("anthropic", "anthropic")
    BY <1>1, <1>4 DEF BudgetId, BuildRoutes, RouteFromClaude
  <2>2. CASE row[p] = None
    BY <1>3, <2>1, <2>2 DEF GetApiKey
  <2>3. CASE env[p] = None /\ t = BootToken
    <3>1. BootToken # None
      BY <2>3
    <3>2. QED
      BY <2>1, <2>3, <3>1 DEF GetApiKey
  <2>4. QED
    BY <1>2, <2>2, <2>3
<1>5. CASE Kind[r] = "gemini"
  <2>1. p = "google" /\ BuildRoutes[r] = GetApiKey("openai", "google")
    BY <1>1, <1>5 DEF BudgetId, BuildRoutes, RouteFromOpenAICompatible
  <2>2. row[p] = None /\ ("openai" \in Providers => row["openai"] = None)
    BY <1>2, <2>1 DEF Misread
  <2>3. "openai" \in Providers => Decrypt(row["openai"], BootToken) = None
    BY <2>2 DEF Decrypt
  <2>4. QED
    BY <1>3, <2>1, <2>2, <2>3 DEF GetApiKey
<1>6. CASE Kind[r] = "openrouter"
  <2>1. p = "openrouter" /\ BuildRoutes[r] = env[p]
    BY <1>1, <1>6 DEF BudgetId, BuildRoutes, RouteFromOpenRouter
  <2>2. QED
    BY <1>2, <1>3, <2>1
<1>7. QED
  BY <1>1, <1>4, <1>5, <1>6

\* A boot gives a route a key or none.
LEMMA BuildRoutesIs ==
  ASSUME env \in Envs, row \in [Providers -> Rows]
  PROVE  BuildRoutes \in [Routes -> Keys \cup {None}]
<1>1. ASSUME NEW id, NEW var \in Providers PROVE GetApiKey(id, var) \in Keys \cup {None}
  <2>1. env[var] \in Keys \cup {None}
    OBVIOUS
  <2>2. id \in Providers => Decrypt(row[id], BootToken) \in Keys \cup {None}
    BY DEF Decrypt, Rows
  <2>3. QED
    BY <2>1, <2>2 DEF GetApiKey
<1>2. ASSUME NEW r \in Routes PROVE BuildRoutes[r] \in Keys \cup {None}
  <2>1. Kind[r] \in {"claude", "gemini", "openrouter"} /\ BudgetId(r) \in Providers
    OBVIOUS
  <2>2. CASE Kind[r] = "claude"
    <3>1. "anthropic" \in Providers /\ BuildRoutes[r] = GetApiKey("anthropic", "anthropic")
      BY <2>1, <2>2 DEF BudgetId, BuildRoutes, RouteFromClaude
    <3>2. QED
      BY <1>1, <3>1
  <2>3. CASE Kind[r] = "gemini"
    <3>1. "google" \in Providers /\ BuildRoutes[r] = GetApiKey("openai", "google")
      BY <2>1, <2>3 DEF BudgetId, BuildRoutes, RouteFromOpenAICompatible
    <3>2. QED
      BY <1>1, <3>1
  <2>4. CASE Kind[r] = "openrouter" /\ r \notin Catalog
    <3>1. "openrouter" \in Providers /\ BuildRoutes[r] = env["openrouter"]
      BY <2>1, <2>4 DEF BudgetId, BuildRoutes, RouteFromOpenRouter
    <3>2. QED
      BY <3>1
  <2>5. CASE r \in Catalog
    BY <2>5 DEF BuildRoutes
  <2>6. QED
    BY <2>1, <2>2, <2>3, <2>4, <2>5
<1>3. QED
  BY <1>2 DEF BuildRoutes

\* The routes of the catalog are not there at a boot.
LEMMA BootWithoutCatalog == \A r \in Catalog : BuildRoutes[r] = None
BY DEF BuildRoutes

\* The process stops and boots: no request is left, and the routes are built from
\* what the boot finds.
LEMMA RestartStep ==
  ASSUME Inv, Restart
  PROVE  Inv'
<1>1. /\ TypeOK /\ UNCHANGED <<env, row, backup, faults>>
      /\ live' = BuildRoutes /\ drift' = Misread(token') /\ starts' \in 0..MaxStarts
  BY DEF Inv, Base, Restart, storeVars, Count, TypeOK
<1>2. PICK t \in Tokens : t = token'
  BY DEF Restart
<1>3. req' \in [Requests -> Reqs] /\ \A q \in Requests : req'[q] = NoReq
  BY NoReqIs DEF Restart
<1>4. \A p \in Providers : Changing(p)' = {}
  BY <1>3, NoReqIs DEF Changing
<1>5. Base'
  <2>1. live' \in [Routes -> Keys \cup {None}]
    BY <1>1, BuildRoutesIs DEF TypeOK
  <2>2. bucket' \in 0..Burst /\ drift' \subseteq Providers
    <3>1. Misread(t) \subseteq Providers
      BY DEF Misread
    <3>2. bucket' \in 0..Burst
      BY DEF Restart
    <3>3. QED
      BY <1>1, <1>2, <3>1, <3>2
  <2>3. TypeOK'
    BY <1>1, <1>2, <1>3, <2>1, <2>2 DEF TypeOK, Reqs
  <2>4. QED
    BY <1>3, <2>3 DEF Base
<1>6. ASSUME NEW p \in Providers PROVE InStep(p)'
  <2>1. Changing(p)' = {} /\ Turning(p)' = {}
    BY <1>4 DEF Turning
  <2>2. Effective(p)' = IF Decrypt(row[p], t) # None THEN Decrypt(row[p], t) ELSE env[p]
    BY <1>1, <1>2 DEF Effective, Decrypt
  <2>3. p \notin drift' => p \in Providers \ Misread(t)
    BY <1>1, <1>2
  <2>4. p \notin drift' => \A r \in RoutesOf(p) \ Catalog : live'[r] = Effective(p)'
    BY <1>1, <2>2, <2>3, BootFits
  <2>5. \A r \in Catalog : live'[r] = None
    BY <1>1, BootWithoutCatalog
  <2>6. QED
    BY <2>1, <2>4, <2>5 DEF InStep, Fits
<1>7. QED
  BY <1>5, <1>6 DEF Inv, AllInStep

\* Steps that leave requests, keys and routes alone.
LEMMA KeptInStep ==
  ASSUME AllInStep, UNCHANGED <<env, token, row, live, req, drift>>
  PROVE  AllInStep'
<1>1. ASSUME NEW p \in Providers PROVE InStep(p)'
  <2>1. Changing(p)' = Changing(p) /\ Turning(p)' = Turning(p)
    BY DEF Changing, Turning
  <2>2. Effective(p)' = Effective(p) /\ (Fits(p) => Fits(p)')
    BY DEF Effective, Decrypt, Fits
  <2>3. \A s \in Turning(p) : HalfWay(s, p) => HalfWay(s, p)'
    BY <2>2 DEF HalfWay
  <2>4. QED
    BY <2>1, <2>2, <2>3 DEF InStep, AllInStep
<1>2. QED
  BY <1>1 DEF AllInStep

LEMMA QuietStep ==
  ASSUME Inv, Refill \/ ExportEncrypted \/ UNCHANGED vars
  PROVE  Inv'
<1>1. /\ UNCHANGED <<env, token, row, live, req, drift, starts, faults>>
      /\ bucket' \in {bucket, Burst} /\ backup' \in {backup, row}
  BY DEF Refill, ExportEncrypted, vars, storeVars
<1>2. Base'
  <2>1. TypeOK'
    BY <1>1 DEF Inv, Base, TypeOK
  <2>2. QED
    BY <1>1, <2>1 DEF Inv, Base
<1>3. QED
  BY <1>1, <1>2, KeptInStep DEF Inv

-----------------------------------------------------------------------------
(* The store: the theorems *)

LEMMA InvInit == Init => Inv
<1> SUFFICES ASSUME Init PROVE Inv
  OBVIOUS
<1>1. /\ env \in Envs /\ token \in Tokens /\ row = [p \in Providers |-> None] /\ live = BuildRoutes
      /\ req = [q \in Requests |-> NoReq] /\ drift = {}
  BY DEF Init
<1>2. \A p \in Providers : Changing(p) = {}
  BY <1>1, NoReqIs DEF Changing
<1>3. TypeOK
  <2>1. row \in [Providers -> Rows]
    BY <1>1 DEF Rows
  <2>2. live \in [Routes -> Keys \cup {None}]
    BY <1>1, <2>1, BuildRoutesIs
  <2>3. req \in [Requests -> Reqs]
    BY <1>1, NoReqIs
  <2>4. QED
    BY <2>1, <2>2, <2>3 DEF Init, TypeOK, Reqs
<1>4. Base
  BY <1>1, <1>3 DEF Base
<1>5. ASSUME NEW p \in Providers PROVE InStep(p)
  <2>1. Changing(p) = {} /\ Turning(p) = {}
    BY <1>2 DEF Turning
  <2>2. p \in Providers \ Misread(token)
    BY <1>1 DEF Misread
  <2>3. Fits(p)
    BY <1>1, <1>3, <2>2, BootFits, BootWithoutCatalog DEF Fits, Effective
  <2>4. QED
    BY <2>1, <2>3 DEF InStep
<1>6. QED
  BY <1>4, <1>5 DEF Inv, AllInStep

LEMMA RequestStep ==
  ASSUME Inv, NEW q \in Requests, NEW p \in Providers,
         (\E k \in Keys : SetProviderKey(q, p, k)) \/ DeleteProviderKey(q, p)
  PROVE  Inv'
<1>1. "store" \in Places("set") /\ "erase" \in Places("delete")
  BY DEF Places
<1>2. ASSUME NEW k \in Keys, SetProviderKey(q, p, k) PROVE Inv'
  BY <1>1, <1>2, BeginStep DEF SetProviderKey
<1>3. CASE DeleteProviderKey(q, p)
  BY <1>1, <1>3, BeginStep DEF DeleteProviderKey
<1>4. QED
  BY <1>2, <1>3

LEMMA InvStep == Inv /\ [Next]_vars => Inv'
<1> SUFFICES ASSUME Inv, [Next]_vars PROVE Inv'
  OBVIOUS
<1>1. ASSUME NEW q \in Requests, Step(q) PROVE Inv'
  BY <1>1, SetKeyStep, SetKeyFailsStep, DeleteKeyStep, ListRoutesStep, RotateStep, RotatedStep
     DEF Step
<1>2. QED
  BY <1>1, RequestStep, SynthesizeStep, ImportEncryptedStep, QuietStep, RestartStep DEF Next

LEMMA InvAlways == Spec => []Inv
BY InvInit, InvStep, PTL DEF Spec

\* The variables have their types, and every change stands where its kind may.
THEOREM KeysTypeCorrect == Spec => []Base
BY InvAlways, PTL DEF Inv

\* Once the changes of a provider that nothing is held against are through, its
\* live routes use the key that effective_key names: rotate_provider_key reaches
\* them all, those synthesized at run time included, however changes, restarts
\* and backups interleave.
THEOREM RoutesFollowStore == Spec => []LiveMatchesStore
<1>1. Inv => LiveMatchesStore
  BY DEF Inv, AllInStep, InStep, LiveMatchesStore, Fits, Turning, AllRoutes
<1>2. QED
  BY <1>1, InvAlways, PTL
=============================================================================
