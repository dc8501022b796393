----------------------------- MODULE KeyMonitor -----------------------------
(***************************************************************************)
(* The monitor of failed key validations (core/key_validation_monitor.py). *)
(* Storing or testing a key asks the provider whether it accepts it        *)
(* (api/admin.py); a refusal is recorded, the refusals of the last hour    *)
(* are counted, and at a threshold an alert goes to the webhook, once an   *)
(* hour for each provider.  A monitor without a webhook only records.      *)
(*                                                                         *)
(* Every stage of a check is one database access or the webhook call.  The *)
(* time it works with was read before it, so that the clock, and any other *)
(* check, may have moved on when it happens.                               *)
(***************************************************************************)
EXTENDS Integers, FiniteSets

CONSTANTS
  Watched,         \* provider ids
  Checks,          \* validations that may be in flight at once
  Threshold,       \* KEY_VALIDATION_FAILURE_THRESHOLD
  Hour,            \* ticks of the clock in an hour
  LastTick,        \* bound: the clock runs from 0 to LastTick
  MaxChecks,       \* bound: refused validations
  MaxUpsets,       \* bound: failed database and webhook calls, and restarts
  Nobody

ASSUME MonitorAssumption ==
  /\ IsFiniteSet(Checks)
  /\ Threshold \in Nat \ {0} /\ Hour \in Nat \ {0}
  /\ LastTick \in Nat /\ MaxChecks \in Nat /\ MaxUpsets \in Nat
  /\ Nobody \notin Watched

VARIABLES
  now,
  check,           \* the validations in flight
  failed,          \* key_validation_attempts: the refusals, by time
  alert,           \* key_validation_alerts_sent: the last alert's sent_at
  counted,         \* history: where the last count's hour ended
  latest,          \* history: the latest time stamp of an alert sent
  missed,          \* history: providers whose last count or alert came to nothing
  sent,            \* history: alerts sent since an alert on record last ran out
  loose,           \* history: those of them the record did not hold back or keep
  begun, upsets

rowVars == <<failed, alert>>
ghostVars == <<counted, latest, missed, sent, loose>>
monitorVars == <<now, check, rowVars, ghostVars, begun, upsets>>

NoCheck == [at |-> "none", p |-> Nobody, stamp |-> 0]
Never == -Hour     \* no alert on record

MonitorInit ==
  /\ now = 0
  /\ check = [q \in Checks |-> NoCheck]
  /\ failed = [p \in Watched |-> {}]
  /\ alert = [p \in Watched |-> Never] /\ latest = [p \in Watched |-> Never]
  /\ counted = [p \in Watched |-> 0]
  /\ missed = {}
  /\ sent = [p \in Watched |-> 0] /\ loose = [p \in Watched |-> 0]
  /\ begun = 0 /\ upsets = 0

Upset == upsets < MaxUpsets /\ upsets' = upsets + 1
Busy(p) == {q \in Checks : check[q].p = p}

\* A check goes on with the time of now, with the time it has, or ends.
Goes(q, at) == check' = [check EXCEPT ![q].at = at, ![q].stamp = now]
Keeps(q, at) == check' = [check EXCEPT ![q].at = at]
Ends(q) == check' = [check EXCEPT ![q] = NoCheck]

\* The refusals in the hour that ends at t
Recent(p, t) == {f \in failed[p] : f.at > t - Hour}
\* An alert sent at a is less than an hour old at t.
Fresh(a, t) == t - a < Hour
-----------------------------------------------------------------------------
(* record_attempt *)

\* _test_provider_key gets a refusal and records it.
Refused(q, p) ==
  /\ check[q] = NoCheck /\ begun < MaxChecks
  /\ begun' = begun + 1
  /\ check' = [check EXCEPT ![q] = [at |-> "record", p |-> p, stamp |-> now]]
  /\ UNCHANGED <<now, rowVars, ghostVars, upsets>>

RecordAttempt(q) ==
  LET p == check[q].p IN
  /\ check[q].at = "record"
  /\ failed' = [failed EXCEPT ![p] =
                  @ \cup {[at |-> check[q].stamp, id |-> Cardinality(@)]}]
  /\ Goes(q, "count")
  /\ UNCHANGED <<now, alert, ghostVars, begun, upsets>>

\* The INSERT fails, and the refusals are counted without it; or init does, and
\* nothing more happens.
RecordAttemptFails(q) ==
  /\ check[q].at = "record"
  /\ Goes(q, "count") \/ Ends(q)
  /\ Upset
  /\ UNCHANGED <<now, rowVars, ghostVars, begun>>
-----------------------------------------------------------------------------
(* _check_and_alert *)

\* mutant: the alert fires above the threshold, not at it.
CheckAbove(q) ==
  LET p == check[q].p  t == check[q].stamp IN
  /\ check[q].at = "count"
  /\ IF Cardinality(Recent(p, t)) > Threshold THEN Goes(q, "dedup") ELSE Ends(q)
  /\ counted' = [counted EXCEPT ![p] = t]
  /\ missed' = missed \ {p}
  /\ UNCHANGED <<now, rowVars, latest, sent, loose, begun, upsets>>

\* A count that works makes up for what was missed before it.
CheckAndAlert(q) ==
  LET p == check[q].p  t == check[q].stamp IN
  /\ check[q].at = "count"
  /\ IF Cardinality(Recent(p, t)) >= Threshold THEN Goes(q, "dedup") ELSE Ends(q)
  /\ counted' = [counted EXCEPT ![p] = t]
  /\ missed' = missed \ {p}
  /\ UNCHANGED <<now, rowVars, latest, sent, loose, begun, upsets>>

CheckFails(q) ==
  /\ check[q].at = "count"
  /\ missed' = missed \cup {check[q].p}
  /\ Ends(q)
  /\ Upset
  /\ UNCHANGED <<now, rowVars, counted, latest, sent, loose, begun>>
-----------------------------------------------------------------------------
(* _send_alert *)

\* mutant: the alert on record is not looked for.
NoDedup(q) ==
  /\ check[q].at = "dedup"
  /\ Keeps(q, "send")
  /\ UNCHANGED <<now, rowVars, ghostVars, begun, upsets>>

\* "Only alert once per hour per provider"
Dedup(q) ==
  /\ check[q].at = "dedup"
  /\ IF Fresh(alert[check[q].p], now) THEN Ends(q) ELSE Keeps(q, "send")
  /\ UNCHANGED <<now, rowVars, ghostVars, begun, upsets>>

\* "alert dedup check failed, proceeding to send"
DedupFails(q) ==
  /\ check[q].at = "dedup"
  /\ Keeps(q, "send")
  /\ loose' = [loose EXCEPT ![check[q].p] = @ + 1]
  /\ Upset
  /\ UNCHANGED <<now, rowVars, counted, latest, missed, sent, begun>>

\* An alert with time stamp t is out.
Out(p, t) ==
  /\ sent' = [sent EXCEPT ![p] = @ + 1]
  /\ latest' = [latest EXCEPT ![p] = IF t > @ THEN t ELSE @]

SendAlert(q) ==
  /\ check[q].at = "send"
  /\ Out(check[q].p, check[q].stamp)
  /\ Keeps(q, "mark")
  /\ UNCHANGED <<now, rowVars, counted, missed, loose, begun, upsets>>

\* The webhook refuses the alert, or takes it and the answer is lost.
SendFails(q) ==
  LET p == check[q].p IN
  /\ check[q].at = "send"
  /\ \/ missed' = missed \cup {p} /\ UNCHANGED <<sent, latest, loose>>
     \/ Out(p, check[q].stamp) /\ loose' = [loose EXCEPT ![p] = @ + 1] /\ UNCHANGED missed
  /\ Ends(q)
  /\ Upset
  /\ UNCHANGED <<now, rowVars, counted, begun>>

\* The alerts of the providers in P have run out of their hour.
RunOut(P) ==
  /\ sent' = [p \in Watched |-> IF p \in P THEN 0 ELSE sent[p]]
  /\ loose' = [p \in Watched |-> IF p \in P THEN 0 ELSE loose[p]]

\* INSERT OR REPLACE, whatever is there: an alert that took long to send may
\* replace a later one, or be an hour old when it is written.
MarkAlert(q) ==
  LET p == check[q].p IN
  /\ check[q].at = "mark"
  /\ alert' = [alert EXCEPT ![p] = check[q].stamp]
  /\ RunOut(IF Fresh(check[q].stamp, now) THEN {} ELSE {p})
  /\ Ends(q)
  /\ UNCHANGED <<now, failed, counted, latest, missed, begun, upsets>>

MarkFails(q) ==
  /\ check[q].at = "mark"
  /\ loose' = [loose EXCEPT ![check[q].p] = @ + 1]
  /\ Ends(q)
  /\ Upset
  /\ UNCHANGED <<now, rowVars, counted, latest, missed, sent, begun>>
-----------------------------------------------------------------------------
\* The clock, at any time: refusals and alerts age each by its own time stamp.
Tick ==
  /\ now < LastTick /\ now' = now + 1
  /\ RunOut({p \in Watched : Fresh(alert[p], now) /\ ~Fresh(alert[p], now + 1)})
  /\ UNCHANGED <<check, rowVars, counted, latest, missed, begun, upsets>>

\* The process stops in the middle of its checks.
MonitorRestart ==
  /\ check' = [q \in Checks |-> NoCheck]
  /\ missed' = missed \cup {p \in Watched :
                  \E q \in Busy(p) : check[q].at \in {"count", "dedup", "send"}}
  /\ loose' = [p \in Watched |->
                 loose[p] + Cardinality({q \in Busy(p) : check[q].at = "mark"})]
  /\ Upset
  /\ UNCHANGED <<now, rowVars, counted, latest, sent, begun>>

CheckStep(q) ==
  \/ RecordAttempt(q) \/ CheckAndAlert(q) \/ Dedup(q) \/ SendAlert(q) \/ MarkAlert(q)
CheckUpset(q) ==
  \/ RecordAttemptFails(q) \/ CheckFails(q) \/ DedupFails(q) \/ SendFails(q) \/ MarkFails(q)

MonitorNext ==
  \/ \E q \in Checks : CheckStep(q) \/ CheckUpset(q) \/ \E p \in Watched : Refused(q, p)
  \/ Tick \/ MonitorRestart

MonitorSpec == MonitorInit /\ [][MonitorNext]_monitorVars
-----------------------------------------------------------------------------
(* Properties *)

\* The variables have their types.
MonitorTypeOK ==
  /\ now \in 0..LastTick
  /\ check \in [Checks -> [at : {"none", "record", "count", "dedup", "send", "mark"},
                           p : Watched \cup {Nobody}, stamp : Nat]]
  /\ failed \in [Watched -> SUBSET [at : Nat, id : Nat]]
  /\ alert \in [Watched -> Int] /\ latest \in [Watched -> Int]
  /\ counted \in [Watched -> Nat]
  /\ missed \subseteq Watched
  /\ sent \in [Watched -> Nat] /\ loose \in [Watched -> Nat]
  /\ begun \in 0..MaxChecks /\ upsets \in 0..MaxUpsets

\* Once the checks of a provider are through and the refusals on record reach
\* the threshold in the hour before the last of their counts, an alert of that
\* hour, or a later one, has gone out, whichever of them counted first and
\* however the clock and the alerts on record moved on: each records its refusal
\* before it counts.  A count or a webhook call that failed, and a restart,
\* excuse it until the next count.
AlertFires ==
  \A p \in Watched \ missed :
    Busy(p) = {} /\ Cardinality(Recent(p, counted[p])) >= Threshold
      => latest[p] > counted[p] - Hour

\* From the end of one recorded alert's hour to the end of the next, one alert
\* goes out for each check in flight at most: the de-duplication reads, sends
\* and then writes, so that concurrent checks may all send.  More do only where
\* that read failed and it goes on to send, or where an alert that was sent
\* could not be recorded.
AlertsBounded ==
  \A p \in Watched : sent[p] <= Cardinality(Checks) + loose[p]
=============================================================================
