---------------------------- MODULE TurnContract ----------------------------
(***************************************************************************)
(* What POST /chat/stream promises about a turn, whatever happens behind   *)
(* it: a turn is counted before any model work, shows text to its client   *)
(* only while it is open, and when it ends, in whatever way, the text the  *)
(* client saw is charged to the daily budget once, or is accounted as lost *)
(* because the charge itself could not be written; never both, never twice.*)
(***************************************************************************)
EXTENDS Naturals

CONSTANTS Slots      \* turns that may be open at once

VARIABLES
  phase,             \* "closed", "counted" or "open"
  seen,              \* has the client of the turn seen text
  counted,           \* turns accepted so far
  charged,           \* turns whose output was charged
  lost               \* turns whose charge could not be written

vars == <<phase, seen, counted, charged, lost>>

Init ==
  /\ phase = [t \in Slots |-> "closed"]
  /\ seen = [t \in Slots |-> FALSE]
  /\ counted = 0 /\ charged = 0 /\ lost = 0

Count(t) ==
  /\ phase[t] = "closed"
  /\ phase' = [phase EXCEPT ![t] = "counted"]
  /\ counted' = counted + 1
  /\ UNCHANGED <<seen, charged, lost>>

Open(t) ==
  /\ phase[t] = "counted"
  /\ phase' = [phase EXCEPT ![t] = "open"]
  /\ UNCHANGED <<seen, counted, charged, lost>>

Show(t) ==
  /\ phase[t] = "open"
  /\ seen' = [seen EXCEPT ![t] = TRUE]
  /\ UNCHANGED <<phase, counted, charged, lost>>

Close(t) ==
  /\ phase[t] \in {"counted", "open"}
  /\ phase' = [phase EXCEPT ![t] = "closed"]
  /\ seen' = [seen EXCEPT ![t] = FALSE]
  /\ \/ ~seen[t] /\ UNCHANGED <<charged, lost>>
     \/ seen[t] /\ charged' = charged + 1 /\ UNCHANGED lost
     \/ seen[t] /\ lost' = lost + 1 /\ UNCHANGED charged
  /\ UNCHANGED counted

Next == \E t \in Slots : Count(t) \/ Open(t) \/ Show(t) \/ Close(t)

Spec == Init /\ [][Next]_vars
=============================================================================
