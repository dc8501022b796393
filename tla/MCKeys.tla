------------------------------- MODULE MCKeys -------------------------------
(***************************************************************************)
(* Small instances of Keys and KeyMonitor.  They share no variable and     *)
(* every property is about one of them, so a behaviour runs either the     *)
(* store or the monitor.                                                   *)
(***************************************************************************)
EXTENDS Keys, KeyMonitor, TLC

CONSTANT k1
VARIABLE part

\* Two routes of one provider, so that a rotation takes two steps, the route of
\* the shipped profiles that is read by another provider's id, and one of the
\* catalog.
KindOf == [r \in Routes |-> CASE r = "gemini" -> "gemini"
                              [] r = "catalog" -> "openrouter"
                              [] OTHER -> "claude"]

\* A deployment with and one without keys in its environment.
EnvsHere == {[p \in Providers |-> None],
             [p \in Providers |-> IF p \in {"anthropic", "openrouter"} THEN k1 ELSE None]}

EitherInit ==
  /\ part \in {"store", "monitor"}
  /\ Init /\ MonitorInit
  /\ part = "monitor" => token = BootToken /\ env = [p \in Providers |-> None]
EitherNext ==
  \/ part = "store" /\ Next /\ UNCHANGED <<part, monitorVars>>
  \/ part = "monitor" /\ MonitorNext /\ UNCHANGED <<part, vars>>
EitherSpec == EitherInit /\ [][EitherNext]_<<part, vars, monitorVars>>

RequestSymmetry == Permutations(Requests) \cup Permutations(Checks)
=============================================================================
