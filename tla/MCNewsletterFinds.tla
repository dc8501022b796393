---------------------------- MODULE MCNewsletterFinds ------------------------
(***************************************************************************)
(* A small instance of Newsletter with two editors and two dispatchers,    *)
(* cut down to what they share: two dispatchers and readers while nobody   *)
(* has touched a find, or two editors of finds with one dispatcher at a    *)
(* time and no readers.                                                    *)
(***************************************************************************)
EXTENDS Newsletter, TLC

Flagging == {e \in Editors : job[e].op \in {"populate", "assign", "dismiss", "restore", "queue"}}
Dispatching == {d \in Dispatchers : dpc[d] # "idle"}

Untouched == Flagging = {} /\ findVars = <<[f \in Finds |-> None], {}, {}, {}>>
Unread == active = {} /\ \A i \in Issues, u \in Subs : mails[i][u] = 0

Uncrowded == Untouched \/ (Cardinality(Dispatching) <= 1 /\ Unread)

NewsletterSymmetry ==
  Permutations(Subs) \cup Permutations(Dispatchers) \cup Permutations(Editors)
=============================================================================
