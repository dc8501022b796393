---------------------------- MODULE IntakeProofs -----------------------------
(***************************************************************************)
(* For any addresses, forms and concurrent requests: a mailed unsubscribe  *)
(* link keeps working, and an address gets no more auto-replies within a   *)
(* cooldown than requests can be past its check at once.                   *)
(***************************************************************************)
EXTENDS Intake, FiniteSetTheorems, TLAPS

USE LimitsAssumption

-----------------------------------------------------------------------------
(* The invariant *)

IntakeRows == [count : Nat, linked : BOOLEAN, seen : BOOLEAN, age : {"day", "kept", "stale"}]

Forms == ContactPayloads \cup SignupPayloads

Fields == {"pc", "in", "id", "snap", "token"}

\* Where a request of each kind may stand, and what it holds there.
Shape(x) ==
  /\ DOMAIN x = Fields /\ x.token \in Nat
  /\ \/ x.pc \in {"limits", "save", "notify", "subscribe", "refresh", "send", "record"}
        /\ x.in \in Forms
     \/ x.pc = "upsert" /\ x.in \in Forms /\ x.snap \in {NoRow} \cup Subscriber
     \/ x.pc = "click"
     \/ x.pc = "unsubscribe" /\ x.in \in [kind : {"click"}, email : Emails] /\ x.snap \in Subscriber
     \/ x.pc \in {"intake", "find", "commit"} /\ x.in \in IntakePayloads \cup ChatLinks
        /\ x.snap \in {NoRow} \cup IntakeRows

Base ==
  /\ TypeOK
  /\ intakes \in [Sessions -> {NoRow} \cup IntakeRows]
  /\ DOMAIN req = Requests /\ \A r \in Requests : req[r] = Idle \/ Shape(req[r])

\* Token t takes e off the list, or has done so.
Works(e, t) == subs[e] # NoRow /\ (subs[e].token = t \/ t \in retired)

\* A row read before an await: its row is still there, and the token of somebody
\* who had left is retired, which is what lets the token be replaced.
Remembers(x) ==
  x.pc \in {"upsert", "unsubscribe"} /\ x.snap # NoRow =>
    subs[x.in.email] # NoRow /\ (x.snap.unsubscribed => x.snap.token \in retired)

Carries(x) ==
  /\ x.pc = "refresh" => subs[x.in.email] # NoRow
  /\ x.pc = "send" => Works(x.in.email, x.token)

Linked ==
  /\ \A m \in mailbox : Works(m.email, m.token)
  /\ \A e \in Emails : subs[e] # NoRow /\ subs[e].unsubscribed => subs[e].token \in retired
  /\ \A r \in Requests : Remembers(req[r]) /\ Carries(req[r])

\* The requests past the check of the cooldown.
Sending(e) == {r \in Requests : req[r].pc = "send" /\ req[r].in.email = e}
Recording(e) == {r \in Requests : req[r].pc = "record" /\ req[r].in.email = e}

\* Until a reply is on record, each one mailed has a request that is about to
\* record it; afterwards only those past the check still mail.
Guarded(e) ==
  IF cooling[e] THEN mails[e] + Cardinality(Sending(e)) <= Cardinality(Requests) + unlogged[e]
                ELSE mails[e] <= Cardinality(Recording(e)) + unlogged[e]

AllGuarded == \A e \in Emails : Guarded(e)

\* A retention window shorter than the cooldown sweeps the replies on record.
Inv == Base /\ Linked /\ (~SweepsCooldown => AllGuarded)

-----------------------------------------------------------------------------
(* Requests *)

LEMMA IdleIs == Idle.pc = "idle"
BY DEF Idle

\* A request that stands somewhere has a shape.
LEMMA UnderWay ==
  ASSUME Base, NEW r \in Requests, req[r].pc # "idle"
  PROVE  Shape(req[r])
BY IdleIs DEF Base

\* A form names an address.
LEMMA FormsAre ==
  ASSUME NEW p \in Forms
  PROVE  p.email \in Emails /\ p.kind \in {"contact", "update", "signup"}
BY DEF Forms, ContactPayloads, SignupPayloads

\* A request goes on to x, or answers.
Moves(r, x) == req' = [req EXCEPT ![r] = x] /\ (x = Idle \/ Shape(x))

LEMMA MovesIs ==
  ASSUME Base, NEW r \in Requests, NEW x, Moves(r, x)
  PROVE  DOMAIN req' = Requests /\ req'[r] = x /\ \A s \in Requests \ {r} : req'[s] = req[s]
BY DEF Base, Moves

LEMMA MovesBase ==
  ASSUME Base, NEW r \in Requests, NEW x, Moves(r, x), TypeOK',
         intakes' \in [Sessions -> {NoRow} \cup IntakeRows]
  PROVE  Base'
<1>1. DOMAIN req' = Requests /\ req'[r] = x /\ \A s \in Requests \ {r} : req'[s] = req[s]
  BY MovesIs
<1>2. ASSUME NEW s \in Requests PROVE req'[s] = Idle \/ Shape(req'[s])
  <2>1. CASE s = r
    BY <1>1, <2>1 DEF Moves
  <2>2. CASE s # r
    BY <1>1, <2>2 DEF Base
  <2>3. QED
    BY <2>1, <2>2
<1>3. QED
  BY <1>1, <1>2 DEF Base

\* The requests past the check of each address.
LEMMA MovesCounts ==
  ASSUME Base, NEW r \in Requests, NEW x, Moves(r, x), NEW e \in Emails
  PROVE  /\ Sending(e)' = IF x.pc = "send" /\ x.in.email = e
                          THEN Sending(e) \cup {r} ELSE Sending(e) \ {r}
         /\ Recording(e)' = IF x.pc = "record" /\ x.in.email = e
                            THEN Recording(e) \cup {r} ELSE Recording(e) \ {r}
<1>1. req'[r] = x /\ \A s \in Requests \ {r} : req'[s] = req[s]
  BY MovesIs
<1>2. QED
  BY <1>1 DEF Sending, Recording

LEMMA Counts ==
  ASSUME NEW e \in Emails
  PROVE  /\ IsFiniteSet(Sending(e)) /\ IsFiniteSet(Recording(e))
         /\ Cardinality(Sending(e)) \in Nat /\ Cardinality(Recording(e)) \in Nat
         /\ Cardinality(Requests) \in Nat
         /\ Cardinality(Sending(e)) + Cardinality(Recording(e)) <= Cardinality(Requests)
<1>1. /\ Sending(e) \subseteq Requests /\ Recording(e) \subseteq Requests
      /\ Sending(e) \cap Recording(e) = {} /\ Sending(e) \cup Recording(e) \subseteq Requests
  BY DEF Sending, Recording
<1>2. IsFiniteSet(Requests) /\ Cardinality(Requests) \in Nat
  BY FS_CardinalityType
<1>3. /\ IsFiniteSet(Sending(e)) /\ IsFiniteSet(Recording(e))
      /\ IsFiniteSet(Sending(e) \cup Recording(e))
  BY <1>1, <1>2, FS_Subset
<1>4. /\ Cardinality(Sending(e)) \in Nat /\ Cardinality(Recording(e)) \in Nat
      /\ Cardinality(Sending(e) \cup Recording(e)) \in Nat
  BY <1>3, FS_CardinalityType
<1>5. Cardinality(Sending(e) \cup Recording(e)) <= Cardinality(Requests)
  BY <1>1, <1>2, FS_Subset
<1>6. Cardinality(Sending(e) \cup Recording(e))
        = Cardinality(Sending(e)) + Cardinality(Recording(e))
        - Cardinality(Sending(e) \cap Recording(e))
  BY <1>3, FS_Union
<1>7. Cardinality(Sending(e) \cap Recording(e)) = 0
  BY <1>1, FS_EmptySet
<1>8. QED
  BY <1>2, <1>3, <1>4, <1>5, <1>6, <1>7

\* What may happen to rows and tokens: rows stay, and a token that is replaced
\* is retired.
Grows ==
  /\ retired \subseteq retired'
  /\ \A e \in Emails : subs[e] # NoRow =>
       subs'[e] # NoRow /\ (subs'[e].token = subs[e].token \/ subs[e].token \in retired')

LEMMA WorksOn ==
  ASSUME Grows, NEW e \in Emails, NEW t, Works(e, t)
  PROVE  Works(e, t)'
BY DEF Grows, Works

\* What a request remembers and carries stays good.
LEMMA CarriesOn ==
  ASSUME Grows, NEW x, Shape(x), Remembers(x), Carries(x)
  PROVE  Remembers(x)' /\ Carries(x)'
<1>1. x.pc \in {"upsert", "unsubscribe", "refresh", "send"} => x.in.email \in Emails
  BY FormsAre DEF Shape
<1>2. Remembers(x)'
  BY <1>1 DEF Remembers, Grows
<1>3. Carries(x)'
  BY <1>1, WorksOn DEF Carries, Grows
<1>4. QED
  BY <1>2, <1>3

LEMMA MovesLinked ==
  ASSUME Base, Linked, NEW r \in Requests, NEW x, Moves(r, x), Grows,
         x = Idle \/ (Remembers(x)' /\ Carries(x)'),
         \A m \in mailbox' : m \in mailbox \/ Works(m.email, m.token)',
         \A e \in Emails : subs'[e] # NoRow /\ subs'[e].unsubscribed => subs'[e].token \in retired'
  PROVE  Linked'
<1>1. req'[r] = x /\ \A s \in Requests \ {r} : req'[s] = req[s]
  BY MovesIs
<1>2. mailbox \subseteq [email : Emails, token : Nat]
  BY DEF Base, TypeOK
<1>3. \A m \in mailbox' : Works(m.email, m.token)'
  BY <1>2, WorksOn DEF Linked
<1>4. Remembers(Idle)' /\ Carries(Idle)'
  BY IdleIs DEF Remembers, Carries
<1>5. ASSUME NEW s \in Requests PROVE Remembers(req[s])' /\ Carries(req[s])'
  <2>1. CASE s = r
    BY <1>1, <1>4, <2>1 DEF Remembers, Carries, Works
  <2>2. CASE s # r
    <3>1. PICK y : y = req[s]
      OBVIOUS
    <3>2. req'[s] = y /\ (y = Idle \/ Shape(y)) /\ Remembers(y) /\ Carries(y)
      BY <1>1, <2>2, <3>1 DEF Base, Linked
    <3>3. Remembers(y)' /\ Carries(y)'
      BY <1>4, <3>2, CarriesOn
    <3>4. QED
      BY <3>2, <3>3 DEF Remembers, Carries, Works
  <2>3. QED
    BY <2>1, <2>2
<1>6. QED
  BY <1>3, <1>5 DEF Linked

\* A request that is not past the check before or after: the guard stands.
LEMMA MovesGuarded ==
  ASSUME Base, AllGuarded, NEW r \in Requests, NEW x, Moves(r, x),
         req[r].pc \notin {"send", "record"}, x.pc \notin {"send", "record"},
         UNCHANGED <<cooling, mails, unlogged>>
  PROVE  AllGuarded'
<1>1. ASSUME NEW e \in Emails PROVE Guarded(e)'
  <2>1. Sending(e)' = Sending(e) \ {r} /\ Recording(e)' = Recording(e) \ {r}
    BY MovesCounts
  <2>2. r \notin Sending(e) /\ r \notin Recording(e)
    BY DEF Sending, Recording
  <2>3. Sending(e)' = Sending(e) /\ Recording(e)' = Recording(e)
    BY <2>1, <2>2
  <2>4. QED
    BY <2>3 DEF AllGuarded, Guarded
<1>2. QED
  BY <1>1 DEF AllGuarded

\* A step of a request that changes no row and no mail.
LEMMA AsideStep ==
  ASSUME Inv, NEW r \in Requests, NEW x, Moves(r, x),
         req[r].pc \notin {"send", "record"}, x.pc \notin {"send", "record"},
         UNCHANGED <<subs, mailbox, retired, cooling, mails, unlogged, tokens>>,
         starts' \in 0..MaxStarts, faults' \in 0..MaxFaults,
         intakes' \in [Sessions -> {NoRow} \cup IntakeRows],
         x = Idle \/ (Remembers(x) /\ Carries(x))
  PROVE  Inv'
<1>1. Base /\ Linked /\ TypeOK
  BY DEF Inv, Base
<1>2. TypeOK'
  <2>1. \A s \in Sessions : intakes'[s] # NoRow => intakes'[s].count \in Nat
    BY DEF IntakeRows
  <2>2. QED
    BY <1>1, <2>1 DEF TypeOK
<1>3. Base'
  BY <1>1, <1>2, MovesBase
<1>4. Grows
  BY DEF Grows
<1>5. x = Idle \/ (Remembers(x)' /\ Carries(x)')
  BY DEF Remembers, Carries, Works
<1>6. Linked'
  BY <1>1, <1>4, <1>5, MovesLinked DEF Linked
<1>7. QED
  BY <1>1, <1>3, <1>6, MovesGuarded DEF Inv

-----------------------------------------------------------------------------
(* Steps of the forms *)

\* A handler that ends before the auto-reply changes nothing but its request.
LEMMA EndsEarly ==
  ASSUME Inv, NEW r \in Requests, Answer(r), req[r].pc \notin {"send", "record"},
         UNCHANGED <<subs, mailbox, retired, cooling, mails, unlogged, tokens>>,
         starts' = starts, faults' \in 0..MaxFaults,
         intakes' \in [Sessions -> {NoRow} \cup IntakeRows]
  PROVE  Inv'
<1>1. Moves(r, Idle)
  BY DEF Answer, Moves
<1>2. starts' \in 0..MaxStarts
  BY DEF Inv, Base, TypeOK
<1>3. QED
  BY <1>1, <1>2, IdleIs, AsideStep

\* A form on its way to the subscriber list.
LEMMA FormGoesOn ==
  ASSUME Inv, NEW r \in Requests, req[r].pc \notin {"idle", "send", "record"},
         NEW x, req' = [req EXCEPT ![r] = x], DOMAIN x = Fields, x.token = req[r].token,
         x.in = req[r].in, x.in \in Forms, x.pc \in {"save", "notify", "subscribe"},
         UNCHANGED <<subs, mailbox, retired, cooling, mails, unlogged, tokens, starts, faults, intakes>>
  PROVE  Inv'
<1>1. Shape(req[r])
  BY UnderWay DEF Inv
<1>2. Moves(r, x)
  BY <1>1 DEF Shape, Moves
<1>3. Remembers(x) /\ Carries(x)
  BY DEF Remembers, Carries
<1>4. /\ starts' \in 0..MaxStarts /\ faults' \in 0..MaxFaults
      /\ intakes' \in [Sessions -> {NoRow} \cup IntakeRows]
  BY DEF Inv, Base, TypeOK
<1>5. QED
  BY <1>2, <1>3, <1>4, AsideStep

\* The forms' requests hold a form.
LEMMA HoldsForm ==
  ASSUME Inv, NEW r \in Requests,
         req[r].pc \in {"limits", "save", "notify", "subscribe", "upsert", "refresh", "send", "record"}
  PROVE  /\ req[r].in \in Forms /\ DOMAIN req[r] = Fields /\ req[r].token \in Nat
         /\ req[r].pc = "upsert" => req[r].snap \in {NoRow} \cup Subscriber
         /\ req[r].in.email \in Emails
<1>1. Shape(req[r])
  BY UnderWay DEF Inv
<1>2. req[r].in \in Forms
  BY <1>1 DEF Shape
<1>3. QED
  BY <1>1, <1>2, FormsAre DEF Shape

LEMMA LimitsStep ==
  ASSUME Inv, NEW r \in Requests, Limits(r)
  PROVE  Inv'
<1>1. req[r].pc = "limits"
  BY DEF Limits
<1>2. req[r].in \in Forms /\ DOMAIN req[r] = Fields /\ DOMAIN req = Requests
  BY <1>1, HoldsForm DEF Inv, Base
<1>3. UNCHANGED <<subs, mailbox, retired, cooling, mails, unlogged, tokens, starts, faults, intakes>>
  BY DEF Limits
<1>4. CASE Answer(r)
  BY <1>1, <1>3, <1>4, EndsEarly DEF Inv, Base, TypeOK
<1>5. ASSUME NEW id, req' = [req EXCEPT ![r].pc = "save", ![r].id = id] PROVE Inv'
  <2> DEFINE x == [req[r] EXCEPT !.pc = "save", !.id = id]
  <2>1. DOMAIN x = Fields /\ x.token = req[r].token /\ x.in = req[r].in /\ x.pc = "save"
    BY <1>2 DEF Fields
  <2>2. req' = [req EXCEPT ![r] = x]
    BY <1>2, <1>5
  <2> HIDE DEF x
  <2>3. QED
    BY <1>1, <1>2, <1>3, <2>1, <2>2, FormGoesOn
<1>6. QED
  BY <1>4, <1>5 DEF Limits

LEMMA SubmitContactStep ==
  ASSUME Inv, NEW r \in Requests, SubmitContact(r) \/ NewsletterSubscribe(r) \/ NotifyContact(r)
  PROVE  Inv'
<1>1. req[r].pc \in {"save", "notify"}
  BY DEF SubmitContact, NewsletterSubscribe, NotifyContact
<1>2. req[r].in \in Forms /\ DOMAIN req[r] = Fields /\ DOMAIN req = Requests
  BY <1>1, HoldsForm DEF Inv, Base
<1>3. UNCHANGED <<subs, mailbox, retired, cooling, mails, unlogged, tokens, starts, faults, intakes>>
  BY DEF SubmitContact, NewsletterSubscribe, NotifyContact
<1>4. ASSUME NEW pc \in {"notify", "subscribe"}, NEW id,
             req' = [req EXCEPT ![r].pc = pc, ![r].id = id] \/ Goto(r, pc)
      PROVE  Inv'
  <2> DEFINE y == [req[r] EXCEPT !.pc = pc]
             z == [req[r] EXCEPT !.pc = pc, !.id = id]
  <2>1. /\ DOMAIN y = Fields /\ y.token = req[r].token /\ y.in = req[r].in /\ y.pc = pc
        /\ DOMAIN z = Fields /\ z.token = req[r].token /\ z.in = req[r].in /\ z.pc = pc
    BY <1>2 DEF Fields
  <2>2. req' = [req EXCEPT ![r] = y] \/ req' = [req EXCEPT ![r] = z]
    BY <1>2, <1>4 DEF Goto
  <2> HIDE DEF y, z
  <2>3. QED
    BY <1>1, <1>2, <1>3, <2>1, <2>2, FormGoesOn
<1>5. QED
  BY <1>4 DEF SubmitContact, NewsletterSubscribe, NotifyContact

\* The notification's row or the upsert fails: the request is over.
LEMMA FormFailsStep ==
  ASSUME Inv, NEW r \in Requests, SaveNotificationFails(r) \/ UpsertFails(r)
  PROVE  Inv'
<1>1. /\ req[r].pc \in {"notify", "upsert"} /\ Answer(r)
      /\ UNCHANGED <<subs, mailbox, retired, cooling, mails, unlogged, tokens, starts, intakes>>
      /\ faults < MaxFaults /\ faults' = faults + 1
  BY DEF SaveNotificationFails, UpsertFails
<1>2. faults' \in 0..MaxFaults
  BY <1>1 DEF Inv, Base, TypeOK
<1>3. QED
  BY <1>1, <1>2, EndsEarly DEF Inv, Base

\* The row is read: somebody who has left has a retired token.
LEMMA GetSubscriberByEmailStep ==
  ASSUME Inv, NEW r \in Requests, GetSubscriberByEmail(r)
  PROVE  Inv'
<1>1. /\ req[r].pc = "subscribe"
      /\ UNCHANGED <<subs, mailbox, retired, cooling, mails, unlogged, tokens, starts, faults, intakes>>
  BY DEF GetSubscriberByEmail
<1>2. /\ req[r].in \in Forms /\ DOMAIN req[r] = Fields /\ DOMAIN req = Requests
      /\ req[r].token \in Nat
  BY <1>1, HoldsForm DEF Inv, Base
<1>3. PICK e \in Emails : e = req[r].in.email
  BY <1>1, HoldsForm
<1> DEFINE x == [req[r] EXCEPT !.pc = "upsert", !.snap = subs[e]]
<1>4. /\ DOMAIN x = Fields /\ x.token = req[r].token /\ x.in = req[r].in /\ x.pc = "upsert"
      /\ x.snap = subs[e]
  BY <1>2 DEF Fields
<1>5. req' = [req EXCEPT ![r] = x]
  BY <1>2, <1>3 DEF GetSubscriberByEmail
<1> HIDE DEF x
<1>6. subs[e] \in {NoRow} \cup Subscriber
  BY DEF Inv, Base, TypeOK
<1>7. Moves(r, x)
  BY <1>2, <1>4, <1>5, <1>6 DEF Moves, Shape
<1>8. Remembers(x) /\ Carries(x)
  BY <1>3, <1>4 DEF Inv, Linked, Remembers, Carries
<1>9. QED
  BY <1>1, <1>4, <1>7, <1>8, AsideStep DEF Inv, Base, TypeOK

\* A step that changes the row of one address, and no reply.
LEMMA RowStep ==
  ASSUME Inv, NEW r \in Requests, NEW x, Moves(r, x),
         req[r].pc \notin {"send", "record"}, x.pc \notin {"send", "record"},
         NEW e \in Emails, NEW row \in Subscriber, subs' = [subs EXCEPT ![e] = row],
         UNCHANGED <<mailbox, cooling, mails, unlogged, starts, faults, intakes>>,
         tokens' \in Nat, retired \subseteq retired',
         subs[e] # NoRow => row.token = subs[e].token \/ subs[e].token \in retired',
         row.unsubscribed => row.token \in retired',
         x = Idle \/ (x.pc = "refresh" /\ x.in.email = e)
  PROVE  Inv'
<1>1. Base /\ Linked /\ TypeOK /\ subs \in [Emails -> {NoRow} \cup Subscriber] /\ row # NoRow
  BY NoRowAssumption DEF Inv, Base, TypeOK, Subscriber
<1>2. /\ subs' \in [Emails -> {NoRow} \cup Subscriber] /\ subs'[e] = row
      /\ \A f \in Emails \ {e} : subs'[f] = subs[f]
  BY <1>1
<1>3. TypeOK'
  BY <1>1, <1>2 DEF TypeOK
<1>4. Base'
  BY <1>1, <1>3, MovesBase DEF Base
<1>5. Grows
  BY <1>1, <1>2 DEF Grows
<1>6. x = Idle \/ (Remembers(x)' /\ Carries(x)')
  BY <1>1, <1>2 DEF Remembers, Carries
<1>7. \A f \in Emails : subs'[f] # NoRow /\ subs'[f].unsubscribed => subs'[f].token \in retired'
  BY <1>1, <1>2 DEF Linked
<1>8. Linked'
  BY <1>1, <1>5, <1>6, <1>7, MovesLinked
<1>9. QED
  BY <1>1, <1>4, <1>8, MovesGuarded DEF Inv

\* A row that is refreshed keeps its token, unless its holder was read to have
\* left: then the token gives way to a new one, and is retired.
LEMMA UpsertSubscriberStep ==
  ASSUME Inv, NEW r \in Requests, UpsertSubscriber(r)
  PROVE  Inv'
<1>1. /\ req[r].pc = "upsert"
      /\ UNCHANGED <<mailbox, cooling, mails, unlogged, starts, faults, intakes>>
  BY DEF UpsertSubscriber
<1>2. /\ req[r].in \in Forms /\ DOMAIN req[r] = Fields /\ DOMAIN req = Requests
      /\ req[r].token \in Nat /\ tokens \in Nat
  BY <1>1, HoldsForm DEF Inv, Base, TypeOK
<1>3. PICK e \in Emails : e = req[r].in.email
  BY <1>1, HoldsForm
<1>4. PICK snap \in {NoRow} \cup Subscriber : snap = req[r].snap
  BY <1>1, HoldsForm
<1>5. /\ subs[e] \in {NoRow} \cup Subscriber /\ subs \in [Emails -> {NoRow} \cup Subscriber]
      /\ Remembers(req[r]) /\ (subs[e] # NoRow /\ subs[e].unsubscribed => subs[e].token \in retired)
  BY DEF Inv, Base, TypeOK, Linked
<1> DEFINE x == [req[r] EXCEPT !.pc = "refresh"]
<1>6. DOMAIN x = Fields /\ x.token = req[r].token /\ x.in = req[r].in /\ x.pc = "refresh"
  BY <1>2 DEF Fields
<1>7. Goto(r, "refresh") => req' = [req EXCEPT ![r] = x]
  BY <1>2 DEF Goto
<1> HIDE DEF x
<1>8. Goto(r, "refresh") => Moves(r, x)
  BY <1>2, <1>6, <1>7 DEF Moves, Shape
<1>9. CASE snap = NoRow /\ subs[e] = NoRow
  <2>1. /\ subs' = [subs EXCEPT ![e] = Inserted] /\ tokens' = tokens + 1
        /\ Goto(r, "refresh") /\ retired' = retired
    BY <1>3, <1>4, <1>9 DEF UpsertSubscriber
  <2>2. Inserted \in Subscriber /\ ~Inserted.unsubscribed
    BY <1>2 DEF Inserted, Subscriber
  <2>3. QED
    <3>1. /\ Moves(r, x) /\ x.pc = "refresh" /\ x.in.email = e /\ req[r].pc \notin {"send", "record"}
          /\ retired \subseteq retired' /\ tokens' \in Nat
      BY <1>1, <1>2, <1>3, <1>6, <1>8, <2>1
    <3>2. QED
      BY <1>1, <1>9, <2>1, <2>2, <3>1, RowStep
<1>10. CASE snap = NoRow /\ subs[e] # NoRow
  <2>1. Answer(r) /\ UNCHANGED <<subs, tokens, retired>>
    BY <1>3, <1>4, <1>10 DEF UpsertSubscriber
  <2>2. QED
    BY <1>1, <2>1, EndsEarly DEF Inv, Base, TypeOK
<1>11. CASE snap # NoRow
  <2>1. PICK same \in BOOLEAN :
          subs' = [subs EXCEPT ![e] = OptedIn(Refreshed(subs[e], snap, same), snap)]
    BY <1>3, <1>4, <1>11 DEF UpsertSubscriber
  <2>2. /\ tokens' = IF snap.unsubscribed THEN tokens + 1 ELSE tokens
        /\ retired' = IF snap.unsubscribed /\ snap.token # subs[e].token
                      THEN retired \cup {subs[e].token} ELSE retired
        /\ Goto(r, "refresh")
    BY <1>3, <1>4, <1>11 DEF UpsertSubscriber
  <2>3. /\ subs[e] \in Subscriber /\ subs[e] # NoRow
        /\ snap.unsubscribed => snap.token \in retired
    BY <1>1, <1>3, <1>4, <1>5, <1>11 DEF Remembers
  <2>4. PICK row : row = Refreshed(subs[e], snap, same)
    OBVIOUS
  <2>5. row \in Subscriber /\ row.token = subs[e].token /\ row.unsubscribed = subs[e].unsubscribed
    BY <1>4, <1>11, <2>3, <2>4 DEF Refreshed, Subscriber
  <2>6. PICK new : new = OptedIn(row, snap)
    OBVIOUS
  <2>7. /\ new \in Subscriber
        /\ snap.unsubscribed => ~new.unsubscribed
        /\ ~snap.unsubscribed => new = row
    <3>1. snap.unsubscribed \in BOOLEAN
      BY <1>4, <1>11 DEF Subscriber
    <3>2. CASE snap.unsubscribed
      <4>1. PICK t \in Nat : t = tokens + 1
        BY <1>2
      <4>2. new = [row EXCEPT !.unsubscribed = FALSE, !.token = t]
        BY <2>6, <3>2, <4>1 DEF OptedIn
      <4>3. new \in Subscriber /\ new.unsubscribed = FALSE
        BY <2>5, <4>2 DEF Subscriber
      <4>4. QED
        BY <3>2, <4>3
    <3>3. CASE ~snap.unsubscribed
      BY <2>5, <2>6, <3>3 DEF OptedIn
    <3>4. QED
      BY <3>1, <3>2, <3>3
  <2>8. subs' = [subs EXCEPT ![e] = new]
    BY <2>1, <2>4, <2>6
  <2>9. /\ tokens' \in Nat /\ retired \subseteq retired'
        /\ new.token = subs[e].token \/ subs[e].token \in retired'
        /\ new.unsubscribed => new.token \in retired'
    BY <1>2, <1>5, <2>2, <2>3, <2>5, <2>7
  <2>10. QED
    BY <1>1, <1>3, <1>6, <1>8, <2>2, <2>7, <2>8, <2>9, RowStep
<1>12. QED
  BY <1>9, <1>10, <1>11

\* A click finds the holder of its token.
LEMMA GetSubscriberByTokenStep ==
  ASSUME Inv, NEW r \in Requests, GetSubscriberByToken(r)
  PROVE  Inv'
<1>1. /\ req[r].pc = "click"
      /\ UNCHANGED <<subs, mailbox, retired, cooling, mails, unlogged, tokens, starts, faults, intakes>>
  BY DEF GetSubscriberByToken
<1>2. DOMAIN req[r] = Fields /\ DOMAIN req = Requests /\ req[r].token \in Nat
  BY <1>1, UnderWay DEF Inv, Base, Shape
<1>3. CASE Answer(r)
  BY <1>1, <1>3, EndsEarly DEF Inv, Base, TypeOK
<1>4. ASSUME NEW e \in Emails, subs[e] # NoRow,
             req' = [req EXCEPT ![r].pc = "unsubscribe", ![r].snap = subs[e],
                                ![r].in = [kind |-> "click", email |-> e]]
      PROVE  Inv'
  <2>1. PICK in : in = [kind |-> "click", email |-> e]
    OBVIOUS
  <2>2. in \in [kind : {"click"}, email : Emails] /\ in.email = e
    BY <2>1
  <2> DEFINE x == [req[r] EXCEPT !.pc = "unsubscribe", !.snap = subs[e], !.in = in]
  <2>3. /\ DOMAIN x = Fields /\ x.token = req[r].token /\ x.in = in /\ x.pc = "unsubscribe"
        /\ x.snap = subs[e]
    BY <1>2 DEF Fields
  <2>4. req' = [req EXCEPT ![r] = x]
    BY <1>2, <1>4, <2>1
  <2> HIDE DEF x
  <2>5. subs[e] \in Subscriber
    BY <1>4 DEF Inv, Base, TypeOK
  <2>6. Moves(r, x)
    BY <1>2, <2>2, <2>3, <2>4, <2>5 DEF Moves, Shape
  <2>7. Remembers(x) /\ Carries(x)
    BY <1>4, <2>2, <2>3 DEF Inv, Linked, Remembers, Carries
  <2>8. QED
    BY <1>1, <2>3, <2>6, <2>7, AsideStep DEF Inv, Base, TypeOK
<1>5. QED
  BY <1>3, <1>4 DEF GetSubscriberByToken, Holders

\* One click retires the token of the row as it is now.
LEMMA UnsubscribeByTokenStep ==
  ASSUME Inv, NEW r \in Requests, UnsubscribeByToken(r)
  PROVE  Inv'
<1>1. /\ req[r].pc = "unsubscribe" /\ Answer(r)
      /\ UNCHANGED <<mailbox, cooling, mails, unlogged, tokens, starts, faults, intakes>>
  BY DEF UnsubscribeByToken
<1>2. req[r].in \in [kind : {"click"}, email : Emails] /\ req[r].snap \in Subscriber
  BY <1>1, UnderWay DEF Inv, Shape
<1>3. PICK e \in Emails, snap \in Subscriber : e = req[r].in.email /\ snap = req[r].snap
  BY <1>2
<1>4. snap # NoRow
  BY NoRowAssumption DEF Subscriber
<1>5. /\ subs \in [Emails -> {NoRow} \cup Subscriber] /\ subs[e] \in Subscriber
      /\ subs[e].unsubscribed => subs[e].token \in retired
  <2>1. Remembers(req[r]) /\ subs[e] \in {NoRow} \cup Subscriber
    BY DEF Inv, Linked, Base, TypeOK
  <2>2. subs[e] # NoRow
    BY <1>1, <1>3, <1>4, <2>1 DEF Remembers
  <2>3. QED
    BY <2>1, <2>2 DEF Inv, Linked, Base, TypeOK
<1> DEFINE row == [subs[e] EXCEPT !.unsubscribed = @ \/ ~snap.unsubscribed,
                                  !.profile = @ /\ ~snap.profile]
<1>6. /\ row \in Subscriber /\ row.token = subs[e].token
      /\ row.unsubscribed = (subs[e].unsubscribed \/ ~snap.unsubscribed)
  BY <1>5 DEF Subscriber
<1>7. subs' = [subs EXCEPT ![e] = row]
  BY <1>3, <1>5 DEF UnsubscribeByToken
<1> HIDE DEF row
<1>8. retired' = IF snap.unsubscribed THEN retired ELSE retired \cup {subs[e].token}
  BY <1>3 DEF UnsubscribeByToken
<1>9. retired \subseteq retired' /\ (row.unsubscribed => row.token \in retired')
  BY <1>5, <1>6, <1>8
<1>10. Moves(r, Idle)
  BY <1>1 DEF Answer, Moves
<1>11. tokens' \in Nat
  BY <1>1 DEF Inv, Base, TypeOK
<1>12. QED
  BY <1>1, <1>6, <1>7, <1>9, <1>10, <1>11, IdleIs, RowStep

-----------------------------------------------------------------------------
(* Steps of the auto-reply *)

\* A step about the replies to e.
LEMMA ReplyStep ==
  ASSUME Inv, NEW r \in Requests, NEW x, Moves(r, x), NEW e \in Emails, TypeOK',
         req[r].pc \in {"refresh", "send", "record"}, req[r].in.email = e,
         x = Idle \/ x.in.email = e, UNCHANGED <<subs, retired, intakes>>,
         \A f \in Emails \ {e} :
           cooling'[f] = cooling[f] /\ mails'[f] = mails[f] /\ unlogged'[f] = unlogged[f],
         x = Idle \/ (Remembers(x) /\ Carries(x)),
         \A m \in mailbox' : m \in mailbox \/ Works(m.email, m.token),
         Guarded(e) => Guarded(e)'
  PROVE  Inv'
<1>1. Base /\ Linked
  BY DEF Inv
<1>2. Base'
  BY <1>1, MovesBase DEF Base
<1>3. Grows
  BY DEF Grows
<1>4. /\ x = Idle \/ (Remembers(x)' /\ Carries(x)')
      /\ \A m \in mailbox' : m \in mailbox \/ Works(m.email, m.token)'
  BY DEF Remembers, Carries, Works
<1>5. Linked'
  BY <1>1, <1>3, <1>4, MovesLinked DEF Linked
<1>6. ASSUME AllGuarded PROVE AllGuarded'
  <2>1. ASSUME NEW f \in Emails \ {e} PROVE Guarded(f)'
    <3>1. x.in.email # f \/ x.pc \notin {"send", "record"}
      BY IdleIs
    <3>2. Sending(f)' = Sending(f) \ {r} /\ Recording(f)' = Recording(f) \ {r}
      BY <1>1, <3>1, MovesCounts
    <3>3. r \notin Sending(f) /\ r \notin Recording(f)
      BY DEF Sending, Recording
    <3>4. Sending(f)' = Sending(f) /\ Recording(f)' = Recording(f)
      BY <3>2, <3>3
    <3>5. QED
      BY <1>6, <3>4 DEF AllGuarded, Guarded
  <2>2. Guarded(e)'
    BY <1>6 DEF AllGuarded
  <2>3. QED
    BY <2>1, <2>2 DEF AllGuarded
<1>7. QED
  BY <1>2, <1>5, <1>6 DEF Inv

\* The row is read again, and the cooldown is looked up.
LEMMA SubscribeAndReplyStep ==
  ASSUME Inv, NEW r \in Requests, SubscribeAndReply(r)
  PROVE  Inv'
<1>1. /\ req[r].pc = "refresh"
      /\ UNCHANGED <<subs, mailbox, retired, cooling, mails, unlogged, tokens, starts, faults, intakes>>
  BY DEF SubscribeAndReply
<1>2. req[r].in \in Forms /\ DOMAIN req[r] = Fields /\ DOMAIN req = Requests
  BY <1>1, HoldsForm DEF Inv, Base
<1>3. PICK e \in Emails : e = req[r].in.email
  BY <1>1, HoldsForm
<1>4. subs[e] \in Subscriber /\ subs[e].token \in Nat /\ subs[e] # NoRow
  <2>1. Carries(req[r]) /\ subs[e] \in {NoRow} \cup Subscriber
    BY DEF Inv, Linked, Base, TypeOK
  <2>2. subs[e] # NoRow
    BY <1>1, <1>3, <2>1 DEF Carries
  <2>3. QED
    BY <2>1, <2>2 DEF Subscriber
<1>5. PICK pc \in {"send", "record"} : pc = IF cooling[e] THEN "record" ELSE "send"
  OBVIOUS
<1> DEFINE x == [req[r] EXCEPT !.token = subs[e].token, !.pc = pc]
<1>6. DOMAIN x = Fields /\ x.token = subs[e].token /\ x.in = req[r].in /\ x.pc = pc
  BY <1>2 DEF Fields
<1>7. req' = [req EXCEPT ![r] = x]
  BY <1>2, <1>3, <1>5 DEF SubscribeAndReply, RecentAutoreplyExists
<1> HIDE DEF x
<1>8. Moves(r, x)
  BY <1>2, <1>4, <1>6, <1>7 DEF Moves, Shape
<1>9. Remembers(x) /\ Carries(x)
  BY <1>3, <1>4, <1>6 DEF Remembers, Carries, Works
<1>10. TypeOK'
  BY <1>1 DEF Inv, Base, TypeOK
<1>11. Guarded(e) => Guarded(e)'
  <2>1. r \notin Sending(e) /\ r \notin Recording(e)
    BY <1>1 DEF Sending, Recording
  <2>2. /\ cooling[e] => Sending(e)' = Sending(e) \ {r}
        /\ ~cooling[e] => Recording(e)' = Recording(e) \ {r}
    BY <1>5, <1>6, <1>8, MovesCounts DEF Inv
  <2>3. QED
    BY <1>1, <2>1, <2>2 DEF Guarded
<1>12. QED
  BY <1>1, <1>3, <1>6, <1>8, <1>9, <1>10, <1>11, ReplyStep

\* The reply is mailed, or not; its request is about to record it.
LEMMA SendAutoReplyStep ==
  ASSUME Inv, NEW r \in Requests, SendAutoReply(r)
  PROVE  Inv'
<1>1. /\ req[r].pc = "send" /\ Goto(r, "record")
      /\ UNCHANGED <<subs, retired, cooling, unlogged, tokens, starts, faults, intakes>>
  BY DEF SendAutoReply
<1>2. /\ req[r].in \in Forms /\ DOMAIN req[r] = Fields /\ DOMAIN req = Requests
      /\ req[r].token \in Nat /\ TypeOK
  BY <1>1, HoldsForm DEF Inv, Base
<1>3. PICK e \in Emails : e = req[r].in.email
  BY <1>1, HoldsForm
<1>4. PICK token \in Nat : token = req[r].token
  BY <1>2
<1>5. Works(e, token)
  <2>1. Carries(req[r])
    BY DEF Inv, Linked
  <2>2. QED
    BY <1>1, <1>3, <1>4, <2>1 DEF Carries
<1> DEFINE x == [req[r] EXCEPT !.pc = "record"]
<1>6. DOMAIN x = Fields /\ x.token = req[r].token /\ x.in = req[r].in /\ x.pc = "record"
  BY <1>2 DEF Fields
<1>7. req' = [req EXCEPT ![r] = x]
  BY <1>1, <1>2 DEF Goto
<1> HIDE DEF x
<1>8. Moves(r, x)
  BY <1>2, <1>6, <1>7 DEF Moves, Shape
<1>9. Remembers(x) /\ Carries(x)
  BY <1>6 DEF Remembers, Carries
<1>10. \/ UNCHANGED <<mailbox, mails>>
       \/ /\ mailbox' = mailbox \cup {Letter(e, token)}
          /\ mails' = [mails EXCEPT ![e] = mails[e] + 1]
  BY <1>3, <1>4 DEF SendAutoReply, SendInternalEmail, ComposeAutoReply
<1>11. PICK m : m = Letter(e, token)
  OBVIOUS
<1>12. m \in [email : Emails, token : Nat] /\ m.email = e /\ m.token = token
  BY <1>11 DEF Letter
<1>13. \/ UNCHANGED <<mailbox, mails>>
       \/ mailbox' = mailbox \cup {m} /\ mails' = [mails EXCEPT ![e] = mails[e] + 1]
  BY <1>10, <1>11
<1>14. /\ mails' \in [Emails -> Nat] /\ mailbox' \subseteq [email : Emails, token : Nat]
       /\ mails'[e] <= mails[e] + 1 /\ mails[e] \in Nat /\ mails'[e] \in Nat
       /\ \A f \in Emails \ {e} : mails'[f] = mails[f]
  <2>1. mails \in [Emails -> Nat] /\ mailbox \subseteq [email : Emails, token : Nat]
    BY <1>2 DEF TypeOK
  <2>2. mails' \in [Emails -> Nat] /\ mailbox' \subseteq [email : Emails, token : Nat]
    BY <1>12, <1>13, <2>1
  <2>3. QED
    BY <1>13, <2>1, <2>2
<1>15. TypeOK'
  BY <1>1, <1>2, <1>14 DEF TypeOK
<1>16. \A n \in mailbox' : n \in mailbox \/ Works(n.email, n.token)
  BY <1>5, <1>12, <1>13
<1>17. Guarded(e) => Guarded(e)'
  <2>1. r \in Sending(e) /\ r \notin Recording(e)
    BY <1>1, <1>3 DEF Sending, Recording
  <2>2. Sending(e)' = Sending(e) \ {r} /\ Recording(e)' = Recording(e) \cup {r}
    BY <1>3, <1>6, <1>8, MovesCounts DEF Inv
  <2>3. /\ IsFiniteSet(Sending(e)) /\ IsFiniteSet(Recording(e))
        /\ Cardinality(Sending(e)) \in Nat /\ Cardinality(Recording(e)) \in Nat
        /\ Cardinality(Requests) \in Nat
    BY Counts
  <2>4. Cardinality(Sending(e) \ {r}) = Cardinality(Sending(e)) - 1
    BY <2>1, <2>3, FS_RemoveElement
  <2>5. Cardinality(Recording(e) \cup {r}) = Cardinality(Recording(e)) + 1
    BY <2>1, <2>3, FS_AddElement
  <2>6. unlogged[e] \in Nat
    BY <1>2 DEF TypeOK
  <2>7. QED
    BY <1>1, <1>14, <2>2, <2>3, <2>4, <2>5, <2>6 DEF Guarded
<1>18. QED
  BY <1>1, <1>3, <1>6, <1>8, <1>9, <1>14, <1>15, <1>16, <1>17, ReplyStep

\* The reply is on record: what was mailed and what may still be mailed come from
\* different requests.
LEMMA RecordAutoreplyStep ==
  ASSUME Inv, NEW r \in Requests, RecordAutoreply(r)
  PROVE  Inv'
<1>1. /\ req[r].pc = "record" /\ Answer(r) /\ TypeOK
      /\ UNCHANGED <<subs, mailbox, retired, mails, unlogged, tokens, starts, faults, intakes>>
  BY DEF RecordAutoreply, Inv, Base
<1>2. PICK e \in Emails : e = req[r].in.email
  BY <1>1, HoldsForm
<1>3. Moves(r, Idle)
  BY <1>1 DEF Answer, Moves
<1>4. /\ cooling' \in [Emails -> BOOLEAN] /\ cooling'[e] = TRUE
      /\ \A f \in Emails \ {e} : cooling'[f] = cooling[f]
  BY <1>1, <1>2 DEF RecordAutoreply, TypeOK
<1>5. TypeOK'
  BY <1>1, <1>4 DEF TypeOK
<1>6. Guarded(e) => Guarded(e)'
  <2>1. Sending(e)' = Sending(e) \ {r} /\ r \notin Sending(e)
    BY <1>1, <1>3, IdleIs, MovesCounts DEF Inv, Sending
  <2>2. Sending(e)' = Sending(e)
    BY <2>1
  <2>3. /\ Cardinality(Sending(e)) \in Nat /\ Cardinality(Recording(e)) \in Nat
        /\ Cardinality(Requests) \in Nat /\ mails[e] \in Nat /\ unlogged[e] \in Nat
        /\ Cardinality(Sending(e)) + Cardinality(Recording(e)) <= Cardinality(Requests)
    BY <1>1, Counts DEF TypeOK
  <2>4. QED
    BY <1>1, <1>4, <2>2, <2>3 DEF Guarded
<1>7. QED
  BY <1>1, <1>2, <1>3, <1>4, <1>5, <1>6, ReplyStep

LEMMA RecordAutoreplyFailsStep ==
  ASSUME Inv, NEW r \in Requests, RecordAutoreplyFails(r)
  PROVE  Inv'
<1>1. /\ req[r].pc = "record" /\ Answer(r) /\ TypeOK
      /\ UNCHANGED <<subs, mailbox, retired, mails, cooling, tokens, starts, intakes>>
      /\ faults < MaxFaults /\ faults' = faults + 1
  BY DEF RecordAutoreplyFails, Inv, Base
<1>2. PICK e \in Emails : e = req[r].in.email
  BY <1>1, HoldsForm
<1>3. Moves(r, Idle)
  BY <1>1 DEF Answer, Moves
<1>4. /\ unlogged' \in [Emails -> Nat] /\ unlogged'[e] = unlogged[e] + 1 /\ unlogged[e] \in Nat
      /\ \A f \in Emails \ {e} : unlogged'[f] = unlogged[f]
  <2>1. unlogged' = [unlogged EXCEPT ![e] = unlogged[e] + 1] /\ unlogged \in [Emails -> Nat]
    BY <1>1, <1>2 DEF RecordAutoreplyFails, TypeOK
  <2>2. QED
    BY <2>1
<1>5. TypeOK'
  BY <1>1, <1>4 DEF TypeOK
<1>6. Guarded(e) => Guarded(e)'
  <2>1. Sending(e)' = Sending(e) \ {r} /\ r \notin Sending(e) /\ r \in Recording(e)
    BY <1>1, <1>2, <1>3, IdleIs, MovesCounts DEF Inv, Sending, Recording
  <2>2. Sending(e)' = Sending(e) /\ Recording(e)' = Recording(e) \ {r}
    BY <1>3, <2>1, IdleIs, MovesCounts DEF Inv
  <2>3. /\ Cardinality(Sending(e)) \in Nat /\ Cardinality(Recording(e)) \in Nat
        /\ Cardinality(Requests) \in Nat /\ mails[e] \in Nat /\ IsFiniteSet(Recording(e))
    BY <1>1, Counts DEF TypeOK
  <2>4. Cardinality(Recording(e) \ {r}) = Cardinality(Recording(e)) - 1
    BY <2>1, <2>3, FS_RemoveElement
  <2>5. QED
    BY <1>1, <1>4, <2>2, <2>3, <2>4 DEF Guarded
<1>7. QED
  BY <1>1, <1>2, <1>3, <1>4, <1>5, <1>6, ReplyStep

-----------------------------------------------------------------------------
(* Steps of the terminal intake, and requests that come in *)

LEMMA SubmitIntakeStep ==
  ASSUME Inv, NEW r \in Requests, SubmitIntake(r) \/ FindTerminalIntake(r)
  PROVE  Inv'
<1>1. /\ req[r].pc \in {"intake", "find"}
      /\ UNCHANGED <<subs, mailbox, retired, cooling, mails, unlogged, tokens, starts, faults, intakes>>
  BY DEF SubmitIntake, FindTerminalIntake
<1>2. /\ DOMAIN req[r] = Fields /\ DOMAIN req = Requests /\ req[r].token \in Nat
      /\ req[r].in \in IntakePayloads \cup ChatLinks /\ req[r].snap \in {NoRow} \cup IntakeRows
  BY <1>1, UnderWay DEF Inv, Base, Shape
<1>3. intakes[req[r].in.session] \in {NoRow} \cup IntakeRows
  BY <1>2 DEF Inv, Base, IntakePayloads, ChatLinks
<1>4. CASE Answer(r)
  BY <1>1, <1>4, EndsEarly DEF Inv, Base, TypeOK
<1>5. ASSUME NEW pc \in {"find", "commit"}, NEW snap \in {NoRow} \cup IntakeRows,
             req' = [req EXCEPT ![r].pc = pc, ![r].snap = snap]
      PROVE  Inv'
  <2> DEFINE x == [req[r] EXCEPT !.pc = pc, !.snap = snap]
  <2>1. /\ DOMAIN x = Fields /\ x.token = req[r].token /\ x.in = req[r].in /\ x.pc = pc
        /\ x.snap = snap
    BY <1>2 DEF Fields
  <2>2. req' = [req EXCEPT ![r] = x]
    BY <1>2, <1>5
  <2> HIDE DEF x
  <2>3. Moves(r, x)
    BY <1>2, <2>1, <2>2 DEF Moves, Shape
  <2>4. Remembers(x) /\ Carries(x)
    BY <2>1 DEF Remembers, Carries
  <2>5. QED
    BY <1>1, <2>1, <2>3, <2>4, AsideStep DEF Inv, Base, TypeOK
<1>6. CASE SubmitIntake(r)
  BY <1>3, <1>4, <1>5, <1>6 DEF SubmitIntake
<1>7. CASE FindTerminalIntake(r)
  <2>1. PICK snap : snap = IF req[r].snap = NoRow THEN intakes[req[r].in.session] ELSE req[r].snap
    OBVIOUS
  <2>2. snap \in {NoRow} \cup IntakeRows
    BY <1>2, <1>3, <2>1
  <2>3. req' = [req EXCEPT ![r].pc = "commit", ![r].snap = snap]
    BY <1>2, <1>7, <2>1 DEF FindTerminalIntake, Fields
  <2>4. QED
    BY <1>5, <2>2, <2>3
<1>8. QED
  BY <1>6, <1>7

\* The answers are stored, under a count that was read.
LEMMA SaveTerminalIntakeStep ==
  ASSUME Inv, NEW r \in Requests, SaveTerminalIntakeSubmission(r)
  PROVE  Inv'
<1>1. /\ req[r].pc = "commit"
      /\ UNCHANGED <<subs, mailbox, retired, cooling, mails, unlogged, tokens, starts, faults>>
  BY DEF SaveTerminalIntakeSubmission
<1>2. /\ DOMAIN req[r] = Fields /\ DOMAIN req = Requests /\ req[r].token \in Nat
      /\ req[r].in \in IntakePayloads \cup ChatLinks /\ req[r].snap \in {NoRow} \cup IntakeRows
      /\ intakes \in [Sessions -> {NoRow} \cup IntakeRows]
  BY <1>1, UnderWay DEF Inv, Base, Shape
<1>3. PICK s \in Sessions : s = req[r].in.session
  BY <1>2 DEF IntakePayloads, ChatLinks
<1>4. ASSUME NEW row \in IntakeRows, NEW snap \in IntakeRows
      PROVE  ApplyTerminalIntakeRecord(row, snap, req[r].in) \in IntakeRows
  <2>1. row.count \in Nat /\ snap.count + 1 \in Nat /\ row.linked \in BOOLEAN
    BY DEF IntakeRows
  <2>2. PICK n \in Nat, b \in BOOLEAN :
          /\ n = IF req[r].in.kind = "intake" THEN snap.count + 1 ELSE row.count
          /\ b = (row.linked \/ req[r].in.kind = "link")
    BY <2>1
  <2>3. ApplyTerminalIntakeRecord(row, snap, req[r].in)
          = [row EXCEPT !.count = n, !.linked = b, !.seen = TRUE]
    BY <2>2 DEF ApplyTerminalIntakeRecord, IntakeRows
  <2>4. QED
    BY <2>3 DEF IntakeRows
<1>5. NewIntake \in IntakeRows
  BY DEF NewIntake, IntakeRows
<1>6. CASE Answer(r)
  <2>1. intakes' \in [Sessions -> {NoRow} \cup IntakeRows]
    <3>1. \/ intakes' = intakes
          \/ \E row, snap \in IntakeRows :
               intakes' = [intakes EXCEPT ![s] = ApplyTerminalIntakeRecord(row, snap, req[r].in)]
      BY <1>2, <1>3, <1>5 DEF SaveTerminalIntakeSubmission
    <3>2. QED
      BY <1>2, <1>4, <3>1
  <2>2. QED
    BY <1>1, <1>6, <2>1, EndsEarly DEF Inv, Base, TypeOK
<1>7. CASE req' = [req EXCEPT ![r].snap = intakes[s]] /\ intakes' = intakes
  <2> DEFINE x == [req[r] EXCEPT !.snap = intakes[s]]
  <2>1. /\ DOMAIN x = Fields /\ x.token = req[r].token /\ x.in = req[r].in /\ x.pc = req[r].pc
        /\ x.snap = intakes[s]
    BY <1>2 DEF Fields
  <2>2. req' = [req EXCEPT ![r] = x]
    BY <1>2, <1>7
  <2> HIDE DEF x
  <2>3. Moves(r, x)
    BY <1>1, <1>2, <2>1, <2>2 DEF Moves, Shape
  <2>4. Remembers(x) /\ Carries(x)
    BY <1>1, <2>1 DEF Remembers, Carries
  <2>5. QED
    BY <1>1, <1>2, <1>7, <2>1, <2>3, <2>4, AsideStep DEF Inv, Base, TypeOK
<1>8. QED
  BY <1>3, <1>6, <1>7 DEF SaveTerminalIntakeSubmission

LEMMA BeginStep ==
  ASSUME Inv, NEW r \in Requests, Begin(r)
  PROVE  Inv'
<1>1. /\ req[r] = Idle /\ starts' \in 0..MaxStarts /\ DOMAIN req = Requests
      /\ UNCHANGED <<subs, mailbox, retired, cooling, mails, unlogged, tokens, faults, intakes>>
  BY DEF Begin, Inv, Base, TypeOK
<1>2. PICK p \in Forms \cup IntakePayloads \cup ChatLinks \cup Clicks :
        req' = [req EXCEPT ![r] = [pc |-> EntryPoint[p.kind], in |-> p, id |-> 0,
                                   snap |-> NoRow, token |-> 0]]
  BY DEF Begin, Forms
<1>3. /\ p \in Forms => EntryPoint[p.kind] = "limits"
      /\ p \in IntakePayloads \cup ChatLinks => EntryPoint[p.kind] \in {"intake", "find"}
      /\ p \in Clicks => EntryPoint[p.kind] = "click"
  <2>1. p \in Forms => EntryPoint[p.kind] = "limits"
    BY FormsAre DEF EntryPoint
  <2>2. p \in IntakePayloads \cup ChatLinks => EntryPoint[p.kind] \in {"intake", "find"}
    BY DEF EntryPoint, IntakePayloads, ChatLinks
  <2>3. p \in Clicks => p.kind = "click"
    BY DEF Clicks
  <2>4. p \in Clicks => EntryPoint[p.kind] = "click"
    BY <2>3 DEF EntryPoint
  <2>5. QED
    BY <2>1, <2>2, <2>4
<1>4. PICK pc : pc = EntryPoint[p.kind]
  OBVIOUS
<1> DEFINE x == [pc |-> pc, in |-> p, id |-> 0, snap |-> NoRow, token |-> 0]
<1>5. DOMAIN x = Fields /\ x.token = 0 /\ x.in = p /\ x.pc = pc /\ x.snap = NoRow
  BY DEF Fields
<1>6. req' = [req EXCEPT ![r] = x]
  BY <1>2, <1>4
<1> HIDE DEF x
<1>7. Moves(r, x) /\ x.pc \in {"limits", "intake", "find", "click"}
  BY <1>3, <1>4, <1>5, <1>6 DEF Moves, Shape
<1>8. Remembers(x) /\ Carries(x)
  BY <1>7 DEF Remembers, Carries
<1>9. QED
  BY <1>1, <1>7, <1>8, IdleIs, AsideStep DEF Inv, Base, TypeOK

-----------------------------------------------------------------------------
(* Issues, time and the sweep *)

\* Nothing about links changes while rows, requests and retired tokens stay.
LEMMA LinksStay ==
  ASSUME Linked, UNCHANGED <<subs, retired, req>>,
         \A m \in mailbox' : m \in mailbox \/ Works(m.email, m.token)
  PROVE  Linked'
BY DEF Linked, Works, Remembers, Carries

LEMMA RequestsStay ==
  ASSUME UNCHANGED req, NEW e \in Emails
  PROVE  Sending(e)' = Sending(e) /\ Recording(e)' = Recording(e)
BY DEF Sending, Recording

\* An issue carries the tokens of the day.
LEMMA NewsletterMailStep ==
  ASSUME Inv, NewsletterMail \/ UNCHANGED vars
  PROVE  Inv'
<1>1. UNCHANGED <<subs, cooling, intakes, req, tokens, starts, faults, mails, unlogged, retired>>
  BY DEF NewsletterMail, vars
<1>2. ASSUME NEW m \in mailbox', m \notin mailbox
      PROVE  m \in [email : Emails, token : Nat] /\ Works(m.email, m.token)
  <2>1. PICK e \in ActiveSubscribers : m = [email |-> e, token |-> subs[e].token]
    BY <1>2 DEF NewsletterMail, vars
  <2>2. e \in Emails /\ subs[e] # NoRow /\ subs[e] \in Subscriber
    BY DEF ActiveSubscribers, Inv, Base, TypeOK
  <2>3. PICK t \in Nat : t = subs[e].token
    BY <2>2 DEF Subscriber
  <2>4. m \in [email : Emails, token : Nat] /\ m.email = e /\ m.token = t
    BY <2>1, <2>2, <2>3
  <2>5. QED
    BY <2>2, <2>3, <2>4 DEF Works
<1>3. Base'
  <2>1. mailbox' \subseteq [email : Emails, token : Nat]
    BY <1>2 DEF Inv, Base, TypeOK
  <2>2. TypeOK'
    BY <1>1, <2>1 DEF Inv, Base, TypeOK
  <2>3. QED
    BY <1>1, <2>2 DEF Inv, Base
<1>4. Linked'
  BY <1>1, <1>2, LinksStay DEF Inv
<1>5. AllGuarded => AllGuarded'
  BY <1>1, RequestsStay DEF AllGuarded, Guarded
<1>6. QED
  BY <1>3, <1>4, <1>5 DEF Inv

\* A cooldown ends: the count of its mails begins again.
LEMMA CooldownPassesStep ==
  ASSUME Inv, NEW e \in Emails, CooldownPasses(e)
  PROVE  Inv'
<1>1. TypeOK /\ UNCHANGED <<contacts, subs, intakes, mailbox, req, tokens, starts, faults, retired>>
  BY DEF CooldownPasses, Inv, Base
<1>2. /\ cooling' \in [Emails -> BOOLEAN] /\ mails' \in [Emails -> Nat] /\ unlogged' \in [Emails -> Nat]
      /\ cooling'[e] = FALSE /\ mails'[e] = 0 /\ unlogged'[e] = 0
      /\ \A f \in Emails \ {e} :
           cooling'[f] = cooling[f] /\ mails'[f] = mails[f] /\ unlogged'[f] = unlogged[f]
  BY <1>1 DEF CooldownPasses, TypeOK
<1>3. Base'
  <2>1. TypeOK'
    BY <1>1, <1>2 DEF TypeOK
  <2>2. QED
    BY <1>1, <2>1 DEF Inv, Base
<1>4. Linked'
  BY <1>1, LinksStay DEF Inv
<1>5. ASSUME AllGuarded, NEW f \in Emails PROVE Guarded(f)'
  <2>1. CASE f = e
    BY <1>1, <1>2, <2>1, RequestsStay, Counts DEF Guarded
  <2>2. CASE f # e
    BY <1>1, <1>2, <1>5, <2>2, RequestsStay DEF AllGuarded, Guarded
  <2>3. QED
    BY <2>1, <2>2
<1>6. QED
  BY <1>3, <1>4, <1>5 DEF Inv, AllGuarded

\* Time and the sweep: contacts and intakes grow old or go; a sweep that takes
\* the replies on record with it is the one the guard does not survive.
LEMMA SweepStep ==
  ASSUME Inv, TimePasses \/ Sweep
  PROVE  Inv'
<1>1. TypeOK /\ UNCHANGED <<subs, mailbox, req, tokens, starts, faults, mails, unlogged, retired>>
  BY DEF TimePasses, Sweep, Inv, Base
<1>2. intakes' \in [Sessions -> {NoRow} \cup IntakeRows]
  <2>1. intakes \in [Sessions -> {NoRow} \cup IntakeRows]
    BY DEF Inv, Base
  <2>2. CASE TimePasses
    <3>1. ASSUME NEW s \in Sessions
          PROVE  [intakes[s] EXCEPT !.age = Older(@), !.seen = FALSE] \in IntakeRows \/ intakes[s] = NoRow
      <4>1. PICK age \in {"day", "kept", "stale"} : age = Older(intakes[s].age)
        BY DEF Older
      <4>2. CASE intakes[s] \in IntakeRows
        BY <4>1, <4>2 DEF IntakeRows
      <4>3. QED
        BY <2>1, <4>2
    <3>2. QED
      BY <2>2, <3>1 DEF TimePasses
  <2>3. CASE Sweep
    BY <2>1, <2>3 DEF Sweep, SweptIntake
  <2>4. QED
    BY <2>2, <2>3
<1>3. cooling' \in [Emails -> BOOLEAN]
  BY <1>1 DEF TimePasses, Sweep, TypeOK
<1>4. Base'
  <2>1. \A s \in Sessions : intakes'[s] # NoRow => intakes'[s].count \in Nat
    BY <1>2 DEF IntakeRows
  <2>2. TypeOK'
    BY <1>1, <1>3, <2>1 DEF TypeOK
  <2>3. QED
    BY <1>1, <1>2, <2>2 DEF Inv, Base
<1>5. Linked'
  BY <1>1, LinksStay DEF Inv
<1>6. ~SweepsCooldown => cooling' = cooling
  BY <1>1 DEF TimePasses, Sweep, TypeOK
<1>7. ASSUME ~SweepsCooldown, AllGuarded PROVE AllGuarded'
  BY <1>1, <1>6, <1>7, RequestsStay DEF AllGuarded, Guarded
<1>8. QED
  BY <1>4, <1>5, <1>7 DEF Inv

-----------------------------------------------------------------------------
(* The theorems *)

LEMMA InvInit == Init => Inv
<1> SUFFICES ASSUME Init PROVE Inv
  OBVIOUS
<1>1. /\ subs \in [Emails -> {NoRow} \cup [unsubscribed : BOOLEAN, token : {0}, profile : {TRUE}]]
      /\ cooling = [e \in Emails |-> FALSE] /\ intakes = [s \in Sessions |-> NoRow]
      /\ mailbox = {} /\ req = [r \in Requests |-> Idle]
      /\ mails = [e \in Emails |-> 0] /\ unlogged = [e \in Emails |-> 0]
  BY DEF Init
<1>2. Base
  <2>1. subs \in [Emails -> {NoRow} \cup Subscriber]
    <3>1. ASSUME NEW x \in [unsubscribed : BOOLEAN, token : {0}, profile : {TRUE}]
          PROVE  x \in Subscriber
      <4>1. {TRUE} \subseteq BOOLEAN /\ {0} \subseteq Nat
        OBVIOUS
      <4>2. /\ x = [unsubscribed |-> x.unsubscribed, token |-> x.token, profile |-> x.profile]
            /\ x.unsubscribed \in BOOLEAN /\ x.token \in {0} /\ x.profile \in {TRUE}
        BY Zenon
      <4>3. QED
        BY <4>1, <4>2, Zenon DEF Subscriber
    <3>2. QED
      BY <1>1, <3>1
  <2>2. TypeOK
    BY <1>1, <2>1 DEF Init, TypeOK
  <2>3. QED
    BY <1>1, <2>2 DEF Base
<1>3. Linked
  <2>1. \A r \in Requests : req[r] = Idle
    BY <1>1
  <2>2. \A r \in Requests : Remembers(req[r]) /\ Carries(req[r])
    BY <2>1, IdleIs DEF Remembers, Carries
  <2>3. ASSUME NEW e \in Emails, subs[e] # NoRow, subs[e].unsubscribed
        PROVE  subs[e].token \in retired
    <3>1. subs[e].token = 0
      BY <1>1, <2>3
    <3>2. 0 \in retired
      BY <2>3 DEF Init
    <3>3. QED
      BY <3>1, <3>2
  <2>4. QED
    BY <1>1, <2>2, <2>3 DEF Linked
<1>4. AllGuarded
  <2>1. ASSUME NEW e \in Emails PROVE Guarded(e)
    <3>1. Cardinality(Recording(e)) \in Nat
      BY Counts
    <3>2. cooling[e] = FALSE /\ mails[e] = 0 /\ unlogged[e] = 0
      BY <1>1
    <3>3. QED
      BY <3>1, <3>2 DEF Guarded
  <2>2. QED
    BY <2>1 DEF AllGuarded
<1>5. QED
  BY <1>2, <1>3, <1>4 DEF Inv

LEMMA InvStep == Inv /\ [Next]_vars => Inv'
<1> SUFFICES ASSUME Inv, [Next]_vars PROVE Inv'
  OBVIOUS
<1>1. ASSUME NEW r \in Requests,
             \/ Begin(r) \/ Limits(r) \/ SubmitContact(r) \/ NewsletterSubscribe(r)
             \/ NotifyContact(r) \/ SaveNotificationFails(r)
             \/ GetSubscriberByEmail(r) \/ UpsertSubscriber(r) \/ UpsertFails(r)
      PROVE  Inv'
  BY <1>1, BeginStep, LimitsStep, SubmitContactStep, FormFailsStep, GetSubscriberByEmailStep,
     UpsertSubscriberStep
<1>2. ASSUME NEW r \in Requests,
             \/ SubscribeAndReply(r) \/ SendAutoReply(r)
             \/ RecordAutoreply(r) \/ RecordAutoreplyFails(r)
             \/ GetSubscriberByToken(r) \/ UnsubscribeByToken(r)
             \/ SubmitIntake(r) \/ FindTerminalIntake(r)
             \/ SaveTerminalIntakeSubmission(r)
      PROVE  Inv'
  BY <1>2, SubscribeAndReplyStep, SendAutoReplyStep, RecordAutoreplyStep, RecordAutoreplyFailsStep,
     GetSubscriberByTokenStep, UnsubscribeByTokenStep, SubmitIntakeStep, SaveTerminalIntakeStep
<1>3. QED
  BY <1>1, <1>2, NewsletterMailStep, CooldownPassesStep, SweepStep DEF Next

LEMMA InvAlways == Spec => []Inv
BY InvInit, InvStep, PTL DEF Spec

\* Rows, mails and counters have their types, and every request stands where its
\* kind may and holds what it read there.
THEOREM IntakeTypeCorrect == Spec => []Base
BY InvAlways, PTL DEF Inv

\* The link of every delivered mail still names its recipient's row, or its token
\* was given up: upsert_subscriber replaces no other, whatever it read and
\* whoever overtakes it.
THEOREM LinksKeepWorking == Spec => []MailedLinkWorks
<1>1. Inv => MailedLinkWorks
  BY DEF Inv, Linked, Works, MailedLinkWorks
<1>2. QED
  BY <1>1, InvAlways, PTL

\* With the replies on record kept for the cooldown at least, an address gets no
\* more of them within it than requests can be past recent_autoreply_exists at
\* once, and one for each that could not be recorded.
THEOREM RepliesAreFew ==
  ASSUME ~SweepsCooldown
  PROVE  Spec => []RepliesBounded
<1>1. Inv => RepliesBounded
  <2> SUFFICES ASSUME Inv, NEW e \in Emails
               PROVE  mails[e] <= Cardinality(Requests) + unlogged[e]
    BY DEF RepliesBounded
  <2>1. /\ Cardinality(Sending(e)) \in Nat /\ Cardinality(Recording(e)) \in Nat
        /\ Cardinality(Requests) \in Nat
        /\ Cardinality(Sending(e)) + Cardinality(Recording(e)) <= Cardinality(Requests)
    BY Counts
  <2>2. Guarded(e) /\ mails[e] \in Nat /\ unlogged[e] \in Nat
    BY DEF Inv, AllGuarded, Base, TypeOK
  <2>3. QED
    BY <2>1, <2>2 DEF Guarded
<1>2. QED
  BY <1>1, InvAlways, PTL
=============================================================================
