-------------------------- MODULE NotificationProofs --------------------------
(***************************************************************************)
(* What the notification service promises, for any subscribers, events,    *)
(* deliveries, buffer and restarts: an acknowledged event was heard or     *)
(* nobody waited for it, no subscriber is skipped for another's failure,   *)
(* and no webhook gets more copies than were delivered. The buffer is a    *)
(* queue that JetStream fills in stream order; the argument is that an     *)
(* event a subscriber waits for is always ahead of the later ones.         *)
(***************************************************************************)
EXTENDS Notification, FiniteSetTheorems, TLAPS

Active(s) == subscribers[s].status = "active"

\* Subscriber s was there when event e was published, and asked for it.
Wants(s, e) ==
  e \in DOMAIN stream /\ Active(s) /\ subscribers[s].since < e /\ Interested(s, e)

\* The webhook of s got e, or failed to.
Handled(s, e) == posts[s][e] > 0 \/ <<s, e>> \in refused

\* The Notify under way still has e for s.
InHand(s, e) == current.event = e /\ s \in current.rest

\* The copies of e in the buffer q.
Waiting(q, e) == {i \in DOMAIN q : q[i] = e}

-----------------------------------------------------------------------------
(* The invariants.                                                         *)

\* Nothing happened to an event before it was delivered, nor was it delivered
\* before the older ones or before it was published.
Placed ==
  /\ \A e \in Event : durable.deliveries[e] > 0 => e <= Len(stream)
  /\ \A i \in DOMAIN inbox : durable.deliveries[inbox[i]] > 0
  /\ current.event # 0 => durable.deliveries[current.event] > 0
  /\ current.event = 0 => current.rest = {}
  /\ \A e \in durable.acked : durable.deliveries[e] > 0
  /\ \A s \in Subscriber, e \in Event : posts[s][e] > 0 => durable.deliveries[e] > 0
  /\ \A d, e \in Event : durable.from < d /\ d < e /\ durable.deliveries[e] > 0
                           => durable.deliveries[d] > 0

\* Whoever is registered registered while the consumer existed.
Registered ==
  /\ durable.from <= Len(stream)
  /\ up => durable.from # NotCreated
  /\ \A s \in Subscriber :
       Active(s) => up /\ durable.from <= subscribers[s].since
                       /\ subscribers[s].since <= Len(stream)

\* What the Notify under way knows of its event.
Known ==
  current.event # 0 =>
    /\ current.delivered = TRUE => \E s \in Subscriber : posts[s][current.event] > 0
    /\ current.delivered = FALSE /\ current.failed = FALSE =>
         \A s \in Subscriber : Wants(s, current.event) => s \in current.rest
    /\ \A s \in Subscriber :
         Wants(s, current.event) => s \in current.rest \/ Handled(s, current.event)

\* An event that was delivered and that s still waits for is in hand or in the
\* buffer, there ahead of any later one.
InLine ==
  /\ \A s \in Subscriber, d \in Event :
       Wants(s, d) /\ durable.deliveries[d] > 0 /\ ~ Handled(s, d) =>
         InHand(s, d) \/ \E j \in DOMAIN inbox : inbox[j] = d
  /\ \A s \in Subscriber, d \in Event, i \in DOMAIN inbox :
       Wants(s, d) /\ d < inbox[i] /\ ~ Handled(s, d) =>
         InHand(s, d) \/ \E j \in DOMAIN inbox : j < i /\ inbox[j] = d
  /\ \A s \in current.rest, d \in Event :
       Wants(s, d) /\ d < current.event => Handled(s, d)

\* A later event was not posted before an earlier one was handled.
InTurn ==
  \A s \in Subscriber : \A e, d \in Event :
    d < e /\ Wants(s, d) /\ posts[s][e] > 0 => Handled(s, d)

\* Whoever waits for an acknowledged event is one of several.
Heard ==
  \A e \in durable.acked :
    \/ \E s \in Subscriber : posts[s][e] > 0
    \/ \A s \in Subscriber : ~ Wants(s, e)

\* Posts made, in hand and in the buffer are deliveries.
Counted ==
  \A s \in Subscriber, e \in Event :
    /\ IsFiniteSet(Waiting(inbox, e))
    /\ posts[s][e] + Cardinality(Waiting(inbox, e)) + (IF InHand(s, e) THEN 1 ELSE 0)
         <= durable.deliveries[e]

IInv ==
  TypeOK /\ Placed /\ Registered /\ Known /\ InLine /\ InTurn /\ Heard /\ Counted

-----------------------------------------------------------------------------
(* The buffer.                                                             *)

\* A copy that is put at the end is one more copy of its event.
LEMMA WaitingAppend ==
  ASSUME NEW q \in Seq(Event), NEW e \in Event, NEW x \in Event,
         IsFiniteSet(Waiting(q, x))
  PROVE  /\ IsFiniteSet(Waiting(Append(q, e), x))
         /\ Cardinality(Waiting(Append(q, e), x))
              = Cardinality(Waiting(q, x)) + (IF x = e THEN 1 ELSE 0)
<1>1. CASE x = e
  <2>1. Waiting(Append(q, e), x) = Waiting(q, x) \cup {Len(q) + 1}
    BY <1>1 DEF Waiting
  <2>2. Len(q) + 1 \notin Waiting(q, x)
    BY DEF Waiting
  <2> QED
    BY <1>1, <2>1, <2>2, FS_AddElement
<1>2. CASE x # e
  <2>1. Waiting(Append(q, e), x) = Waiting(q, x)
    BY <1>2 DEF Waiting
  <2>2. Cardinality(Waiting(q, x)) \in Nat
    BY FS_CardinalityType
  <2> QED
    BY <1>2, <2>1, <2>2
<1> QED
  BY <1>1, <1>2

\* The copy that is taken from the front is one less.
LEMMA WaitingTail ==
  ASSUME NEW q \in Seq(Event), q # <<>>, NEW x \in Event,
         IsFiniteSet(Waiting(q, x))
  PROVE  /\ IsFiniteSet(Waiting(Tail(q), x))
         /\ Cardinality(Waiting(q, x))
              = Cardinality(Waiting(Tail(q), x)) + (IF x = Head(q) THEN 1 ELSE 0)
<1> DEFINE S == Waiting(q, x) \ {1}
           T == Waiting(Tail(q), x)
           f == [i \in S |-> i - 1]
<1>1. IsFiniteSet(S)
      /\ Cardinality(S) = IF x = Head(q) THEN Cardinality(Waiting(q, x)) - 1
                          ELSE Cardinality(Waiting(q, x))
  <2>1. 1 \in Waiting(q, x) <=> x = Head(q)
    BY DEF Waiting
  <2> QED
    BY <2>1, FS_RemoveElement
<1>2. f \in Bijection(S, T)
  <2>1. \A i \in S : i - 1 \in T
    BY DEF Waiting
  <2>2. \A i \in T : i + 1 \in S
    BY DEF Waiting
  <2>3. S \subseteq Int /\ T \subseteq Int
    BY DEF Waiting
  <2> HIDE DEF S, T
  <2>4. f \in [S -> T] /\ \A a, b \in S : f[a] = f[b] => a = b
    BY <2>1, <2>3
  <2>5. \A i \in T : \E a \in S : f[a] = i
    <3> SUFFICES ASSUME NEW i \in T PROVE \E a \in S : f[a] = i
      OBVIOUS
    <3>1. i + 1 \in S /\ f[i + 1] = i
      BY <2>2, <2>3
    <3> QED
      BY <3>1
  <2> QED
    BY <2>4, <2>5 DEF Bijection, Injection, Surjection, IsInjective
<1>3. IsFiniteSet(T) /\ Cardinality(T) = Cardinality(S)
  <2> HIDE DEF S, T, f
  <2> QED
    BY <1>1, <1>2, FS_Bijection DEF ExistsBijection
<1>4. Cardinality(Waiting(q, x)) \in Nat
  BY FS_CardinalityType
<1> QED
  BY <1>1, <1>3, <1>4

-----------------------------------------------------------------------------
(* What a step leaves alone.                                               *)

\* Between two messages nothing is under way.
LEMMA IdleType ==
  MaxEvents \in Nat =>
    Idle \in [event: 0..MaxEvents, rest: SUBSET Subscriber,
             delivered: BOOLEAN, failed: BOOLEAN]
<1> QED
  BY DEF Idle

\* Nothing is registered, published or delivered at the start.
LEMMA NotificationInit == Init => IInv
<1> SUFFICES ASSUME Init PROVE IInv
  OBVIOUS
<1>1. TypeOK
  <2>1. current \in [event: 0..MaxEvents, rest: SUBSET Subscriber,
                     delivered: BOOLEAN, failed: BOOLEAN]
    BY NotificationAssumption, IdleType DEF Init
  <2>2. durable \in [from: NotCreated..MaxEvents, deliveries: [Event -> 0..MaxDeliver],
                     acked: SUBSET Event]
    BY NotificationAssumption DEF Init, NotCreated
  <2>3. subscribers \in [Subscriber -> [status: {"absent", "active", "inactive"},
                                        since: 0..MaxEvents]]
    BY NotificationAssumption DEF Init, Absent
  <2>4. stream \in Seq(Message) /\ Len(stream) <= MaxEvents /\ inbox \in Seq(Event)
    BY NotificationAssumption DEF Init
  <2>5. posts \in [Subscriber -> [Event -> Nat]] /\ refused = {} /\ crashes \in 0..MaxCrashes
    BY NotificationAssumption DEF Init
  <2> QED
    BY <2>1, <2>2, <2>3, <2>4, <2>5 DEF TypeOK, Init
<1>2. Placed /\ Registered /\ Known /\ InLine /\ InTurn /\ Heard
  BY DEF Init, Placed, Registered, Known, InLine, InTurn, Heard, Active, Wants,
         NotCreated, Idle, Absent
<1>3. Counted
  <2>1. \A e \in Event : Waiting(inbox, e) = {}
    BY DEF Init, Waiting
  <2>2. \A s \in Subscriber, e \in Event :
          posts[s][e] = 0 /\ durable.deliveries[e] = 0 /\ ~ InHand(s, e)
    BY DEF Init, InHand, Idle
  <2>3. IsFiniteSet({}) /\ Cardinality({}) = 0
    BY FS_EmptySet
  <2> QED
    <3> SUFFICES ASSUME NEW s \in Subscriber, NEW e \in Event
                 PROVE  /\ IsFiniteSet(Waiting(inbox, e))
                        /\ posts[s][e] + Cardinality(Waiting(inbox, e))
                             + (IF InHand(s, e) THEN 1 ELSE 0) <= durable.deliveries[e]
      BY DEF Counted
    <3>1. IsFiniteSet(Waiting(inbox, e)) /\ Cardinality(Waiting(inbox, e)) = 0
      BY <2>1, <2>3, Zenon
    <3>2. (IF InHand(s, e) THEN 1 ELSE 0) = 0
      BY <2>2
    <3> QED
      BY <2>2, <3>1, <3>2
<1> QED
  BY <1>1, <1>2, <1>3 DEF IInv

\* When no more is wanted, and nothing of the deliveries changes, nothing is owed.
LEMMA FewerWanting ==
  ASSUME IInv, UNCHANGED <<stream, durable, inbox, current, posts, refused>>,
         \A s \in Subscriber, e \in Event : Wants(s, e)' => Wants(s, e)
  PROVE  Known' /\ InLine' /\ InTurn' /\ Heard' /\ Counted'
<1>1. current.event # 0 => current.event \in Event
  BY DEF IInv, TypeOK, Event
<1>2. \A s \in Subscriber, e \in Event :
        /\ (Handled(s, e)' <=> Handled(s, e)) /\ (InHand(s, e)' <=> InHand(s, e))
        /\ Waiting(inbox, e)' = Waiting(inbox, e)
  BY DEF Handled, InHand, Waiting
<1>3. Known'
  BY <1>1, <1>2 DEF IInv, Known
<1>4. InLine'
  BY <1>2 DEF IInv, TypeOK, InLine
<1>5. InTurn' /\ Heard'
  BY <1>2 DEF IInv, TypeOK, InTurn, Heard
<1>6. Counted'
  BY <1>2 DEF IInv, Counted
<1> QED
  BY <1>3, <1>4, <1>5, <1>6

\* Wants depends on the stream and the subscribers.
LEMMA SameWants ==
  ASSUME UNCHANGED <<stream, subscribers>>
  PROVE  \A s \in Subscriber, e \in Event : Wants(s, e)' <=> Wants(s, e)
<1> QED
  BY DEF Wants, Active, Interested, Dispatched

-----------------------------------------------------------------------------
(* The subscribers and the process.                                        *)

\* A new event is wanted, but no older one more or less than before.
LEMMA PublishKeeps == IInv /\ Publish => IInv'
<1> SUFFICES ASSUME IInv, Publish PROVE IInv'
  OBVIOUS
<1>1. PICK m \in Message : stream' = Append(stream, m)
  BY DEF Publish
<1>2. UNCHANGED <<durable, up, inbox, current, subscribers, posts, refused, crashes>>
      /\ Len(stream) < MaxEvents
  BY DEF Publish
<1>3. TypeOK'
  BY <1>1, <1>2, NotificationAssumption DEF IInv, TypeOK
<1>4. /\ Len(stream') = Len(stream) + 1 /\ Len(stream) \in Nat
      /\ \A e \in Event : e <= Len(stream) => stream'[e] = stream[e]
      /\ DOMAIN stream = 1..Len(stream) /\ DOMAIN stream' = 1..(Len(stream) + 1)
  BY <1>1 DEF IInv, TypeOK, Event
<1>5. \A s \in Subscriber, e \in Event :
        e <= Len(stream) => (Wants(s, e)' <=> Wants(s, e))
  BY <1>2, <1>4 DEF Wants, Active, Interested, Dispatched, Event
<1>6. Placed'
  BY <1>2, <1>4 DEF IInv, TypeOK, Placed, Event
<1>7. Registered'
  BY <1>2, <1>4 DEF IInv, TypeOK, Registered, Active
<1>8. \A s \in Subscriber, e \in Event :
        /\ (Handled(s, e)' <=> Handled(s, e)) /\ (InHand(s, e)' <=> InHand(s, e))
        /\ Waiting(inbox, e)' = Waiting(inbox, e)
  BY <1>2 DEF Handled, InHand, Waiting
<1>9. /\ \A e \in Event : durable.deliveries[e] > 0 => e <= Len(stream)
      /\ \A i \in DOMAIN inbox : inbox[i] \in Event /\ inbox[i] <= Len(stream)
      /\ current.event # 0 => current.event \in Event /\ current.event <= Len(stream)
      /\ current.event = 0 => current.rest = {}
      /\ \A e \in durable.acked : e \in Event /\ e <= Len(stream)
      /\ \A s \in Subscriber, e \in Event : posts[s][e] > 0 => e <= Len(stream)
  <2>1. /\ \A e \in Event : durable.deliveries[e] > 0 => e <= Len(stream)
        /\ current.event = 0 => current.rest = {}
        /\ \A s \in Subscriber, e \in Event : posts[s][e] > 0 => e <= Len(stream)
    BY DEF IInv, Placed
  <2>2. \A i \in DOMAIN inbox : inbox[i] \in Event /\ durable.deliveries[inbox[i]] > 0
    BY DEF IInv, TypeOK, Placed
  <2>3. \A e \in durable.acked : e \in Event /\ durable.deliveries[e] > 0
    BY DEF IInv, TypeOK, Placed
  <2>4. current.event # 0 => current.event \in Event /\ durable.deliveries[current.event] > 0
    <3>1. current.event \in 0..MaxEvents
      BY DEF IInv, TypeOK
    <3> QED
      BY <3>1, NotificationAssumption DEF IInv, Placed, Event
  <2> QED
    BY <2>1, <2>2, <2>3, <2>4
<1>10. Known'
  BY <1>2, <1>5, <1>8, <1>9 DEF IInv, Known
<1>11. InLine'
  <2>1. \A i \in DOMAIN inbox, d \in Event : d < inbox[i] => d <= Len(stream)
    BY <1>4, <1>9 DEF Event
  <2>2. \A s \in current.rest, d \in Event :
          s \in Subscriber /\ (d < current.event => d <= Len(stream))
    BY <1>4, <1>9 DEF Event, IInv, TypeOK
  <2> QED
    BY <2>1, <2>2, <1>2, <1>5, <1>8, <1>9 DEF IInv, InLine
<1>12. InTurn' /\ Heard'
  <2>1. \A d, e \in Event : d < e /\ e <= Len(stream) => d <= Len(stream)
    BY <1>4 DEF Event
  <2> QED
    BY <2>1, <1>2, <1>5, <1>8, <1>9 DEF IInv, InTurn, Heard
<1>13. Counted'
  BY <1>2, <1>8 DEF IInv, Counted
<1> QED
  BY <1>3, <1>6, <1>7, <1>10, <1>11, <1>12, <1>13 DEF IInv

\* The consumer is created, or goes on; nobody is registered yet.
LEMMA StartKeeps == IInv /\ Start => IInv'
<1> SUFFICES ASSUME IInv, Start PROVE IInv'
  OBVIOUS
<1>1. /\ UNCHANGED <<stream, inbox, current, subscribers, posts, refused, crashes>>
      /\ ~ up /\ up' = TRUE
      /\ durable'.deliveries = durable.deliveries /\ durable'.acked = durable.acked
      /\ durable'.from = IF durable.from = NotCreated THEN Len(stream) ELSE durable.from
  BY DEF Start, IInv, TypeOK
<1>2. \A s \in Subscriber : ~ Active(s) /\ ~ Active(s)'
  BY <1>1 DEF IInv, Registered, Active
<1>3. TypeOK'
  <2>1. durable' \in [from: NotCreated..MaxEvents, deliveries: [Event -> 0..MaxDeliver],
                      acked: SUBSET Event]
    <3>1. Len(stream) \in NotCreated..MaxEvents
      BY NotificationAssumption DEF IInv, TypeOK, NotCreated
    <3>2. durable \in [from: NotCreated..MaxEvents, deliveries: [Event -> 0..MaxDeliver],
                       acked: SUBSET Event]
      BY DEF IInv, TypeOK
    <3>3. durable' = IF durable.from = NotCreated THEN [durable EXCEPT !.from = Len(stream)]
                     ELSE durable
      BY DEF Start
    <3> HIDE DEF NotCreated
    <3> QED
      BY <3>1, <3>2, <3>3
  <2> QED
    BY <1>1, <2>1 DEF IInv, TypeOK
<1>4. Placed'
  <2>1. /\ durable.from \in Int /\ durable'.from \in Int
        /\ durable.from <= durable'.from
    BY <1>1 DEF IInv, TypeOK, NotCreated
  <2>2. \A d \in Event : durable'.from < d => durable.from < d
    BY <2>1 DEF Event
  <2> QED
    BY <1>1, <2>2 DEF IInv, Placed
<1>5. Registered'
  BY <1>1, <1>2 DEF IInv, TypeOK, Registered, NotCreated
<1>6. \A s \in Subscriber, e \in Event : ~ Wants(s, e)'
  BY <1>2 DEF Wants
<1>7. Known'
  BY <1>1, <1>6 DEF IInv, TypeOK, Known, Event
<1>8. InLine' /\ InTurn' /\ Heard'
  BY <1>1, <1>6 DEF IInv, TypeOK, InLine, InTurn, Heard
<1>9. Counted'
  BY <1>1 DEF IInv, Counted, InHand, Waiting
<1> QED
  BY <1>3, <1>4, <1>5, <1>7, <1>8, <1>9 DEF IInv

\* Who registers wants nothing that is published already.
LEMMA SaveKeeps == ASSUME NEW s \in Subscriber, IInv, Save(s) PROVE IInv'
<1>1. /\ UNCHANGED <<stream, durable, up, inbox, current, posts, refused, crashes>> /\ up
      /\ subscribers' = [subscribers EXCEPT ![s] = [status |-> "active",
                                                   since |-> Len(stream)]]
  BY DEF Save
<1>2. Len(stream) \in 0..MaxEvents
  BY NotificationAssumption DEF IInv, TypeOK
<1>3. TypeOK'
  BY <1>1, <1>2 DEF IInv, TypeOK
<1>4. /\ \A t \in Subscriber : t # s => subscribers'[t] = subscribers[t]
      /\ subscribers'[s].since = Len(stream)
  BY <1>1 DEF IInv, TypeOK
<1>5. Placed'
  BY <1>1 DEF IInv, Placed
<1>6. Registered'
  BY <1>1, <1>2, <1>4 DEF IInv, TypeOK, Registered, Active
<1>7. \A t \in Subscriber, e \in Event : Wants(t, e)' => Wants(t, e)
  BY <1>1, <1>2, <1>4 DEF Wants, Active, Interested, Dispatched, Event
<1> QED
  BY <1>1, <1>3, <1>5, <1>6, <1>7, FewerWanting DEF IInv

\* Who leaves wants nothing.
LEMMA DeactivateKeeps == ASSUME NEW s \in Subscriber, IInv, Deactivate(s) PROVE IInv'
<1>1. /\ UNCHANGED <<stream, durable, up, inbox, current, posts, refused, crashes>>
      /\ subscribers' = [subscribers EXCEPT ![s].status = "inactive"]
  BY DEF Deactivate
<1>2. TypeOK'
  BY <1>1 DEF IInv, TypeOK
<1>3. /\ \A t \in Subscriber : t # s => subscribers'[t] = subscribers[t]
      /\ ~ Active(s)'
  BY <1>1 DEF IInv, TypeOK, Active
<1>4. Placed'
  BY <1>1 DEF IInv, Placed
<1>5. Registered'
  BY <1>1, <1>3 DEF IInv, TypeOK, Registered, Active
<1>6. \A t \in Subscriber, e \in Event : Wants(t, e)' => Wants(t, e)
  BY <1>1, <1>3 DEF Wants, Active, Interested, Dispatched
<1> QED
  BY <1>1, <1>2, <1>4, <1>5, <1>6, FewerWanting DEF IInv

\* After a crash nobody wants anything, and less is under way.
LEMMA CrashKeeps == IInv /\ Crash => IInv'
<1> SUFFICES ASSUME IInv, Crash PROVE IInv'
  OBVIOUS
<1>1. /\ UNCHANGED <<stream, durable, posts, refused>>
      /\ up' = FALSE /\ inbox' = <<>> /\ current' = Idle
      /\ subscribers' = [s \in Subscriber |-> Absent]
  BY DEF Crash
<1>2. TypeOK'
  <2>1. current' \in [event: 0..MaxEvents, rest: SUBSET Subscriber,
                      delivered: BOOLEAN, failed: BOOLEAN]
    BY <1>1, NotificationAssumption, IdleType
  <2>2. subscribers' \in [Subscriber -> [status: {"absent", "active", "inactive"},
                                         since: 0..MaxEvents]]
    BY <1>1, NotificationAssumption DEF Absent
  <2>3. inbox' \in Seq(Event) /\ crashes' \in 0..MaxCrashes
    BY <1>1, NotificationAssumption DEF Crash, IInv, TypeOK
  <2> QED
    BY <2>1, <2>2, <2>3, <1>1 DEF IInv, TypeOK
<1>3. Placed' /\ Registered'
  BY <1>1 DEF IInv, Placed, Registered, Idle, Absent, Active
<1>4. \A s \in Subscriber, e \in Event : ~ Wants(s, e)'
  BY <1>1 DEF Wants, Active, Absent
<1>5. Known' /\ InLine' /\ InTurn' /\ Heard'
  BY <1>1, <1>4 DEF IInv, TypeOK, Known, InLine, InTurn, Heard, Idle
<1>6. Counted'
  <2>1. \A e \in Event : Waiting(inbox', e) = {}
    BY <1>1 DEF Waiting
  <2> SUFFICES ASSUME NEW s \in Subscriber, NEW e \in Event
               PROVE  /\ IsFiniteSet(Waiting(inbox', e))
                      /\ posts'[s][e] + Cardinality(Waiting(inbox', e))
                           + (IF InHand(s, e)' THEN 1 ELSE 0) <= durable'.deliveries[e]
    BY DEF Counted
  <2>2. ~ InHand(s, e)'
    BY <1>1 DEF InHand, Idle
  <2>3. Cardinality(Waiting(inbox, e)) \in Nat
    BY FS_CardinalityType DEF IInv, Counted
  <2>4. posts[s][e] <= durable.deliveries[e]
    <3>1. /\ posts[s][e] \in Nat /\ durable.deliveries[e] \in Nat
          /\ posts[s][e] + Cardinality(Waiting(inbox, e)) + (IF InHand(s, e) THEN 1 ELSE 0)
              <= durable.deliveries[e]
      BY DEF IInv, TypeOK, Counted
    <3> QED
      BY <2>3, <3>1
  <2>5. posts[s][e] \in Nat /\ durable.deliveries[e] \in Nat
    BY DEF IInv, TypeOK
  <2>6. IsFiniteSet({}) /\ Cardinality({}) = 0
    BY FS_EmptySet
  <2> QED
    <3>1. IsFiniteSet(Waiting(inbox', e)) /\ Cardinality(Waiting(inbox', e)) = 0
      BY <2>1, <2>6, Zenon
    <3>2. (IF InHand(s, e)' THEN 1 ELSE 0) = 0
      BY <2>2
    <3> QED
      BY <2>4, <2>5, <3>1, <3>2, <1>1
<1> QED
  BY <1>2, <1>3, <1>5, <1>6 DEF IInv

-----------------------------------------------------------------------------
(* Deliveries.                                                             *)

\* A copy goes to the end of the buffer, behind all the older events.
LEMMA CopyKeeps ==
  ASSUME IInv, NEW e \in Event, DeliverCopy(e),
         \A d \in Event : durable.from < d /\ d < e => durable.deliveries[d] > 0
  PROVE  IInv'
<1>1. /\ UNCHANGED <<stream, up, current, subscribers, posts, refused, crashes>>
      /\ up /\ e <= Len(stream) /\ durable.deliveries[e] < MaxDeliver
      /\ inbox' = Append(inbox, e)
      /\ durable' = [durable EXCEPT !.deliveries[e] = @ + 1]
  BY NotificationAssumption DEF DeliverCopy, Exhausted, IInv, TypeOK
<1>2. /\ durable'.from = durable.from /\ durable'.acked = durable.acked
      /\ durable'.deliveries[e] = durable.deliveries[e] + 1
      /\ \A d \in Event : d # e => durable'.deliveries[d] = durable.deliveries[d]
      /\ \A d \in Event : durable.deliveries[d] \in Nat
  BY <1>1 DEF IInv, TypeOK
<1>3. /\ inbox \in Seq(Event) /\ Len(inbox) \in Nat /\ Len(inbox') = Len(inbox) + 1
      /\ DOMAIN inbox = 1..Len(inbox) /\ DOMAIN inbox' = 1..(Len(inbox) + 1)
      /\ inbox'[Len(inbox) + 1] = e
      /\ \A i \in DOMAIN inbox : inbox'[i] = inbox[i] /\ inbox[i] \in Event
  BY <1>1 DEF IInv, TypeOK
<1>4. TypeOK'
  <2>1. durable' \in [from: NotCreated..MaxEvents, deliveries: [Event -> 0..MaxDeliver],
                      acked: SUBSET Event]
    <3>1. durable.deliveries[e] + 1 \in 0..MaxDeliver
      BY <1>1, <1>2, NotificationAssumption
    <3>2. durable \in [from: NotCreated..MaxEvents, deliveries: [Event -> 0..MaxDeliver],
                       acked: SUBSET Event]
      BY DEF IInv, TypeOK
    <3> HIDE DEF NotCreated
    <3> QED
      BY <3>1, <3>2, <1>1
  <2>2. inbox' \in Seq(Event)
    BY <1>1, <1>3
  <2> QED
    BY <2>1, <2>2, <1>1 DEF IInv, TypeOK
<1>5. /\ \A d \in Event : durable'.deliveries[d] > 0 <=> durable.deliveries[d] > 0 \/ d = e
      /\ current.event \in 0..MaxEvents /\ durable.acked \subseteq Event
  BY <1>2 DEF IInv, TypeOK
<1>6. Placed'
  <2>1. \A d \in Event : durable'.deliveries[d] > 0 => d <= Len(stream')
    BY <1>1, <1>5 DEF IInv, Placed
  <2>2. \A i \in DOMAIN inbox' : durable'.deliveries[inbox'[i]] > 0
    BY <1>3, <1>5 DEF IInv, Placed
  <2>3. /\ current'.event # 0 => durable'.deliveries[current'.event] > 0
        /\ current'.event = 0 => current'.rest = {}
    BY <1>1, <1>5, NotificationAssumption DEF IInv, Placed, Event
  <2>4. /\ \A d \in durable'.acked : durable'.deliveries[d] > 0
        /\ \A s \in Subscriber, d \in Event : posts'[s][d] > 0 => durable'.deliveries[d] > 0
    BY <1>1, <1>2, <1>5 DEF IInv, Placed
  <2>5. \A d, x \in Event : durable'.from < d /\ d < x /\ durable'.deliveries[x] > 0
                             => durable'.deliveries[d] > 0
    BY <1>2, <1>5 DEF IInv, Placed
  <2> QED
    BY <2>1, <2>2, <2>3, <2>4, <2>5 DEF Placed
<1>7. Registered'
  BY <1>1, <1>2 DEF IInv, Registered, Active
<1>8. /\ \A s \in Subscriber, d \in Event :
           /\ Wants(s, d)' <=> Wants(s, d)
           /\ Handled(s, d)' <=> Handled(s, d)
           /\ InHand(s, d)' <=> InHand(s, d)
  BY <1>1, SameWants DEF Handled, InHand
<1>9. Known'
  BY <1>1, <1>5, <1>8, NotificationAssumption DEF IInv, Known, Event
<1>10. InLine'
  <2>1. ASSUME NEW s \in Subscriber, NEW d \in Event,
               Wants(s, d), durable'.deliveries[d] > 0, ~ Handled(s, d)
        PROVE  InHand(s, d) \/ \E j \in DOMAIN inbox' : inbox'[j] = d
    <3>1. CASE d = e
      BY <3>1, <1>3
    <3>2. CASE d # e
      <4>1. InHand(s, d) \/ \E j \in DOMAIN inbox : inbox[j] = d
        BY <2>1, <3>2, <1>2 DEF IInv, InLine
      <4> QED
        BY <4>1, <1>3
    <3> QED
      BY <3>1, <3>2
  <2>2. ASSUME NEW s \in Subscriber, NEW d \in Event, NEW i \in DOMAIN inbox',
               Wants(s, d), d < inbox'[i], ~ Handled(s, d)
        PROVE  InHand(s, d) \/ \E j \in DOMAIN inbox' : j < i /\ inbox'[j] = d
    <3>1. CASE i \in DOMAIN inbox
      <4>1. InHand(s, d) \/ \E j \in DOMAIN inbox : j < i /\ inbox[j] = d
        BY <2>2, <3>1, <1>3 DEF IInv, InLine
      <4> QED
        BY <4>1, <1>3
    <3>2. CASE i \notin DOMAIN inbox
      <4>1. i = Len(inbox) + 1 /\ d < e
        BY <2>2, <3>2, <1>3
      <4>2. durable.from < d
        <5>1. /\ durable.from \in Int /\ subscribers[s].since \in Int /\ d \in Int
              /\ durable.from <= subscribers[s].since /\ subscribers[s].since < d
          BY <2>2, NotificationAssumption
             DEF IInv, TypeOK, Registered, Wants, NotCreated, Event
        <5> QED
          BY <5>1
      <4>3. durable.deliveries[d] > 0
        BY <4>1, <4>2
      <4>4. InHand(s, d) \/ \E j \in DOMAIN inbox : inbox[j] = d
        BY <2>2, <4>3 DEF IInv, InLine
      <4> QED
        BY <4>1, <4>4, <1>3
    <3> QED
      BY <3>1, <3>2
  <2>3. \A s \in current'.rest, d \in Event :
          Wants(s, d)' /\ d < current'.event => Handled(s, d)'
    BY <1>1, <1>8 DEF IInv, TypeOK, InLine
  <2> QED
    BY <2>1, <2>2, <2>3, <1>8 DEF InLine
<1>11. InTurn' /\ Heard'
  BY <1>1, <1>2, <1>8 DEF IInv, TypeOK, InTurn, Heard
<1>12. Counted'
  <2> SUFFICES ASSUME NEW s \in Subscriber, NEW d \in Event
               PROVE  /\ IsFiniteSet(Waiting(inbox', d))
                      /\ posts'[s][d] + Cardinality(Waiting(inbox', d))
                           + (IF InHand(s, d)' THEN 1 ELSE 0) <= durable'.deliveries[d]
    BY DEF Counted
  <2> DEFINE hand == IF InHand(s, d) THEN 1 ELSE 0
  <2>1. IsFiniteSet(Waiting(inbox, d))
        /\ posts[s][d] + Cardinality(Waiting(inbox, d)) + hand <= durable.deliveries[d]
    BY DEF IInv, Counted
  <2>2. /\ IsFiniteSet(Waiting(inbox', d))
        /\ Cardinality(Waiting(inbox', d))
             = Cardinality(Waiting(inbox, d)) + (IF d = e THEN 1 ELSE 0)
    BY <2>1, <1>1, <1>3, WaitingAppend
  <2>3. /\ Cardinality(Waiting(inbox, d)) \in Nat /\ hand \in Nat
        /\ posts[s][d] \in Nat /\ durable.deliveries[d] \in Nat
    <3>1. Cardinality(Waiting(inbox, d)) \in Nat
      BY <2>1, FS_CardinalityType
    <3> QED
      BY <3>1, <1>2 DEF IInv, TypeOK
  <2>4. (IF InHand(s, d)' THEN 1 ELSE 0) = hand
    BY <1>8
  <2> HIDE DEF hand
  <2> QED
    BY <2>1, <2>2, <2>3, <2>4, <1>1, <1>2
<1> QED
  BY <1>4, <1>6, <1>7, <1>9, <1>10, <1>11, <1>12 DEF IInv

\* JetStream delivers for the first time in the order of the stream, and again
\* what it has delivered.
LEMMA DeliverKeeps ==
  ASSUME IInv, NEW e \in Event, Deliver(e) \/ AckWaitExpires(e)
  PROVE  IInv'
<1>1. CASE Deliver(e)
  BY <1>1, CopyKeeps DEF Deliver
<1>2. CASE AckWaitExpires(e)
  <2>1. durable.deliveries[e] > 0
    BY <1>2, NotificationAssumption DEF AckWaitExpires, Outstanding, IInv, Placed, Event
  <2>2. \A d \in Event : durable.from < d /\ d < e => durable.deliveries[d] > 0
    BY <2>1 DEF IInv, Placed
  <2> QED
    BY <1>2, <2>2, CopyKeeps DEF AckWaitExpires
<1> QED
  BY <1>1, <1>2

-----------------------------------------------------------------------------
(* Processing.                                                             *)

\* The first of the buffer is taken in hand for everyone who waits for it, and
\* what was behind it stays in line.
LEMMA ProcessMessageKeeps == IInv /\ ProcessMessage => IInv'
<1> SUFFICES ASSUME IInv, ProcessMessage PROVE IInv'
  OBVIOUS
<1> DEFINE e == Head(inbox)
           R == IF Dispatched(e) THEN {s \in FindByTournament(e) : Interested(s, e)}
                ELSE {}
<1>1. /\ UNCHANGED <<stream, durable, up, subscribers, posts, refused, crashes>>
      /\ current = Idle /\ inbox # <<>> /\ inbox' = Tail(inbox)
      /\ current' = [Idle EXCEPT !.event = e, !.rest = R]
  BY DEF ProcessMessage
<1>2. /\ inbox \in Seq(Event) /\ Len(inbox) \in Nat \ {0}
      /\ DOMAIN inbox = 1..Len(inbox) /\ DOMAIN inbox' = 1..(Len(inbox) - 1)
      /\ \A i \in DOMAIN inbox' : i + 1 \in DOMAIN inbox /\ inbox'[i] = inbox[i + 1]
      /\ inbox[1] = e /\ 1 \in DOMAIN inbox /\ e \in Event /\ inbox' \in Seq(Event)
  BY <1>1 DEF IInv, TypeOK
<1>3. R \subseteq Subscriber
  BY DEF FindByTournament
<1>4. \A s \in Subscriber : Wants(s, e) => s \in R
  BY DEF Wants, Active, Interested, FindByTournament
<1> HIDE DEF R, e
<1>5. /\ current'.event = e /\ current'.rest = R
      /\ current'.delivered = FALSE /\ current'.failed = FALSE
      /\ current.event = 0 /\ current.rest = {}
  BY <1>1 DEF Idle
<1>6. e \in Nat \ {0} /\ e \in 0..MaxEvents
  BY <1>2, NotificationAssumption DEF Event
<1>7. TypeOK'
  <2>1. current' \in [event: 0..MaxEvents, rest: SUBSET Subscriber,
                      delivered: BOOLEAN, failed: BOOLEAN]
    BY <1>1, <1>3, <1>6 DEF Idle
  <2> QED
    BY <2>1, <1>1, <1>2 DEF IInv, TypeOK
<1>8. Placed'
  <2>1. /\ \A i \in DOMAIN inbox' : durable'.deliveries[inbox'[i]] > 0
        /\ current'.event # 0 => durable'.deliveries[current'.event] > 0
        /\ current'.event = 0 => current'.rest = {}
    BY <1>1, <1>2, <1>5, <1>6 DEF IInv, Placed
  <2> QED
    BY <2>1, <1>1 DEF IInv, Placed
<1>9. Registered'
  BY <1>1 DEF IInv, Registered, Active
<1>10. \A s \in Subscriber, d \in Event :
         /\ Wants(s, d)' <=> Wants(s, d)
         /\ Handled(s, d)' <=> Handled(s, d)
         /\ ~ InHand(s, d)
         /\ InHand(s, d)' <=> d = e /\ s \in R
  BY <1>1, <1>5, SameWants DEF Handled, InHand
<1>11. Known'
  BY <1>2, <1>4, <1>5, <1>10 DEF Known
<1>12. InLine'
  <2>1. ASSUME NEW s \in Subscriber, NEW d \in Event,
               Wants(s, d), durable.deliveries[d] > 0, ~ Handled(s, d)
        PROVE  (d = e /\ s \in R) \/ \E j \in DOMAIN inbox' : inbox'[j] = d
    <3>1. PICK j \in DOMAIN inbox : inbox[j] = d
      BY <2>1, <1>10 DEF IInv, InLine
    <3>2. CASE j = 1
      BY <2>1, <3>1, <3>2, <1>2, <1>4
    <3>3. CASE j # 1
      <4>1. j - 1 \in DOMAIN inbox' /\ inbox'[j - 1] = d
        BY <3>1, <3>3, <1>2
      <4> QED
        BY <4>1
    <3> QED
      BY <3>2, <3>3
  <2>2. ASSUME NEW s \in Subscriber, NEW d \in Event, NEW i \in DOMAIN inbox',
               Wants(s, d), d < inbox'[i], ~ Handled(s, d)
        PROVE  (d = e /\ s \in R) \/ \E j \in DOMAIN inbox' : j < i /\ inbox'[j] = d
    <3>1. PICK j \in DOMAIN inbox : j < i + 1 /\ inbox[j] = d
      BY <2>2, <1>2, <1>10 DEF IInv, InLine
    <3>2. CASE j = 1
      BY <2>2, <3>1, <3>2, <1>2, <1>4
    <3>3. CASE j # 1
      <4>1. j - 1 \in DOMAIN inbox' /\ j - 1 < i /\ inbox'[j - 1] = d
        BY <3>1, <3>3, <1>2
      <4> QED
        BY <4>1
    <3> QED
      BY <3>2, <3>3
  <2>3. ASSUME NEW s \in R, NEW d \in Event, Wants(s, d), d < e
        PROVE  Handled(s, d)
    <3>1. ~ \E j \in DOMAIN inbox : j < 1
      BY <1>2
    <3> QED
      BY <2>3, <3>1, <1>2, <1>3, <1>10 DEF IInv, InLine
  <2> QED
    BY <2>1, <2>2, <2>3, <1>1, <1>3, <1>5, <1>10 DEF InLine
<1>13. InTurn' /\ Heard'
  BY <1>1, <1>10 DEF IInv, TypeOK, InTurn, Heard
<1>14. Counted'
  <2> SUFFICES ASSUME NEW s \in Subscriber, NEW d \in Event
               PROVE  /\ IsFiniteSet(Waiting(inbox', d))
                      /\ posts'[s][d] + Cardinality(Waiting(inbox', d))
                           + (IF InHand(s, d)' THEN 1 ELSE 0) <= durable'.deliveries[d]
    BY DEF Counted
  <2> DEFINE hand == IF InHand(s, d)' THEN 1 ELSE 0
  <2>1. IsFiniteSet(Waiting(inbox, d))
        /\ posts[s][d] + Cardinality(Waiting(inbox, d)) <= durable.deliveries[d]
    <3>1. IsFiniteSet(Waiting(inbox, d))
      BY DEF IInv, Counted
    <3>2. Cardinality(Waiting(inbox, d)) \in Nat
      BY <3>1, FS_CardinalityType
    <3>3. posts[s][d] \in Nat
      BY DEF IInv, TypeOK
    <3>4. (IF InHand(s, d) THEN 1 ELSE 0) = 0
      BY <1>10
    <3>5. posts[s][d] + Cardinality(Waiting(inbox, d)) + (IF InHand(s, d) THEN 1 ELSE 0)
            <= durable.deliveries[d]
      BY DEF IInv, Counted
    <3> QED
      BY <3>1, <3>2, <3>3, <3>4, <3>5
  <2>2. /\ IsFiniteSet(Waiting(inbox', d))
        /\ Cardinality(Waiting(inbox, d))
             = Cardinality(Waiting(inbox', d)) + (IF d = e THEN 1 ELSE 0)
    BY <2>1, <1>1, <1>2, WaitingTail DEF e
  <2>3. /\ Cardinality(Waiting(inbox', d)) \in Nat /\ hand \in {0, 1}
        /\ posts[s][d] \in Nat /\ durable.deliveries[d] \in Nat
    <3>1. Cardinality(Waiting(inbox', d)) \in Nat
      BY <2>2, FS_CardinalityType
    <3> QED
      BY <3>1 DEF IInv, TypeOK
  <2>4. hand = 1 => d = e
    BY <1>10
  <2> HIDE DEF hand
  <2>5. posts[s][d] + Cardinality(Waiting(inbox', d)) + hand <= durable.deliveries[d]
    BY <2>1, <2>2, <2>3, <2>4
  <2> QED
    BY <2>2, <2>5, <1>1 DEF hand
<1> QED
  BY <1>7, <1>8, <1>9, <1>11, <1>12, <1>13, <1>14 DEF IInv

\* A webhook that was asked is asked no more; it got the event, or failed to.
LEMMA AnswerKeeps ==
  ASSUME IInv, NEW s \in current.rest, NEW got \in {0, 1},
         UNCHANGED <<stream, durable, up, inbox, subscribers, crashes>>,
         posts' = [posts EXCEPT ![s][current.event] = @ + got],
         refused \subseteq refused',
         refused' \subseteq Subscriber \X Event,
         got = 1 \/ <<s, current.event>> \in refused',
         current'.event = current.event,
         current'.rest = current.rest \ {s},
         current' \in [event: 0..MaxEvents, rest: SUBSET Subscriber,
                       delivered: BOOLEAN, failed: BOOLEAN],
         current'.delivered = TRUE => got = 1 \/ current.delivered = TRUE,
         current'.delivered = TRUE \/ current'.failed = TRUE
  PROVE  IInv'
<1> DEFINE e == current.event
<1>1. /\ s \in Subscriber /\ current.rest \subseteq Subscriber
      /\ e \in Event /\ durable.deliveries[e] > 0
  BY NotificationAssumption DEF IInv, TypeOK, Placed, Event
<1> HIDE DEF e
<1>2. /\ posts'[s][e] = posts[s][e] + got
      /\ \A t \in Subscriber, d \in Event : <<t, d>> # <<s, e>> => posts'[t][d] = posts[t][d]
      /\ posts' \in [Subscriber -> [Event -> Nat]]
      /\ \A t \in Subscriber, d \in Event : posts[t][d] \in Nat
  BY <1>1 DEF IInv, TypeOK, e
<1>3. TypeOK'
  BY <1>2 DEF IInv, TypeOK
<1>4. \A t \in Subscriber, d \in Event : posts[t][d] > 0 => posts'[t][d] > 0
  BY <1>1, <1>2
<1>5. \A t \in Subscriber, d \in Event :
        posts'[t][d] > 0 => posts[t][d] > 0 \/ (t = s /\ d = e)
  BY <1>1, <1>2
<1>6. e # 0
  BY <1>1, NotificationAssumption DEF Event
<1>7. Placed'
  BY <1>1, <1>5, <1>6 DEF IInv, Placed, e
<1>8. Registered'
  BY DEF IInv, Registered, Active
<1>9. \A t \in Subscriber, d \in Event : Wants(t, d)' <=> Wants(t, d)
  BY SameWants
<1>10. \A t \in Subscriber, d \in Event : Handled(t, d) => Handled(t, d)'
  BY <1>4 DEF Handled
<1>11. Handled(s, e)'
  BY <1>1, <1>2 DEF Handled, e
<1>12. \A t \in Subscriber, d \in Event :
         InHand(t, d) => InHand(t, d)' \/ Handled(t, d)'
  BY <1>11 DEF InHand, e
<1>13. Known'
  <2>1. \A t \in Subscriber : Wants(t, e) => t \in current.rest \/ Handled(t, e)
    BY <1>6 DEF IInv, Known, e
  <2>2. current'.delivered = TRUE => \E t \in Subscriber : posts'[t][e] > 0
    <3>1. CASE got = 1
      BY <3>1, <1>1, <1>2
    <3>2. CASE current.delivered = TRUE
      BY <3>2, <1>1, <1>4, <1>6 DEF IInv, Known, e
    <3> QED
      BY <3>1, <3>2
  <2>3. \A t \in Subscriber : Wants(t, e) => t \in current'.rest \/ Handled(t, e)'
    BY <2>1, <1>1, <1>4, <1>11 DEF Handled, e
  <2> QED
    BY <2>2, <2>3, <1>1, <1>9 DEF Known, e
<1>14. InLine'
  <2>1. ASSUME NEW t \in Subscriber, NEW d \in Event,
               Wants(t, d), durable.deliveries[d] > 0, ~ Handled(t, d)'
        PROVE  InHand(t, d)' \/ \E j \in DOMAIN inbox : inbox[j] = d
    BY <2>1, <1>10, <1>12 DEF IInv, InLine
  <2>2. ASSUME NEW t \in Subscriber, NEW d \in Event, NEW i \in DOMAIN inbox,
               Wants(t, d), d < inbox[i], ~ Handled(t, d)'
        PROVE  InHand(t, d)' \/ \E j \in DOMAIN inbox : j < i /\ inbox[j] = d
    BY <2>2, <1>10, <1>12 DEF IInv, InLine
  <2>3. ASSUME NEW t \in current'.rest, NEW d \in Event, Wants(t, d), d < e
        PROVE  Handled(t, d)'
    BY <2>3, <1>1, <1>10 DEF IInv, InLine, e
  <2> QED
    BY <2>1, <2>2, <2>3, <1>1, <1>9 DEF InLine, e
<1>15. InTurn'
  <2> SUFFICES ASSUME NEW t \in Subscriber, NEW x \in Event, NEW d \in Event,
                      d < x, Wants(t, d), posts'[t][x] > 0
               PROVE  Handled(t, d)'
    BY <1>9 DEF InTurn
  <2>1. CASE posts[t][x] > 0
    BY <2>1, <1>10 DEF IInv, InTurn
  <2>2. CASE t = s /\ x = e
    BY <2>2, <1>10 DEF IInv, InLine, e
  <2> QED
    BY <2>1, <2>2, <1>5
<1>16. Heard'
  <2>1. durable.acked \subseteq Event
    BY DEF IInv, TypeOK
  <2> QED
    BY <2>1, <1>4, <1>9 DEF IInv, Heard
<1>17. Counted'
  <2> SUFFICES ASSUME NEW t \in Subscriber, NEW d \in Event
               PROVE  /\ IsFiniteSet(Waiting(inbox', d))
                      /\ posts'[t][d] + Cardinality(Waiting(inbox', d))
                           + (IF InHand(t, d)' THEN 1 ELSE 0) <= durable'.deliveries[d]
    BY DEF Counted
  <2> DEFINE hand == IF InHand(t, d) THEN 1 ELSE 0
             hand2 == IF InHand(t, d)' THEN 1 ELSE 0
             n == Cardinality(Waiting(inbox, d))
  <2>1. IsFiniteSet(Waiting(inbox, d)) /\ posts[t][d] + n + hand <= durable.deliveries[d]
    BY DEF IInv, Counted
  <2>2. n \in Nat /\ hand \in {0, 1} /\ hand2 \in {0, 1}
    BY <2>1, FS_CardinalityType
  <2>3. Waiting(inbox', d) = Waiting(inbox, d)
    BY DEF Waiting
  <2>4. posts'[t][d] + hand2 <= posts[t][d] + hand
    <3>1. CASE t = s /\ d = e
      <4>1. hand = 1 /\ hand2 = 0
        BY <3>1 DEF InHand, e
      <4> HIDE DEF hand, hand2
      <4> QED
        BY <3>1, <4>1, <1>1, <1>2
    <3>2. CASE <<t, d>> # <<s, e>>
      <4>1. InHand(t, d)' => InHand(t, d)
        BY DEF InHand
      <4>2. hand2 <= hand
        BY <4>1
      <4> HIDE DEF hand, hand2
      <4> QED
        BY <3>2, <4>2, <2>2, <1>2
    <3> QED
      BY <3>1, <3>2
  <2>5. Cardinality(Waiting(inbox', d)) = n
    BY <2>3, Zenon
  <2>6. posts[t][d] \in Nat /\ posts'[t][d] \in Nat /\ durable.deliveries[d] \in Nat
    BY <1>2 DEF IInv, TypeOK
  <2> HIDE DEF hand, n
  <2>7. IsFiniteSet(Waiting(inbox', d))
    BY <2>1, <2>3, Zenon
  <2>8. posts'[t][d] + n + hand2 <= durable.deliveries[d]
    <3> HIDE DEF hand2
    <3> QED
      BY <2>1, <2>2, <2>4, <2>6
  <2> QED
    BY <2>5, <2>7, <2>8
<1> QED
  BY <1>3, <1>7, <1>8, <1>13, <1>14, <1>15, <1>16, <1>17 DEF IInv

\* The POST succeeds.
LEMMA PostKeeps == ASSUME NEW s \in Subscriber, IInv, Post(s) PROVE IInv'
<1>1. /\ s \in current.rest
      /\ UNCHANGED <<stream, durable, up, inbox, subscribers, refused, crashes>>
      /\ posts' = [posts EXCEPT ![s][current.event] = @ + 1]
      /\ current' = [current EXCEPT !.rest = @ \ {s}, !.delivered = TRUE]
  BY DEF Post
<1>2. current \in [event: 0..MaxEvents, rest: SUBSET Subscriber,
                   delivered: BOOLEAN, failed: BOOLEAN]
      /\ refused \subseteq Subscriber \X Event
  BY DEF IInv, TypeOK
<1>3. /\ current' \in [event: 0..MaxEvents, rest: SUBSET Subscriber,
                       delivered: BOOLEAN, failed: BOOLEAN]
      /\ current'.event = current.event /\ current'.rest = current.rest \ {s}
      /\ current'.delivered = TRUE
  BY <1>1, <1>2
<1> QED
  BY <1>1, <1>2, <1>3, AnswerKeeps

\* The POST fails, the webhook having got it or not.
LEMMA PostFailsKeeps == ASSUME NEW s \in Subscriber, IInv, PostFails(s) PROVE IInv'
<1>1. /\ s \in current.rest
      /\ UNCHANGED <<stream, durable, up, inbox, subscribers, crashes>>
      /\ refused' = refused \cup {<<s, current.event>>}
      /\ current' = [current EXCEPT !.rest = @ \ {s}, !.failed = TRUE]
  BY DEF PostFails, AfterFailure
<1>2. PICK got \in {0, 1} : posts' = [posts EXCEPT ![s][current.event] = @ + got]
  BY DEF PostFails
<1>3. current \in [event: 0..MaxEvents, rest: SUBSET Subscriber,
                   delivered: BOOLEAN, failed: BOOLEAN]
      /\ refused \subseteq Subscriber \X Event
  BY DEF IInv, TypeOK
<1>4. /\ current' \in [event: 0..MaxEvents, rest: SUBSET Subscriber,
                       delivered: BOOLEAN, failed: BOOLEAN]
      /\ current'.event = current.event /\ current'.rest = current.rest \ {s}
      /\ current'.delivered = current.delivered /\ current'.failed = TRUE
  BY <1>1, <1>3
<1>5. current.event \in Event
  BY <1>1, NotificationAssumption DEF IInv, TypeOK, Placed, Event
<1>6. /\ refused \subseteq refused' /\ refused' \subseteq Subscriber \X Event
      /\ <<s, current.event>> \in refused'
  BY <1>1, <1>3, <1>5
<1> QED
  BY <1>1, <1>2, <1>4, <1>6, AnswerKeeps

\* The message is acked when somebody got it, or nobody who wants it failed;
\* without an ack it stays as it was.
LEMMA SettleKeeps == IInv /\ Settle => IInv'
<1> SUFFICES ASSUME IInv, Settle PROVE IInv'
  OBVIOUS
<1> DEFINE e == current.event
<1>1. /\ UNCHANGED <<stream, up, inbox, subscribers, posts, refused, crashes>>
      /\ e # 0 /\ current.rest = {} /\ current' = Idle
      /\ durable' = IF NotifyFails(current) THEN durable
                    ELSE [durable EXCEPT !.acked = @ \cup {e}]
  BY DEF Settle
<1>2. e \in Event /\ durable.deliveries[e] > 0
  BY <1>1, NotificationAssumption DEF IInv, TypeOK, Placed, Event
<1>3. /\ durable'.from = durable.from /\ durable'.deliveries = durable.deliveries
      /\ durable'.acked \subseteq durable.acked \cup {e}
      /\ durable' \in [from: NotCreated..MaxEvents, deliveries: [Event -> 0..MaxDeliver],
                       acked: SUBSET Event]
  BY <1>1, <1>2 DEF IInv, TypeOK
<1>4. e \in durable'.acked => e \in durable.acked \/ ~ NotifyFails(current)
  BY <1>1
<1>5. TypeOK'
  <2>1. current' \in [event: 0..MaxEvents, rest: SUBSET Subscriber,
                      delivered: BOOLEAN, failed: BOOLEAN]
    BY <1>1, NotificationAssumption, IdleType
  <2> QED
    BY <2>1, <1>1, <1>3 DEF IInv, TypeOK
<1>6. current'.event = 0 /\ current'.rest = {}
  BY <1>1 DEF Idle
<1>7. Placed'
  BY <1>1, <1>2, <1>3, <1>6 DEF IInv, Placed
<1>8. Registered'
  BY <1>1, <1>3 DEF IInv, Registered, Active
<1>9. \A s \in Subscriber, d \in Event :
        /\ Wants(s, d)' <=> Wants(s, d)
        /\ Handled(s, d)' <=> Handled(s, d)
        /\ ~ InHand(s, d) /\ ~ InHand(s, d)'
  BY <1>1, <1>6, SameWants DEF Handled, InHand
<1>10. Known'
  BY <1>6 DEF Known
<1>11. InLine'
  BY <1>1, <1>3, <1>6, <1>9 DEF IInv, InLine
<1>12. InTurn'
  BY <1>1, <1>9 DEF IInv, InTurn
<1>13. Heard'
  <2>1. CASE NotifyFails(current)
    BY <2>1, <1>1, <1>9 DEF IInv, TypeOK, Heard
  <2>2. CASE ~ NotifyFails(current)
    <3>1. current.delivered \in BOOLEAN /\ current.failed \in BOOLEAN
      BY DEF IInv, TypeOK
    <3>2. current.delivered = TRUE \/ (current.delivered = FALSE /\ current.failed = FALSE)
      BY <2>2, <3>1, Zenon DEF NotifyFails
    <3>3. \/ \E s \in Subscriber : posts[s][e] > 0
          \/ \A s \in Subscriber : ~ Wants(s, e)
      BY <3>2, <1>1 DEF IInv, Known
    <3>4. durable.acked \subseteq Event
      BY DEF IInv, TypeOK
    <3> HIDE DEF e
    <3> QED
      BY <3>3, <3>4, <1>1, <1>2, <1>3, <1>9 DEF IInv, Heard
  <2> QED
    BY <2>1, <2>2
<1>14. Counted'
  BY <1>1, <1>3, <1>9 DEF IInv, Counted, Waiting
<1> QED
  BY <1>5, <1>7, <1>8, <1>10, <1>11, <1>12, <1>13, <1>14 DEF IInv

-----------------------------------------------------------------------------
(* The theorems.                                                           *)

\* The invariants hold after every step.
LEMMA NotificationStep == IInv /\ [Next]_vars => IInv'
<1> SUFFICES ASSUME IInv, [Next]_vars PROVE IInv'
  OBVIOUS
<1>1. CASE Publish
  BY <1>1, PublishKeeps
<1>2. CASE Start
  BY <1>2, StartKeeps
<1>3. CASE Crash
  BY <1>3, CrashKeeps
<1>4. CASE \E e \in Event : Deliver(e) \/ AckWaitExpires(e)
  BY <1>4, DeliverKeeps
<1>5. CASE ProcessMessage
  BY <1>5, ProcessMessageKeeps
<1>6. CASE Settle
  BY <1>6, SettleKeeps
<1>7. CASE \E s \in Subscriber : Post(s) \/ PostFails(s) \/ Save(s) \/ Deactivate(s)
  BY <1>7, PostKeeps, PostFailsKeeps, SaveKeeps, DeactivateKeeps
<1>8. CASE UNCHANGED vars
  <2>1. UNCHANGED <<stream, durable, up, inbox, current, subscribers, posts, refused,
                    crashes>>
    BY <1>8 DEF vars
  <2>2. TypeOK' /\ Placed' /\ Registered'
    BY <2>1 DEF IInv, TypeOK, Placed, Registered, Active
  <2>3. \A s \in Subscriber, e \in Event : Wants(s, e)' => Wants(s, e)
    BY <2>1, SameWants
  <2> QED
    BY <2>1, <2>2, <2>3, FewerWanting DEF IInv
<1> QED
  BY <1>1, <1>2, <1>3, <1>4, <1>5, <1>6, <1>7, <1>8 DEF Next

\* Every state of the service is of its types and satisfies the invariants.
THEOREM NotificationInvariant == Spec => []IInv
<1> QED
  BY NotificationInit, NotificationStep, PTL DEF Spec

\* Every state is of its types: no message is delivered more than MaxDeliver
\* times, and only events of the stream's range are buffered, posted or acked.
THEOREM TypeCorrectness == Spec => []TypeOK
<1>1. IInv => TypeOK
  BY DEF IInv
<1> QED
  BY <1>1, NotificationInvariant, PTL

\* Whatever fails, is redelivered or restarts: an event acked without anyone
\* having got it was wanted by nobody who was registered before it was published.
THEOREM AckedIsHeard == Spec => []AckedMeansHeard
<1>1. IInv => AckedMeansHeard
  <2> SUFFICES ASSUME IInv, NEW e \in durable.acked, NEW s \in Subscriber,
                      Active(s), Interested(s, e), ~ Wants(s, e)
               PROVE  subscribers[s].since >= e
    BY DEF IInv, Heard, AckedMeansHeard, Active
  <2>1. e \in Event /\ e <= Len(stream) /\ stream \in Seq(Message)
    BY DEF IInv, TypeOK, Placed
  <2>2. e \in DOMAIN stream /\ e \in Int
    BY <2>1 DEF Event
  <2>3. subscribers[s].since \in Int
    BY NotificationAssumption DEF IInv, TypeOK
  <2> QED
    BY <2>2, <2>3 DEF Wants
<1> QED
  BY <1>1, NotificationInvariant, PTL

\* No subscriber is passed over because of another: what it misses among what it
\* has got is what it failed to take.
THEOREM NobodyIsSkipped == Spec => []SkippedOnlyIfRefused
<1>1. IInv => SkippedOnlyIfRefused
  <2> SUFFICES ASSUME IInv, NEW s \in Subscriber,
                      NEW e \in DOMAIN stream, NEW d \in DOMAIN stream,
                      d < e, subscribers[s].since < d, Active(s), Interested(s, d),
                      posts[s][e] > 0, posts[s][d] = 0
               PROVE  <<s, d>> \in refused
    BY DEF SkippedOnlyIfRefused, Active
  <2>1. e \in Event /\ d \in Event
    BY NotificationAssumption DEF IInv, TypeOK, Event
  <2>2. Wants(s, d)
    BY DEF Wants
  <2> QED
    BY <2>1, <2>2 DEF IInv, InTurn, Handled
<1> QED
  BY <1>1, NotificationInvariant, PTL

\* A webhook gets no more copies of an event than JetStream made deliveries.
THEOREM CopiesAreDeliveries == Spec => []CopiesAreBounded
<1>1. IInv => CopiesAreBounded
  <2> SUFFICES ASSUME IInv, NEW s \in Subscriber, NEW e \in Event
               PROVE  posts[s][e] <= durable.deliveries[e] /\ posts[s][e] <= MaxDeliver
    BY DEF CopiesAreBounded
  <2> DEFINE hand == IF InHand(s, e) THEN 1 ELSE 0
             n == Cardinality(Waiting(inbox, e))
  <2>1. IsFiniteSet(Waiting(inbox, e)) /\ posts[s][e] + n + hand <= durable.deliveries[e]
    BY DEF IInv, Counted
  <2>2. n \in Nat /\ hand \in Nat
    BY <2>1, FS_CardinalityType
  <2>3. posts[s][e] \in Nat /\ durable.deliveries[e] \in 0..MaxDeliver
    BY DEF IInv, TypeOK
  <2> HIDE DEF n, hand
  <2> QED
    BY <2>1, <2>2, <2>3, NotificationAssumption
<1> QED
  BY <1>1, NotificationInvariant, PTL
=============================================================================
