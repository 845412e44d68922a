---------------------------- MODULE Notification ----------------------------
(***************************************************************************)
(* The notification service: its durable JetStream consumer over fixture.> *)
(* takes the events fixture-core publishes, turns each into a Notification *)
(* and posts that to the webhooks registered for the tournament, one after *)
(* the other.                                                              *)
(*                                                                         *)
(* An event is its place in the stream. JetStream is external: it numbers  *)
(* the deliveries of a message, gives a first delivery in stream order,    *)
(* and delivers again what is not acked, after a NAK, after AckWait (which *)
(* runs from the delivery, not from the processing) and after a restart.   *)
(* Delays are left out. The subscribers live in memory only; nothing in    *)
(* the deployed service registers one, so Save and Deactivate are called   *)
(* by whatever will.                                                       *)
(***************************************************************************)
EXTENDS Integers, Sequences, FiniteSets

CONSTANTS
  Message,        \* what the stream gets: the type and the tournament of an event
  MaxEvents,
  Subscriber,
  Config,         \* what each subscriber registers for
  Reliable,       \* subscribers whose webhook always answers
  MaxDeliver,     \* deliveries per message (5 in production)
  MaxPrefetch,    \* messages the client buffers (20 in production)
  MaxCrashes

Event == 1..MaxEvents

\* The handlers of EventDispatcher, by the kind of the Notification they make:
\* four types of event share the kind of a match result.
HandlerKind ==
  [MatchResultRegistered    |-> "match_result",
   GroupStageCompleted      |-> "match_result",
   KnockoutBracketGenerated |-> "bracket_generated",
   KnockoutMatchAdvanced    |-> "match_result",
   MatchScheduleUpdated     |-> "match_result",
   TournamentFinished       |-> "tournament_finished"]

Kinds == {"match_result", "group_completed", "bracket_generated",
          "knockout_advanced", "schedule_updated", "tournament_finished"}

ASSUME NotificationAssumption ==
  /\ MaxEvents \in Nat /\ MaxDeliver \in Nat \ {0} /\ MaxCrashes \in Nat
  /\ MaxPrefetch \in Nat \ {0}
  /\ DOMAIN Config = Subscriber
  /\ \A s \in Subscriber : Config[s].kinds \subseteq Kinds
  /\ Reliable \subseteq Subscriber

VARIABLES
  stream,       \* FIXTURE_EVENTS
  durable,      \* the consumer: where it starts, deliveries and acks per event
  up,           \* the process runs
  inbox,        \* the messages of msgCtx, copies included
  current,      \* the Notify under way
  subscribers,  \* the map of inMemoryWebhookRepo
  posts,        \* history: how often a webhook got a Notification of an event
  refused,      \* history: <<subscriber, event>> whose post ended in an error
  crashes

vars == <<stream, durable, up, inbox, current, subscribers, posts, refused, crashes>>

NotCreated == -1
Idle == [event |-> 0, rest |-> {}, delivered |-> FALSE, failed |-> FALSE]
Absent == [status |-> "absent", since |-> 0]

-----------------------------------------------------------------------------
(* Who gets what.                                                          *)

\* Dispatch: there is no handler for what result-ingestion puts in the same
\* stream, and none is looked for in a message that is no JSON.
Dispatched(e) == stream[e].type \in DOMAIN HandlerKind

\* No list of kinds means all of them.
IsSubscribedTo(s, kind) == Config[s].kinds = {} \/ kind \in Config[s].kinds

Interested(s, e) ==
  /\ Dispatched(e)
  /\ Config[s].tournament = stream[e].tournament
  /\ IsSubscribedTo(s, HandlerKind[stream[e].type])

FindByTournament(e) ==
  {s \in Subscriber : /\ subscribers[s].status = "active"
                      /\ Config[s].tournament = stream[e].tournament}

-----------------------------------------------------------------------------
(* The stream and the durable consumer.                                    *)

\* fixture-core and result-ingestion.
Publish ==
  /\ Len(stream) < MaxEvents
  /\ \E m \in Message : stream' = Append(stream, m)
  /\ UNCHANGED <<durable, up, inbox, current, subscribers, posts, refused, crashes>>

\* Mutant: MaxDeliver is not part of the configuration.
NeverExhausted(e) == FALSE

\* ConsumerConfig.MaxDeliver.
Exhausted(e) == durable.deliveries[e] >= MaxDeliver

\* NewFixtureConsumer and Start: DeliverNew when the consumer is created; it is
\* durable, so after a restart it goes on where it was.
Start ==
  /\ ~ up
  /\ up' = TRUE
  /\ durable' = IF durable.from = NotCreated THEN [durable EXCEPT !.from = Len(stream)]
                ELSE durable
  /\ UNCHANGED <<stream, inbox, current, subscribers, posts, refused, crashes>>

Outstanding(e) == current.event = e \/ \E i \in DOMAIN inbox : inbox[i] = e

DeliverCopy(e) ==
  /\ up
  /\ durable.from # NotCreated /\ durable.from < e /\ e <= Len(stream)
  /\ e \notin durable.acked
  /\ ~ Exhausted(e)
  /\ Len(inbox) < MaxPrefetch
  /\ durable' = [durable EXCEPT !.deliveries[e] = @ + 1]
  /\ inbox' = Append(inbox, e)
  /\ UNCHANGED <<stream, up, current, subscribers, posts, refused, crashes>>

\* First delivery, or redelivery after a NAK or a restart.
Deliver(e) ==
  /\ \A d \in Event : durable.from < d /\ d < e => durable.deliveries[d] > 0
  /\ ~ Outstanding(e)
  /\ DeliverCopy(e)

\* AckWait (BackOff[0] = 1s) expires while a copy waits or is being processed.
AckWaitExpires(e) == Outstanding(e) /\ DeliverCopy(e)

-----------------------------------------------------------------------------
(* processMessage.                                                         *)

\* Next, and Notify up to the loop: the subscribers are a copy of the map.
ProcessMessage ==
  /\ current = Idle
  /\ inbox # <<>>
  /\ LET e == Head(inbox)
     IN current' = [Idle EXCEPT
          !.event = e,
          !.rest  = IF Dispatched(e) THEN {s \in FindByTournament(e) : Interested(s, e)}
                    ELSE {}]
  /\ inbox' = Tail(inbox)
  /\ UNCHANGED <<stream, durable, up, subscribers, posts, refused, crashes>>

\* Mutant: the loop ends with the first delivery that fails.
AfterFailureBreak(s) == [current EXCEPT !.rest = {}, !.failed = TRUE]

\* Mutant: the post is tried again at once.
AfterFailureRetry(s) == [current EXCEPT !.failed = TRUE]

AfterFailure(s) == [current EXCEPT !.rest = @ \ {s}, !.failed = TRUE]

\* deliver: the POST is answered with 2xx; the subscribers come in the order of
\* a Go map.
Post(s) ==
  /\ s \in current.rest
  /\ current' = [current EXCEPT !.rest = @ \ {s}, !.delivered = TRUE]
  /\ posts' = [posts EXCEPT ![s][current.event] = @ + 1]
  /\ UNCHANGED <<stream, durable, up, inbox, subscribers, refused, crashes>>

\* deliver fails: the webhook cannot be reached, or it got the notification and
\* its answer is no 2xx, or later than ten seconds.
PostFails(s) ==
  /\ s \in current.rest
  /\ s \notin Reliable
  /\ current' = AfterFailure(s)
  /\ \E got \in {0, 1} : posts' = [posts EXCEPT ![s][current.event] = @ + got]
  /\ refused' = refused \cup {<<s, current.event>>}
  /\ UNCHANGED <<stream, durable, up, inbox, subscribers, crashes>>

\* Mutant: the error of Notify is only logged.
NotifyNeverFails(c) == FALSE

\* Notify returns an error if no delivery succeeded and one was tried.
NotifyFails(c) == ~ c.delivered /\ c.failed

\* Ack, or NakWithDelay, which leaves the message to be delivered again.
Settle ==
  /\ current.event # 0 /\ current.rest = {}
  /\ durable' = IF NotifyFails(current) THEN durable
                ELSE [durable EXCEPT !.acked = @ \cup {current.event}]
  /\ current' = Idle
  /\ UNCHANGED <<stream, up, inbox, subscribers, posts, refused, crashes>>

-----------------------------------------------------------------------------
(* The subscribers, and the end of the process.                            *)

\* NewWebhookSubscriber and Save.
Save(s) ==
  /\ up
  /\ subscribers[s].status # "active"
  /\ subscribers' = [subscribers EXCEPT ![s] = [status |-> "active", since |-> Len(stream)]]
  /\ UNCHANGED <<stream, durable, up, inbox, current, posts, refused, crashes>>

Deactivate(s) ==
  /\ up
  /\ subscribers[s].status = "active"
  /\ subscribers' = [subscribers EXCEPT ![s].status = "inactive"]
  /\ UNCHANGED <<stream, durable, up, inbox, current, posts, refused, crashes>>

\* The process ends, between any two steps: what it holds in memory, the
\* subscribers included, is gone.
Crash ==
  /\ up /\ crashes < MaxCrashes
  /\ up' = FALSE
  /\ crashes' = crashes + 1
  /\ inbox' = <<>>
  /\ current' = Idle
  /\ subscribers' = [s \in Subscriber |-> Absent]
  /\ UNCHANGED <<stream, durable, posts, refused>>

-----------------------------------------------------------------------------
Init ==
  /\ stream = <<>>
  /\ durable = [from |-> NotCreated, deliveries |-> [e \in Event |-> 0], acked |-> {}]
  /\ up = FALSE
  /\ inbox = <<>>
  /\ current = Idle
  /\ subscribers = [s \in Subscriber |-> Absent]
  /\ posts = [s \in Subscriber |-> [e \in Event |-> 0]]
  /\ refused = {}
  /\ crashes = 0

Next ==
  \/ Publish \/ Start \/ Crash
  \/ \E e \in Event : Deliver(e) \/ AckWaitExpires(e)
  \/ ProcessMessage \/ Settle
  \/ \E s \in Subscriber : Post(s) \/ PostFails(s) \/ Save(s) \/ Deactivate(s)

\* The goroutine of the consumer runs, a POST ends within its timeout, and
\* JetStream delivers what waits. Nothing is assumed of webhooks that are not
\* reliable, of publishers, of restarts or of who registers.
Fairness ==
  /\ WF_vars(ProcessMessage) /\ WF_vars(Settle)
  /\ \A s \in Subscriber : WF_vars(Post(s) \/ PostFails(s))
  /\ \A e \in Event : WF_vars(Deliver(e))

Spec == Init /\ [][Next]_vars
FairSpec == Spec /\ Fairness

-----------------------------------------------------------------------------
TypeOK ==
  /\ stream \in Seq(Message) /\ Len(stream) <= MaxEvents
  /\ durable \in [from: NotCreated..MaxEvents, deliveries: [Event -> 0..MaxDeliver],
                  acked: SUBSET Event]
  /\ up \in BOOLEAN
  /\ inbox \in Seq(Event)
  /\ current \in [event: 0..MaxEvents, rest: SUBSET Subscriber,
                  delivered: BOOLEAN, failed: BOOLEAN]
  /\ subscribers \in [Subscriber -> [status: {"absent", "active", "inactive"},
                                     since: 0..MaxEvents]]
  /\ posts \in [Subscriber -> [Event -> Nat]]
  /\ refused \in SUBSET (Subscriber \X Event)
  /\ crashes \in 0..MaxCrashes

\* A message is acked without any webhook having got it only if every subscriber
\* that wants it and is registered now registered after it was published: a
\* failed Notify never passes for a Notify without subscribers, whatever was
\* deactivated, redelivered or restarted in between.
AckedMeansHeard ==
  \A e \in durable.acked :
    \/ \E s \in Subscriber : posts[s][e] > 0
    \/ \A s \in Subscriber :
         subscribers[s].status = "active" /\ Interested(s, e) => subscribers[s].since >= e

\* A subscriber that has got an event and not an older one it wants, published
\* after it registered, failed to take the older one: a subscriber is never
\* skipped for the failure of another, nor by a redelivery or a restart.
SkippedOnlyIfRefused ==
  \A s \in Subscriber : \A e, d \in DOMAIN stream :
    /\ d < e /\ subscribers[s].since < d
    /\ subscribers[s].status = "active"
    /\ Interested(s, d)
    /\ posts[s][e] > 0 /\ posts[s][d] = 0
    => <<s, d>> \in refused

\* A webhook gets an event no more often than JetStream delivered it, MaxDeliver
\* at most, though every copy in the buffer is processed, acked or not, and
\* builds a Notification with an id of its own.
CopiesAreBounded ==
  \A s \in Subscriber, e \in Event : posts[s][e] <= durable.deliveries[e]
                                    /\ posts[s][e] <= MaxDeliver

\* A reliable webhook gets every event it wants of those published while it is
\* registered, whatever the other webhooks do.
Owed(s, e) ==
  /\ e <= Len(stream) /\ Interested(s, e)
  /\ subscribers[s].status = "active" /\ subscribers[s].since < e
ReliableSubscribersHear ==
  \A s \in Reliable, e \in Event :
    Owed(s, e) ~> posts[s][e] > 0 \/ subscribers[s].status # "active"
=============================================================================
