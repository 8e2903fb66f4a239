----------------------------- MODULE SfuEvents -----------------------------
(***************************************************************************)
(* The event streams of one session: how its subscribers learn that a      *)
(* producer appeared and that it closed.                                   *)
(*                                                                         *)
(* A subscription opens a bounded tokio mpsc channel.  Its sender goes     *)
(* into event_senders, its receiver becomes the response stream of the     *)
(* call, so nobody reads from it until the call has returned.  The call    *)
(* fills the channel with awaiting sends (the confirmation, then the       *)
(* existing producers) and keeps the mutex around SfuCore all along.       *)
(* Broadcasts come from spawned tasks: each takes the mutex on its own and *)
(* uses try_send, which drops the event when the channel is full.          *)
(*                                                                         *)
(* mediasoup is external.  A producer closes when the last reference to it *)
(* is dropped, or when its router goes away with its worker; closing runs  *)
(* the registered callbacks, on whatever thread.  setup_producer_events    *)
(* throws away the handles that the registrations return, and nothing      *)
(* under src/ tells whether a registration outlives its handle: both are   *)
(* possible here.                                                          *)
(*                                                                         *)
(* A definition whose name has an underscore, as in MutexFree_Ignored, is  *)
(* no part of the specification: it is a faulty variant of the definition  *)
(* after which it is named, with which some property must fail.            *)
(***************************************************************************)
EXTENDS Naturals, Sequences, FiniteSets

CONSTANTS
  ParticipantId,  (* participant ids found in requests                     *)
  Member,         (* those who are participants of the session             *)
  ProducerId,     (* the producers that may be created                     *)
  Channel,        (* the subscriptions that may be made                    *)
  Capacity,       (* subscribe_channel_capacity                            *)
  RouterMayDie,   (* is the death of a mediasoup worker considered?        *)
  NoOne,          (* no participant                                        *)
  NoChannel       (* no channel; as sfu_core: nobody holds the mutex       *)

ASSUME MemberAssumption == Member \subseteq ParticipantId /\ NoOne \notin ParticipantId
ASSUME ChannelAssumption == NoChannel \notin Channel
\* tokio's mpsc::channel panics when it is asked for no capacity.
ASSUME CapacityAssumption == Capacity \in Nat \ {0}

VARIABLES
  sfu_core,       (* the subscription whose call holds the mutex           *)
  open,           (* is the session in SfuCore.sessions?                   *)
  router_up,      (* is the router of the session alive?                   *)
  owner,          (* whose producer it is; NoOne before it is created      *)
  setup,          (* producers returned by the core, events not set up yet *)
  announcing,     (* tasks spawned to broadcast NewProducer                *)
  closed,         (* producers that mediasoup has closed                   *)
  handled,        (* producers with a close callback in place              *)
  closing,        (* tasks spawned to broadcast ProducerClosed             *)
  event_senders,  (* the channel each participant id is subscribed with    *)
  stage,          (* how far each subscription is                          *)
  subscriber,     (* the participant id it was made for                    *)
  replay,         (* existing producers it still has to send               *)
  log,            (* all events that were put into the channel             *)
  read,           (* how many of them the client has received              *)
  lost            (* events that found the channel full                    *)

producerVars == <<owner, setup, announcing, closed, handled, closing, router_up>>
streamVars == <<stage, subscriber, replay, read>>
channelVars == <<log, lost>>
vars == <<sfu_core, open, producerVars, event_senders, streamVars, channelVars>>

SubscriptionConfirmed == [event |-> "SubscriptionConfirmed"]
NewProducer(x) == [event |-> "NewProducer", producer |-> x]
ProducerClosed(x) == [event |-> "ProducerClosed", producer |-> x]

Event ==
  {SubscriptionConfirmed} \cup {NewProducer(x) : x \in ProducerId}
                          \cup {ProducerClosed(x) : x \in ProducerId}

MutexFree_Ignored == TRUE
MutexFree == sfu_core = NoChannel
Created == {x \in ProducerId : owner[x] # NoOne}

\* get_existing_producers_for_session, without the subscriber's own.
ExistingProducers(p) == {x \in Created : owner[x] # p}

HasSpace_OneMore(c) == Len(log[c]) - read[c] <= Capacity
HasSpace_OneLess(c) == Len(log[c]) - read[c] + 1 < Capacity
HasSpace(c) == Len(log[c]) - read[c] < Capacity
-----------------------------------------------------------------------------
Init ==
  /\ sfu_core = NoChannel
  /\ open = TRUE
  /\ router_up = TRUE
  /\ owner = [x \in ProducerId |-> NoOne]
  /\ setup = {} /\ announcing = {} /\ closed = {} /\ handled = {} /\ closing = {}
  /\ event_senders = [p \in ParticipantId |-> NoChannel]
  /\ stage = [c \in Channel |-> "unused"]
  /\ subscriber = [c \in Channel |-> NoOne]
  /\ replay = [c \in Channel |-> {}]
  /\ log = [c \in Channel |-> <<>>]
  /\ read = [c \in Channel |-> 0]
  /\ lost = [c \in Channel |-> {}]

Broadcast_ToAll(e, excluded) ==
  LET Receivers == {event_senders[p] : p \in ParticipantId} \ {NoChannel}
      Reachable == {c \in Receivers : stage[c] # "dropped"}
  IN  /\ log' = [c \in Channel |-> IF c \in Reachable /\ HasSpace(c)
                                   THEN Append(log[c], e) ELSE log[c]]
      /\ lost' = [c \in Channel |-> IF c \in Reachable /\ ~HasSpace(c)
                                    THEN lost[c] \cup {e} ELSE lost[c]]

\* broadcast_event: try_send to every sender of the session but one.
Broadcast(e, excluded) ==
  LET Receivers == {event_senders[p] : p \in ParticipantId \ {excluded}} \ {NoChannel}
      Reachable == {c \in Receivers : stage[c] # "dropped"}
  IN  /\ log' = [c \in Channel |-> IF c \in Reachable /\ HasSpace(c)
                                   THEN Append(log[c], e) ELSE log[c]]
      /\ lost' = [c \in Channel |-> IF c \in Reachable /\ ~HasSpace(c)
                                    THEN lost[c] \cup {e} ELSE lost[c]]

\* mediasoup closes the producers X; the callbacks in place spawn their tasks.
CloseProducers(X) ==
  /\ closed' = closed \cup X
  /\ closing' = closing \cup ((X \cap handled) \ closed)

\* create_producer up to the return of the core; its failures change nothing.
CreateProducer(x, p) ==
  /\ MutexFree
  /\ open
  /\ p \in Member
  /\ router_up
  /\ x \notin Created
  /\ owner' = [owner EXCEPT ![x] = p]
  /\ setup' = setup \cup {x}
  /\ UNCHANGED <<sfu_core, open, router_up, announcing, closed, handled, closing,
                 event_senders, streamVars, channelVars>>

SetupProducerEvents_Silent(x) ==
  /\ x \in setup
  /\ setup' = setup \ {x}
  /\ handled' = handled \cup {x}
  /\ closing' = IF x \in closed THEN closing \cup {x} ELSE closing
  /\ UNCHANGED <<sfu_core, open, owner, announcing, closed, router_up, event_senders,
                 streamVars, channelVars>>

\* The rest of the call, without the mutex: callbacks, then the spawned task.
\* A callback put on a producer that is closed by now may run at once.
SetupProducerEvents(x) ==
  /\ x \in setup
  /\ setup' = setup \ {x}
  /\ announcing' = announcing \cup {x}
  /\ \/ UNCHANGED <<handled, closing>>
     \/ /\ handled' = handled \cup {x}
        /\ closing' = IF x \in closed THEN closing \cup {x} ELSE closing
  /\ UNCHANGED <<sfu_core, open, owner, closed, router_up, event_senders,
                 streamVars, channelVars>>

AnnounceProducer_Again(x) ==
  /\ MutexFree
  /\ x \in announcing
  /\ Broadcast(NewProducer(x), owner[x])
  /\ CloseProducers(IF open THEN {} ELSE {x})
  /\ UNCHANGED <<sfu_core, open, owner, setup, announcing, handled, router_up, event_senders,
                 streamVars>>

\* The spawned task runs; it held the last reference if the session is gone.
AnnounceProducer(x) ==
  /\ MutexFree
  /\ x \in announcing
  /\ announcing' = announcing \ {x}
  /\ Broadcast(NewProducer(x), owner[x])
  /\ CloseProducers(IF open THEN {} ELSE {x})
  /\ UNCHANGED <<sfu_core, open, owner, setup, handled, router_up, event_senders, streamVars>>

AnnounceClosed_ToOthers(x) ==
  /\ MutexFree
  /\ x \in closing
  /\ closing' = closing \ {x}
  /\ Broadcast(ProducerClosed(x), owner[x])
  /\ UNCHANGED <<sfu_core, open, owner, setup, announcing, closed, handled, router_up,
                 event_senders, streamVars>>

\* The task spawned by a close callback runs.
AnnounceClosed(x) ==
  /\ MutexFree
  /\ x \in closing
  /\ closing' = closing \ {x}
  /\ Broadcast(ProducerClosed(x), NoOne)
  /\ UNCHANGED <<sfu_core, open, owner, setup, announcing, closed, handled, router_up,
                 event_senders, streamVars>>

CloseSession_SendersKept ==
  /\ MutexFree
  /\ open
  /\ open' = FALSE
  /\ CloseProducers(Created \ (setup \cup announcing))
  /\ UNCHANGED <<sfu_core, owner, setup, announcing, handled, router_up, event_senders,
                 streamVars, channelVars>>

CloseSession_CallsCutOff ==
  /\ MutexFree
  /\ open
  /\ open' = FALSE
  /\ event_senders' = [p \in ParticipantId |-> NoChannel]
  /\ CloseProducers(Created)
  /\ UNCHANGED <<sfu_core, owner, setup, announcing, handled, router_up, streamVars, channelVars>>

\* The session state is dropped, and the senders of the session with it.
CloseSession ==
  /\ MutexFree
  /\ open
  /\ open' = FALSE
  /\ event_senders' = [p \in ParticipantId |-> NoChannel]
  /\ CloseProducers(Created \ (setup \cup announcing))
  /\ UNCHANGED <<sfu_core, owner, setup, announcing, handled, router_up, streamVars, channelVars>>

\* The worker of the router dies: every producer on it closes.
RouterDies ==
  /\ RouterMayDie
  /\ router_up
  /\ router_up' = FALSE
  /\ CloseProducers(Created)
  /\ UNCHANGED <<sfu_core, open, owner, setup, announcing, handled, event_senders,
                 streamVars, channelVars>>

SubscribeToEvents_Unchecked(c, p) ==
  /\ MutexFree
  /\ stage[c] = "unused"
  /\ sfu_core' = c
  /\ event_senders' = [event_senders EXCEPT ![p] = c]
  /\ stage' = [stage EXCEPT ![c] = "confirming"]
  /\ subscriber' = [subscriber EXCEPT ![c] = p]
  /\ UNCHANGED <<open, producerVars, replay, read, channelVars>>

\* subscribe_to_events stores the sender, in place of an earlier one of p.
SubscribeToEvents(c, p) ==
  /\ MutexFree
  /\ open
  /\ stage[c] = "unused"
  /\ sfu_core' = c
  /\ event_senders' = [event_senders EXCEPT ![p] = c]
  /\ stage' = [stage EXCEPT ![c] = "confirming"]
  /\ subscriber' = [subscriber EXCEPT ![c] = p]
  /\ UNCHANGED <<open, producerVars, replay, read, channelVars>>

SendConfirmed(c) ==
  /\ stage[c] = "confirming"
  /\ HasSpace(c)
  /\ log' = [log EXCEPT ![c] = Append(@, SubscriptionConfirmed)]
  /\ replay' = [replay EXCEPT ![c] = ExistingProducers(subscriber[c])]
  /\ stage' = [stage EXCEPT ![c] = "replaying"]
  /\ UNCHANGED <<sfu_core, open, producerVars, event_senders, subscriber, read, lost>>

\* One existing producer, in the arbitrary order of the hash maps.
SendExisting(c, x) ==
  /\ stage[c] = "replaying"
  /\ x \in replay[c]
  /\ HasSpace(c)
  /\ log' = [log EXCEPT ![c] = Append(@, NewProducer(x))]
  /\ replay' = [replay EXCEPT ![c] = @ \ {x}]
  /\ UNCHANGED <<sfu_core, open, producerVars, event_senders, stage, subscriber, read, lost>>

\* The call returns: the mutex is free and the receiver is the stream.
SubscribeReturn(c) ==
  /\ stage[c] = "replaying"
  /\ replay[c] = {}
  /\ sfu_core' = NoChannel
  /\ stage' = [stage EXCEPT ![c] = "streaming"]
  /\ UNCHANGED <<open, producerVars, event_senders, subscriber, replay, read, channelVars>>

\* The client goes away while the call is at an await: the future is dropped,
\* its mutex guard and receiver with it.  The sender stays in event_senders.
SubscribeDropped(c) ==
  /\ stage[c] \in {"confirming", "replaying"}
  /\ sfu_core' = NoChannel
  /\ stage' = [stage EXCEPT ![c] = "dropped"]
  /\ replay' = [replay EXCEPT ![c] = {}]
  /\ UNCHANGED <<open, producerVars, event_senders, subscriber, read, channelVars>>

Receive(c) ==
  /\ stage[c] = "streaming"
  /\ read[c] < Len(log[c])
  /\ read' = [read EXCEPT ![c] = @ + 1]
  /\ UNCHANGED <<sfu_core, open, producerVars, event_senders, stage, subscriber, replay,
                 channelVars>>

\* The stream ends when it is drained and its sender is gone.
StreamEnd(c) ==
  /\ stage[c] = "streaming"
  /\ read[c] = Len(log[c])
  /\ event_senders[subscriber[c]] # c
  /\ stage' = [stage EXCEPT ![c] = "ended"]
  /\ UNCHANGED <<sfu_core, open, producerVars, event_senders, subscriber, replay, read,
                 channelVars>>

\* The client drops the stream.  Nothing removes its sender.
Disconnect(c) ==
  /\ stage[c] = "streaming"
  /\ stage' = [stage EXCEPT ![c] = "dropped"]
  /\ UNCHANGED <<sfu_core, open, producerVars, event_senders, subscriber, replay, read,
                 channelVars>>
-----------------------------------------------------------------------------
Next ==
  \/ \E x \in ProducerId, p \in ParticipantId : CreateProducer(x, p)
  \/ \E x \in ProducerId : SetupProducerEvents(x)
  \/ \E x \in ProducerId : AnnounceProducer(x)
  \/ \E x \in ProducerId : AnnounceClosed(x)
  \/ CloseSession
  \/ RouterDies
  \/ \E c \in Channel, p \in ParticipantId : SubscribeToEvents(c, p)
  \/ \E c \in Channel : SendConfirmed(c)
  \/ \E c \in Channel, x \in ProducerId : SendExisting(c, x)
  \/ \E c \in Channel : SubscribeReturn(c)
  \/ \E c \in Channel : SubscribeDropped(c)
  \/ \E c \in Channel : Receive(c)
  \/ \E c \in Channel : StreamEnd(c)
  \/ \E c \in Channel : Disconnect(c)

Spec == Init /\ [][Next]_vars

(***************************************************************************)
(* Calls and tasks that can go on are polled.  A task that waits for the   *)
(* mutex gets it in the end although others come in between: tokio's Mutex *)
(* is first come, first served, hence the strong fairness.  A client that  *)
(* stays reads its stream.  Nobody has to subscribe, produce or leave.     *)
(***************************************************************************)
Fairness ==
  /\ \A x \in ProducerId : /\ WF_vars(SetupProducerEvents(x))
                           /\ SF_vars(AnnounceProducer(x))
                           /\ SF_vars(AnnounceClosed(x))
  /\ \A c \in Channel :
       /\ WF_vars(SendConfirmed(c) \/ SubscribeReturn(c)
                    \/ \E x \in ProducerId : SendExisting(c, x))
       /\ WF_vars(Receive(c) \/ StreamEnd(c))

FairSpec == Spec /\ Fairness
-----------------------------------------------------------------------------
TypeOK ==
  /\ sfu_core \in Channel \cup {NoChannel}
  /\ open \in BOOLEAN /\ router_up \in BOOLEAN
  /\ owner \in [ProducerId -> ParticipantId \cup {NoOne}]
  /\ setup \subseteq ProducerId /\ announcing \subseteq ProducerId
  /\ closed \subseteq ProducerId /\ handled \subseteq ProducerId
  /\ closing \subseteq ProducerId
  /\ event_senders \in [ParticipantId -> Channel \cup {NoChannel}]
  /\ stage \in [Channel -> {"unused", "confirming", "replaying", "streaming",
                           "dropped", "ended"}]
  /\ subscriber \in [Channel -> ParticipantId \cup {NoOne}]
  /\ replay \in [Channel -> SUBSET ProducerId]
  /\ log \in [Channel -> Seq(Event)]
  /\ read \in [Channel -> Nat]
  /\ \A c \in Channel : read[c] <= Len(log[c]) /\ Len(log[c]) - read[c] <= Capacity
  /\ lost \in [Channel -> SUBSET Event]

Times(c, e) == Cardinality({i \in DOMAIN log[c] : log[c][i] = e})
Put(c, e) == \E i \in DOMAIN log[c] : log[c][i] = e
Received(c, e) == \E i \in 1 .. read[c] : log[c][i] = e

\* The stream that the broadcasts for its participant go to.
Attached(c) == stage[c] = "streaming" /\ event_senders[subscriber[c]] = c

\* Producers whose broadcast is still to come.
Unannounced == setup \cup announcing

(* A subscriber misses no producer of the others and hears of none of its   *)
(* own: whatever the order of its subscription and of the calls and tasks   *)
(* of create_producer, each producer of another participant has been put    *)
(* into its channel, is going to be broadcast, or met a full channel.       *)
KnowsProducers ==
  \A c \in Channel : Attached(c) =>
    /\ \A x \in ExistingProducers(subscriber[c]) :
         Put(c, NewProducer(x)) \/ x \in Unannounced \/ NewProducer(x) \in lost[c]
    /\ \A x \in Created \ ExistingProducers(subscriber[c]) : ~Put(c, NewProducer(x))

(* A stream may announce a producer twice, when the subscription falls      *)
(* between its creation and its broadcast: once from the replay, once from  *)
(* the broadcast.  It never does so three times, and a second time only     *)
(* after the broadcast has run.                                             *)
AnnouncedTwiceAtMost ==
  \A c \in Channel, x \in ProducerId :
    Times(c, NewProducer(x)) <= IF x \in Unannounced THEN 1 ELSE 2

(* The first event of every stream, and no later one, is the confirmation:  *)
(* although the sender is in event_senders before the confirmation is sent, *)
(* no broadcast comes between the two.                                      *)
ConfirmedFirst ==
  \A c \in Channel : \A i \in DOMAIN log[c] : log[c][i] = SubscriptionConfirmed <=> i = 1

(* No sender is left, or stored, for a session that is not open: otherwise  *)
(* nobody would ever remove it, and its stream would never end.             *)
NoSenderOutlivesSession ==
  ~open => \A p \in ParticipantId : event_senders[p] = NoChannel

\* The session of the stream has closed, or its participant subscribed again.
Orphaned(c) == stage[c] = "streaming" /\ (~open \/ event_senders[subscriber[c]] # c)

(* An orphaned stream ends, once the client has read what was in it.        *)
OrphanedStreamEnds == \A c \in Channel : Orphaned(c) ~> stage[c] \in {"ended", "dropped"}

(* And nothing comes into it any more: what its client has yet to read was  *)
(* there when it was orphaned, and no later subscription, broadcast or task *)
(* that was under way then brings it back.                                  *)
OrphanedIsFinal ==
  [][\A c \in Channel : Orphaned(c) =>
       /\ log'[c] = log[c] /\ lost'[c] = lost[c]
       /\ Orphaned(c)' \/ stage'[c] \in {"ended", "dropped"}]_vars

(* subscribe_to_events returns, and with it the mutex around all sessions:  *)
(* the replay does not wait for a reader that the call has yet to return.   *)
(* core.rs:467 says "Send existing producers to the subscribing             *)
(* participant".                                                            *)
SubscribeReturns ==
  \A c \in Channel : sfu_core = c ~> sfu_core # c

(* A client that keeps its stream receives every producer of the others,    *)
(* unless its channel was full.                                             *)
ProducerHeard ==
  \A c \in Channel, x \in ProducerId :
    Attached(c) /\ x \in ExistingProducers(subscriber[c])
      ~> Received(c, NewProducer(x)) \/ NewProducer(x) \in lost[c] \/ ~Attached(c)

(* event_senders holds senders of participants only; core.rs:89 says of it  *)
(* "Stores event channel senders for each participant in each session".     *)
SendersAreMembers ==
  \A p \in ParticipantId : event_senders[p] # NoChannel => p \in Member

(* While a session is open everybody who keeps a stream hears of a producer *)
(* that closed, its own participant and late subscribers too, unless the    *)
(* channel was full: handler.rs:81 says "Don't exclude anyone for close     *)
(* events", and no subscription that comes before the broadcast hides it.   *)
CloseHeard ==
  \A c \in Channel, x \in ProducerId :
    Attached(c) /\ x \in closing
      ~> Received(c, ProducerClosed(x)) \/ ProducerClosed(x) \in lost[c] \/ ~Attached(c)

(* A stream speaks of the close of a producer only if it has closed, and    *)
(* only if its router has died: what closes with its session is announced   *)
(* to nobody, since the senders of the session are gone before the task     *)
(* that would announce it can have the mutex.                               *)
CloseAnnouncedTruly ==
  \A c \in Channel, x \in ProducerId : Put(c, ProducerClosed(x)) => x \in closed /\ ~router_up

\* Where c announces x after it has announced the close of x.
Late(c, x) ==
  {i \in DOMAIN log[c] : /\ log[c][i] = NewProducer(x)
                         /\ \E j \in 1 .. i - 1 : log[c][j] = ProducerClosed(x)}

(* A stream announces a producer after the close of that producer at most   *)
(* once, and only from the one broadcast that was late: the tasks of a      *)
(* producer come in any order, and nothing says it anew.                    *)
LateAnnouncement ==
  \A c \in Channel, x \in ProducerId :
    Cardinality(Late(c, x)) <= IF x \in Unannounced THEN 0 ELSE 1

(* A send of the replay finds a place whenever there are fewer producers to *)
(* replay than the channel has places: nobody else writes to a channel that *)
(* is not read yet.  With SubscribeReturns: that is when a call can wait.   *)
ReplayFits ==
  \A c \in Channel :
    /\ stage[c] = "confirming" => HasSpace(c)
    /\ stage[c] = "replaying" /\ replay[c] # {}
         /\ Cardinality(ExistingProducers(subscriber[c])) < Capacity => HasSpace(c)

(* While the router lives, what is replayed exists: no session closes, with *)
(* its producers, between the moment the call took the list of them and     *)
(* the last of its sends, however long it waits for that.                   *)
ReplayExists == router_up => \A c \in Channel : replay[c] \cap closed = {}

\* A subscription as its client sees it.
Phase ==
  [c \in Channel |-> CASE stage[c] = "unused" -> "unused"
                       [] stage[c] = "ended" -> "ended"
                       [] stage[c] = "dropped" -> "dropped"
                       [] OTHER -> "open"]

(* Each subscription is a stream as EventStreams describes it: bounded, in  *)
(* order, begun by the one confirmation, and never written to after its end.*)
Streams == INSTANCE EventStreams WITH phase <- Phase, Confirmed <- SubscriptionConfirmed
StreamsSpec == Streams!Spec

\* The session, under the name it has in ProducerLifetime.
Home == [x \in ProducerId |-> IF x \in Created THEN "session" ELSE "nowhere"]
OpenSessions == IF open THEN {"session"} ELSE {}
RoutedSessions == IF router_up THEN {"session"} ELSE {}

(* A producer closes when its session has closed and its call has let go of *)
(* it, or with its router, and at no other time: as ProducerLifetime says.  *)
Lifetime == INSTANCE ProducerLifetime WITH
  Producer <- ProducerId, Session <- {"session"}, Nowhere <- "nowhere",
  open <- OpenSessions, routed <- RoutedSessions, home <- Home,
  held <- Unannounced, live <- Created \ closed
LifetimeSpec == Lifetime!Spec
=============================================================================
