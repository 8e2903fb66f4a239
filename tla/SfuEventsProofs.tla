--------------------------- MODULE SfuEventsProofs ---------------------------
(***************************************************************************)
(* Proofs about SfuEvents for any participants, producers, subscriptions   *)
(* and capacity.                                                           *)
(*                                                                         *)
(* The inductive invariant follows a subscription: who has the mutex is    *)
(* still filling its channel (Mutex), the log of a channel is empty up to  *)
(* the confirmation and never again (Logs), a stored sender belongs to its *)
(* participant and to a stream that has not ended (Senders), and what is   *)
(* not in the log of an attached stream is on its way (Knows).  Broadcasts *)
(* need a free mutex, so they reach only channels that are confirmed.      *)
(***************************************************************************)
EXTENDS SfuEvents, SequenceTheorems, TLAPS

Stage == {"unused", "confirming", "replaying", "streaming", "dropped", "ended"}

Mutex == \A c \in Channel : sfu_core = c <=> stage[c] \in {"confirming", "replaying"}

Logs ==
  \A c \in Channel : /\ stage[c] \in {"unused", "confirming"} => log[c] = <<>>
                     /\ stage[c] \in {"replaying", "streaming", "ended"} => log[c] # <<>>

Senders ==
  /\ \A p \in ParticipantId, c \in Channel :
       event_senders[p] = c =>
         subscriber[c] = p /\ stage[c] \in {"confirming", "replaying", "streaming", "dropped"}
  /\ \A c \in Channel : stage[c] # "unused" => subscriber[c] \in ParticipantId

Producers == setup \subseteq Created /\ announcing \subseteq Created

Replays ==
  \A c \in Channel : /\ replay[c] \subseteq ExistingProducers(subscriber[c])
                     /\ stage[c] # "replaying" => replay[c] = {}

\* Nobody was told of a producer of its own.
Heard ==
  \A c \in Channel : \A i \in DOMAIN log[c], x \in ProducerId :
    log[c][i] = NewProducer(x) => x \in ExistingProducers(subscriber[c])

Knows ==
  \A c \in Channel : stage[c] = "replaying" \/ Attached(c) =>
    \A x \in ExistingProducers(subscriber[c]) :
      \/ Put(c, NewProducer(x)) \/ NewProducer(x) \in lost[c]
      \/ x \in replay[c] \/ x \in Unannounced

Inv ==
  /\ TypeOK
  /\ Mutex /\ Logs /\ Senders /\ Producers /\ Replays /\ Heard /\ Knows
  /\ ConfirmedFirst /\ NoSenderOutlivesSession
-----------------------------------------------------------------------------
(* Confirmations and announcements are events, and differ.                  *)
LEMMA Events ==
  /\ SubscriptionConfirmed \in Event
  /\ \A x \in ProducerId : /\ NewProducer(x) \in Event /\ ProducerClosed(x) \in Event
                           /\ NewProducer(x) # SubscriptionConfirmed
                           /\ ProducerClosed(x) # SubscriptionConfirmed
  /\ \A x, y \in ProducerId : /\ NewProducer(x) = NewProducer(y) => x = y
                              /\ NewProducer(x) # ProducerClosed(y)
<1>1. \A x : NewProducer(x).event = "NewProducer" /\ ProducerClosed(x).event = "ProducerClosed"
  BY DEF NewProducer, ProducerClosed
<1>2. SubscriptionConfirmed.event = "SubscriptionConfirmed"
  BY DEF SubscriptionConfirmed
<1>3. \A x : NewProducer(x).producer = x
  BY DEF NewProducer
<1>4. QED
  BY <1>1, <1>2, <1>3 DEF Event

(* The event e is put into the channels C, each of which has space.         *)
Extend(e, C) ==
  /\ log' = [c \in Channel |-> IF c \in C THEN Append(log[c], e) ELSE log[c]]
  /\ \A c \in C : HasSpace(c)
  /\ read' = read

(* Channels that get an event keep their type and their capacity.           *)
LEMMA LogTypes ==
  ASSUME TypeOK, NEW e \in Event, NEW C \in SUBSET Channel, Extend(e, C)
  PROVE  /\ log' \in [Channel -> Seq(Event)]
         /\ \A c \in Channel : read[c] <= Len(log'[c]) /\ Len(log'[c]) - read[c] <= Capacity
<1>1. \A c \in Channel : log[c] \in Seq(Event) /\ Len(log[c]) \in Nat /\ read[c] \in Nat
  BY DEF TypeOK
<1>2. log' \in [Channel -> Seq(Event)]
  BY <1>1 DEF Extend
<1>3. \A c \in C : Len(log'[c]) = Len(log[c]) + 1 /\ Len(log[c]) - read[c] < Capacity
  BY <1>1 DEF Extend, HasSpace
<1>4. \A c \in Channel \ C : log'[c] = log[c]
  BY DEF Extend
<1>5. ASSUME NEW c \in Channel
      PROVE  read[c] <= Len(log'[c]) /\ Len(log'[c]) - read[c] <= Capacity
  <2>1. read[c] <= Len(log[c]) /\ Len(log[c]) - read[c] <= Capacity /\ Capacity \in Nat
    BY CapacityAssumption DEF TypeOK
  <2>2. CASE c \in C
    BY <1>1, <1>3, <2>1, <2>2
  <2>3. CASE c \notin C
    BY <1>4, <2>1, <2>3
  <2>4. QED
    BY <2>2, <2>3
<1>6. QED
  BY <1>2, <1>5

(* What was in a channel stays where it is, and e is the only addition.     *)
LEMMA LogEntries ==
  ASSUME TypeOK, NEW e \in Event, NEW C \in SUBSET Channel, Extend(e, C), NEW c \in Channel
  PROVE  /\ c \notin C => log'[c] = log[c]
         /\ c \in C => /\ log'[c] # <<>>
                       /\ DOMAIN log'[c] = DOMAIN log[c] \cup {Len(log[c]) + 1}
                       /\ log'[c][Len(log[c]) + 1] = e
                       /\ log[c] = <<>> => Len(log[c]) + 1 = 1
                       /\ log[c] # <<>> => Len(log[c]) + 1 # 1
         /\ \A i \in DOMAIN log[c] : i \in DOMAIN log'[c] /\ log'[c][i] = log[c][i]
<1>1. log[c] \in Seq(Event)
  BY DEF TypeOK
<1>2. CASE c \notin C
  BY <1>2 DEF Extend
<1>3. CASE c \in C
  <2>1. log'[c] = Append(log[c], e)
    BY <1>3 DEF Extend
  <2>2. QED
    BY <1>1, <1>3, <2>1, AppendProperties, EmptySeq
<1>4. QED
  BY <1>2, <1>3

(* An event that is no confirmation leaves the confirmations in place.      *)
LEMMA ConfirmedKept ==
  ASSUME TypeOK, ConfirmedFirst, NEW e \in Event, NEW C \in SUBSET Channel, Extend(e, C),
         \A c \in C : log[c] = <<>> <=> e = SubscriptionConfirmed
  PROVE  ConfirmedFirst'
<1> SUFFICES ASSUME NEW c \in Channel, NEW i \in DOMAIN log'[c]
             PROVE  log'[c][i] = SubscriptionConfirmed <=> i = 1
  BY DEF ConfirmedFirst
<1>1. CASE i \in DOMAIN log[c]
  BY <1>1, LogEntries DEF ConfirmedFirst
<1>2. CASE i \notin DOMAIN log[c]
  <2>1. c \in C /\ i = Len(log[c]) + 1 /\ log'[c][i] = e
    BY <1>2, LogEntries
  <2>2. log[c] = <<>> <=> i = 1
    BY <2>1, LogEntries
  <2>3. QED
    BY <2>1, <2>2
<1>3. QED
  BY <1>1, <1>2

(* What was put into a channel has still been put into it.                  *)
LEMMA PutKept ==
  ASSUME TypeOK, NEW e \in Event, NEW C \in SUBSET Channel, Extend(e, C), NEW c \in Channel
  PROVE  /\ \A f : Put(c, f) => Put(c, f)'
         /\ c \in C => Put(c, e)'
<1>1. \A i \in DOMAIN log[c] : i \in DOMAIN log'[c] /\ log'[c][i] = log[c][i]
  BY LogEntries
<1>2. ASSUME c \in C PROVE Put(c, e)'
  <2>1. Len(log[c]) + 1 \in DOMAIN log'[c] /\ log'[c][Len(log[c]) + 1] = e
    BY <1>2, LogEntries
  <2>2. QED
    BY <2>1 DEF Put
<1>3. QED
  BY <1>1, <1>2 DEF Put

(* The channels a broadcast is meant for, and those that have space.        *)
Targets(excluded) ==
  {c \in Channel : stage[c] # "dropped" /\ \E p \in ParticipantId \ {excluded} : event_senders[p] = c}
Reached(excluded) == {c \in Targets(excluded) : HasSpace(c)}

(* While the mutex is free the streams a broadcast goes to are confirmed.   *)
LEMMA BroadcastExtends ==
  ASSUME Inv, MutexFree, NEW e \in Event, NEW excluded, Broadcast(e, excluded), read' = read
  PROVE  /\ Extend(e, Reached(excluded))
         /\ lost' = [c \in Channel |-> IF c \in Targets(excluded) \ Reached(excluded)
                                       THEN lost[c] \cup {e} ELSE lost[c]]
         /\ \A c \in Targets(excluded) : stage[c] = "streaming" /\ log[c] # <<>>
<1> DEFINE Receivers == {event_senders[p] : p \in ParticipantId \ {excluded}} \ {NoChannel}
           Reachable == {c \in Receivers : stage[c] # "dropped"}
<1>1. Reachable = Targets(excluded)
  <2>1. \A p \in ParticipantId : event_senders[p] \in Channel \cup {NoChannel}
    BY DEF Inv, TypeOK
  <2>2. QED
    BY <2>1, ChannelAssumption DEF Targets
<1>2. ASSUME NEW c \in Targets(excluded)
      PROVE  stage[c] = "streaming" /\ log[c] # <<>>
  <2>1. stage[c] \in {"confirming", "replaying", "streaming"}
    BY <1>2 DEF Inv, Senders, Targets
  <2>2. stage[c] \notin {"confirming", "replaying"}
    BY <1>2, ChannelAssumption DEF Inv, Mutex, MutexFree, Targets
  <2>3. QED
    BY <1>2, <2>1, <2>2 DEF Inv, Logs, Targets
<1>3. /\ log' = [c \in Channel |-> IF c \in Reachable /\ HasSpace(c)
                                   THEN Append(log[c], e) ELSE log[c]]
      /\ lost' = [c \in Channel |-> IF c \in Reachable /\ ~HasSpace(c)
                                    THEN lost[c] \cup {e} ELSE lost[c]]
  BY DEF Broadcast
<1> HIDE DEF Reachable
<1>4. Extend(e, Reached(excluded))
  BY <1>1, <1>3 DEF Extend, Reached
<1>5. lost' = [c \in Channel |-> IF c \in Targets(excluded) \ Reached(excluded)
                                 THEN lost[c] \cup {e} ELSE lost[c]]
  BY <1>1, <1>3 DEF Reached
<1>6. QED
  BY <1>2, <1>4, <1>5

(* What a broadcast cannot break, whatever it says.                         *)
LEMMA BroadcastKeeps ==
  ASSUME Inv, MutexFree, NEW e \in Event, e # SubscriptionConfirmed, NEW excluded,
         Broadcast(e, excluded), UNCHANGED <<sfu_core, owner, event_senders, streamVars>>
  PROVE  /\ log' \in [Channel -> Seq(Event)]
         /\ \A c \in Channel : read'[c] <= Len(log'[c]) /\ Len(log'[c]) - read'[c] <= Capacity
         /\ lost' \in [Channel -> SUBSET Event]
         /\ Mutex' /\ Logs' /\ Senders' /\ Replays' /\ ConfirmedFirst'
         /\ \A c \in Channel : lost[c] \subseteq lost'[c] /\ \A f : Put(c, f) => Put(c, f)'
         /\ \A c \in Targets(excluded) : Put(c, e)' \/ e \in lost'[c]
<1>1. UNCHANGED <<sfu_core, owner, event_senders, stage, subscriber, replay, read>>
  BY DEF streamVars
<1>2. TypeOK
  BY DEF Inv
<1> Reached(excluded) \subseteq Targets(excluded) /\ Reached(excluded) \in SUBSET Channel
  BY DEF Reached, Targets
<1>3. /\ Extend(e, Reached(excluded))
      /\ lost' = [c \in Channel |-> IF c \in Targets(excluded) \ Reached(excluded)
                                    THEN lost[c] \cup {e} ELSE lost[c]]
      /\ \A c \in Reached(excluded) : stage[c] = "streaming" /\ log[c] # <<>>
  BY <1>1, BroadcastExtends
<1>4. /\ log' \in [Channel -> Seq(Event)]
      /\ \A c \in Channel : read'[c] <= Len(log'[c]) /\ Len(log'[c]) - read'[c] <= Capacity
  BY <1>1, <1>2, <1>3, LogTypes
<1>5. lost' \in [Channel -> SUBSET Event] /\ \A c \in Channel : lost[c] \subseteq lost'[c]
  BY <1>2, <1>3 DEF TypeOK
<1>6. Mutex' /\ Senders'
  BY <1>1 DEF Inv, Mutex, Senders
<1>7. Logs'
  <2>1. \A c \in Channel : c \notin Reached(excluded) => log'[c] = log[c]
    BY <1>2, <1>3, LogEntries
  <2>2. \A c \in Reached(excluded) : log'[c] # <<>>
    BY <1>2, <1>3, LogEntries
  <2>3. QED
    BY <1>1, <1>3, <2>1, <2>2 DEF Inv, Logs
<1>8. Replays'
  BY <1>1 DEF Inv, Replays, ExistingProducers, Created
<1>9. ConfirmedFirst'
  BY <1>2, <1>3, ConfirmedKept DEF Inv
<1>10. \A c \in Channel : \A f : Put(c, f) => Put(c, f)'
  BY <1>2, <1>3, PutKept
<1>11. \A c \in Targets(excluded) : Put(c, e)' \/ e \in lost'[c]
  <2>1. \A c \in Reached(excluded) : Put(c, e)'
    BY <1>2, <1>3, PutKept
  <2>2. \A c \in Targets(excluded) \ Reached(excluded) : e \in lost'[c]
    BY <1>3 DEF Targets
  <2>3. QED
    BY <2>1, <2>2
<1>12. QED
  BY <1>4, <1>5, <1>6, <1>7, <1>8, <1>9, <1>10, <1>11
-----------------------------------------------------------------------------
(* The invariant holds initially.                                           *)
LEMMA InitInv == Init => Inv
<1> SUFFICES ASSUME Init PROVE Inv
  OBVIOUS
<1>1. <<>> \in Seq(Event) /\ Len(<<>>) = 0 /\ DOMAIN <<>> = {}
  BY EmptySeq
<1>2. TypeOK
  BY <1>1, CapacityAssumption DEF Init, TypeOK
<1>3. Mutex /\ Logs /\ Senders /\ NoSenderOutlivesSession
  BY ChannelAssumption DEF Init, Mutex, Logs, Senders, NoSenderOutlivesSession
<1>4. Producers /\ Replays
  BY DEF Init, Producers, Replays
<1>5. Heard /\ ConfirmedFirst
  BY <1>1 DEF Init, Heard, ConfirmedFirst
<1>6. Knows
  BY DEF Init, Knows, Attached
<1>7. QED
  BY <1>2, <1>3, <1>4, <1>5, <1>6 DEF Inv

(* Steps that concern only producers and tasks of mediasoup.                *)
LEMMA CreateProducerStep ==
  ASSUME Inv, NEW x \in ProducerId, NEW p \in ParticipantId, CreateProducer(x, p)
  PROVE  Inv'
<1>1. /\ MutexFree /\ x \notin Created /\ owner' = [owner EXCEPT ![x] = p]
      /\ setup' = setup \cup {x}
      /\ UNCHANGED <<sfu_core, open, router_up, announcing, closed, handled, closing,
                     event_senders, stage, subscriber, replay, read, log, lost>>
  BY DEF CreateProducer, streamVars, channelVars
<1>2. TypeOK'
  BY <1>1 DEF Inv, TypeOK
<1>3. Mutex' /\ Logs' /\ Senders' /\ ConfirmedFirst' /\ NoSenderOutlivesSession'
  BY <1>1 DEF Inv, Mutex, Logs, Senders, ConfirmedFirst, NoSenderOutlivesSession
<1>4. Created' = Created \cup {x}
  BY <1>1, MemberAssumption DEF Inv, TypeOK, Created
<1>5. \A q : /\ ExistingProducers(q) \subseteq ExistingProducers(q)'
             /\ ExistingProducers(q)' \subseteq ExistingProducers(q) \cup {x}
  BY <1>1, <1>4 DEF Inv, TypeOK, ExistingProducers, Created
<1>6. Producers' /\ Replays' /\ Heard'
  BY <1>1, <1>4, <1>5 DEF Inv, Producers, Replays, Heard
<1>7. Knows'
  BY <1>1, <1>5 DEF Inv, Knows, Attached, Put, Unannounced
<1>8. QED
  BY <1>2, <1>3, <1>6, <1>7 DEF Inv

(* Callbacks that are set up and producers that close put nothing anywhere. *)
LEMMA ProducerSteps ==
  ASSUME Inv, RouterDies \/ \E x \in ProducerId : SetupProducerEvents(x)
  PROVE  Inv'
<1>1. UNCHANGED <<sfu_core, open, owner, event_senders, stage, subscriber, replay, read, log, lost>>
  BY DEF SetupProducerEvents, RouterDies, streamVars, channelVars
<1>2. /\ Unannounced' = Unannounced
      /\ setup' \subseteq setup \cup announcing /\ announcing' \subseteq setup \cup announcing
  BY DEF SetupProducerEvents, RouterDies, Unannounced
<1>3. TypeOK'
  <2>1. /\ router_up' \in BOOLEAN /\ setup' \subseteq ProducerId /\ announcing' \subseteq ProducerId
        /\ closed' \subseteq ProducerId /\ handled' \subseteq ProducerId /\ closing' \subseteq ProducerId
    BY DEF Inv, TypeOK, SetupProducerEvents, RouterDies, CloseProducers, Created
  <2>2. QED
    BY <1>1, <2>1 DEF Inv, TypeOK
<1>4. Mutex' /\ Logs' /\ Senders' /\ ConfirmedFirst' /\ NoSenderOutlivesSession'
  BY <1>1 DEF Inv, Mutex, Logs, Senders, ConfirmedFirst, NoSenderOutlivesSession
<1>5. Producers' /\ Replays' /\ Heard'
  BY <1>1, <1>2 DEF Inv, Producers, Replays, Heard, ExistingProducers, Created
<1>6. Knows'
  BY <1>1, <1>2 DEF Inv, Knows, Attached, Put, ExistingProducers, Created
<1>7. QED
  BY <1>3, <1>4, <1>5, <1>6 DEF Inv

(* The broadcast of a new producer reaches its subscribers or is lost to them. *)
LEMMA AnnounceProducerStep == ASSUME Inv, NEW x \in ProducerId, AnnounceProducer(x) PROVE Inv'
<1> DEFINE e == NewProducer(x)
           q == owner[x]
<1>1. /\ MutexFree /\ x \in announcing /\ announcing' = announcing \ {x}
      /\ Broadcast(e, q) /\ CloseProducers(IF open THEN {} ELSE {x})
      /\ UNCHANGED <<sfu_core, open, owner, setup, handled, router_up, event_senders,
                     stage, subscriber, replay, read, streamVars>>
  BY DEF AnnounceProducer, streamVars
<1>2. e \in Event /\ e # SubscriptionConfirmed /\ x \in Created
  BY <1>1, Events DEF Inv, Producers
<1> HIDE DEF e, q
<1>3. /\ log' \in [Channel -> Seq(Event)]
      /\ \A c \in Channel : read'[c] <= Len(log'[c]) /\ Len(log'[c]) - read'[c] <= Capacity
      /\ lost' \in [Channel -> SUBSET Event]
      /\ Mutex' /\ Logs' /\ Senders' /\ Replays' /\ ConfirmedFirst'
      /\ \A c \in Channel : lost[c] \subseteq lost'[c] /\ \A f : Put(c, f) => Put(c, f)'
      /\ \A c \in Targets(q) : Put(c, e)' \/ e \in lost'[c]
  BY <1>1, <1>2, BroadcastKeeps
<1>4. TypeOK'
  <2>1. closed' \subseteq ProducerId /\ closing' \subseteq ProducerId /\ announcing' \subseteq ProducerId
    BY <1>1 DEF Inv, TypeOK, CloseProducers
  <2>2. QED
    BY <1>1, <1>3, <2>1 DEF Inv, TypeOK
<1>5. Created' = Created /\ \A p : ExistingProducers(p)' = ExistingProducers(p)
  BY <1>1 DEF Created, ExistingProducers
<1>6. Producers' /\ NoSenderOutlivesSession'
  BY <1>1, <1>5 DEF Inv, Producers, NoSenderOutlivesSession
<1>7. \A c \in Targets(q) : owner[x] # subscriber[c]
  BY DEF Inv, Senders, Targets, q
<1>8. Heard'
  <2> SUFFICES ASSUME NEW c \in Channel, NEW i \in DOMAIN log'[c], NEW y \in ProducerId,
                      log'[c][i] = NewProducer(y)
               PROVE  y \in ExistingProducers(subscriber[c])
    BY <1>1, <1>5 DEF Heard
  <2>1. CASE i \in DOMAIN log[c] /\ log'[c][i] = log[c][i]
    BY <2>1 DEF Inv, Heard
  <2>2. CASE log'[c][i] = e /\ c \in Targets(q)
    <3>1. y = x
      BY <2>2, Events DEF e
    <3>2. QED
      BY <1>2, <1>7, <2>2, <3>1 DEF ExistingProducers
  <2>3. (i \in DOMAIN log[c] /\ log'[c][i] = log[c][i]) \/ (log'[c][i] = e /\ c \in Targets(q))
    <3>1. Extend(e, Reached(q)) /\ Reached(q) \in SUBSET Channel /\ Reached(q) \subseteq Targets(q)
      BY <1>1, <1>2, BroadcastExtends DEF Reached, Targets
    <3>2. QED
      BY <1>2, <3>1, LogEntries DEF Inv
  <2>4. QED
    BY <2>1, <2>2, <2>3
<1>9. Knows'
  <2> SUFFICES ASSUME NEW c \in Channel, stage[c] = "replaying" \/ Attached(c),
                      NEW y \in ExistingProducers(subscriber[c])
               PROVE  \/ Put(c, NewProducer(y))' \/ NewProducer(y) \in lost'[c]
                      \/ y \in replay[c] \/ y \in Unannounced'
    BY <1>1, <1>5 DEF Knows, Attached
  <2>1. CASE y # x
    BY <1>1, <1>3, <2>1 DEF Inv, Knows, Unannounced
  <2>2. CASE y = x
    <3>1. Attached(c)
      BY <1>1, ChannelAssumption DEF Inv, Mutex, MutexFree
    <3>2. subscriber[c] \in ParticipantId
      BY <3>1 DEF Attached, Inv, Senders
    <3>3. c \in Targets(q)
      BY <2>2, <3>1, <3>2 DEF Attached, Targets, ExistingProducers, q
    <3>4. QED
      BY <1>3, <2>2, <3>3 DEF e
  <2>3. QED
    BY <2>1, <2>2
<1>10. QED
  BY <1>3, <1>4, <1>6, <1>8, <1>9 DEF Inv

(* The broadcast of a close announces no producer.                          *)
LEMMA AnnounceClosedStep == ASSUME Inv, NEW x \in ProducerId, AnnounceClosed(x) PROVE Inv'
<1> DEFINE e == ProducerClosed(x)
<1>1. /\ MutexFree /\ closing' = closing \ {x} /\ Broadcast(e, NoOne)
      /\ UNCHANGED <<sfu_core, open, owner, setup, announcing, closed, handled, router_up,
                     event_senders, stage, subscriber, replay, read, streamVars>>
  BY DEF AnnounceClosed, streamVars
<1>2. e \in Event /\ e # SubscriptionConfirmed /\ \A y \in ProducerId : NewProducer(y) # e
  BY Events
<1> HIDE DEF e
<1>3. /\ log' \in [Channel -> Seq(Event)]
      /\ \A c \in Channel : read'[c] <= Len(log'[c]) /\ Len(log'[c]) - read'[c] <= Capacity
      /\ lost' \in [Channel -> SUBSET Event]
      /\ Mutex' /\ Logs' /\ Senders' /\ Replays' /\ ConfirmedFirst'
      /\ \A c \in Channel : lost[c] \subseteq lost'[c] /\ \A f : Put(c, f) => Put(c, f)'
  BY <1>1, <1>2, BroadcastKeeps
<1>4. TypeOK'
  BY <1>1, <1>3 DEF Inv, TypeOK
<1>5. Created' = Created /\ \A p : ExistingProducers(p)' = ExistingProducers(p)
  BY <1>1 DEF Created, ExistingProducers
<1>6. Producers' /\ NoSenderOutlivesSession'
  BY <1>1, <1>5 DEF Inv, Producers, NoSenderOutlivesSession
<1>7. Heard'
  <2>1. Extend(e, Reached(NoOne)) /\ Reached(NoOne) \in SUBSET Channel
    BY <1>1, <1>2, BroadcastExtends DEF Reached, Targets
  <2>2. \A c \in Channel : \A i \in DOMAIN log'[c] :
          (i \in DOMAIN log[c] /\ log'[c][i] = log[c][i]) \/ log'[c][i] = e
    BY <1>2, <2>1, LogEntries DEF Inv
  <2>3. QED
    BY <1>1, <1>2, <1>5, <2>2 DEF Inv, Heard
<1>8. Knows'
  BY <1>1, <1>3, <1>5 DEF Inv, Knows, Attached, Unannounced
<1>9. QED
  BY <1>3, <1>4, <1>6, <1>7, <1>8 DEF Inv

(* A session that closes takes its senders with it.                         *)
LEMMA CloseSessionStep == ASSUME Inv, CloseSession PROVE Inv'
<1>1. /\ event_senders' = [p \in ParticipantId |-> NoChannel]
      /\ UNCHANGED <<sfu_core, owner, setup, announcing, handled, router_up,
                     stage, subscriber, replay, read, log, lost>>
      /\ open' = FALSE /\ closed' \subseteq closed \cup Created
      /\ closing' \subseteq closing \cup Created
  BY DEF CloseSession, CloseProducers, streamVars, channelVars
<1>2. TypeOK'
  BY <1>1 DEF Inv, TypeOK, Created
<1>3. Mutex' /\ Logs' /\ ConfirmedFirst'
  BY <1>1 DEF Inv, Mutex, Logs, ConfirmedFirst
<1>4. Senders' /\ NoSenderOutlivesSession'
  BY <1>1, ChannelAssumption DEF Inv, Senders, NoSenderOutlivesSession
<1>5. Producers' /\ Replays' /\ Heard'
  BY <1>1 DEF Inv, Producers, Replays, Heard, ExistingProducers, Created
<1>6. Knows'
  <2>1. \A c \in Channel : Attached(c)' => Attached(c)
    <3>1. \A c \in Channel : stage[c] = "streaming" => subscriber[c] \in ParticipantId
      BY DEF Inv, Senders
    <3>2. QED
      BY <1>1, <3>1, ChannelAssumption DEF Attached
  <2>2. QED
    BY <1>1, <2>1 DEF Inv, Knows, Put, Unannounced, ExistingProducers, Created
<1>7. QED
  BY <1>2, <1>3, <1>4, <1>5, <1>6 DEF Inv
-----------------------------------------------------------------------------
(* Steps of a subscription.                                                 *)
LEMMA SubscribeStep ==
  ASSUME Inv, NEW c \in Channel, NEW p \in ParticipantId, SubscribeToEvents(c, p)
  PROVE  Inv'
<1>1. /\ sfu_core = NoChannel /\ sfu_core' = c /\ open /\ stage[c] = "unused"
      /\ event_senders' = [event_senders EXCEPT ![p] = c]
      /\ stage' = [stage EXCEPT ![c] = "confirming"]
      /\ subscriber' = [subscriber EXCEPT ![c] = p]
      /\ UNCHANGED <<open, owner, setup, announcing, closed, handled, closing, router_up,
                     replay, read, log, lost>>
  BY DEF SubscribeToEvents, MutexFree, producerVars, channelVars
<1> USE DEF Inv
<1>2. TypeOK'
  BY <1>1 DEF TypeOK
<1>3. Mutex' /\ NoSenderOutlivesSession' /\ ConfirmedFirst' /\ Logs'
  BY <1>1, ChannelAssumption DEF TypeOK, Mutex, NoSenderOutlivesSession, ConfirmedFirst, Logs
<1>4. Senders'
  BY <1>1 DEF TypeOK, Senders
<1>5. Created' = Created /\ \A q : ExistingProducers(q)' = ExistingProducers(q)
  BY <1>1 DEF Created, ExistingProducers
<1>6. log[c] = <<>> /\ DOMAIN log[c] = {} /\ replay[c] = {}
  BY <1>1, EmptySeq DEF Logs, Replays
<1>7. Producers' /\ Replays'
  BY <1>1, <1>5, <1>6 DEF TypeOK, Producers, Replays
<1>8. Heard'
  BY <1>1, <1>5, <1>6 DEF TypeOK, Heard
<1>9. Knows'
  <2>1. \A d \in Channel : stage'[d] = "replaying" \/ Attached(d)' =>
           d # c /\ subscriber'[d] = subscriber[d] /\ (stage[d] = "replaying" \/ Attached(d))
    <3>1. \A d \in Channel \ {c} : subscriber'[d] = subscriber[d] /\ stage'[d] = stage[d]
      BY <1>1 DEF TypeOK
    <3>2. stage'[c] = "confirming"
      BY <1>1 DEF TypeOK
    <3>3. \A d \in Channel \ {c} : Attached(d)' => Attached(d)
      <4>1. \A d \in Channel : stage[d] = "streaming" => subscriber[d] \in ParticipantId
        BY DEF Senders
      <4>2. \A r \in ParticipantId : event_senders'[r] = event_senders[r] \/ event_senders'[r] = c
        BY <1>1 DEF TypeOK
      <4>3. QED
        BY <3>1, <4>1, <4>2 DEF Attached
    <3>4. QED
      BY <3>1, <3>2, <3>3 DEF Attached
  <2>2. QED
    BY <1>1, <1>5, <2>1 DEF Knows, Put, Unannounced
<1>10. QED
  BY <1>2, <1>3, <1>4, <1>7, <1>8, <1>9

(* One event, put into one channel.                                         *)
LEMMA PutExtends ==
  ASSUME TypeOK, NEW e \in Event, NEW c \in Channel, HasSpace(c), read' = read,
         log' = [log EXCEPT ![c] = Append(@, e)]
  PROVE  Extend(e, {c})
BY DEF TypeOK, Extend

(* The confirmation is the first event of its channel.                      *)
LEMMA SendConfirmedStep == ASSUME Inv, NEW c \in Channel, SendConfirmed(c) PROVE Inv'
<1> DEFINE e == SubscriptionConfirmed
<1>1. /\ stage[c] = "confirming" /\ HasSpace(c) /\ log' = [log EXCEPT ![c] = Append(@, e)]
      /\ replay' = [replay EXCEPT ![c] = ExistingProducers(subscriber[c])]
      /\ stage' = [stage EXCEPT ![c] = "replaying"]
      /\ UNCHANGED <<sfu_core, open, owner, setup, announcing, closed, handled, closing,
                     router_up, event_senders, subscriber, read, lost>>
  BY DEF SendConfirmed, producerVars
<1>2. e \in Event /\ \A x \in ProducerId : NewProducer(x) # e
  BY Events
<1>3. TypeOK /\ Extend(e, {c}) /\ log[c] = <<>>
  BY <1>1, <1>2, PutExtends DEF Inv, Logs
<1>4. ConfirmedFirst'
  BY <1>2, <1>3, ConfirmedKept DEF Inv
<1> HIDE DEF e
<1>5. TypeOK'
  <2>1. /\ log' \in [Channel -> Seq(Event)]
        /\ \A d \in Channel : read[d] <= Len(log'[d]) /\ Len(log'[d]) - read[d] <= Capacity
    BY <1>2, <1>3, LogTypes
  <2>2. replay' \in [Channel -> SUBSET ProducerId] /\ stage' \in [Channel -> Stage]
    BY <1>1 DEF Inv, TypeOK, ExistingProducers, Created, Stage
  <2>3. QED
    BY <1>1, <2>1, <2>2 DEF Inv, TypeOK, Stage
<1>6. Created' = Created /\ \A p : ExistingProducers(p)' = ExistingProducers(p)
  BY <1>1 DEF Created, ExistingProducers
<1>7. Mutex' /\ Senders' /\ Producers' /\ NoSenderOutlivesSession' /\ Replays'
  BY <1>1, <1>6 DEF Inv, TypeOK, Mutex, Senders, Producers, NoSenderOutlivesSession, Replays
<1>8. /\ log'[c] # <<>> /\ \A d \in Channel \ {c} : log'[d] = log[d]
      /\ \A d \in Channel : \A i \in DOMAIN log'[d] :
           (i \in DOMAIN log[d] /\ log'[d][i] = log[d][i]) \/ log'[d][i] = e
  BY <1>2, <1>3, LogEntries
<1>9. Logs'
  BY <1>1, <1>8 DEF Inv, TypeOK, Logs
<1>10. Heard'
  BY <1>1, <1>2, <1>6, <1>8 DEF Inv, Heard
<1>11. Knows'
  <2>1. \A d \in Channel : \A f : Put(d, f) => Put(d, f)'
    BY <1>2, <1>3, PutKept
  <2>2. \A x \in ExistingProducers(subscriber[c]) : x \in replay'[c]
    BY <1>1 DEF Inv, TypeOK
  <2>3. \A d \in Channel \ {c} : stage'[d] = stage[d] /\ replay'[d] = replay[d]
    BY <1>1 DEF Inv, TypeOK
  <2>4. QED
    BY <1>1, <1>6, <2>1, <2>2, <2>3 DEF Inv, Knows, Attached, Unannounced
<1>12. QED
  BY <1>4, <1>5, <1>7, <1>9, <1>10, <1>11 DEF Inv

(* The replay sends a producer of another participant.                      *)
LEMMA SendExistingStep ==
  ASSUME Inv, NEW c \in Channel, NEW x \in ProducerId, SendExisting(c, x)
  PROVE  Inv'
<1> DEFINE e == NewProducer(x)
<1>1. /\ stage[c] = "replaying" /\ x \in replay[c] /\ HasSpace(c)
      /\ log' = [log EXCEPT ![c] = Append(@, e)]
      /\ replay' = [replay EXCEPT ![c] = @ \ {x}]
      /\ UNCHANGED <<sfu_core, open, owner, setup, announcing, closed, handled, closing,
                     router_up, event_senders, stage, subscriber, read, lost>>
  BY DEF SendExisting, producerVars
<1>2. e \in Event /\ e # SubscriptionConfirmed /\ \A y \in ProducerId : NewProducer(y) = e => y = x
  BY Events
<1>3. TypeOK /\ Extend(e, {c}) /\ log[c] # <<>>
  BY <1>1, <1>2, PutExtends DEF Inv, Logs
<1>4. ConfirmedFirst'
  BY <1>2, <1>3, ConfirmedKept DEF Inv
<1>5. TypeOK'
  <2>1. /\ log' \in [Channel -> Seq(Event)]
        /\ \A d \in Channel : read[d] <= Len(log'[d]) /\ Len(log'[d]) - read[d] <= Capacity
    BY <1>2, <1>3, LogTypes
  <2>2. replay' \in [Channel -> SUBSET ProducerId]
    BY <1>1 DEF Inv, TypeOK
  <2>3. QED
    BY <1>1, <2>1, <2>2 DEF Inv, TypeOK
<1>6. Created' = Created /\ \A p : ExistingProducers(p)' = ExistingProducers(p)
  BY <1>1 DEF Created, ExistingProducers
<1>7. Mutex' /\ Senders' /\ Producers' /\ NoSenderOutlivesSession' /\ Replays'
  BY <1>1, <1>6 DEF Inv, TypeOK, Mutex, Senders, Producers, NoSenderOutlivesSession, Replays
<1>8. /\ log'[c] # <<>> /\ \A d \in Channel \ {c} : log'[d] = log[d]
      /\ \A i \in DOMAIN log'[c] :
           (i \in DOMAIN log[c] /\ log'[c][i] = log[c][i]) \/ log'[c][i] = e
  BY <1>2, <1>3, LogEntries
<1>9. Logs'
  BY <1>1, <1>8 DEF Inv, Logs
<1>10. Heard'
  <2>1. x \in ExistingProducers(subscriber[c])
    BY <1>1 DEF Inv, Replays
  <2>2. QED
    BY <1>1, <1>2, <1>6, <1>8, <2>1 DEF Inv, Heard
<1>11. Knows'
  <2>1. Put(c, e)' /\ \A d \in Channel : \A f : Put(d, f) => Put(d, f)'
    BY <1>2, <1>3, PutKept
  <2>2. replay'[c] = replay[c] \ {x} /\ \A d \in Channel \ {c} : replay'[d] = replay[d]
    BY <1>1 DEF Inv, TypeOK
  <2>3. QED
    BY <1>1, <1>6, <2>1, <2>2 DEF Inv, Knows, Attached, Unannounced
<1>12. QED
  BY <1>4, <1>5, <1>7, <1>9, <1>10, <1>11 DEF Inv

(* Steps that end the call or the stream: nothing is put anywhere.          *)
LEMMA StreamSteps ==
  ASSUME Inv, NEW c \in Channel,
         SubscribeReturn(c) \/ SubscribeDropped(c) \/ StreamEnd(c) \/ Disconnect(c)
  PROVE  Inv'
<1>1. /\ UNCHANGED <<open, owner, setup, announcing, closed, handled, closing, router_up,
                     event_senders, subscriber, read, log, lost>>
      /\ \/ /\ stage[c] \in {"confirming", "replaying"} /\ sfu_core' = NoChannel
            /\ replay' = [replay EXCEPT ![c] = {}] /\ stage' = [stage EXCEPT ![c] = "dropped"]
         \/ /\ stage[c] = "replaying" /\ sfu_core' = NoChannel /\ replay[c] = {} /\ replay' = replay
            /\ stage' = [stage EXCEPT ![c] = "streaming"]
         \/ /\ stage[c] = "streaming" /\ sfu_core' = sfu_core /\ replay' = replay
            /\ stage' = [stage EXCEPT ![c] = "dropped"]
         \/ /\ stage[c] = "streaming" /\ sfu_core' = sfu_core /\ replay' = replay
            /\ event_senders[subscriber[c]] # c /\ stage' = [stage EXCEPT ![c] = "ended"]
  BY DEF SubscribeReturn, SubscribeDropped, StreamEnd, Disconnect, producerVars, channelVars
<1>2. \A d \in Channel \ {c} : stage'[d] = stage[d] /\ replay'[d] = replay[d]
  BY <1>1 DEF Inv, TypeOK
<1>3. TypeOK'
  <2>1. stage' \in [Channel -> Stage] /\ replay' \in [Channel -> SUBSET ProducerId]
        /\ sfu_core' \in Channel \cup {NoChannel}
    BY <1>1 DEF Inv, TypeOK, Stage
  <2>2. QED
    BY <1>1, <2>1 DEF Inv, TypeOK, Stage
<1>4. Mutex'
  <2>1. stage'[c] \notin {"confirming", "replaying"}
    BY <1>1 DEF Inv, TypeOK
  <2>2. CASE sfu_core' = sfu_core /\ stage[c] = "streaming"
    BY <1>2, <2>1, <2>2 DEF Inv, Mutex
  <2>3. CASE sfu_core' = NoChannel /\ stage[c] \in {"confirming", "replaying"}
    BY <1>2, <2>1, <2>3, ChannelAssumption DEF Inv, Mutex
  <2>4. QED
    BY <1>1, <2>2, <2>3
<1>5. Logs'
  BY <1>1, <1>2 DEF Inv, TypeOK, Logs
<1>6. Senders'
  <2>1. stage[c] # "unused" /\ subscriber' = subscriber /\ event_senders' = event_senders
    BY <1>1
  <2>2. stage'[c] \in {"streaming", "dropped"} \/ event_senders[subscriber[c]] # c
    BY <1>1 DEF Inv, TypeOK
  <2>3. ASSUME NEW p \in ParticipantId, event_senders[p] = c
        PROVE  subscriber[c] = p /\ stage'[c] \in {"streaming", "dropped"}
    BY <2>2, <2>3 DEF Inv, Senders
  <2>4. QED
    BY <1>2, <2>1, <2>3 DEF Inv, Senders
<1>7. Producers' /\ NoSenderOutlivesSession' /\ ConfirmedFirst' /\ Heard'
  BY <1>1 DEF Inv, Producers, NoSenderOutlivesSession, ConfirmedFirst, Heard,
              ExistingProducers, Created
<1>8. Replays'
  BY <1>1, <1>2 DEF Inv, TypeOK, Replays, ExistingProducers, Created
<1>9. Knows'
  <2>1. \A d \in Channel : stage'[d] = "replaying" \/ Attached(d)' =>
          replay'[d] = replay[d] /\ (stage[d] = "replaying" \/ Attached(d))
    BY <1>1, <1>2 DEF Inv, TypeOK, Attached
  <2>2. QED
    BY <1>1, <2>1 DEF Inv, Knows, Put, Unannounced, ExistingProducers, Created
<1>10. QED
  BY <1>3, <1>4, <1>5, <1>6, <1>7, <1>8, <1>9 DEF Inv

(* A client that receives frees a place.                                    *)
LEMMA ReceiveStep == ASSUME Inv, NEW c \in Channel, Receive(c) PROVE Inv'
<1>1. /\ read[c] < Len(log[c]) /\ read' = [read EXCEPT ![c] = @ + 1]
      /\ UNCHANGED <<sfu_core, open, owner, setup, announcing, closed, handled, closing,
                     router_up, event_senders, stage, subscriber, replay, log, lost>>
  BY DEF Receive, producerVars, channelVars
<1>2. TypeOK'
  <2>1. \A d \in Channel : read[d] \in Nat /\ Len(log[d]) \in Nat
    BY DEF Inv, TypeOK
  <2>2. /\ read' \in [Channel -> Nat]
        /\ \A d \in Channel : read'[d] <= Len(log[d]) /\ Len(log[d]) - read'[d] <= Capacity
    BY <1>1, <2>1, CapacityAssumption DEF Inv, TypeOK
  <2>3. QED
    BY <1>1, <2>2 DEF Inv, TypeOK
<1>3. Mutex' /\ Logs' /\ Senders' /\ Producers' /\ Replays' /\ NoSenderOutlivesSession' /\ ConfirmedFirst'
  BY <1>1 DEF Inv, Mutex, Logs, Senders, Producers, Replays, NoSenderOutlivesSession,
              ConfirmedFirst, ExistingProducers, Created
<1>4. Heard' /\ Knows'
  BY <1>1 DEF Inv, Heard, Knows, Attached, Put, Unannounced, ExistingProducers, Created
<1>5. QED
  BY <1>2, <1>3, <1>4 DEF Inv

(* The invariant survives stuttering.                                       *)
LEMMA UnchangedStep == ASSUME Inv, UNCHANGED vars PROVE Inv'
<1>1. UNCHANGED <<sfu_core, open, owner, setup, announcing, closed, handled, closing, router_up,
                  event_senders, stage, subscriber, replay, read, log, lost>>
  BY DEF vars, producerVars, streamVars, channelVars
<1>2. TypeOK'
  BY <1>1 DEF Inv, TypeOK
<1>3. Mutex' /\ Logs' /\ Senders' /\ Producers' /\ Replays' /\ NoSenderOutlivesSession' /\ ConfirmedFirst'
  BY <1>1 DEF Inv, Mutex, Logs, Senders, Producers, Replays, NoSenderOutlivesSession,
              ConfirmedFirst, ExistingProducers, Created
<1>4. Heard' /\ Knows'
  BY <1>1 DEF Inv, Heard, Knows, Attached, Put, Unannounced, ExistingProducers, Created
<1>5. QED
  BY <1>2, <1>3, <1>4 DEF Inv

(* Each step preserves the invariant.                                       *)
LEMMA InvNext == Inv /\ [Next]_vars => Inv'
<1> SUFFICES ASSUME Inv, [Next]_vars PROVE Inv'
  OBVIOUS
<1>1. ASSUME NEW x \in ProducerId, NEW p \in ParticipantId, CreateProducer(x, p) PROVE Inv'
  BY <1>1, CreateProducerStep
<1>2. ASSUME NEW x \in ProducerId, SetupProducerEvents(x) PROVE Inv'
  BY <1>2, ProducerSteps
<1>3. ASSUME NEW x \in ProducerId, AnnounceProducer(x) \/ AnnounceClosed(x) PROVE Inv'
  BY <1>3, AnnounceProducerStep, AnnounceClosedStep
<1>4. CASE CloseSession
  BY <1>4, CloseSessionStep
<1>5. CASE RouterDies
  BY <1>5, ProducerSteps
<1>6. ASSUME NEW c \in Channel, NEW p \in ParticipantId, SubscribeToEvents(c, p) PROVE Inv'
  BY <1>6, SubscribeStep
<1>7. ASSUME NEW c \in Channel, SendConfirmed(c) PROVE Inv'
  BY <1>7, SendConfirmedStep
<1>8. ASSUME NEW c \in Channel, NEW x \in ProducerId, SendExisting(c, x) PROVE Inv'
  BY <1>8, SendExistingStep
<1>9. ASSUME NEW c \in Channel,
             SubscribeReturn(c) \/ SubscribeDropped(c) \/ StreamEnd(c) \/ Disconnect(c)
      PROVE  Inv'
  BY <1>9, StreamSteps
<1>10. ASSUME NEW c \in Channel, Receive(c) PROVE Inv'
  BY <1>10, ReceiveStep
<1>11. CASE UNCHANGED vars
  BY <1>11, UnchangedStep
<1>12. QED
  BY <1>1, <1>2, <1>3, <1>4, <1>5, <1>6, <1>7, <1>8, <1>9, <1>10, <1>11 DEF Next
-----------------------------------------------------------------------------
(* The inductive invariant holds all along.                                 *)
THEOREM InvHolds == Spec => []Inv
<1>1. QED
  BY InitInv, InvNext, PTL DEF Spec

(* The variables have their types, and no channel holds more than its       *)
(* capacity.                                                                *)
THEOREM TypeCorrect == Spec => []TypeOK
<1>1. Inv => TypeOK
  BY DEF Inv
<1>2. QED
  BY <1>1, InvHolds, PTL

(* Every stream begins with its confirmation and has no other, although     *)
(* broadcasts can find the sender before.                                   *)
THEOREM ConfirmedComesFirst == Spec => []ConfirmedFirst
<1>1. Inv => ConfirmedFirst
  BY DEF Inv
<1>2. QED
  BY <1>1, InvHolds, PTL

(* No sender is kept for a session that is closed.                          *)
THEOREM SendersGoWithSession == Spec => []NoSenderOutlivesSession
<1>1. Inv => NoSenderOutlivesSession
  BY DEF Inv
<1>2. QED
  BY <1>1, InvHolds, PTL

(* A subscriber misses no producer of the others, in any order of calls,    *)
(* tasks and subscriptions, and hears of none of its own.                   *)
THEOREM SubscribersKnow == Spec => []KnowsProducers
<1>1. Inv => KnowsProducers
  <2> SUFFICES ASSUME Inv, NEW c \in Channel, Attached(c)
               PROVE  /\ \A x \in ExistingProducers(subscriber[c]) :
                           Put(c, NewProducer(x)) \/ x \in Unannounced \/ NewProducer(x) \in lost[c]
                      /\ \A x \in Created \ ExistingProducers(subscriber[c]) : ~Put(c, NewProducer(x))
    BY DEF KnowsProducers
  <2>1. replay[c] = {}
    BY DEF Inv, Replays, Attached
  <2>2. QED
    BY <2>1 DEF Inv, Knows, Heard, Put, Created
<1>2. QED
  BY <1>1, InvHolds, PTL
-----------------------------------------------------------------------------
\* Nothing closes before the session or the router does.
Lives == open /\ router_up => closed = {}

\* The session of a call that holds the mutex stays open.
StaysOpen == \A c \in Channel : stage[c] \in {"confirming", "replaying"} => open

(* Initially nothing was created, closed or subscribed to.                  *)
LEMMA LivesInit == Init => Lives /\ StaysOpen
BY DEF Init, Lives, StaysOpen

(* Steps of calls and tasks close a producer only after the session.        *)
LEMMA LivesNext == Inv /\ Lives /\ StaysOpen /\ [Next]_vars => Lives' /\ StaysOpen'
<1> SUFFICES ASSUME Inv, Lives, StaysOpen, [Next]_vars PROVE Lives' /\ StaysOpen'
  OBVIOUS
<1>1. CASE \E x \in ProducerId : \/ SetupProducerEvents(x) \/ AnnounceProducer(x) \/ AnnounceClosed(x)
                                 \/ \E p \in ParticipantId : CreateProducer(x, p)
  <2>1. /\ open' = open /\ router_up' = router_up /\ stage' = stage
        /\ open => closed' = closed
    BY <1>1 DEF SetupProducerEvents, AnnounceProducer, AnnounceClosed, CreateProducer, CloseProducers,
                producerVars, streamVars
  <2>2. QED
    BY <2>1 DEF Lives, StaysOpen
<1>2. CASE CloseSession
  <2>1. open' = FALSE /\ stage' = stage /\ \A c \in Channel : sfu_core # c
    BY <1>2, ChannelAssumption DEF CloseSession, MutexFree, streamVars
  <2>2. \A c \in Channel : stage[c] \notin {"confirming", "replaying"}
    BY <2>1 DEF Inv, Mutex
  <2>3. QED
    BY <2>1, <2>2 DEF Lives, StaysOpen
<1>3. CASE RouterDies
  BY <1>3 DEF RouterDies, streamVars, Lives, StaysOpen
<1>4. ASSUME NEW c \in Channel,
             \/ \E p \in ParticipantId : SubscribeToEvents(c, p)
             \/ SendConfirmed(c) \/ (\E x \in ProducerId : SendExisting(c, x)) \/ SubscribeReturn(c)
             \/ SubscribeDropped(c) \/ Receive(c) \/ StreamEnd(c) \/ Disconnect(c)
      PROVE  Lives' /\ StaysOpen'
  <2>1. open' = open /\ router_up' = router_up /\ closed' = closed
    BY <1>4 DEF SubscribeToEvents, SendConfirmed, SendExisting, SubscribeReturn, SubscribeDropped,
                Receive, StreamEnd, Disconnect, producerVars
  <2>2. \A d \in Channel : stage'[d] \in {"confirming", "replaying"} =>
          open \/ stage[d] \in {"confirming", "replaying"}
    BY <1>4 DEF SubscribeToEvents, SendConfirmed, SendExisting, SubscribeReturn, SubscribeDropped,
                Receive, StreamEnd, Disconnect, Inv, TypeOK
  <2>3. QED
    BY <2>1, <2>2 DEF Lives, StaysOpen
<1>5. CASE UNCHANGED vars
  BY <1>5 DEF vars, producerVars, streamVars, Lives, StaysOpen
<1>6. QED
  BY <1>1, <1>2, <1>3, <1>4, <1>5 DEF Next

(* What is replayed exists, as long as the router lives.                    *)
THEOREM ReplaysExist == Spec => []ReplayExists
<1>1. Spec => [](Inv /\ Lives /\ StaysOpen)
  BY InitInv, InvNext, LivesInit, LivesNext, PTL DEF Spec
<1>2. Inv /\ Lives /\ StaysOpen => ReplayExists
  BY DEF Inv, Replays, Lives, StaysOpen, ReplayExists
<1>3. QED
  BY <1>1, <1>2, PTL
-----------------------------------------------------------------------------
(* No sender of an orphaned stream is left, so no broadcast reaches it.     *)
LEMMA OrphanUnreached ==
  ASSUME Inv, NEW c \in Channel, Orphaned(c)
  PROVE  /\ stage[c] = "streaming" /\ subscriber[c] \in ParticipantId
         /\ \A p \in ParticipantId : event_senders[p] # c
<1>1. stage[c] = "streaming" /\ subscriber[c] \in ParticipantId
  BY DEF Orphaned, Inv, Senders
<1>2. CASE ~open
  BY <1>1, <1>2, ChannelAssumption DEF Inv, NoSenderOutlivesSession
<1>3. CASE event_senders[subscriber[c]] # c
  BY <1>1, <1>3 DEF Inv, Senders
<1>4. QED
  BY <1>1, <1>2, <1>3 DEF Orphaned

(* Whatever is under way when a stream is orphaned does not come into it.   *)
LEMMA OrphanStep ==
  ASSUME Inv, [Next]_vars, NEW c \in Channel, Orphaned(c)
  PROVE  /\ log'[c] = log[c] /\ lost'[c] = lost[c]
         /\ Orphaned(c)' \/ stage'[c] \in {"ended", "dropped"}
<1>1. /\ stage[c] = "streaming" /\ subscriber[c] \in ParticipantId
      /\ \A p \in ParticipantId : event_senders[p] # c
  BY OrphanUnreached
<1>t. /\ stage \in [Channel -> Stage] /\ subscriber \in [Channel -> ParticipantId \cup {NoOne}]
      /\ event_senders \in [ParticipantId -> Channel \cup {NoChannel}]
      /\ log \in [Channel -> Seq(Event)]
  BY DEF Inv, TypeOK, Stage
<1>2. ASSUME NEW e \in Event, NEW excluded, MutexFree, Broadcast(e, excluded),
             UNCHANGED <<open, event_senders, streamVars>>
      PROVE  log'[c] = log[c] /\ lost'[c] = lost[c] /\ Orphaned(c)'
  <2>1. c \notin Targets(excluded) /\ c \notin Reached(excluded)
    BY <1>1 DEF Targets, Reached
  <2>2. /\ log' = [d \in Channel |-> IF d \in Reached(excluded) THEN Append(log[d], e) ELSE log[d]]
        /\ lost' = [d \in Channel |-> IF d \in Targets(excluded) \ Reached(excluded)
                                      THEN lost[d] \cup {e} ELSE lost[d]]
    BY <1>2, BroadcastExtends DEF Extend, streamVars
  <2>3. QED
    BY <1>2, <2>1, <2>2 DEF Orphaned, streamVars
<1>3. ASSUME NEW x \in ProducerId, AnnounceProducer(x) \/ AnnounceClosed(x)
      PROVE  log'[c] = log[c] /\ lost'[c] = lost[c] /\ Orphaned(c)'
  BY <1>2, <1>3, Events DEF AnnounceProducer, AnnounceClosed
<1>4. CASE \/ \E x \in ProducerId : \/ SetupProducerEvents(x)
                                    \/ \E p \in ParticipantId : CreateProducer(x, p)
           \/ CloseSession \/ RouterDies
           \/ \E d \in Channel : Receive(d)
           \/ UNCHANGED vars
  <2>1. /\ UNCHANGED <<log, lost, stage, subscriber>>
        /\ ~open' \/ UNCHANGED <<open, event_senders>>
    BY <1>4 DEF CreateProducer, SetupProducerEvents, CloseSession, RouterDies, Receive, vars,
                streamVars, channelVars
  <2>2. QED
    BY <2>1 DEF Orphaned
<1>5. ASSUME NEW d \in Channel, NEW p \in ParticipantId, SubscribeToEvents(d, p)
      PROVE  log'[c] = log[c] /\ lost'[c] = lost[c] /\ Orphaned(c)'
  <2>1. d # c
    BY <1>1, <1>5 DEF SubscribeToEvents
  <2>2. /\ UNCHANGED <<open, log, lost>> /\ stage'[c] = stage[c] /\ subscriber'[c] = subscriber[c]
        /\ \A q \in ParticipantId : event_senders'[q] \in {event_senders[q], d}
    BY <1>5, <1>t, <2>1 DEF SubscribeToEvents, channelVars
  <2>3. QED
    BY <1>1, <2>1, <2>2 DEF Orphaned
<1>6. ASSUME NEW d \in Channel,
             \/ SendConfirmed(d) \/ (\E x \in ProducerId : SendExisting(d, x))
             \/ SubscribeReturn(d) \/ SubscribeDropped(d)
      PROVE  log'[c] = log[c] /\ lost'[c] = lost[c] /\ Orphaned(c)'
  <2>1. d # c
    BY <1>1, <1>6 DEF SendConfirmed, SendExisting, SubscribeReturn, SubscribeDropped
  <2>2. /\ UNCHANGED <<open, event_senders, subscriber, lost>>
        /\ stage'[c] = stage[c] /\ log'[c] = log[c]
    BY <1>6, <1>t, <2>1
    DEF SendConfirmed, SendExisting, SubscribeReturn, SubscribeDropped, channelVars
  <2>3. QED
    BY <2>2 DEF Orphaned
<1>7. ASSUME NEW d \in Channel, StreamEnd(d) \/ Disconnect(d)
      PROVE  /\ log'[c] = log[c] /\ lost'[c] = lost[c]
             /\ Orphaned(c)' \/ stage'[c] \in {"ended", "dropped"}
  <2>1. /\ UNCHANGED <<open, event_senders, subscriber, log, lost>>
        /\ IF d = c THEN stage'[c] \in {"ended", "dropped"} ELSE stage'[c] = stage[c]
    BY <1>7, <1>t DEF StreamEnd, Disconnect, channelVars
  <2>2. QED
    BY <2>1 DEF Orphaned
<1>8. QED
  BY <1>3, <1>4, <1>5, <1>6, <1>7 DEF Next

(* An orphaned stream stays so to its end, and what its client has yet to   *)
(* read is all there will ever be.                                          *)
THEOREM OrphansAreFinal == Spec => OrphanedIsFinal
<1>1. Inv /\ [Next]_vars =>
        [\A c \in Channel : Orphaned(c) =>
           /\ log'[c] = log[c] /\ lost'[c] = lost[c]
           /\ Orphaned(c)' \/ stage'[c] \in {"ended", "dropped"}]_vars
  BY OrphanStep
<1>2. QED
  BY <1>1, InvHolds, PTL DEF Spec, OrphanedIsFinal
-----------------------------------------------------------------------------
(* The refinement: Phase, step by step.                                     *)
LEMMA PhaseOf ==
  ASSUME NEW c \in Channel, TypeOK
  PROVE  /\ stage[c] = "unused" => Phase[c] = "unused"
         /\ stage[c] = "ended" => Phase[c] = "ended"
         /\ stage[c] = "dropped" => Phase[c] = "dropped"
         /\ stage[c] \in {"confirming", "replaying", "streaming"} => Phase[c] = "open"
BY DEF Phase, TypeOK

(* Streams whose stage stays keep their phase.                              *)
LEMMA PhaseKept ==
  ASSUME TypeOK, TypeOK', NEW D \in SUBSET Channel,
         \A d \in D : \/ stage'[d] = stage[d]
                      \/ {stage[d], stage'[d]} \subseteq {"confirming", "replaying", "streaming"}
  PROVE  \A d \in D : Phase'[d] = Phase[d]
BY DEF Phase, TypeOK

(* A step that changes no stage changes no phase.                           *)
LEMMA PhaseSame ==
  ASSUME TypeOK, TypeOK',
         \A d \in Channel : \/ stage'[d] = stage[d]
                            \/ {stage[d], stage'[d]} \subseteq {"confirming", "replaying", "streaming"}
  PROVE  Phase' = Phase
<1>1. \A d \in Channel : Phase'[d] = Phase[d]
  BY PhaseKept
<1> DEFINE P == Phase
<1>2. /\ P = [d \in Channel |-> P[d]] /\ P' = [d \in Channel |-> P'[d]]
  BY DEF Phase
<1>3. QED
  BY <1>1, <1>2

(* A step that changes the stage of one stream changes no other phase.      *)
LEMMA PhaseChanges ==
  ASSUME TypeOK, TypeOK', NEW c \in Channel, NEW st, stage' = [stage EXCEPT ![c] = st]
  PROVE  /\ st = "confirming" => Phase' = [Phase EXCEPT ![c] = "open"]
         /\ st = "ended" => Phase' = [Phase EXCEPT ![c] = "ended"]
         /\ st = "dropped" => Phase' = [Phase EXCEPT ![c] = "dropped"]
<1>1. stage'[c] = st /\ \A d \in Channel \ {c} : stage'[d] = stage[d]
  BY DEF TypeOK
<1>2. \A d \in Channel \ {c} : Phase'[d] = Phase[d]
  BY <1>1 DEF Phase
<1>3. /\ st = "confirming" => Phase'[c] = "open"
      /\ st = "ended" => Phase'[c] = "ended"
      /\ st = "dropped" => Phase'[c] = "dropped"
  BY <1>1 DEF Phase
<1> DEFINE P == Phase
<1>4. /\ P = [d \in Channel |-> P[d]] /\ P' = [d \in Channel |-> P'[d]]
  BY DEF Phase
<1>5. QED
  BY <1>2, <1>3, <1>4

(* Initially no stream has begun.                                           *)
LEMMA StreamsInit == Init => Streams!Init
<1> SUFFICES ASSUME Init PROVE Streams!Init
  OBVIOUS
<1>1. Phase = [c \in Channel |-> "unused"]
  BY DEF Init, Phase
<1>2. QED
  BY <1>1 DEF Init, Streams!Init

(* An event goes into confirmed streams, or confirms an empty one.          *)
LEMMA PutRefines ==
  ASSUME Inv, Inv', NEW e \in Event, NEW C \in SUBSET Channel, Extend(e, C), Phase' = Phase,
         \A c \in C : /\ stage[c] \in {"confirming", "replaying", "streaming"}
                      /\ log[c] = <<>> <=> e = SubscriptionConfirmed
  PROVE  Streams!Next
<1>1. \A c \in C : Phase[c] = "open"
  BY PhaseOf DEF Inv
<1>2. Streams!Put(e, C)
  BY <1>1 DEF Streams!Put, Extend, HasSpace
<1>3. QED
  BY <1>2 DEF Streams!Next

(* A broadcast puts its event into the streams it reaches.                  *)
LEMMA BroadcastRefines ==
  ASSUME Inv, Inv', MutexFree, NEW e \in Event, e # SubscriptionConfirmed, NEW excluded,
         Broadcast(e, excluded), UNCHANGED <<stage, read>>
  PROVE  Streams!Next
<1>1. /\ Extend(e, Reached(excluded))
      /\ \A c \in Targets(excluded) : stage[c] = "streaming" /\ log[c] # <<>>
  BY BroadcastExtends
<1>2. Reached(excluded) \in SUBSET Channel /\ Reached(excluded) \subseteq Targets(excluded)
  BY DEF Reached, Targets
<1>3. Phase' = Phase
  BY PhaseSame DEF Inv
<1>4. QED
  BY <1>1, <1>2, <1>3, PutRefines

(* Each step is one of EventStreams, or changes nothing of the streams.     *)
LEMMA StreamsNext == Inv /\ Inv' /\ [Next]_vars => [Streams!Next]_(Streams!vars)
<1> SUFFICES ASSUME Inv, Inv', [Next]_vars PROVE [Streams!Next]_(Streams!vars)
  OBVIOUS
<1>t. TypeOK /\ TypeOK'
  BY DEF Inv
<1>1. CASE UNCHANGED <<stage, log, read>>
  BY <1>t, <1>1, PhaseSame DEF Streams!vars
<1>2. ASSUME NEW x \in ProducerId, AnnounceProducer(x) PROVE Streams!Next
  <2>1. MutexFree /\ Broadcast(NewProducer(x), owner[x]) /\ UNCHANGED <<stage, read>>
    BY <1>2 DEF AnnounceProducer, streamVars
  <2>2. QED
    BY <2>1, Events, BroadcastRefines
<1>3. ASSUME NEW x \in ProducerId, AnnounceClosed(x) PROVE Streams!Next
  <2>1. MutexFree /\ Broadcast(ProducerClosed(x), NoOne) /\ UNCHANGED <<stage, read>>
    BY <1>3 DEF AnnounceClosed, streamVars
  <2>2. QED
    BY <2>1, Events, BroadcastRefines
<1>4. ASSUME NEW c \in Channel, NEW p \in ParticipantId, SubscribeToEvents(c, p) PROVE Streams!Next
  <2>1. stage[c] = "unused" /\ stage' = [stage EXCEPT ![c] = "confirming"] /\ UNCHANGED <<log, read>>
    BY <1>4 DEF SubscribeToEvents, channelVars
  <2>2. Phase[c] = "unused" /\ Phase' = [Phase EXCEPT ![c] = "open"]
    BY <1>t, <2>1, PhaseOf, PhaseChanges
  <2>3. QED
    BY <2>1, <2>2 DEF Streams!Next, Streams!Begin
<1>5. ASSUME NEW c \in Channel, SendConfirmed(c) PROVE Streams!Next
  <2>1. /\ stage[c] = "confirming" /\ HasSpace(c) /\ read' = read
        /\ log' = [log EXCEPT ![c] = Append(@, SubscriptionConfirmed)]
        /\ stage' = [stage EXCEPT ![c] = "replaying"]
    BY <1>5 DEF SendConfirmed
  <2>2. Extend(SubscriptionConfirmed, {c}) /\ log[c] = <<>>
    BY <1>t, <2>1, Events, PutExtends DEF Inv, Logs
  <2>3. Phase' = Phase
    <3>1. \A d \in Channel : stage'[d] = stage[d] \/ (d = c /\ stage'[d] = "replaying")
      BY <1>t, <2>1 DEF TypeOK
    <3>2. QED
      BY <1>t, <2>1, <3>1, PhaseSame
  <2>4. QED
    BY <2>1, <2>2, <2>3, Events, PutRefines
<1>6. ASSUME NEW c \in Channel, NEW x \in ProducerId, SendExisting(c, x) PROVE Streams!Next
  <2>1. /\ stage[c] = "replaying" /\ HasSpace(c) /\ UNCHANGED <<stage, read>>
        /\ log' = [log EXCEPT ![c] = Append(@, NewProducer(x))]
    BY <1>6 DEF SendExisting
  <2>2. Extend(NewProducer(x), {c}) /\ log[c] # <<>>
    BY <1>t, <2>1, Events, PutExtends DEF Inv, Logs
  <2>3. Phase' = Phase
    BY <1>t, <2>1, PhaseSame
  <2>4. QED
    BY <2>1, <2>2, <2>3, Events, PutRefines
<1>7. ASSUME NEW c \in Channel, SubscribeReturn(c) PROVE UNCHANGED Streams!vars
  <2>1. /\ stage[c] = "replaying" /\ stage' = [stage EXCEPT ![c] = "streaming"]
        /\ UNCHANGED <<log, read>>
    BY <1>7 DEF SubscribeReturn, channelVars
  <2>2. \A d \in Channel : stage'[d] = stage[d] \/ (d = c /\ stage'[d] = "streaming")
    BY <1>t, <2>1 DEF TypeOK
  <2>3. QED
    BY <1>t, <2>1, <2>2, PhaseSame DEF Streams!vars
<1>8. ASSUME NEW c \in Channel, SubscribeDropped(c) \/ Disconnect(c) PROVE Streams!Next
  <2>1. /\ stage[c] \in {"confirming", "replaying", "streaming"}
        /\ stage' = [stage EXCEPT ![c] = "dropped"] /\ UNCHANGED <<log, read>>
    BY <1>8 DEF SubscribeDropped, Disconnect, channelVars
  <2>2. Phase[c] = "open" /\ Phase' = [Phase EXCEPT ![c] = "dropped"]
    BY <1>t, <2>1, PhaseOf, PhaseChanges
  <2>3. QED
    BY <2>1, <2>2 DEF Streams!Next, Streams!Drop
<1>9. ASSUME NEW c \in Channel, StreamEnd(c) PROVE Streams!Next
  <2>1. /\ stage[c] = "streaming" /\ read[c] = Len(log[c])
        /\ stage' = [stage EXCEPT ![c] = "ended"] /\ UNCHANGED <<log, read>>
    BY <1>9 DEF StreamEnd, channelVars
  <2>2. Phase[c] = "open" /\ Phase' = [Phase EXCEPT ![c] = "ended"]
    BY <1>t, <2>1, PhaseOf, PhaseChanges
  <2>3. QED
    BY <2>1, <2>2 DEF Streams!Next, Streams!End
<1>10. ASSUME NEW c \in Channel, Receive(c) PROVE Streams!Next
  <2>1. /\ stage[c] = "streaming" /\ read[c] < Len(log[c]) /\ UNCHANGED <<stage, log>>
        /\ read' = [read EXCEPT ![c] = @ + 1]
    BY <1>10 DEF Receive, channelVars
  <2>2. Phase[c] = "open" /\ Phase' = Phase
    BY <1>t, <2>1, PhaseOf, PhaseSame
  <2>3. QED
    BY <2>1, <2>2 DEF Streams!Next, Streams!Take
<1>11. ASSUME \/ \E x \in ProducerId, p \in ParticipantId : CreateProducer(x, p)
              \/ \E x \in ProducerId : SetupProducerEvents(x)
              \/ CloseSession \/ RouterDies \/ UNCHANGED vars
       PROVE  UNCHANGED <<stage, log, read>>
  BY <1>11 DEF CreateProducer, SetupProducerEvents, CloseSession, RouterDies, vars, streamVars,
               channelVars
<1>12. QED
  BY <1>1, <1>2, <1>3, <1>4, <1>5, <1>6, <1>7, <1>8, <1>9, <1>10, <1>11 DEF Next

(* Every subscription is a stream as EventStreams describes it.             *)
THEOREM ImplementsStreams == Spec => StreamsSpec
BY InvHolds, StreamsInit, StreamsNext, PTL DEF Spec, StreamsSpec, Streams!Spec
=============================================================================
