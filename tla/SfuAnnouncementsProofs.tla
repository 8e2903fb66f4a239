----------------------- MODULE SfuAnnouncementsProofs -----------------------
(***************************************************************************)
(* Proofs about SfuEvents that count, how often a stream announces a       *)
(* producer, how often too late, and how many places a replay needs; and   *)
(* proofs about closes: how long a producer lives, and which closes a      *)
(* stream is told of.                                                      *)
(*                                                                         *)
(* Each has an invariant of its own on top of Inv.  Told says that a       *)
(* stream has, for each producer, two announcements to spend: one in its   *)
(* replay, one by the broadcast.  LateAnnouncement holds by itself once    *)
(* ReplayFirst says that no close is announced during a replay: the        *)
(* broadcast alone can come after one.  Fits keeps account of the channel  *)
(* while its call fills it.  ClosedExist is all that the lifetime needs    *)
(* besides.  A close that is announced was one before (ClosingClosed),     *)
(* and while the router lives no task can find a sender (TrulyNext).       *)
(***************************************************************************)
EXTENDS SfuEventsProofs, FiniteSetTheorems

\* A producer is set up, or about to be announced, once.
Once == setup \cap announcing = {}

\* 1 for what is yet to come, 0 for what is not.
One(yet) == IF yet THEN 1 ELSE 0

\* What is in a stream and what may still come into it.
Told ==
  \A c \in Channel, x \in ProducerId :
    Times(c, NewProducer(x)) + One(x \in replay[c]) + One(x \in Unannounced) <= 2

\* No close is announced in a stream before its replay is over.
ReplayFirst ==
  \A c \in Channel : stage[c] = "replaying" => \A x \in ProducerId : ~Put(c, ProducerClosed(x))

\* Places taken and places yet to be taken by a replay.
Fits ==
  /\ IsFiniteSet(Created)
  /\ \A c \in Channel : stage[c] = "replaying" =>
       /\ read[c] = 0
       /\ Len(log[c]) + Cardinality(replay[c]) = 1 + Cardinality(ExistingProducers(subscriber[c]))

Counts == Once /\ Told /\ ReplayFirst /\ LateAnnouncement /\ Fits
-----------------------------------------------------------------------------
(* Events of one kind in a channel, and late announcements, can be counted. *)
LEMMA Countable ==
  ASSUME TypeOK, NEW c \in Channel
  PROVE  /\ \A f : IsFiniteSet({i \in DOMAIN log[c] : log[c][i] = f}) /\ Times(c, f) \in Nat
         /\ \A x : IsFiniteSet(Late(c, x)) /\ Cardinality(Late(c, x)) \in Nat
<1>1. IsFiniteSet(DOMAIN log[c])
  <2>1. DOMAIN log[c] = 1 .. Len(log[c]) /\ Len(log[c]) \in Int
    BY LenProperties DEF TypeOK
  <2>2. \A n \in Int : IsFiniteSet(1 .. n)
    BY FS_Interval
  <2>3. QED
    BY <2>1, <2>2
<1>2. ASSUME NEW f
      PROVE  IsFiniteSet({i \in DOMAIN log[c] : log[c][i] = f}) /\ Times(c, f) \in Nat
  <2>1. IsFiniteSet({i \in DOMAIN log[c] : log[c][i] = f})
    BY <1>1, FS_Subset
  <2>2. QED
    BY <2>1, FS_CardinalityType DEF Times
<1>3. ASSUME NEW x
      PROVE  IsFiniteSet(Late(c, x)) /\ Cardinality(Late(c, x)) \in Nat
  <2>1. IsFiniteSet(Late(c, x))
    BY <1>1, FS_Subset DEF Late
  <2>2. QED
    BY <2>1, FS_CardinalityType
<1>4. QED
  BY <1>2, <1>3

(* An event is counted where it is put, and only there.                     *)
LEMMA TimesExtend ==
  ASSUME TypeOK, NEW e \in Event, NEW C \in SUBSET Channel, Extend(e, C), NEW c \in Channel, NEW f
  PROVE  Times(c, f)' = Times(c, f) + One(c \in C /\ e = f)
<1> DEFINE At == {i \in DOMAIN log[c] : log[c][i] = f}
<1>t. IsFiniteSet(At) /\ Times(c, f) \in Nat
  BY Countable
<1>1. CASE c \in C /\ e = f
  <2>1. /\ DOMAIN log'[c] = DOMAIN log[c] \cup {Len(log[c]) + 1} /\ log'[c][Len(log[c]) + 1] = f
        /\ \A i \in DOMAIN log[c] : log'[c][i] = log[c][i]
    BY <1>1, LogEntries
  <2>2. At' = At \cup {Len(log[c]) + 1} /\ Len(log[c]) + 1 \notin At
    <3>1. Len(log[c]) + 1 \notin DOMAIN log[c]
      BY LenProperties DEF TypeOK
    <3>2. QED
      BY <2>1, <3>1
  <2> HIDE DEF At
  <2>3. Cardinality(At') = Cardinality(At) + 1
    BY <1>t, <2>2, FS_AddElement
  <2> USE DEF At
  <2>4. QED
    BY <1>1, <2>3 DEF Times, One
<1>2. CASE ~(c \in C /\ e = f)
  <2>1. /\ DOMAIN log[c] \subseteq DOMAIN log'[c]
        /\ \A i \in DOMAIN log[c] : log'[c][i] = log[c][i]
        /\ \A i \in DOMAIN log'[c] \ DOMAIN log[c] : log'[c][i] # f
    <3>1. CASE c \in C
      BY <1>2, <3>1, LogEntries
    <3>2. CASE c \notin C
      BY <3>2, LogEntries
    <3>3. QED
      BY <3>1, <3>2
  <2>2. At' = At
    BY <2>1
  <2>3. Times(c, f)' = Times(c, f)
    BY <2>2 DEF Times
  <2>4. QED
    BY <1>t, <1>2, <2>3 DEF One
<1>3. QED
  BY <1>1, <1>2

(* An announcement is late if a close was put into the channel before.      *)
LEMMA LateExtend ==
  ASSUME TypeOK, NEW e \in Event, NEW C \in SUBSET Channel, Extend(e, C), NEW c \in Channel,
         NEW x \in ProducerId
  PROVE  Cardinality(Late(c, x)') =
           Cardinality(Late(c, x)) + One(c \in C /\ e = NewProducer(x) /\ Put(c, ProducerClosed(x)))
<1> DEFINE n == Len(log[c]) + 1
<1>t. DOMAIN log[c] = 1 .. Len(log[c]) /\ Len(log[c]) \in Nat
  BY LenProperties DEF TypeOK
<1>1. /\ \A i \in DOMAIN log[c] : i \in DOMAIN log'[c] /\ log'[c][i] = log[c][i]
      /\ c \notin C => log'[c] = log[c]
      /\ c \in C => DOMAIN log'[c] = DOMAIN log[c] \cup {n} /\ log'[c][n] = e
  BY LogEntries
<1>2. \A i \in DOMAIN log[c] : i \in Late(c, x)' <=> i \in Late(c, x)
  <2> SUFFICES ASSUME NEW i \in DOMAIN log[c] PROVE i \in Late(c, x)' <=> i \in Late(c, x)
    OBVIOUS
  <2>1. \A j \in 1 .. i - 1 : j \in DOMAIN log[c]
    BY <1>t
  <2>2. QED
    BY <1>1, <2>1 DEF Late
<1>3. Late(c, x)' \subseteq DOMAIN log'[c] /\ Late(c, x) \subseteq DOMAIN log[c]
  BY DEF Late
<1>4. CASE c \in C
  <2>1. n \in Late(c, x)' <=> e = NewProducer(x) /\ Put(c, ProducerClosed(x))
    <3>1. 1 .. n - 1 = DOMAIN log[c]
      BY <1>t
    <3>2. n \in Late(c, x)' <=> e = NewProducer(x) /\ \E j \in 1 .. n - 1 : log'[c][j] = ProducerClosed(x)
      BY <1>1, <1>4 DEF Late
    <3>3. QED
      BY <1>1, <3>1, <3>2 DEF Put
  <2>2. n \notin DOMAIN log[c]
    BY <1>t
  <2>3. CASE e = NewProducer(x) /\ Put(c, ProducerClosed(x))
    <3>1. Late(c, x)' = Late(c, x) \cup {n} /\ n \notin Late(c, x)
      BY <1>1, <1>2, <1>3, <1>4, <2>1, <2>2, <2>3
    <3>2. QED
      BY <1>4, <2>3, <3>1, FS_AddElement, Countable DEF One
  <2>4. CASE ~(e = NewProducer(x) /\ Put(c, ProducerClosed(x)))
    <3>1. Late(c, x)' = Late(c, x)
      BY <1>1, <1>2, <1>3, <1>4, <2>1, <2>4
    <3>2. QED
      BY <2>4, <3>1, Countable DEF One
  <2>5. QED
    BY <2>3, <2>4
<1>5. CASE c \notin C
  <2>1. Late(c, x)' = Late(c, x)
    BY <1>1, <1>2, <1>3, <1>5
  <2>2. QED
    BY <1>5, <2>1, Countable DEF One
<1>6. QED
  BY <1>4, <1>5
-----------------------------------------------------------------------------
(* Steps that put nothing into any stream and let no replay begin.  Only    *)
(* the end of a replay may change what is to be replayed.                   *)
LEMMA QuietSteps ==
  ASSUME Inv, Fits,
         \/ \E x \in ProducerId : \/ \E p \in ParticipantId : CreateProducer(x, p)
                                  \/ SetupProducerEvents(x)
         \/ CloseSession \/ RouterDies \/ UNCHANGED vars
         \/ \E c \in Channel : \/ \E p \in ParticipantId : SubscribeToEvents(c, p)
                               \/ SubscribeReturn(c) \/ SubscribeDropped(c)
                               \/ Receive(c) \/ StreamEnd(c) \/ Disconnect(c)
  PROVE  /\ log' = log
         /\ \A c \in Channel : replay'[c] \subseteq replay[c]
         /\ \A c \in Channel : stage'[c] = "replaying" =>
              /\ stage[c] = "replaying" /\ replay'[c] = replay[c] /\ read'[c] = read[c]
              /\ ExistingProducers(subscriber[c])' = ExistingProducers(subscriber[c])
         /\ IsFiniteSet(Created')
<1>1. CASE \E x \in ProducerId, p \in ParticipantId : CreateProducer(x, p)
  <2>1. PICK x \in ProducerId, p \in ParticipantId : CreateProducer(x, p)
    BY <1>1
  <2>2. UNCHANGED <<log, replay, stage, read, subscriber>> /\ \A c \in Channel : stage[c] # "replaying"
    BY <2>1, ChannelAssumption DEF CreateProducer, streamVars, channelVars, MutexFree, Inv, Mutex
  <2>3. Created' = Created \cup {x}
    BY <2>1, MemberAssumption DEF CreateProducer, Created, Inv, TypeOK
  <2>4. IsFiniteSet(Created')
    BY <2>3, FS_AddElement DEF Fits
  <2>5. QED
    BY <2>2, <2>4
<1>2. ASSUME UNCHANGED <<log, owner>>
      PROVE  Created' = Created /\ \A p : ExistingProducers(p)' = ExistingProducers(p)
  BY <1>2 DEF Created, ExistingProducers
<1>3. CASE \/ \E x \in ProducerId : SetupProducerEvents(x)
           \/ CloseSession \/ RouterDies \/ UNCHANGED vars
  <2>1. UNCHANGED <<log, owner, replay, stage, read, subscriber>>
    BY <1>3 DEF SetupProducerEvents, CloseSession, RouterDies, vars, producerVars, streamVars,
                channelVars
  <2>2. QED
    BY <1>2, <2>1 DEF Fits
<1>4. ASSUME NEW c \in Channel, NEW p \in ParticipantId, SubscribeToEvents(c, p)
      PROVE  /\ UNCHANGED <<log, owner, replay, read>>
             /\ \A d \in Channel : stage'[d] = "replaying" =>
                  stage[d] = "replaying" /\ subscriber'[d] = subscriber[d]
  BY <1>4 DEF SubscribeToEvents, producerVars, channelVars, Inv, TypeOK
<1>5. ASSUME NEW c \in Channel, SubscribeReturn(c) \/ SubscribeDropped(c)
      PROVE  /\ UNCHANGED <<log, owner, read, subscriber>>
             /\ \A d \in Channel : replay'[d] \subseteq replay[d]
             /\ \A d \in Channel : stage'[d] = "replaying" =>
                  stage[d] = "replaying" /\ replay'[d] = replay[d]
  BY <1>5 DEF SubscribeReturn, SubscribeDropped, producerVars, channelVars, Inv, TypeOK
<1>6. ASSUME NEW c \in Channel, Receive(c) \/ StreamEnd(c) \/ Disconnect(c)
      PROVE  /\ UNCHANGED <<log, owner, replay, subscriber>>
             /\ \A d \in Channel : stage'[d] = "replaying" =>
                  stage[d] = "replaying" /\ read'[d] = read[d]
  BY <1>6 DEF Receive, StreamEnd, Disconnect, producerVars, channelVars, Inv, TypeOK
<1>7. QED
  BY <1>1, <1>2, <1>3, <1>4, <1>5, <1>6 DEF Fits

(* What they leave of the tasks: a producer is announced after its set-up.  *)
LEMMA QuietTasks ==
  ASSUME Inv, Once,
         \/ \E x \in ProducerId : SetupProducerEvents(x)
         \/ CloseSession \/ RouterDies \/ UNCHANGED vars
         \/ \E c \in Channel : \/ \E p \in ParticipantId : SubscribeToEvents(c, p)
                               \/ SubscribeReturn(c) \/ SubscribeDropped(c)
                               \/ Receive(c) \/ StreamEnd(c) \/ Disconnect(c)
  PROVE  Once' /\ Unannounced' = Unannounced
<1>1. CASE \E x \in ProducerId : SetupProducerEvents(x)
  BY <1>1 DEF SetupProducerEvents, Once, Unannounced
<1>2. CASE ~\E x \in ProducerId : SetupProducerEvents(x)
  <2>1. UNCHANGED <<setup, announcing>>
    BY <1>2 DEF CloseSession, RouterDies, vars, SubscribeToEvents, SubscribeReturn, SubscribeDropped,
                Receive, StreamEnd, Disconnect, producerVars
  <2>2. QED
    BY <2>1 DEF Once, Unannounced
<1>3. QED
  BY <1>1, <1>2
-----------------------------------------------------------------------------
(* Nothing was told, and nothing is to be told, at first.                   *)
LEMMA CountsInit == Init => Counts
<1> SUFFICES ASSUME Init PROVE Counts
  OBVIOUS
<1>1. \A c \in Channel : DOMAIN log[c] = {} /\ replay[c] = {} /\ stage[c] = "unused"
  BY EmptySeq DEF Init
<1>2. Once /\ ReplayFirst /\ Unannounced = {} /\ Created = {}
  BY <1>1 DEF Init, Once, ReplayFirst, Unannounced, Created
<1>3. Told
  <2>1. \A c \in Channel : \A f : Times(c, f) = 0
    BY <1>1, FS_EmptySet DEF Times
  <2>2. QED
    BY <1>1, <1>2, <2>1 DEF Told, One
<1>4. LateAnnouncement
  <2>1. \A c \in Channel, x \in ProducerId : Late(c, x) = {}
    BY <1>1 DEF Late
  <2>2. QED
    BY <1>2, <2>1, FS_EmptySet DEF LateAnnouncement
<1>5. Fits
  BY <1>1, <1>2, FS_EmptySet DEF Fits
<1>6. QED
  BY <1>2, <1>3, <1>4, <1>5 DEF Counts
-----------------------------------------------------------------------------
(* Of a producer that does not exist nothing was told.                      *)
LEMMA NothingTold ==
  ASSUME Inv, NEW c \in Channel, NEW x \in ProducerId \ Created
  PROVE  Times(c, NewProducer(x)) = 0 /\ x \notin replay[c] /\ Cardinality(Late(c, x)) = 0
<1>1. \A i \in DOMAIN log[c] : log[c][i] # NewProducer(x)
  BY DEF Inv, Heard, ExistingProducers
<1>2. {i \in DOMAIN log[c] : log[c][i] = NewProducer(x)} = {} /\ Late(c, x) = {}
  BY <1>1 DEF Late
<1>3. QED
  BY <1>2, FS_EmptySet DEF Times, Inv, Replays, ExistingProducers

(* A new producer has both of its announcements to come.                    *)
LEMMA CreateCounts ==
  ASSUME Inv, Counts, NEW x \in ProducerId, NEW p \in ParticipantId, CreateProducer(x, p)
  PROVE  Once' /\ Told' /\ LateAnnouncement'
<1>1. /\ x \notin Created /\ setup' = setup \cup {x}
      /\ UNCHANGED <<announcing, log, replay>>
  BY DEF CreateProducer, streamVars, channelVars
<1>2. Unannounced' = Unannounced \cup {x} /\ x \notin announcing
  BY <1>1 DEF Unannounced, Inv, Producers
<1>3. Once'
  BY <1>1, <1>2 DEF Counts, Once
<1>4. \A c \in Channel : \A f : Times(c, f)' = Times(c, f) /\ Times(c, f) \in Nat
  BY <1>1, Countable DEF Times, Inv
<1>5. Told'
  <2> SUFFICES ASSUME NEW c \in Channel, NEW y \in ProducerId
               PROVE  Times(c, NewProducer(y))' + One(y \in replay'[c]) + One(y \in Unannounced') <= 2
    BY DEF Told
  <2>1. CASE y = x
    BY <1>1, <1>4, <2>1, NothingTold DEF One
  <2>2. CASE y # x
    BY <1>1, <1>2, <1>4, <2>2 DEF Counts, Told
  <2>3. QED
    BY <2>1, <2>2
<1>6. LateAnnouncement'
  <2> SUFFICES ASSUME NEW c \in Channel, NEW y \in ProducerId
               PROVE  Cardinality(Late(c, y)') <= IF y \in Unannounced' THEN 0 ELSE 1
    BY DEF LateAnnouncement
  <2>1. Late(c, y)' = Late(c, y)
    BY <1>1 DEF Late
  <2>2. CASE y = x
    BY <1>1, <1>2, <2>1, <2>2, NothingTold
  <2>3. CASE y # x
    BY <1>2, <2>1, <2>3 DEF Counts, LateAnnouncement
  <2>4. QED
    BY <2>2, <2>3
<1>7. QED
  BY <1>3, <1>5, <1>6

(* Steps that put nothing into any stream keep all accounts.                *)
LEMMA QuietCounts ==
  ASSUME Inv, Counts,
         \/ \E x \in ProducerId : \/ \E p \in ParticipantId : CreateProducer(x, p)
                                  \/ SetupProducerEvents(x)
         \/ CloseSession \/ RouterDies \/ UNCHANGED vars
         \/ \E c \in Channel : \/ \E p \in ParticipantId : SubscribeToEvents(c, p)
                               \/ SubscribeReturn(c) \/ SubscribeDropped(c)
                               \/ Receive(c) \/ StreamEnd(c) \/ Disconnect(c)
  PROVE  Counts'
<1>1. /\ log' = log
      /\ \A c \in Channel : replay'[c] \subseteq replay[c]
      /\ \A c \in Channel : stage'[c] = "replaying" =>
           /\ stage[c] = "replaying" /\ replay'[c] = replay[c] /\ read'[c] = read[c]
           /\ ExistingProducers(subscriber[c])' = ExistingProducers(subscriber[c])
      /\ IsFiniteSet(Created')
  BY QuietSteps DEF Counts
<1>2. ReplayFirst' /\ Fits'
  BY <1>1 DEF Counts, ReplayFirst, Fits, Put
<1>3. CASE \E x \in ProducerId, p \in ParticipantId : CreateProducer(x, p)
  BY <1>2, <1>3, CreateCounts DEF Counts
<1>4. CASE ~\E x \in ProducerId, p \in ParticipantId : CreateProducer(x, p)
  <2>1. Once' /\ Unannounced' = Unannounced
    <3>1. \/ \E x \in ProducerId : SetupProducerEvents(x)
          \/ CloseSession \/ RouterDies \/ UNCHANGED vars
          \/ \E c \in Channel : \/ \E p \in ParticipantId : SubscribeToEvents(c, p)
                                \/ SubscribeReturn(c) \/ SubscribeDropped(c)
                                \/ Receive(c) \/ StreamEnd(c) \/ Disconnect(c)
      BY <1>4
    <3>2. Once
      BY DEF Counts
    <3>3. QED
      BY <3>1, <3>2, QuietTasks
  <2>2. Told'
    <3> SUFFICES ASSUME NEW c \in Channel, NEW x \in ProducerId
                 PROVE  Times(c, NewProducer(x))' + One(x \in replay'[c]) + One(x \in Unannounced') <= 2
      BY DEF Told
    <3>1. Times(c, NewProducer(x))' = Times(c, NewProducer(x)) /\ Times(c, NewProducer(x)) \in Nat
      BY <1>1, Countable DEF Times, Inv
    <3>2. One(x \in replay'[c]) <= One(x \in replay[c]) /\ One(x \in replay[c]) \in Nat
      BY <1>1 DEF One
    <3>3. Times(c, NewProducer(x)) + One(x \in replay[c]) + One(x \in Unannounced) <= 2
      BY DEF Counts, Told
    <3>4. One(x \in Unannounced) \in Nat /\ One(x \in replay'[c]) \in Nat
      BY DEF One
    <3>5. One(x \in Unannounced') = One(x \in Unannounced)
      BY <2>1
    <3>6. QED
      BY <3>1, <3>2, <3>3, <3>4, <3>5
  <2>3. LateAnnouncement'
    BY <1>1, <2>1 DEF Counts, LateAnnouncement, Late
  <2>4. QED
    BY <1>2, <2>1, <2>2, <2>3 DEF Counts
<1>5. QED
  BY <1>3, <1>4
-----------------------------------------------------------------------------
(* The two ways into a stream, each with what it adds to the accounts.      *)
LEMMA TellCounts ==
  ASSUME Inv, Counts, NEW e \in Event, NEW C \in SUBSET Channel, Extend(e, C),
         NEW c \in Channel, NEW x \in ProducerId
  PROVE  /\ e # NewProducer(x) => /\ Times(c, NewProducer(x))' = Times(c, NewProducer(x))
                                  /\ Cardinality(Late(c, x)') = Cardinality(Late(c, x))
         /\ Times(c, NewProducer(x)) \in Nat
         /\ Times(c, NewProducer(x))' <= Times(c, NewProducer(x)) + 1
         /\ Times(c, NewProducer(x))' \in Nat
         /\ Cardinality(Late(c, x)) \in Nat /\ Cardinality(Late(c, x)') \in Nat
         /\ Cardinality(Late(c, x)') <= Cardinality(Late(c, x)) + 1
         /\ ~Put(c, ProducerClosed(x)) => Cardinality(Late(c, x)') = Cardinality(Late(c, x))
<1>1. /\ Times(c, NewProducer(x))' =
           Times(c, NewProducer(x)) + One(c \in C /\ e = NewProducer(x))
      /\ Times(c, NewProducer(x)) \in Nat
  <2>1. TypeOK
    BY DEF Inv
  <2>2. Times(c, NewProducer(x)) \in Nat
    BY <2>1, Countable
  <2>3. QED
    BY <2>1, <2>2, TimesExtend
<1>2. /\ Cardinality(Late(c, x)') = Cardinality(Late(c, x))
           + One(c \in C /\ e = NewProducer(x) /\ Put(c, ProducerClosed(x)))
      /\ Cardinality(Late(c, x)) \in Nat
  BY LateExtend, Countable DEF Inv
<1> DEFINE told == Times(c, NewProducer(x))
           late == Cardinality(Late(c, x))
           a == One(c \in C /\ e = NewProducer(x))
           b == One(c \in C /\ e = NewProducer(x) /\ Put(c, ProducerClosed(x)))
<1>4. /\ a \in {0, 1} /\ b \in {0, 1}
      /\ e # NewProducer(x) => a = 0 /\ b = 0
      /\ ~Put(c, ProducerClosed(x)) => b = 0
  BY DEF One
<1>5. told' = told + a /\ told \in Nat /\ late' = late + b /\ late \in Nat
  BY <1>1, <1>2
<1> HIDE DEF told, late, a, b
<1>6. /\ e # NewProducer(x) => told' = told /\ late' = late
      /\ told' <= told + 1 /\ told' \in Nat /\ late' \in Nat /\ late' <= late + 1
      /\ ~Put(c, ProducerClosed(x)) => late' = late
  BY <1>4, <1>5
<1>7. QED
  BY <1>5, <1>6 DEF told, late

(* A broadcast reaches no replay, so it takes none of its places.           *)
LEMMA BroadcastQuiet ==
  ASSUME Inv, Counts, MutexFree, NEW e \in Event, NEW excluded, Broadcast(e, excluded),
         UNCHANGED <<owner, stage, subscriber, replay, read>>
  PROVE  ReplayFirst' /\ Fits'
<1>1. \A c \in Channel : stage[c] # "replaying"
  BY ChannelAssumption DEF MutexFree, Inv, Mutex
<1>2. Created' = Created
  BY DEF Created
<1>3. QED
  BY <1>1, <1>2 DEF Counts, ReplayFirst, Fits

(* The broadcast of a producer is the last that was to come of it.          *)
LEMMA AnnounceProducerCounts ==
  ASSUME Inv, Counts, NEW x \in ProducerId, AnnounceProducer(x)
  PROVE  Counts'
<1>1. /\ MutexFree /\ x \in announcing /\ announcing' = announcing \ {x}
      /\ Broadcast(NewProducer(x), owner[x])
      /\ UNCHANGED <<owner, setup, stage, subscriber, replay, read>>
  BY DEF AnnounceProducer, streamVars
<1>2. NewProducer(x) \in Event /\ \A y \in ProducerId : NewProducer(y) = NewProducer(x) => y = x
  BY Events
<1>3. ReplayFirst' /\ Fits'
  BY <1>1, <1>2, BroadcastQuiet
<1>4. Once' /\ Unannounced' = Unannounced \ {x} /\ x \in Unannounced
  BY <1>1 DEF Counts, Once, Unannounced
<1>5. Extend(NewProducer(x), Reached(owner[x])) /\ Reached(owner[x]) \in SUBSET Channel
  BY <1>1, <1>2, BroadcastExtends DEF Reached, Targets
<1>6. Told'
  <2> SUFFICES ASSUME NEW c \in Channel, NEW y \in ProducerId
               PROVE  Times(c, NewProducer(y))' + One(y \in replay[c]) + One(y \in Unannounced') <= 2
    BY <1>1 DEF Told
  <2>1. Times(c, NewProducer(y)) + One(y \in replay[c]) + One(y \in Unannounced) <= 2
    BY DEF Counts, Told
  <2>2. /\ NewProducer(x) # NewProducer(y) => Times(c, NewProducer(y))' = Times(c, NewProducer(y))
        /\ Times(c, NewProducer(y)) \in Nat /\ Times(c, NewProducer(y))' \in Nat
        /\ Times(c, NewProducer(y))' <= Times(c, NewProducer(y)) + 1
    BY <1>2, <1>5, TellCounts
  <2>3. One(y \in replay[c]) \in Nat /\ One(TRUE) = 1 /\ One(FALSE) = 0
    BY DEF One
  <2>4. CASE y = x
    <3>1. (y \in Unannounced) = TRUE /\ (y \in Unannounced') = FALSE
      BY <1>4, <2>4
    <3>2. One(y \in Unannounced) = 1 /\ One(y \in Unannounced') = 0
      BY <2>3, <3>1
    <3>3. QED
      BY <2>1, <2>2, <2>3, <3>2
  <2>5. CASE y # x
    <3>1. One(y \in Unannounced') = One(y \in Unannounced)
      BY <1>4, <2>5 DEF One
    <3>2. QED
      BY <1>2, <2>1, <2>2, <2>5, <3>1
  <2>6. QED
    BY <2>4, <2>5
<1>7. LateAnnouncement'
  <2> SUFFICES ASSUME NEW c \in Channel, NEW y \in ProducerId
               PROVE  Cardinality(Late(c, y)') <= IF y \in Unannounced' THEN 0 ELSE 1
    BY DEF LateAnnouncement
  <2>1. Cardinality(Late(c, y)) <= IF y \in Unannounced THEN 0 ELSE 1
    BY DEF Counts, LateAnnouncement
  <2>2. /\ NewProducer(x) # NewProducer(y) => Cardinality(Late(c, y)') = Cardinality(Late(c, y))
        /\ Cardinality(Late(c, y)) \in Nat /\ Cardinality(Late(c, y)') \in Nat
        /\ Cardinality(Late(c, y)') <= Cardinality(Late(c, y)) + 1
    BY <1>2, <1>5, TellCounts
  <2>3. QED
    BY <1>2, <1>4, <2>1, <2>2
<1>8. QED
  BY <1>3, <1>4, <1>6, <1>7 DEF Counts

(* The broadcast of a close announces nothing.                              *)
LEMMA AnnounceClosedCounts ==
  ASSUME Inv, Counts, NEW x \in ProducerId, AnnounceClosed(x)
  PROVE  Counts'
<1>1. /\ MutexFree /\ Broadcast(ProducerClosed(x), NoOne)
      /\ UNCHANGED <<owner, setup, announcing, stage, subscriber, replay, read>>
  BY DEF AnnounceClosed, streamVars
<1>2. ProducerClosed(x) \in Event /\ \A y \in ProducerId : NewProducer(y) # ProducerClosed(x)
  BY Events
<1>3. ReplayFirst' /\ Fits'
  BY <1>1, <1>2, BroadcastQuiet
<1>4. Once' /\ Unannounced' = Unannounced
  BY <1>1 DEF Counts, Once, Unannounced
<1>5. Extend(ProducerClosed(x), Reached(NoOne)) /\ Reached(NoOne) \in SUBSET Channel
  BY <1>1, <1>2, BroadcastExtends DEF Reached, Targets
<1>6. \A c \in Channel, y \in ProducerId :
        /\ Times(c, NewProducer(y))' = Times(c, NewProducer(y))
        /\ Cardinality(Late(c, y)') = Cardinality(Late(c, y))
  BY <1>2, <1>5, TellCounts
<1>7. Told' /\ LateAnnouncement'
  BY <1>1, <1>4, <1>6 DEF Counts, Told, LateAnnouncement
<1>8. QED
  BY <1>3, <1>4, <1>7 DEF Counts
-----------------------------------------------------------------------------
(* The confirmation opens the accounts of a stream: it has told nothing, and *)
(* there is one place for each producer that is to be replayed.             *)
LEMMA SendConfirmedCounts ==
  ASSUME Inv, Counts, NEW c \in Channel, SendConfirmed(c)
  PROVE  Counts'
<1> DEFINE existing == ExistingProducers(subscriber[c])
<1>1. /\ stage[c] = "confirming" /\ HasSpace(c)
      /\ log' = [log EXCEPT ![c] = Append(@, SubscriptionConfirmed)]
      /\ replay' = [replay EXCEPT ![c] = existing]
      /\ stage' = [stage EXCEPT ![c] = "replaying"]
      /\ UNCHANGED <<owner, setup, announcing, subscriber, read>>
  BY DEF SendConfirmed, producerVars
<1>2. /\ SubscriptionConfirmed \in Event
      /\ \A x \in ProducerId : /\ NewProducer(x) # SubscriptionConfirmed
                               /\ ProducerClosed(x) # SubscriptionConfirmed
  BY Events
<1>3. Extend(SubscriptionConfirmed, {c}) /\ TypeOK
  BY <1>1, <1>2, PutExtends DEF Inv
<1>4. log[c] = <<>> /\ Len(log[c]) = 0 /\ DOMAIN log[c] = {} /\ read[c] = 0 /\ Len(log'[c]) = 1
  <2>1. log[c] = <<>> /\ read[c] <= Len(log[c]) /\ read[c] \in Nat /\ log[c] \in Seq(Event)
    BY <1>1 DEF Inv, Logs, TypeOK
  <2>2. Len(log'[c]) = Len(log[c]) + 1
    BY <1>1, <1>2, <2>1 DEF Inv, TypeOK
  <2>3. QED
    BY <2>1, <2>2, EmptySeq
<1>5. /\ Once' /\ Unannounced' = Unannounced /\ Created' = Created
      /\ \A p : ExistingProducers(p)' = ExistingProducers(p)
  BY <1>1 DEF Counts, Once, Unannounced, Created, ExistingProducers
<1>6. \A d \in Channel, x \in ProducerId :
        /\ Times(d, NewProducer(x))' = Times(d, NewProducer(x))
        /\ Cardinality(Late(d, x)') = Cardinality(Late(d, x))
  BY <1>2, <1>3, TellCounts
<1>7. \A x : Times(c, NewProducer(x)) = 0
  BY <1>4, FS_EmptySet DEF Times
<1>d. \A d \in Channel \ {c} : replay'[d] = replay[d] /\ stage'[d] = stage[d] /\ log'[d] = log[d]
  BY <1>1
<1>8. Told'
  <2> SUFFICES ASSUME NEW d \in Channel, NEW x \in ProducerId
               PROVE  Times(d, NewProducer(x))' + One(x \in replay'[d]) + One(x \in Unannounced') <= 2
    BY DEF Told
  <2>1. CASE d = c
    BY <1>6, <1>7, <2>1 DEF One
  <2>2. CASE d # c
    BY <1>5, <1>6, <1>d, <2>2 DEF Counts, Told
  <2>3. QED
    BY <2>1, <2>2
<1>9. LateAnnouncement'
  BY <1>5, <1>6 DEF Counts, LateAnnouncement
<1>10. ReplayFirst'
  <2>1. \A i \in DOMAIN log'[c] : log'[c][i] = SubscriptionConfirmed
    BY <1>2, <1>3, <1>4, LogEntries
  <2>2. \A x \in ProducerId : ~Put(c, ProducerClosed(x))'
    BY <1>2, <2>1 DEF Put
  <2>3. \A d \in Channel \ {c} : stage'[d] = "replaying" =>
          \A x \in ProducerId : ~Put(d, ProducerClosed(x))'
    BY <1>d DEF Counts, ReplayFirst, Put
  <2>4. QED
    BY <2>2, <2>3 DEF ReplayFirst
<1>11. Fits'
  <2>1. IsFiniteSet(existing) /\ Cardinality(existing) \in Nat
    BY FS_Subset, FS_CardinalityType DEF Counts, Fits, ExistingProducers
  <2>2. replay'[c] = existing
    BY <1>1 DEF Inv, TypeOK
  <2>3. \A d \in Channel \ {c} : stage'[d] = "replaying" =>
          /\ read'[d] = 0
          /\ Len(log'[d]) + Cardinality(replay'[d]) = 1 + Cardinality(ExistingProducers(subscriber[d])')
    BY <1>1, <1>5, <1>d DEF Counts, Fits
  <2>4. QED
    BY <1>1, <1>4, <1>5, <2>1, <2>2, <2>3 DEF Counts, Fits
<1>12. QED
  BY <1>5, <1>8, <1>9, <1>10, <1>11 DEF Counts

(* A producer that is replayed is no longer to be replayed.                 *)
LEMMA SendExistingCounts ==
  ASSUME Inv, Counts, NEW c \in Channel, NEW x \in ProducerId, SendExisting(c, x)
  PROVE  Counts'
<1>1. /\ stage[c] = "replaying" /\ x \in replay[c] /\ HasSpace(c)
      /\ log' = [log EXCEPT ![c] = Append(@, NewProducer(x))]
      /\ replay' = [replay EXCEPT ![c] = @ \ {x}]
      /\ UNCHANGED <<owner, setup, announcing, stage, subscriber, read>>
  BY DEF SendExisting, producerVars
<1>2. /\ NewProducer(x) \in Event
      /\ \A y \in ProducerId : /\ NewProducer(y) = NewProducer(x) => y = x
                               /\ ProducerClosed(y) # NewProducer(x)
  BY Events
<1>3. Extend(NewProducer(x), {c}) /\ TypeOK
  BY <1>1, <1>2, PutExtends DEF Inv
<1>4. /\ Once' /\ Unannounced' = Unannounced /\ Created' = Created
      /\ \A p : ExistingProducers(p)' = ExistingProducers(p)
  BY <1>1 DEF Counts, Once, Unannounced, Created, ExistingProducers
<1>d. /\ \A d \in Channel \ {c} : replay'[d] = replay[d] /\ log'[d] = log[d]
      /\ replay'[c] = replay[c] \ {x}
  BY <1>1, <1>3 DEF TypeOK
<1>5. Told'
  <2> SUFFICES ASSUME NEW d \in Channel, NEW y \in ProducerId
               PROVE  Times(d, NewProducer(y))' + One(y \in replay'[d]) + One(y \in Unannounced') <= 2
    BY DEF Told
  <2>1. Times(d, NewProducer(y)) + One(y \in replay[d]) + One(y \in Unannounced) <= 2
    BY DEF Counts, Told
  <2>2. Times(d, NewProducer(y)) \in Nat
    BY <1>3, Countable
  <2>3. CASE d = c /\ y = x
    <3>1. Times(d, NewProducer(y))' = Times(d, NewProducer(y)) + 1
      BY <1>2, <1>3, <2>2, <2>3, TimesExtend DEF One
    <3>2. One(y \in replay[d]) = 1 /\ One(y \in replay'[d]) = 0
      BY <1>1, <1>d, <2>3 DEF One
    <3>3. QED
      BY <1>4, <2>1, <2>2, <3>1, <3>2 DEF One
  <2>4. CASE d # c
    <3>1. Times(d, NewProducer(y))' = Times(d, NewProducer(y))
      BY <1>d, <2>4 DEF Times
    <3>2. QED
      BY <1>4, <1>d, <2>1, <2>4, <3>1
  <2>5. CASE y # x
    <3>1. Times(d, NewProducer(y))' = Times(d, NewProducer(y))
      BY <1>2, <1>3, <2>5, TellCounts
    <3>2. One(y \in replay'[d]) = One(y \in replay[d])
      BY <1>d, <2>5 DEF One
    <3>3. QED
      BY <1>4, <2>1, <3>1, <3>2
  <2>6. QED
    BY <2>3, <2>4, <2>5
<1>6. LateAnnouncement'
  <2>1. \A y \in ProducerId : Cardinality(Late(c, y)') = Cardinality(Late(c, y))
    <3>1. \A y \in ProducerId : ~Put(c, ProducerClosed(y))
      BY <1>1 DEF Counts, ReplayFirst
    <3>2. QED
      BY <1>2, <1>3, <3>1, TellCounts
  <2>2. \A d \in Channel \ {c}, y \in ProducerId : Late(d, y)' = Late(d, y)
    BY <1>d DEF Late
  <2>3. QED
    BY <1>4, <2>1, <2>2 DEF Counts, LateAnnouncement
<1>7. ReplayFirst'
  <2>1. \A i \in DOMAIN log'[c] : log'[c][i] = NewProducer(x) \/ (i \in DOMAIN log[c] /\ log'[c][i] = log[c][i])
    BY <1>2, <1>3, LogEntries
  <2>2. \A y \in ProducerId : ~Put(c, ProducerClosed(y))'
    <3> SUFFICES ASSUME NEW y \in ProducerId, NEW i \in DOMAIN log'[c]
                 PROVE  log'[c][i] # ProducerClosed(y)
      BY DEF Put
    <3>1. \A j \in DOMAIN log[c] : log[c][j] # ProducerClosed(y)
      BY <1>1 DEF Counts, ReplayFirst, Put
    <3>2. CASE log'[c][i] = NewProducer(x)
      BY <1>2, <3>2
    <3>3. CASE i \in DOMAIN log[c] /\ log'[c][i] = log[c][i]
      BY <3>1, <3>3
    <3>4. QED
      BY <2>1, <3>2, <3>3
  <2>3. QED
    BY <1>1, <1>d, <2>2 DEF Counts, ReplayFirst, Put
<1>8. Fits'
  <2>1. IsFiniteSet(replay[c])
    BY FS_Subset DEF Counts, Fits, ExistingProducers, Inv, Replays
  <2>2. Cardinality(replay'[c]) = Cardinality(replay[c]) - 1 /\ Cardinality(replay[c]) \in Nat
    BY <1>1, <1>d, <2>1, FS_RemoveElement, FS_CardinalityType
  <2>3. Len(log'[c]) = Len(log[c]) + 1 /\ Len(log[c]) \in Nat
    BY <1>1, <1>2, <1>3 DEF TypeOK
  <2>4. /\ read'[c] = 0
        /\ Len(log'[c]) + Cardinality(replay'[c]) = 1 + Cardinality(ExistingProducers(subscriber[c])')
    <3>1. /\ read[c] = 0
          /\ Len(log[c]) + Cardinality(replay[c]) = 1 + Cardinality(ExistingProducers(subscriber[c]))
      BY <1>1 DEF Counts, Fits
    <3>2. ExistingProducers(subscriber[c])' = ExistingProducers(subscriber[c]) /\ read' = read
      BY <1>1 DEF ExistingProducers, Created
    <3>3. QED
      BY <2>2, <2>3, <3>1, <3>2
  <2>5. \A d \in Channel \ {c} : stage'[d] = "replaying" =>
          /\ read'[d] = 0
          /\ Len(log'[d]) + Cardinality(replay'[d]) = 1 + Cardinality(ExistingProducers(subscriber[d])')
    BY <1>1, <1>4, <1>d DEF Counts, Fits
  <2>6. QED
    BY <1>4, <2>4, <2>5 DEF Counts, Fits
<1>9. QED
  BY <1>4, <1>5, <1>6, <1>7, <1>8 DEF Counts

(* Every step keeps the accounts.                                           *)
LEMMA CountsNext == Inv /\ Counts /\ [Next]_vars => Counts'
<1> SUFFICES ASSUME Inv, Counts, [Next]_vars PROVE Counts'
  OBVIOUS
<1>1. ASSUME NEW x \in ProducerId, AnnounceProducer(x) \/ AnnounceClosed(x) PROVE Counts'
  BY <1>1, AnnounceProducerCounts, AnnounceClosedCounts
<1>2. ASSUME NEW c \in Channel, SendConfirmed(c) PROVE Counts'
  BY <1>2, SendConfirmedCounts
<1>3. ASSUME NEW c \in Channel, NEW x \in ProducerId, SendExisting(c, x) PROVE Counts'
  BY <1>3, SendExistingCounts
<1> DEFINE Quiet ==
             \/ \E x \in ProducerId : \/ \E p \in ParticipantId : CreateProducer(x, p)
                                      \/ SetupProducerEvents(x)
             \/ CloseSession \/ RouterDies \/ UNCHANGED vars
             \/ \E c \in Channel : \/ \E p \in ParticipantId : SubscribeToEvents(c, p)
                                   \/ SubscribeReturn(c) \/ SubscribeDropped(c)
                                   \/ Receive(c) \/ StreamEnd(c) \/ Disconnect(c)
<1>4. Quiet => Counts'
  BY QuietCounts
<1>5. \/ Quiet
      \/ \E x \in ProducerId : AnnounceProducer(x) \/ AnnounceClosed(x)
      \/ \E c \in Channel : SendConfirmed(c) \/ \E x \in ProducerId : SendExisting(c, x)
  BY DEF Next
<1>6. QED
  BY <1>1, <1>2, <1>3, <1>4, <1>5

(* The accounts hold all along, with the invariant of the streams.          *)
THEOREM CountsHold == Spec => [](Inv /\ Counts)
BY InitInv, InvNext, CountsInit, CountsNext, PTL DEF Spec

(* No stream announces a producer three times, and none twice before the    *)
(* broadcast has run.                                                       *)
THEOREM TwiceAtMost == Spec => []AnnouncedTwiceAtMost
<1>1. Inv /\ Counts => AnnouncedTwiceAtMost
  <2> SUFFICES ASSUME Inv, Counts, NEW c \in Channel, NEW x \in ProducerId
               PROVE  Times(c, NewProducer(x)) <= IF x \in Unannounced THEN 1 ELSE 2
    BY DEF AnnouncedTwiceAtMost
  <2>1. Times(c, NewProducer(x)) \in Nat
    BY Countable DEF Inv
  <2>2. QED
    BY <2>1 DEF Counts, Told, One
<1>2. QED
  BY <1>1, CountsHold, PTL

(* No stream announces a closed producer twice, and none before the one     *)
(* broadcast that may come too late.                                        *)
THEOREM LateOnceAtMost == Spec => []LateAnnouncement
BY CountsHold, PTL DEF Counts

(* A replay of fewer producers than the channel has places never waits.     *)
THEOREM ReplaysFit == Spec => []ReplayFits
<1>1. Inv /\ Counts => ReplayFits
  <2> SUFFICES ASSUME Inv, Counts, NEW c \in Channel
               PROVE  /\ stage[c] = "confirming" => HasSpace(c)
                      /\ stage[c] = "replaying" /\ replay[c] # {}
                           /\ Cardinality(ExistingProducers(subscriber[c])) < Capacity => HasSpace(c)
    BY DEF ReplayFits
  <2>1. ASSUME stage[c] = "confirming" PROVE HasSpace(c)
    BY <2>1, CapacityAssumption, EmptySeq DEF Inv, Logs, TypeOK, HasSpace
  <2>2. ASSUME stage[c] = "replaying", replay[c] # {},
               Cardinality(ExistingProducers(subscriber[c])) < Capacity
        PROVE  HasSpace(c)
    <3>1. IsFiniteSet(ExistingProducers(subscriber[c])) /\ IsFiniteSet(replay[c])
      BY FS_Subset DEF Counts, Fits, ExistingProducers, Inv, Replays
    <3>2. /\ Cardinality(replay[c]) \in Nat /\ Cardinality(replay[c]) # 0
          /\ Cardinality(ExistingProducers(subscriber[c])) \in Nat
      BY <2>2, <3>1, FS_CardinalityType, FS_EmptySet
    <3>3. /\ read[c] = 0 /\ Len(log[c]) \in Nat /\ Capacity \in Nat
          /\ Len(log[c]) + Cardinality(replay[c]) = 1 + Cardinality(ExistingProducers(subscriber[c]))
      BY <2>2, CapacityAssumption DEF Counts, Fits, Inv, TypeOK
    <3>4. QED
      BY <2>2, <3>2, <3>3 DEF HasSpace
  <2>3. QED
    BY <2>1, <2>2
<1>2. QED
  BY <1>1, CountsHold, PTL
-----------------------------------------------------------------------------
\* What is closed was created.
ClosedExist == closed \subseteq Created

(* Only producers that exist are closed.                                    *)
LEMMA ClosedNext == Inv /\ ClosedExist /\ [Next]_vars => ClosedExist'
<1> SUFFICES ASSUME Inv, ClosedExist, [Next]_vars PROVE ClosedExist'
  OBVIOUS
<1>1. ASSUME NEW x \in ProducerId, NEW p \in ParticipantId, CreateProducer(x, p) PROVE ClosedExist'
  BY <1>1, MemberAssumption DEF CreateProducer, ClosedExist, Created, Inv, TypeOK
<1>2. CASE ~\E x \in ProducerId, p \in ParticipantId : CreateProducer(x, p)
  <2>1. owner' = owner
    BY <1>2 DEF Next, SetupProducerEvents, AnnounceProducer, AnnounceClosed, CloseSession, RouterDies,
                SubscribeToEvents, SendConfirmed, SendExisting, SubscribeReturn, SubscribeDropped,
                Receive, StreamEnd, Disconnect, vars, producerVars
  <2>2. closed' \subseteq closed \cup Created
    BY <1>2 DEF Next, SetupProducerEvents, AnnounceProducer, AnnounceClosed, CloseSession, RouterDies,
                SubscribeToEvents, SendConfirmed, SendExisting, SubscribeReturn, SubscribeDropped,
                Receive, StreamEnd, Disconnect, vars, producerVars, CloseProducers, Inv, Producers
  <2>3. QED
    BY <2>1, <2>2 DEF ClosedExist, Created
<1>3. QED
  BY <1>1, <1>2

(* Initially there is no producer, and the session has its router.          *)
LEMMA LifetimeInit == Init => ClosedExist /\ Lifetime!Init
<1> SUFFICES ASSUME Init PROVE ClosedExist /\ Lifetime!Init
  OBVIOUS
<1>1. Created = {} /\ Unannounced = {} /\ closed = {}
  BY DEF Init, Created, Unannounced
<1>2. /\ Home = [x \in ProducerId |-> "nowhere"]
      /\ OpenSessions = {"session"} /\ RoutedSessions = {"session"}
  BY <1>1 DEF Init, Home, OpenSessions, RoutedSessions
<1>3. QED
  BY <1>1, <1>2 DEF ClosedExist, Lifetime!Init

(* The steps in the life of a producer.                                     *)
LEMMA LifetimeSteps ==
  ASSUME Inv, Once, ClosedExist
  PROVE  /\ \A x \in ProducerId, p \in ParticipantId :
              CreateProducer(x, p) => Lifetime!Create(x, "session")
         /\ \A x \in ProducerId : AnnounceProducer(x) => Lifetime!LetGo(x)
         /\ CloseSession => Lifetime!Close("session")
         /\ RouterDies => Lifetime!Lose({"session"})
<1>1. ASSUME NEW x \in ProducerId, NEW p \in ParticipantId, CreateProducer(x, p)
      PROVE  Lifetime!Create(x, "session")
  <2>1. /\ open /\ router_up /\ x \notin Created /\ setup' = setup \cup {x}
        /\ owner' = [owner EXCEPT ![x] = p] /\ UNCHANGED <<open, router_up, announcing, closed>>
    BY <1>1 DEF CreateProducer
  <2>2. Created' = Created \cup {x}
    BY <2>1, MemberAssumption DEF Created, Inv, TypeOK
  <2>3. Home[x] = "nowhere" /\ Home' = [Home EXCEPT ![x] = "session"]
    BY <2>1, <2>2 DEF Home
  <2>4. Unannounced' = Unannounced \cup {x} /\ (Created \ closed)' = (Created \ closed) \cup {x}
    BY <2>1, <2>2 DEF Unannounced, ClosedExist
  <2>5. QED
    BY <2>1, <2>3, <2>4 DEF Lifetime!Create, OpenSessions, RoutedSessions
<1>2. ASSUME UNCHANGED owner PROVE Created' = Created /\ Home' = Home
  BY <1>2 DEF Created, Home
<1>3. ASSUME NEW x \in ProducerId, AnnounceProducer(x) PROVE Lifetime!LetGo(x)
  <2>1. /\ x \in announcing /\ announcing' = announcing \ {x}
        /\ closed' = closed \cup (IF open THEN {} ELSE {x})
        /\ UNCHANGED <<owner, open, router_up, setup>>
    BY <1>3 DEF AnnounceProducer, CloseProducers
  <2>2. Unannounced' = Unannounced \ {x} /\ x \in Unannounced
    BY <2>1 DEF Once, Unannounced
  <2>3. \A y \in Created : Home[y] \in OpenSessions <=> open
    BY DEF Home, OpenSessions, Created
  <2>4. (Created \ closed)' = {y \in Created \ closed : y # x \/ Home[y] \in OpenSessions}
    BY <1>2, <2>1, <2>3
  <2>5. QED
    BY <1>2, <2>1, <2>2, <2>4 DEF Lifetime!LetGo, OpenSessions, RoutedSessions
<1>4. ASSUME CloseSession PROVE Lifetime!Close("session")
  <2>1. /\ open /\ open' = FALSE /\ closed' = closed \cup (Created \ Unannounced)
        /\ UNCHANGED <<owner, router_up, setup, announcing>>
    BY <1>4 DEF CloseSession, CloseProducers, Unannounced
  <2>2. \A y \in Created : Home[y] = "session"
    BY DEF Home, Created
  <2>3. (Created \ closed)' = {y \in Created \ closed : Home[y] # "session" \/ y \in Unannounced}
    BY <1>2, <2>1, <2>2
  <2>4. QED
    BY <1>2, <2>1, <2>3 DEF Lifetime!Close, OpenSessions, RoutedSessions, Unannounced
<1>5. ASSUME RouterDies PROVE Lifetime!Lose({"session"})
  <2>1. /\ router_up /\ router_up' = FALSE /\ closed' = closed \cup Created
        /\ UNCHANGED <<owner, open, setup, announcing>>
    BY <1>5 DEF RouterDies, CloseProducers
  <2>2. \A y \in Created : Home[y] = "session"
    BY DEF Home, Created
  <2>3. (Created \ closed)' = {y \in Created \ closed : Home[y] \notin {"session"}}
    BY <1>2, <2>1, <2>2
  <2>4. QED
    BY <1>2, <2>1, <2>3 DEF Lifetime!Lose, OpenSessions, RoutedSessions, Unannounced
<1>6. QED
  BY <1>1, <1>3, <1>4, <1>5

(* Each step is one in the life of a producer, or none.                     *)
LEMMA LifetimeNext == Inv /\ Once /\ ClosedExist /\ [Next]_vars => [Lifetime!Next]_(Lifetime!vars)
<1> SUFFICES ASSUME Inv, Once, ClosedExist, [Next]_vars PROVE [Lifetime!Next]_(Lifetime!vars)
  OBVIOUS
<1>1. CASE \/ \E x \in ProducerId, p \in ParticipantId : CreateProducer(x, p)
           \/ \E x \in ProducerId : AnnounceProducer(x)
           \/ CloseSession \/ RouterDies
  BY <1>1, LifetimeSteps DEF Lifetime!Next
<1>2. CASE ~ \/ \E x \in ProducerId, p \in ParticipantId : CreateProducer(x, p)
             \/ \E x \in ProducerId : AnnounceProducer(x)
             \/ CloseSession \/ RouterDies
  <2>1. UNCHANGED <<owner, open, router_up, closed>>
    BY <1>2 DEF Next, SetupProducerEvents, AnnounceClosed, SubscribeToEvents, SendConfirmed,
                SendExisting, SubscribeReturn, SubscribeDropped, Receive, StreamEnd, Disconnect,
                vars, producerVars
  <2>2. Unannounced' = Unannounced
    BY <1>2 DEF Next, SetupProducerEvents, AnnounceClosed, SubscribeToEvents, SendConfirmed,
                SendExisting, SubscribeReturn, SubscribeDropped, Receive, StreamEnd, Disconnect,
                vars, producerVars, Unannounced
  <2>3. QED
    BY <2>1, <2>2 DEF Lifetime!vars, Home, OpenSessions, RoutedSessions, Created
<1>3. QED
  BY <1>1, <1>2

(* The producers of a session live as long as ProducerLifetime says, and as *)
(* SfuMedia has it, whatever is subscribed, broadcast or dropped meanwhile. *)
THEOREM ImplementsLifetime == Spec => LifetimeSpec
<1>1. Spec => []ClosedExist
  BY InvHolds, LifetimeInit, ClosedNext, PTL DEF Spec
<1>2. Counts => Once
  BY DEF Counts
<1>3. QED
  BY <1>1, <1>2, CountsHold, LifetimeInit, LifetimeNext, PTL DEF Spec, LifetimeSpec, Lifetime!Spec
-----------------------------------------------------------------------------
\* What is to be announced as closed has closed.
ClosingClosed == closing \subseteq closed

(* Callbacks run for what has closed.                                       *)
LEMMA ClosingNext == ClosingClosed /\ [Next]_vars => ClosingClosed' /\ closed \subseteq closed'
<1> SUFFICES ASSUME ClosingClosed, [Next]_vars PROVE ClosingClosed' /\ closed \subseteq closed'
  OBVIOUS
<1>1. CASE \/ \E x \in ProducerId : AnnounceProducer(x)
           \/ CloseSession \/ RouterDies
  BY <1>1 DEF AnnounceProducer, CloseSession, RouterDies, CloseProducers, ClosingClosed
<1>2. CASE \E x \in ProducerId : SetupProducerEvents(x) \/ AnnounceClosed(x)
  BY <1>2 DEF SetupProducerEvents, AnnounceClosed, ClosingClosed
<1>3. CASE ~ \/ \E x \in ProducerId : AnnounceProducer(x) \/ SetupProducerEvents(x) \/ AnnounceClosed(x)
             \/ CloseSession \/ RouterDies
  <2>1. UNCHANGED <<closed, closing>>
    BY <1>3 DEF Next, CreateProducer, SubscribeToEvents, SendConfirmed, SendExisting, SubscribeReturn,
                SubscribeDropped, Receive, StreamEnd, Disconnect, vars, producerVars
  <2>2. QED
    BY <2>1 DEF ClosingClosed
<1>4. QED
  BY <1>1, <1>2, <1>3

(* Only a broadcast of a close puts it anywhere, and while the router lives *)
(* it finds nobody: either nothing has closed, or no sender is left.        *)
LEMMA TrulyNext ==
  Inv /\ Lives /\ ClosingClosed /\ CloseAnnouncedTruly /\ [Next]_vars => CloseAnnouncedTruly'
<1> SUFFICES ASSUME Inv, Lives, ClosingClosed, CloseAnnouncedTruly, [Next]_vars,
                    NEW c \in Channel, NEW x \in ProducerId, Put(c, ProducerClosed(x))'
             PROVE  x \in closed' /\ ~router_up'
  BY DEF CloseAnnouncedTruly
<1>1. closed \subseteq closed' /\ (~router_up => ~router_up')
  <2>1. closed \subseteq closed'
    BY ClosingNext
  <2>2. router_up' = router_up \/ RouterDies
    BY DEF Next, CreateProducer, SetupProducerEvents, AnnounceProducer, AnnounceClosed, CloseSession,
           SubscribeToEvents, SendConfirmed, SendExisting, SubscribeReturn, SubscribeDropped, Receive,
           StreamEnd, Disconnect, vars, producerVars
  <2>3. QED
    BY <2>1, <2>2 DEF RouterDies
<1>2. CASE Put(c, ProducerClosed(x))
  BY <1>1, <1>2 DEF CloseAnnouncedTruly
<1>t. TypeOK
  BY DEF Inv
<1>3. ASSUME NEW e \in Event, NEW C \in SUBSET Channel, Extend(e, C), ~Put(c, ProducerClosed(x))
      PROVE  c \in C /\ e = ProducerClosed(x)
  <2>1. PICK i \in DOMAIN log'[c] : log'[c][i] = ProducerClosed(x)
    BY DEF Put
  <2>2. i \notin DOMAIN log[c]
    BY <1>3, <1>t, <2>1, LogEntries DEF Put
  <2>3. QED
    BY <1>3, <1>t, <2>1, <2>2, LogEntries
<1>4. ASSUME NEW y \in ProducerId, AnnounceClosed(y), ~Put(c, ProducerClosed(x))
      PROVE  x \in closed /\ ~router_up
  <2>1. /\ MutexFree /\ y \in closing /\ Broadcast(ProducerClosed(y), NoOne) /\ read' = read
    BY <1>4 DEF AnnounceClosed, streamVars
  <2>2. Extend(ProducerClosed(y), Reached(NoOne)) /\ Reached(NoOne) \in SUBSET Channel
    BY <2>1, Events, BroadcastExtends DEF Reached, Targets
  <2>3. c \in Reached(NoOne) /\ ProducerClosed(y) = ProducerClosed(x)
    BY <1>3, <1>4, <2>2, Events
  <2>4. x = y
    <3>1. ProducerClosed(y).producer = y /\ ProducerClosed(x).producer = x
      BY DEF ProducerClosed
    <3>2. QED
      BY <2>3, <3>1
  <2>5. open
    BY <2>3, ChannelAssumption DEF Reached, Targets, Inv, NoSenderOutlivesSession
  <2>6. QED
    BY <2>1, <2>4, <2>5 DEF ClosingClosed, Lives
<1>5. ASSUME NEW y \in ProducerId, AnnounceProducer(y), ~Put(c, ProducerClosed(x)) PROVE FALSE
  <2>1. MutexFree /\ Broadcast(NewProducer(y), owner[y]) /\ read' = read
    BY <1>5 DEF AnnounceProducer, streamVars
  <2>2. Extend(NewProducer(y), Reached(owner[y])) /\ Reached(owner[y]) \in SUBSET Channel
    BY <2>1, Events, BroadcastExtends DEF Reached, Targets
  <2>3. QED
    BY <1>3, <1>5, <2>2, Events
<1>6. ASSUME NEW d \in Channel, ~Put(c, ProducerClosed(x)),
             SendConfirmed(d) \/ \E y \in ProducerId : SendExisting(d, y)
      PROVE  FALSE
  <2>1. \E e \in Event : e # ProducerClosed(x) /\ Extend(e, {d})
    BY <1>6, <1>t, Events, PutExtends DEF SendConfirmed, SendExisting
  <2>2. QED
    BY <1>3, <1>6, <2>1
<1>7. CASE log' = log
  BY <1>2, <1>7 DEF Put
<1>8. QED
  <2>1. \/ log' = log
        \/ \E y \in ProducerId : AnnounceProducer(y) \/ AnnounceClosed(y)
        \/ \E d \in Channel : SendConfirmed(d) \/ \E y \in ProducerId : SendExisting(d, y)
    BY DEF Next, CreateProducer, SetupProducerEvents, CloseSession, RouterDies, SubscribeToEvents,
           SubscribeReturn, SubscribeDropped, Receive, StreamEnd, Disconnect, vars, channelVars
  <2>2. QED
    BY <1>1, <1>2, <1>4, <1>5, <1>6, <1>7, <2>1

(* What a stream says of the close of a producer is true, and says that the *)
(* router has died.                                                         *)
THEOREM ClosesAnnouncedTruly == Spec => []CloseAnnouncedTruly
<1>1. Init => ClosingClosed /\ CloseAnnouncedTruly
  BY EmptySeq DEF Init, ClosingClosed, CloseAnnouncedTruly, Put
<1>2. QED
  BY <1>1, InvHolds, LivesInit, LivesNext, ClosingNext, TrulyNext, PTL DEF Spec
=============================================================================
