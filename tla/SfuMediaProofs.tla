--------------------------- MODULE SfuMediaProofs ---------------------------
(***************************************************************************)
(* Proofs about SfuMedia for any sessions, routers and ids.                *)
(*                                                                         *)
(* The inductive invariant says to whom things belong: a transport in use  *)
(* was made for its participant (Placed), what a participant keeps was     *)
(* made on a transport of its own (Kept), what was made is kept as long as *)
(* the session is open (Still) and no longer (Gone), and the producer of a *)
(* consumer exists (Sources).                                              *)
(***************************************************************************)
EXTENDS SfuMedia, TLAPS

Types ==
  /\ sessions \subseteq Session /\ router_up \subseteq Router
  /\ send \in [Participant -> TransportId \cup {None}]
  /\ recv \in [Participant -> TransportId \cup {None}]
  /\ producers \in [Participant -> SUBSET ProducerId]
  /\ consumers \in [Participant -> SUBSET ConsumerId]
  /\ maker \in [TransportId -> Participant \cup {None}]
  /\ carrier \in [Media -> TransportId \cup {None}]
  /\ source \in [ConsumerId -> ProducerId \cup {None}]
  /\ connected \subseteq TransportId /\ resumed \subseteq ConsumerId
  /\ handling \subseteq TransportId \cup Media

Keeps(p) == producers[p] \cup consumers[p]

Placed ==
  \A p \in Participant : /\ send[p] # None => maker[send[p]] = p
                         /\ recv[p] # None => maker[recv[p]] = p

Made == \A x \in Media : carrier[x] # None => Owner(x) \in Participant

Kept == \A p \in Participant : \A x \in Keeps(p) : carrier[x] # None /\ Owner(x) = p

Still == \A x \in Media : carrier[x] # None /\ Open(Owner(x)) => x \in Keeps(Owner(x))

Gone == \A p \in Participant : ~Open(p) => send[p] = None /\ recv[p] = None /\ Keeps(p) = {}

Handled == \A x \in handling \cap Media : carrier[x] # None

Sources ==
  \A k \in ConsumerId : /\ source[k] # None <=> carrier[k] # None
                        /\ source[k] # None => carrier[source[k]] # None

Inv ==
  /\ Types
  /\ Placed /\ Made /\ Kept /\ Still /\ Gone /\ Handled /\ Sources
-----------------------------------------------------------------------------
(* The markers and the ids of transports and media are apart.               *)
LEMMA Ids ==
  /\ ProducerId \subseteq Media /\ ConsumerId \subseteq Media
  /\ None \notin TransportId /\ None \notin ProducerId /\ None \notin Participant
BY NoneAssumption DEF Media

(* The invariant holds before anything is made.                             *)
LEMMA InitInv == Init => Inv
<1> SUFFICES ASSUME Init PROVE Inv
  OBVIOUS
<1>1. Types
  BY DEF Init, Types
<1>2. Placed /\ Made /\ Kept /\ Still /\ Handled
  BY Ids DEF Init, Placed, Made, Kept, Still, Handled, Keeps
<1>3. Gone /\ Sources
  BY Ids DEF Init, Gone, Sources, Keeps
<1>4. QED
  BY <1>1, <1>2, <1>3 DEF Inv

(* Steps that neither make nor drop anything.                               *)
LEMMA OtherSteps ==
  ASSUME Inv,
         \/ \E p \in Participant, t \in TransportId : ConnectTransport(p, t)
         \/ \E p \in Participant, k \in ConsumerId : ResumeConsumer(p, k)
         \/ \E x \in handling : Release(x)
         \/ \E r \in Router : RouterDies(r)
         \/ UNCHANGED vars
  PROVE  Inv'
<1>1. UNCHANGED <<sessions, send, recv, producers, consumers, maker, carrier, source>>
  BY DEF ConnectTransport, ResumeConsumer, Release, RouterDies, vars, stateVars, mediasoupVars
<1>2. /\ connected' \subseteq TransportId /\ resumed' \subseteq ConsumerId
      /\ router_up' \subseteq router_up /\ handling' \subseteq handling
  BY DEF Inv, Types, ConnectTransport, ResumeConsumer, Release, RouterDies, vars
<1>3. Types'
  BY <1>1, <1>2 DEF Inv, Types
<1>4. Placed' /\ Made' /\ Kept' /\ Still' /\ Gone'
  BY <1>1 DEF Inv, Placed, Made, Kept, Still, Gone, Keeps, Owner, Open
<1>5. Handled' /\ Sources'
  BY <1>1, <1>2 DEF Inv, Handled, Sources
<1>6. QED
  BY <1>3, <1>4, <1>5 DEF Inv

(* A transport that replaces another leaves what was made on it.            *)
LEMMA CreateTransportStep ==
  ASSUME Inv, NEW p \in Participant, NEW t \in TransportId, CreateTransport(p, t)
  PROVE  Inv'
<1>1. /\ Open(p) /\ maker[t] = None /\ maker' = [maker EXCEPT ![t] = p]
      /\ handling' = handling \cup {t}
      /\ UNCHANGED <<sessions, router_up, producers, consumers, carrier, source, connected, resumed>>
      /\ \/ send' = [send EXCEPT ![p] = t] /\ recv' = recv
         \/ recv' = [recv EXCEPT ![p] = t] /\ send' = send
  BY DEF CreateTransport
<1>2. Types'
  BY <1>1 DEF Inv, Types
<1>3. \A u \in TransportId : maker[u] # None => maker'[u] = maker[u]
  BY <1>1 DEF Inv, Types
<1>4. \A x \in Media : carrier[x] # None => carrier'[x] = carrier[x] /\ Owner(x)' = Owner(x)
  BY <1>1, <1>3, Ids DEF Inv, Types, Made, Owner
<1>5. Placed'
  <2>1. \A q \in Participant : /\ send[q] # None => maker'[send[q]] = q
                               /\ recv[q] # None => maker'[recv[q]] = q
    BY <1>3, Ids DEF Inv, Types, Placed
  <2>2. maker'[t] = p
    BY <1>1 DEF Inv, Types
  <2>3. QED
    BY <1>1, <2>1, <2>2 DEF Inv, Types, Placed
<1>6. Made' /\ Kept' /\ Still'
  BY <1>1, <1>4 DEF Inv, Types, Made, Kept, Still, Keeps, Open, Media
<1>7. Gone'
  BY <1>1 DEF Inv, Types, Gone, Keeps, Open
<1>8. Handled' /\ Sources'
  BY <1>1, IdsAssumption DEF Inv, Handled, Sources
<1>9. QED
  BY <1>2, <1>5, <1>6, <1>7, <1>8 DEF Inv

(* A producer or consumer with a fresh id is made on a transport of p.      *)
Makes(p, x, t) ==
  /\ Open(p) /\ t # None /\ t \in {send[p], recv[p]}
  /\ carrier[x] = None
  /\ carrier' = [carrier EXCEPT ![x] = t]
  /\ Keeps(p)' = Keeps(p) \cup {x}
  /\ \A q \in Participant \ {p} : Keeps(q)' = Keeps(q)
  /\ handling' = handling \cup {x}
  /\ UNCHANGED <<sessions, send, recv, maker>>

(* A new object gets its owner; the others keep theirs.                     *)
LEMMA MakesOwner ==
  ASSUME Inv, NEW p \in Participant, NEW x \in Media, NEW t, Makes(p, x, t)
  PROVE  /\ carrier'[x] # None /\ Owner(x)' = p
         /\ \A y \in Media \ {x} : carrier'[y] = carrier[y] /\ Owner(y)' = Owner(y)
<1>1. t \in TransportId /\ maker[t] = p
  BY DEF Inv, Types, Placed, Makes
<1>2. carrier'[x] = t /\ \A y \in Media \ {x} : carrier'[y] = carrier[y]
  BY DEF Inv, Types, Makes
<1>3. QED
  BY <1>1, <1>2, Ids DEF Owner, Makes

(* What a new producer or consumer cannot break.                            *)
LEMMA MakesStep ==
  ASSUME Inv, NEW p \in Participant, NEW x \in Media, NEW t, Makes(p, x, t)
  PROVE  Placed' /\ Made' /\ Kept' /\ Still' /\ Gone' /\ Handled'
<1>1. UNCHANGED <<sessions, send, recv, maker>>
  BY DEF Makes
<1>2. Placed'
  BY <1>1 DEF Inv, Placed
<1>3. Made'
  BY MakesOwner DEF Inv, Made
<1>4. x \notin UNION {Keeps(q) : q \in Participant} /\ \A q \in Participant : Keeps(q) \subseteq Media
  BY DEF Inv, Kept, Keeps, Types, Media, Makes
<1>5. Kept'
  <2> SUFFICES ASSUME NEW q \in Participant, NEW y \in Keeps(q)'
               PROVE  carrier'[y] # None /\ Owner(y)' = q
    BY DEF Kept
  <2>1. CASE q = p /\ y = x
    BY <2>1, MakesOwner
  <2>2. CASE y \in Keeps(q) /\ y # x
    BY <1>4, <2>2, MakesOwner DEF Inv, Kept
  <2>3. y \in Keeps(q) \/ (q = p /\ y = x)
    BY DEF Makes
  <2>4. QED
    BY <1>4, <2>1, <2>2, <2>3
<1>6. Still'
  <2> SUFFICES ASSUME NEW y \in Media, carrier'[y] # None, Open(Owner(y))'
               PROVE  y \in Keeps(Owner(y))'
    BY DEF Still
  <2>1. CASE y = x
    BY <2>1, MakesOwner DEF Makes, Keeps
  <2>2. CASE y # x
    <3>1. carrier[y] # None /\ maker'[carrier'[y]] = maker[carrier[y]] /\ maker[carrier[y]] \in Participant
      BY <2>2, MakesOwner DEF Inv, Made, Owner
    <3>2. y \in Keeps(maker[carrier[y]])
      BY <1>1, <3>1 DEF Inv, Still, Owner, Open
    <3>3. \A q \in Participant : y \in Keeps(q) => y \in Keeps(q)'
      BY DEF Makes
    <3>4. QED
      BY <3>1, <3>2, <3>3 DEF Owner, Keeps
  <2>3. QED
    BY <2>1, <2>2
<1>7. Gone'
  BY <1>1 DEF Inv, Gone, Makes, Open
<1>8. Handled'
  BY MakesOwner DEF Inv, Handled, Makes
<1>9. QED
  BY <1>2, <1>3, <1>5, <1>6, <1>7, <1>8

(* A producer is made on the transport for sending.                         *)
LEMMA CreateProducerStep ==
  ASSUME Inv, NEW p \in Participant, NEW x \in ProducerId, CreateProducer(p, x)
  PROVE  Inv'
<1>1. /\ Open(p) /\ send[p] # None /\ carrier[x] = None
      /\ carrier' = [carrier EXCEPT ![x] = send[p]]
      /\ producers' = [producers EXCEPT ![p] = @ \cup {x}]
      /\ handling' = handling \cup {x}
      /\ UNCHANGED <<sessions, router_up, send, recv, consumers, maker, source, connected, resumed>>
  BY DEF CreateProducer
<1>2. x \in Media
  BY Ids
<1>3. Types'
  BY <1>1, <1>2 DEF Inv, Types
<1>4. Makes(p, x, send[p])
  BY <1>1 DEF Inv, Types, Makes, Keeps
<1>5. Placed' /\ Made' /\ Kept' /\ Still' /\ Gone' /\ Handled'
  BY <1>2, <1>4, MakesStep
<1>6. \A k \in ConsumerId : source[k] # None =>
        /\ k \in Media \ {x} /\ source[k] \in Media \ {x}
        /\ carrier[k] # None /\ carrier[source[k]] # None
  BY <1>1, Ids, IdsAssumption DEF Inv, Types, Sources
<1>7. \A y \in Media \ {x} : carrier'[y] = carrier[y] /\ maker'[carrier'[y]] = maker[carrier[y]]
  BY <1>2, <1>4, MakesOwner DEF Owner
<1>8. Sources'
  <2>1. \A k \in ConsumerId : k \in Media \ {x}
    BY Ids, IdsAssumption
  <2>2. QED
    BY <1>1, <1>6, <1>7, <2>1 DEF Inv, Sources
<1>9. QED
  BY <1>3, <1>5, <1>8 DEF Inv

(* A consumer is made of a producer that exists.                            *)
LEMMA CreateConsumerStep ==
  ASSUME Inv, NEW p \in Participant, NEW k \in ConsumerId, NEW x \in ProducerId,
         CreateConsumer(p, k, x)
  PROVE  Inv'
<1>1. /\ Open(p) /\ recv[p] # None /\ carrier[k] = None /\ CanConsume(p, x)
      /\ carrier' = [carrier EXCEPT ![k] = recv[p]]
      /\ source' = [source EXCEPT ![k] = x]
      /\ consumers' = [consumers EXCEPT ![p] = @ \cup {k}]
      /\ handling' = handling \cup {k}
      /\ UNCHANGED <<sessions, router_up, send, recv, producers, maker, connected, resumed>>
  BY DEF CreateConsumer
<1>2. k \in Media /\ x \in Media /\ x # k
  BY Ids, IdsAssumption
<1>3. Types'
  BY <1>1, <1>2 DEF Inv, Types
<1>4. Makes(p, k, recv[p])
  BY <1>1 DEF Inv, Types, Makes, Keeps
<1>5. Placed' /\ Made' /\ Kept' /\ Still' /\ Gone' /\ Handled'
  BY <1>2, <1>4, MakesStep
<1>6. /\ \A y \in Media \ {k} : carrier'[y] = carrier[y] /\ maker'[carrier'[y]] = maker[carrier[y]]
      /\ carrier'[k] # None /\ maker'[carrier'[k]] = p
  BY <1>2, <1>4, MakesOwner DEF Owner
<1>7. source'[k] = x /\ \A j \in ConsumerId \ {k} : source'[j] = source[j]
  BY <1>1 DEF Inv, Types
<1>8. carrier[x] # None /\ x # None
  BY <1>1, Ids DEF CanConsume
<1>9. \A j \in ConsumerId : source[j] # None =>
        /\ j \in Media \ {k} /\ source[j] \in Media \ {k}
        /\ carrier[j] # None /\ carrier[source[j]] # None
  BY <1>1, Ids, IdsAssumption DEF Inv, Types, Sources
<1>10. Sources'
  <2>1. \A j \in ConsumerId \ {k} : j \in Media \ {k}
    BY Ids
  <2>2. QED
    BY <1>2, <1>6, <1>7, <1>8, <1>9, <2>1 DEF Inv, Sources
<1>11. QED
  BY <1>3, <1>5, <1>10 DEF Inv

(* A session that closes takes the state of its participants along.         *)
LEMMA CloseSessionStep == ASSUME Inv, NEW s \in Session, CloseSession(s) PROVE Inv'
<1>1. /\ sessions' = sessions \ {s}
      /\ send' = [p \in Participant |-> IF SessionOf[p] = s THEN None ELSE send[p]]
      /\ recv' = [p \in Participant |-> IF SessionOf[p] = s THEN None ELSE recv[p]]
      /\ producers' = [p \in Participant |-> IF SessionOf[p] = s THEN {} ELSE producers[p]]
      /\ consumers' = [p \in Participant |-> IF SessionOf[p] = s THEN {} ELSE consumers[p]]
      /\ UNCHANGED <<router_up, maker, carrier, source, connected, resumed, handling>>
  BY DEF CloseSession, mediasoupVars
<1>2. Types'
  BY <1>1 DEF Inv, Types
<1>3. \A p \in Participant : /\ SessionOf[p] = s => Keeps(p)' = {}
                             /\ SessionOf[p] # s => Keeps(p)' = Keeps(p)
  BY <1>1 DEF Keeps
<1>4. Placed' /\ Made' /\ Handled' /\ Sources'
  BY <1>1 DEF Inv, Placed, Made, Handled, Sources, Owner
<1>5. Kept'
  BY <1>1, <1>3 DEF Inv, Kept, Owner
<1>6. Still'
  <2> SUFFICES ASSUME NEW x \in Media, carrier[x] # None, SessionOf[maker[carrier[x]]] \in sessions'
               PROVE  x \in Keeps(maker[carrier[x]])'
    BY <1>1 DEF Still, Owner, Open, Keeps
  <2>1. maker[carrier[x]] \in Participant /\ SessionOf[maker[carrier[x]]] # s
    BY <1>1 DEF Inv, Made, Owner
  <2>2. x \in Keeps(maker[carrier[x]])
    BY <1>1 DEF Inv, Still, Owner, Open
  <2>3. QED
    BY <1>1, <2>1, <2>2 DEF Keeps
<1>7. Gone'
  BY <1>1, <1>3 DEF Inv, Gone, Open
<1>8. QED
  BY <1>2, <1>4, <1>5, <1>6, <1>7 DEF Inv

(* Each step preserves the invariant.                                       *)
LEMMA InvNext == Inv /\ [Next]_vars => Inv'
<1> SUFFICES ASSUME Inv, [Next]_vars PROVE Inv'
  OBVIOUS
<1>1. ASSUME NEW p \in Participant, NEW t \in TransportId, CreateTransport(p, t) PROVE Inv'
  BY <1>1, CreateTransportStep
<1>2. ASSUME NEW p \in Participant, NEW x \in ProducerId, CreateProducer(p, x) PROVE Inv'
  BY <1>2, CreateProducerStep
<1>3. ASSUME NEW p \in Participant, NEW k \in ConsumerId, NEW x \in ProducerId, CreateConsumer(p, k, x)
      PROVE  Inv'
  BY <1>3, CreateConsumerStep
<1>4. ASSUME NEW s \in Session, CloseSession(s) PROVE Inv'
  BY <1>4, CloseSessionStep
<1>5. QED
  BY <1>1, <1>2, <1>3, <1>4, OtherSteps DEF Next
-----------------------------------------------------------------------------
(* The inductive invariant holds all along.                                 *)
THEOREM InvHolds == Spec => []Inv
<1>1. QED
  BY InitInv, InvNext, PTL DEF Spec

(* Whatever is held was made, for some participant.                         *)
LEMMA HeldMade == ASSUME Inv, NEW x \in Held \cap Media PROVE carrier[x] # None /\ Owner(x) \in Participant
<1>1. x \in handling \/ \E p \in Participant : x \in Keeps(p)
  BY DEF Held, Keeps
<1>2. carrier[x] # None
  BY <1>1 DEF Inv, Kept, Handled
<1>3. QED
  BY <1>2 DEF Inv, Made

(* The variables have their types, and whatever is held was made.           *)
THEOREM TypeCorrect == Spec => []TypeOK
<1>1. Inv => TypeOK
  <2> SUFFICES ASSUME Inv PROVE TypeOK
    OBVIOUS
  <2>1. \A x \in Held \cap Media : carrier[x] # None /\ maker[carrier[x]] # None
    BY HeldMade, Ids DEF Owner
  <2>2. \A k \in Held \cap ConsumerId : source[k] # None /\ carrier[source[k]] # None
    BY <2>1, Ids DEF Inv, Sources
  <2>3. QED
    BY <2>1, <2>2 DEF Inv, Types, TypeOK
<1>2. QED
  BY <1>1, InvHolds, PTL

(* What is open in mediasoup belongs to an open session or to a handler.    *)
THEOREM SessionsTakeAllAlong == Spec => []NothingOutlivesSession
<1>1. Inv => NothingOutlivesSession
  <2> SUFFICES ASSUME Inv PROVE NothingOutlivesSession
    OBVIOUS
  <2>1. \A x \in Held \cap Media : x \in handling \/ \E p \in Participant : x \in Keeps(p)
    BY DEF Held, Keeps
  <2>2. \A p \in Participant : \A x \in Keeps(p) : Owner(x) = p /\ Open(p)
    BY DEF Inv, Kept, Gone
  <2>3. \A x \in Held \cap Media : Open(Owner(x)) \/ x \in handling
    BY <2>1, <2>2
  <2>4. ASSUME NEW t \in TransportId, TransportOpen(t)
        PROVE  Open(maker[t]) \/ \E x \in handling : x = t \/ (x \in Media /\ carrier[x] = t)
    <3>1. CASE t \in handling
      BY <3>1
    <3>2. ASSUME NEW p \in Participant, t \in {send[p], recv[p]}
          PROVE  Open(maker[t])
      <4>1. t # None
        BY Ids
      <4>2. QED
        BY <3>2, <4>1 DEF Inv, Placed, Gone
    <3>3. ASSUME NEW x \in Held \cap Media, carrier[x] = t
          PROVE  Open(maker[t]) \/ x \in handling
      BY <2>3, <3>3 DEF Owner
    <3>4. QED
      BY <2>4, <3>1, <3>2, <3>3 DEF TransportOpen, TransportHeld
  <2>5. QED
    BY <2>3, <2>4 DEF NothingOutlivesSession
<1>2. QED
  BY <1>1, InvHolds, PTL
-----------------------------------------------------------------------------
(* No step takes anything back but sessions and routers.                    *)
LEMMA Monotone ==
  ASSUME Inv, [Next]_vars
  PROVE  /\ resumed \subseteq resumed' /\ connected \subseteq connected'
         /\ \A x \in Media : carrier[x] # None =>
              carrier'[x] = carrier[x] /\ maker'[carrier'[x]] = maker[carrier[x]]
         /\ \A k \in ConsumerId : source[k] # None => source'[k] = source[k]
<1> DEFINE Stands ==
             /\ resumed \subseteq resumed' /\ connected \subseteq connected'
             /\ \A x \in Media : carrier[x] # None =>
                  carrier'[x] = carrier[x] /\ maker'[carrier'[x]] = maker[carrier[x]]
             /\ \A k \in ConsumerId : source[k] # None => source'[k] = source[k]
<1>1. ASSUME NEW p \in Participant, NEW t \in TransportId, CreateTransport(p, t) PROVE Stands
  <2>1. /\ maker[t] = None /\ maker' = [maker EXCEPT ![t] = p]
        /\ UNCHANGED <<resumed, connected, carrier, source>>
    BY <1>1 DEF CreateTransport
  <2>2. \A x \in Media : carrier[x] # None => carrier[x] \in TransportId /\ carrier[x] # t
    BY <2>1, Ids DEF Inv, Types, Made, Owner
  <2>3. QED
    BY <2>1, <2>2 DEF Inv, Types
<1>2. ASSUME NEW p \in Participant, NEW x \in ProducerId, CreateProducer(p, x) PROVE Stands
  <2>1. /\ carrier[x] = None /\ carrier' = [carrier EXCEPT ![x] = send[p]]
        /\ UNCHANGED <<resumed, connected, maker, source>>
    BY <1>2 DEF CreateProducer
  <2>2. QED
    BY <2>1 DEF Inv, Types
<1>3. ASSUME NEW p \in Participant, NEW k \in ConsumerId, NEW x \in ProducerId, CreateConsumer(p, k, x)
      PROVE  Stands
  <2>1. /\ carrier[k] = None /\ carrier' = [carrier EXCEPT ![k] = recv[p]]
        /\ source' = [source EXCEPT ![k] = x] /\ UNCHANGED <<resumed, connected, maker>>
    BY <1>3 DEF CreateConsumer
  <2>2. source[k] = None
    BY <2>1 DEF Inv, Sources
  <2>3. QED
    BY <2>1, <2>2 DEF Inv, Types
<1>4. ASSUME NEW s \in Session, CloseSession(s) PROVE Stands
  BY <1>4 DEF CloseSession, mediasoupVars
<1>5. ASSUME \/ \E p \in Participant, t \in TransportId : ConnectTransport(p, t)
             \/ \E p \in Participant, k \in ConsumerId : ResumeConsumer(p, k)
             \/ \E x \in handling : Release(x)
             \/ \E r \in Router : RouterDies(r)
             \/ UNCHANGED vars
      PROVE  Stands
  BY <1>5 DEF ConnectTransport, ResumeConsumer, Release, RouterDies, vars, stateVars, mediasoupVars
<1>6. QED
  BY <1>1, <1>2, <1>3, <1>4, <1>5 DEF Next

(* After any step an object of an open session whose router lives is open,  *)
(* and so is the transport it was made on.                                  *)
LEMMA OpenStays ==
  ASSUME Inv', NEW x \in Media, carrier'[x] # None, Open(Owner(x))', RouterUp(Owner(x))'
  PROVE  x \in Held' /\ TransportOpen(carrier[x])'
<1>1. maker'[carrier'[x]] \in Participant
  BY DEF Inv, Made, Owner
<1>2. x \in Keeps(maker[carrier[x]])'
  BY DEF Inv, Still, Owner
<1>3. x \in Held'
  BY <1>1, <1>2 DEF Held, Keeps
<1>4. maker'[carrier'[x]] # None /\ RouterUp(maker[carrier[x]])'
  BY <1>1, Ids DEF Owner
<1>5. TransportHeld(carrier[x])'
  BY <1>3 DEF TransportHeld
<1>6. QED
  BY <1>3, <1>4, <1>5 DEF TransportOpen

(* Only the end of a session or of a router stops media that flows.         *)
THEOREM MediaFlows == Spec => MediaUninterrupted
<1> DEFINE Kept1 == \A k \in ConsumerId : Flowing(k) /\ ~Flowing(k)' =>
                      \E x \in {k, source[k]} : ~(Open(Owner(x)) /\ RouterUp(Owner(x)))'
<1>1. Inv /\ Inv' /\ [Next]_vars => Kept1
  <2> SUFFICES ASSUME Inv, Inv', [Next]_vars, NEW k \in ConsumerId, Flowing(k),
                      \A x \in {k, source[k]} : (Open(Owner(x)) /\ RouterUp(Owner(x)))'
               PROVE  Flowing(k)'
    OBVIOUS
  <2> DEFINE y == source[k]
  <2>1. k \in resumed /\ ConsumerOpen(k) /\ carrier[k] \in connected /\ carrier[y] \in connected
    BY DEF Flowing
  <2>2. k \in Media /\ carrier[k] # None /\ y \in Media /\ carrier[y] # None /\ y # None
    <3>1. k \in Held \cap Media
      BY <2>1, Ids DEF ConsumerOpen
    <3>2. carrier[k] # None
      BY <3>1, HeldMade
    <3>3. QED
      BY <3>1, <3>2, Ids DEF Inv, Types, Sources
  <2> HIDE DEF y
  <2>3. source'[k] = y
    BY <2>2, Monotone DEF y
  <2>4. \A x \in {k, y} : carrier'[x] = carrier[x] /\ carrier'[x] # None
    BY <2>2, Monotone
  <2>5. \A x \in {k, y} : Open(Owner(x))' /\ RouterUp(Owner(x))'
    BY DEF y
  <2>6. \A x \in {k, y} : x \in Held' /\ TransportOpen(carrier[x])'
    BY <2>2, <2>4, <2>5, OpenStays
  <2>7. k \in resumed' /\ carrier'[k] \in connected' /\ carrier'[y] \in connected'
    BY <2>1, <2>4, Monotone DEF y
  <2>8. ConsumerOpen(k)'
    BY <2>3, <2>5, <2>6 DEF ConsumerOpen, ProducerOpen, Owner
  <2>9. QED
    BY <2>3, <2>6, <2>7, <2>8 DEF Flowing
<1>2. QED
  BY <1>1, InvHolds, PTL DEF Spec, MediaUninterrupted
-----------------------------------------------------------------------------
\* What the references to a producer amount to.
LiveByHome == Live = {x \in ProducerId : Home[x] \in Routed /\ (Home[x] \in sessions \/ x \in handling)}

(* A producer is referred to by its session, or by the call that made it.   *)
LEMMA LiveIs == Inv => LiveByHome
<1> SUFFICES ASSUME Inv, NEW x \in ProducerId
             PROVE  x \in Live <=> Home[x] \in Routed /\ (Home[x] \in sessions \/ x \in handling)
  BY DEF Live, LiveByHome
<1>1. CASE carrier[x] = None
  BY <1>1, NoneAssumption DEF Live, Home, Routed
<1>2. CASE carrier[x] # None
  <2>1. Owner(x) \in Participant /\ Home[x] = SessionOf[Owner(x)] /\ Home[x] \in Session
    BY <1>2, Ids, PlacementAssumption DEF Inv, Made, Home
  <2>2. Home[x] \in Routed <=> RouterUp(maker[carrier[x]])
    BY <2>1 DEF Routed, RouterUp, Owner
  <2>3. x \in Held <=> Home[x] \in sessions \/ x \in handling
    <3>1. Home[x] \in sessions => x \in Keeps(Owner(x))
      BY <1>2, <2>1, Ids DEF Inv, Still, Open
    <3>2. \A p \in Participant : x \in Keeps(p) => Home[x] \in sessions
      BY <2>1 DEF Inv, Kept, Gone, Open
    <3>3. QED
      BY <2>1, <3>1, <3>2 DEF Held, Keeps
  <2>4. QED
    BY <1>2, <2>2, <2>3 DEF Live, ProducerOpen
<1>3. QED
  BY <1>1, <1>2

(* So it is after each step.                                                *)
LEMMA LiveStays == Inv' => LiveByHome'
BY LiveIs, PTL

(* Initially there is no producer, and every session has its router.        *)
LEMMA LifetimeInit == Init => Lifetime!Init
<1> SUFFICES ASSUME Init PROVE Lifetime!Init
  OBVIOUS
<1>1. Home = [x \in ProducerId |-> None] /\ Live = {}
  BY Ids DEF Init, Home, Live
<1>2. Routed = Session
  BY DEF Init, Routed, Router
<1>3. QED
  BY <1>1, <1>2 DEF Init, Lifetime!Init

(* Steps about transports, consumers and the call's other objects.          *)
LEMMA LifetimeQuiet ==
  ASSUME Inv, Inv',
         \/ \E p \in Participant, t \in TransportId : CreateTransport(p, t) \/ ConnectTransport(p, t)
         \/ \E p \in Participant, k \in ConsumerId :
              ResumeConsumer(p, k) \/ \E x \in ProducerId : CreateConsumer(p, k, x)
         \/ \E x \in handling \ ProducerId : Release(x)
         \/ UNCHANGED vars
  PROVE  UNCHANGED Lifetime!vars
<1>1. UNCHANGED <<sessions, router_up>> /\ handling' \cap ProducerId = handling \cap ProducerId
  BY IdsAssumption
  DEF CreateTransport, ConnectTransport, ResumeConsumer, CreateConsumer, Release, vars, Media
<1>2. \A y \in ProducerId : carrier'[y] = carrier[y]
  BY IdsAssumption
  DEF CreateTransport, ConnectTransport, ResumeConsumer, CreateConsumer, Release, vars,
      mediasoupVars, Media, Inv, Types
<1>3. \A t \in TransportId : maker[t] # None => maker'[t] = maker[t]
  BY DEF CreateTransport, ConnectTransport, ResumeConsumer, CreateConsumer, Release, vars,
         mediasoupVars, Inv, Types
<1>4. \A y \in ProducerId : carrier[y] # None => maker'[carrier[y]] = maker[carrier[y]]
  <2> SUFFICES ASSUME NEW y \in ProducerId, carrier[y] # None
               PROVE  maker'[carrier[y]] = maker[carrier[y]]
    OBVIOUS
  <2>1. maker[carrier[y]] # None /\ carrier[y] \in TransportId
    BY Ids, NoneAssumption DEF Inv, Made, Types, Owner
  <2>2. QED
    BY <1>3, <2>1
<1>5. Home' = Home /\ Routed' = Routed
  BY <1>1, <1>2, <1>4 DEF Home, Routed, Owner
<1>6. Live' = Live
  <2>1. LiveByHome /\ LiveByHome'
    BY LiveIs, LiveStays
  <2>2. QED
    BY <1>1, <1>5, <2>1 DEF LiveByHome
<1>7. QED
  BY <1>1, <1>5, <1>6 DEF Lifetime!vars

(* A producer is made for the session of its participant.                   *)
LEMMA LifetimeCreates ==
  ASSUME Inv, Inv', NEW p \in Participant, NEW x \in ProducerId, CreateProducer(p, x)
  PROVE  Lifetime!Create(x, SessionOf[p])
<1>1. /\ Open(p) /\ RouterUp(p) /\ send[p] # None /\ carrier[x] = None
      /\ carrier' = [carrier EXCEPT ![x] = send[p]]
      /\ handling' = handling \cup {x}
      /\ UNCHANGED <<sessions, router_up, maker>>
  BY DEF CreateProducer
<1>2. carrier'[x] = send[p] /\ maker[send[p]] = p /\ \A y \in ProducerId \ {x} : carrier'[y] = carrier[y]
  BY <1>1, Ids DEF Inv, Types, Placed
<1>3. SessionOf[p] \in sessions /\ SessionOf[p] \in Routed
  BY <1>1, PlacementAssumption DEF Open, RouterUp, Routed
<1>4. Home[x] = None /\ Home' = [Home EXCEPT ![x] = SessionOf[p]] /\ Routed' = Routed
  <2>1. Home'[x] = SessionOf[p] /\ \A y \in ProducerId \ {x} : Home'[y] = Home[y]
    BY <1>1, <1>2, Ids, NoneAssumption DEF Home, Owner, Inv, Types
  <2>2. Home[x] = None /\ Routed' = Routed
    BY <1>1 DEF Home, Routed
  <2> DEFINE h == Home
  <2>3. h = [y \in ProducerId |-> h[y]] /\ h' = [y \in ProducerId |-> h'[y]]
    BY DEF Home
  <2>4. QED
    BY <2>1, <2>2, <2>3
<1>5. Live' = Live \cup {x}
  <2>1. LiveByHome /\ LiveByHome'
    BY LiveIs, LiveStays
  <2>2. Home'[x] = SessionOf[p] /\ \A y \in ProducerId \ {x} : Home'[y] = Home[y]
    BY <1>4 DEF Home
  <2>3. QED
    BY <1>1, <1>3, <1>4, <2>1, <2>2 DEF LiveByHome
<1>6. QED
  BY <1>1, <1>3, <1>4, <1>5 DEF Lifetime!Create

(* The steps that may close producers.                                      *)
LEMMA LifetimeCloses ==
  ASSUME Inv, Inv',
         \/ \E x \in handling \cap ProducerId : Release(x)
         \/ \E s \in Session : CloseSession(s)
         \/ \E r \in Router : RouterDies(r)
  PROVE  Lifetime!Next
<1>1. UNCHANGED <<carrier, maker>> /\ Home' = Home
  BY DEF Release, CloseSession, RouterDies, mediasoupVars, Home, Owner
<1>2. Live' = {y \in ProducerId : Home[y] \in Routed' /\ (Home[y] \in sessions' \/ y \in handling')}
  BY <1>1, LiveStays DEF LiveByHome
<1>3. Live = {y \in ProducerId : Home[y] \in Routed /\ (Home[y] \in sessions \/ y \in handling)}
  BY LiveIs DEF LiveByHome
<1>4. ASSUME NEW x \in handling \cap ProducerId, Release(x) PROVE Lifetime!LetGo(x)
  <2>1. handling' = handling \ {x} /\ UNCHANGED <<sessions, router_up>> /\ Routed' = Routed
    BY <1>4 DEF Release, Routed
  <2>2. Live' = {y \in Live : y # x \/ Home[y] \in sessions}
    BY <1>2, <1>3, <2>1
  <2>3. QED
    BY <1>1, <2>1, <2>2 DEF Lifetime!LetGo
<1>5. ASSUME NEW s \in Session, CloseSession(s) PROVE Lifetime!Close(s)
  <2>1. /\ s \in sessions /\ sessions' = sessions \ {s}
        /\ UNCHANGED <<router_up, handling>> /\ Routed' = Routed
    BY <1>5 DEF CloseSession, Routed
  <2>2. Live' = {y \in Live : Home[y] # s \/ y \in handling \cap ProducerId}
    BY <1>2, <1>3, <2>1
  <2>3. QED
    BY <1>1, <2>1, <2>2 DEF Lifetime!Close
<1>6. ASSUME NEW r \in Router, RouterDies(r) PROVE \E S \in SUBSET Session : Lifetime!Lose(S)
  <2> DEFINE S == {s \in Session : RouterOf[s] = r}
  <2>1. r \in router_up /\ router_up' = router_up \ {r} /\ UNCHANGED <<sessions, handling>>
    BY <1>6 DEF RouterDies
  <2>2. S \subseteq Routed /\ Routed' = Routed \ S
    BY <2>1 DEF Routed
  <2>3. Live' = {y \in Live : Home[y] \notin S}
    BY <1>2, <1>3, <2>1, <2>2
  <2>4. QED
    BY <1>1, <2>1, <2>2, <2>3 DEF Lifetime!Lose
<1>7. QED
  BY <1>4, <1>5, <1>6 DEF Lifetime!Next

(* Each step is one in the life of a producer, or none.                     *)
LEMMA LifetimeNext == Inv /\ Inv' /\ [Next]_vars => [Lifetime!Next]_(Lifetime!vars)
<1> SUFFICES ASSUME Inv, Inv', [Next]_vars PROVE [Lifetime!Next]_(Lifetime!vars)
  OBVIOUS
<1>1. ASSUME NEW p \in Participant, NEW x \in ProducerId, CreateProducer(p, x) PROVE Lifetime!Next
  <2>1. SessionOf[p] \in Session
    BY PlacementAssumption
  <2>2. QED
    BY <1>1, <2>1, LifetimeCreates DEF Lifetime!Next
<1>2. CASE \/ \E x \in handling \cap ProducerId : Release(x)
           \/ \E s \in Session : CloseSession(s)
           \/ \E r \in Router : RouterDies(r)
  BY <1>2, LifetimeCloses
<1>3. CASE \/ \E p \in Participant, t \in TransportId : CreateTransport(p, t) \/ ConnectTransport(p, t)
           \/ \E p \in Participant, k \in ConsumerId :
                ResumeConsumer(p, k) \/ \E x \in ProducerId : CreateConsumer(p, k, x)
           \/ \E x \in handling \ ProducerId : Release(x)
           \/ UNCHANGED vars
  BY <1>3, LifetimeQuiet
<1>4. QED
  BY <1>1, <1>2, <1>3 DEF Next

(* Producers live as long as ProducerLifetime says, whatever becomes of the *)
(* transports, for any number of sessions on any number of routers.         *)
THEOREM ImplementsLifetime == Spec => LifetimeSpec
BY InvHolds, LifetimeInit, LifetimeNext, PTL DEF Spec, LifetimeSpec, Lifetime!Spec
=============================================================================
