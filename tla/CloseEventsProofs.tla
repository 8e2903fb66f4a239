------------------------- MODULE CloseEventsProofs -------------------------
(***************************************************************************)
(* Proofs that a close is announced once at most, and not lost between the *)
(* callbacks, for any resources and any callbacks.                         *)
(***************************************************************************)
EXTENDS CloseEvents, TLAPS

\* Nobody is first while the flag is down; one callback at most is first, and
\* as long as it has not spawned the broadcast nobody has.
FirstInv ==
  \A x \in Resource :
    /\ ~is_closed[x] => spawned[x] = 0 /\ \A k \in Callback : running[x][k] # "first"
    /\ \A k \in Callback : running[x][k] = "first" =>
         spawned[x] = 0 /\ \A j \in Callback \ {k} : running[x][j] # "first"

AtMostOnce == \A x \in Resource : spawned[x] <= 1

\* What AnnouncedOnce says besides: whoever gives way can rely on the first.
NotLost ==
  \A x \in Resource :
    is_closed[x] => spawned[x] = 1 \/ \E k \in Callback : running[x][k] = "first"

Inv == TypeOK /\ FirstInv /\ AtMostOnce
-----------------------------------------------------------------------------
(* Initially no callback runs.                                              *)
LEMMA InitInv == Init => Inv
BY DEF Init, Inv, TypeOK, FirstInv, AtMostOnce

(* Each step preserves the invariant.                                       *)
LEMMA InvNext == Inv /\ [Next]_vars => Inv'
<1> SUFFICES ASSUME Inv, [Next]_vars PROVE Inv'
  OBVIOUS
<1> USE DEF Inv
<1>1. ASSUME NEW x \in Resource, NEW k \in Callback, Close(x, k) PROVE Inv'
  <2>1. TypeOK' /\ AtMostOnce'
    BY <1>1 DEF Close, TypeOK, AtMostOnce
  <2>2. FirstInv'
    BY <1>1 DEF Close, TypeOK, FirstInv
  <2>3. QED
    BY <2>1, <2>2
<1>2. ASSUME NEW x \in Resource, NEW k \in Callback, CompareExchange(x, k) PROVE Inv'
  <2>1. TypeOK' /\ AtMostOnce'
    BY <1>2 DEF CompareExchange, TypeOK, AtMostOnce
  <2>2. CASE is_closed[x]
    BY <1>2, <2>1, <2>2 DEF CompareExchange, TypeOK, FirstInv
  <2>3. CASE ~is_closed[x]
    <3>1. spawned[x] = 0 /\ \A j \in Callback : running[x][j] # "first"
      BY <2>3 DEF FirstInv
    <3>2. \A j \in Callback : running'[x][j] = "first" => j = k
      BY <1>2, <3>1 DEF CompareExchange, TypeOK
    <3>3. QED
      BY <1>2, <2>1, <3>1, <3>2 DEF CompareExchange, TypeOK, FirstInv
  <2>4. QED
    BY <2>2, <2>3
<1>3. ASSUME NEW x \in Resource, NEW k \in Callback, Announce(x, k) PROVE Inv'
  <2>1. /\ is_closed[x] /\ spawned[x] = 0
        /\ \A j \in Callback \ {k} : running[x][j] # "first"
    BY <1>3 DEF Announce, FirstInv, TypeOK
  <2>2. TypeOK' /\ AtMostOnce'
    BY <1>3, <2>1 DEF Announce, TypeOK, AtMostOnce
  <2>3. \A j \in Callback : running'[x][j] # "first"
    BY <1>3, <2>1 DEF Announce, TypeOK
  <2>4. FirstInv'
    BY <1>3, <2>1, <2>3 DEF Announce, TypeOK, FirstInv
  <2>5. QED
    BY <2>2, <2>4
<1>4. CASE UNCHANGED vars
  BY <1>4 DEF vars, TypeOK, FirstInv, AtMostOnce
<1>5. QED
  BY <1>1, <1>2, <1>3, <1>4 DEF Next

(* The flag goes up with a callback that has yet to announce, and that one  *)
(* stops being the first only by announcing.                                *)
LEMMA LostNext == Inv /\ NotLost /\ [Next]_vars => NotLost'
<1> SUFFICES ASSUME Inv, NotLost, [Next]_vars PROVE NotLost'
  OBVIOUS
<1> USE DEF Inv, TypeOK
<1>1. ASSUME NEW x \in Resource, NEW k \in Callback, Close(x, k) PROVE NotLost'
  BY <1>1 DEF Close, NotLost
<1>2. ASSUME NEW x \in Resource, NEW k \in Callback, CompareExchange(x, k) PROVE NotLost'
  <2>1. /\ running[x][k] = "called" /\ spawned' = spawned
        /\ running' = [running EXCEPT ![x][k] = IF is_closed[x] THEN "idle" ELSE "first"]
        /\ \A y \in Resource \ {x} : is_closed'[y] = is_closed[y] /\ running'[y] = running[y]
    BY <1>2 DEF CompareExchange
  <2>2. CASE is_closed[x]
    BY <2>1, <2>2 DEF NotLost
  <2>3. CASE ~is_closed[x]
    BY <2>1, <2>3 DEF NotLost
  <2>4. QED
    BY <2>2, <2>3
<1>3. ASSUME NEW x \in Resource, NEW k \in Callback, Announce(x, k) PROVE NotLost'
  <2>1. spawned[x] = 0
    BY <1>3 DEF Announce, FirstInv
  <2>2. /\ spawned'[x] = 1 /\ is_closed' = is_closed
        /\ \A y \in Resource \ {x} : spawned'[y] = spawned[y] /\ running'[y] = running[y]
    BY <1>3, <2>1 DEF Announce
  <2>3. QED
    BY <2>2 DEF NotLost
<1>4. CASE UNCHANGED vars
  BY <1>4 DEF vars, NotLost
<1>5. QED
  BY <1>1, <1>2, <1>3, <1>4 DEF Next

(* The close of a resource is announced by one of its callbacks and by no   *)
(* other, whatever their number and the order of their steps.               *)
THEOREM ClosesAnnouncedOnce == Spec => []AnnouncedOnce
<1>1. Init => NotLost
  BY DEF Init, NotLost
<1>2. Inv /\ NotLost => AnnouncedOnce
  BY DEF Inv, AtMostOnce, NotLost, AnnouncedOnce
<1>3. QED
  BY <1>1, <1>2, InitInv, InvNext, LostNext, PTL DEF Spec
=============================================================================
